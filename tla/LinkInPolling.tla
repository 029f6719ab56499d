--------------------------- MODULE LinkInPolling ---------------------------
(***************************************************************************)
(* FirebaseLink seen from SerialPolling.  SerialPolling takes an upload, a *)
(* repair and a validation for one step each; here they are the requests   *)
(* of FirebaseLink, with task 1 and loop() taking turns between them, and  *)
(* what they do to the variables both modules have is what SerialPolling   *)
(* says.  The variables of the polling itself stand still.                 *)
(***************************************************************************)
EXTENDS FirebaseLink, Sequences

\* The stage of loop() as SerialPolling names it.
Stage == CASE lp \in {"delete", "write"} -> "upload"
           [] lp \in {"fix", "recheck"} -> "fix"
           [] OTHER -> "serial"

\* The buffer, which an upload empties when it returns.
Buffer == IF Stage = "upload" THEN [i \in 1..loops |-> "T"] ELSE << >>

Polling == INSTANCE SerialPolling WITH
    MAXMSGLENGTH <- 1, RXSIZE <- 0, MAXTROUBLES <- 0, MAXALARMS <- 0,
    lp <- Stage, Matriz <- Buffer,
    pc4 <- "top", taskSema <- 1, elapsed <- FALSE,
    Serial_F_Event <- FALSE, Serial_A_Event <- FALSE,
    inputString <- 0, msg <- FALSE, CAII <- "NORMAL",
    wifi_down <- FALSE, pc3 <- "wait", NorSema <- 1,
    rx <- << >>, troubles <- 0, alarms <- 0

\* SerialEvent starts the upload of a buffer (CloseAlarms in SerialPolling).
UploadStarts ==
    /\ Stage = "serial" /\ Stage' = "upload"
    /\ UNCHANGED <<WiFi_Con, taskToken, N_uploads>>

\* Short of a reset, every step of an upload, a repair or a validation, however task 1
\* and loop() take turns between two requests, is one step of SerialPolling or none:
\* no upload ends with WiFi_Con set that a validation has cleared meanwhile, no repair
\* clears it, and N_uploads only changes when an upload returns.
RefinesPolling ==
    [][\/ boot' # boot
       \/ UploadStarts
       \/ Polling!Upload \/ Polling!Repair \/ Polling!SerialIdle
       \/ \E ok \in BOOLEAN : Polling!Validate(ok)]_(Polling!vars)

=============================================================================
