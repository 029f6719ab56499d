--------------------------- MODULE PollingHistory ---------------------------
(***************************************************************************)
(* SerialPolling with a history of what arrived: the lists whose messages  *)
(* came to an end in the trouble window and in the alarm window of the     *)
(* current cycle, whether or not SerialEvent had room to store them.       *)
(***************************************************************************)
EXTENDS SerialPolling

VARIABLES
    heardT,     \* lists heard in the trouble window
    heardA      \* lists heard in the alarm window

histVars == <<vars, heardT, heardA>>

\* The list of the message that this step of SerialEvent ends, if any.
HeardNow == IF lp = "serial" /\ rx # << >> /\ rx' = Tail(rx) /\ Ends(Head(rx))
            THEN {Head(rx).of} ELSE {}

CycleStarts == Serial_F_Event' /\ ~Serial_F_Event

HistInit == Init /\ heardT = {} /\ heardA = {}

HistNext ==
    /\ Next
    /\ heardT' = IF CycleStarts THEN {}
                 ELSE IF Serial_F_Event THEN heardT \cup HeardNow ELSE heardT
    /\ heardA' = IF CycleStarts THEN {}
                 ELSE IF Serial_A_Event THEN heardA \cup HeardNow ELSE heardA

HistSpec == HistInit /\ [][HistNext]_histVars

\* The verdict follows from what the two windows of this very cycle received:
\* BOTH needs a message in each, ALARM one in the alarm window, and NORMAL that
\* the alarm window brought none, or found the buffer full.
VerdictSound ==
    [][CloseAlarms =>
        /\ CAII' = "BOTH" => heardT # {} /\ heardA' # {}
        /\ CAII' = "ALARM" => heardA' # {}
        /\ CAII' = "NORMAL" => heardA' = {} \/ ~HasRoom]_histVars

\* The buffer that is reported with an alarm ends with a message of this very alarm
\* window: an alarm never travels without what raised it, a full buffer or the
\* leftovers of earlier cycles notwithstanding.
AlarmCarried ==
    [][CloseAlarms /\ CAII' # "NORMAL" =>
        Matriz' # << >> /\ Matriz'[Len(Matriz')] \in heardA']_histVars

\* What is heard in the alarm window is reported at once, whichever verdict it leads
\* to, but for one case: the radio is off and the buffer was full of earlier messages.
UnreportedOnlyWhenFull ==
    [][CloseAlarms /\ heardA' # {} =>
        lp' \in {"wake", "upload"} \/ (wifi_down /\ ~HasRoom)]_histVars

\* "once the Fire Alarms are received, the system proceeds to generate the
\* corresponding JSON and upload them to Firebase" (main.cpp:270).
AlarmsUploaded ==
    [][CloseAlarms /\ "F" \in heardA' => lp' \in {"wake", "upload"}]_histVars

=============================================================================
