----------------------------- MODULE PollCycle -----------------------------
(***************************************************************************)
(* What the polling core promises, with the semaphore, the serial line and *)
(* the network left out: the trouble window and the alarm window are open  *)
(* strictly in turn, and the reported status changes only when one closes. *)
(* Task 4 of src/src/main.cpp gives the order, SerialEvent the status.     *)
(***************************************************************************)
EXTENDS Naturals

VARIABLES phase, status

vars == <<phase, status>>

Init == phase = "quiet" /\ status = "NORMAL"

OpenTroubles ==
    /\ phase = "quiet"
    /\ phase' = "troubles"
    /\ UNCHANGED status

\* Troubles found are shown until the alarms are known.
CloseTroubles ==
    /\ phase = "troubles"
    /\ phase' = "between"
    /\ status' \in {status, "FAILURE"}

OpenAlarms ==
    /\ phase = "between"
    /\ phase' = "alarms"
    /\ UNCHANGED status

\* The verdict of the cycle: both lists, the alarms alone, or nothing.
CloseAlarms ==
    /\ phase = "alarms"
    /\ phase' = "quiet"
    /\ status' \in {"NORMAL", IF status = "FAILURE" THEN "BOTH" ELSE "ALARM"}

Reset == phase' = "quiet" /\ status' = "NORMAL"

Next == OpenTroubles \/ CloseTroubles \/ OpenAlarms \/ CloseAlarms \/ Reset

Spec == Init /\ [][Next]_vars

=============================================================================
