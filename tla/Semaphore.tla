----------------------------- MODULE Semaphore -----------------------------
(***************************************************************************)
(* What a semaphore promises, and what the other modules take taskSema,    *)
(* valSema, NorSema and OLEDMutex for: each success of wait() uses up one  *)
(* unit that was there at the start or that a post() has added.            *)
(***************************************************************************)
EXTENDS Naturals

CONSTANT Tasks

VARIABLES
    available,      \* units that nobody has taken
    holding         \* tasks whose wait() has returned and who have not moved on

absVars == <<available, holding>>

Init == available \in {0, 1} /\ holding = {}

Acquire(t) ==
    /\ available > 0 /\ t \notin holding
    /\ available' = available - 1
    /\ holding' = holding \cup {t}

\* t gives its unit back, as the holder of a mutex does.
GiveBack(t) ==
    /\ t \in holding
    /\ available' = available + 1
    /\ holding' = holding \ {t}

\* t has used its unit up, as the receiver of a signal does.
UseUp(t) ==
    /\ t \in holding
    /\ available' = available
    /\ holding' = holding \ {t}

Post ==
    /\ available' = available + 1
    /\ holding' = holding

Next == (\E t \in Tasks : Acquire(t) \/ GiveBack(t) \/ UseUp(t)) \/ Post

Spec == Init /\ [][Next]_absVars

=============================================================================
