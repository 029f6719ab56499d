------------------------ MODULE CoopSemaphore_proofs ------------------------
(***************************************************************************)
(* The semaphore of the CoopTask library keeps its promise for any number  *)
(* of tasks and any capacity of its queue: each wait() that returns uses   *)
(* up one unit (Implements), and a mutex has one holder (OneHolder).  The  *)
(* difficulty is that _wait takes a unit out before it knows whose turn it *)
(* is; WaitInv says that it cannot succeed without having taken one.  Then *)
(* that a task that is awake is in the scheduler (AwakeInScheduler) and     *)
(* one that sleeps in the queue (SleepersAreQueued).                       *)
(***************************************************************************)
EXTENDS CoopSemaphore, TLAPS

\* Who runs is inside _wait as long as _wait's steps say so, and hands out at most the
\* units it saw.
WaitInv ==
    /\ step # "user" => running \in Tasks /\ place[running] = "waiting"
    /\ step \in {"enqueue", "iterate", "leave"} => val <= valOnEntry
    /\ step \in {"iterate", "leave"} /\ selfSuccess => valOnEntry > 0

\* The entry of AwakeScheduled is also the one that a yield may drop.
Inv == TypeOK /\ WaitInv /\ AwakeScheduled

-----------------------------------------------------------------------------
(* Types.                                                                    *)

LEMMA InitInv == Init => Inv
<1> SUFFICES ASSUME Init PROVE Inv
  OBVIOUS
<1>1. TypeOK
  <2>1. value \in Nat /\ use \in Uses
    BY DEF Init
  <2>2. pendingTasks \in Seq(Tasks) /\ Len(pendingTasks) = 0
    BY DEF Init
  <2>3. Len(pendingTasks) <= maxPending
    BY <2>2, SemaphoreAssumption DEF maxPending
  <2>4. fwd \in BOOLEAN /\ selfFirst \in BOOLEAN /\ selfSuccess \in BOOLEAN
        /\ missed \in BOOLEAN
    BY DEF Init
  <2> QED BY <2>1, <2>2, <2>3, <2>4 DEF Init, TypeOK
<1>2. WaitInv
  BY DEF Init, WaitInv
<1>3. AwakeScheduled
  BY DEF Init, AwakeScheduled
<1> QED BY <1>1, <1>2, <1>3 DEF Inv

(* Waking a task leaves the scheduler with no fewer entries.                 *)
LEMMA ScheduleTypes ==
    ASSUME TypeOK, NEW t \in Tasks, Schedule(t)
    PROVE  /\ sleeps' \in [Tasks -> BOOLEAN] /\ entries' \in [Tasks -> Nat]
           /\ \A u \in Tasks : entries'[u] >= entries[u]
  BY DEF Schedule, TypeOK

LEMMA PostTypes ==
    ASSUME TypeOK, PostEffect
    PROVE  /\ value' \in Nat /\ pendingTask0' = NoTask
           /\ sleeps' \in [Tasks -> BOOLEAN] /\ entries' \in [Tasks -> Nat]
           /\ \A u \in Tasks : entries'[u] >= entries[u]
           /\ missed' \in BOOLEAN
<1>1. value' \in Nat /\ pendingTask0' = NoTask
  BY DEF PostEffect, TypeOK
<1>2. missed' \in BOOLEAN
  BY DEF PostEffect, TypeOK
<1>3. CASE pendingTask0 # NoTask
  BY <1>1, <1>2, <1>3, ScheduleTypes DEF PostEffect, TypeOK
<1>4. CASE pendingTask0 = NoTask
  <2>1. UNCHANGED sched
    BY <1>4 DEF PostEffect
  <2> QED BY <1>1, <1>2, <2>1 DEF sched, TypeOK
<1> QED BY <1>3, <1>4

LEMMA ShiftTypes ==
    ASSUME TypeOK, Shift
    PROVE  /\ pendingTask0' \in Tasks \cup {NoTask}
           /\ pendingTasks' \in Seq(Tasks)
           /\ Len(pendingTasks') <= Len(pendingTasks)
<1>1. CASE MovesUp
  <2>1. pendingTasks # << >>
    BY <1>1 DEF MovesUp, Stop
  <2>2. /\ Head(pendingTasks) \in Tasks /\ Tail(pendingTasks) \in Seq(Tasks)
        /\ Len(Tail(pendingTasks)) = Len(pendingTasks) - 1
    BY <2>1 DEF TypeOK
  <2> QED BY <1>1, <2>2 DEF Shift, TypeOK
<1>2. CASE ~MovesUp
  BY <1>2 DEF Shift, TypeOK
<1> QED BY <1>1, <1>2

LEMMA AdvanceTypes ==
    ASSUME TypeOK, val > 0, Advance
    PROVE  /\ val' \in Nat /\ val' <= val /\ fwd' \in BOOLEAN
           /\ step' \in {"leave", "iterate"}
<1>1. val' \in Nat /\ val' <= val
  BY DEF Advance, TypeOK
<1>2. fwd' = IF Stop THEN fwd ELSE val > 1
  BY Zenon DEF Advance
<1>3. (val > 1) \in BOOLEAN /\ fwd \in BOOLEAN
  BY DEF TypeOK
<1>4. fwd' \in BOOLEAN
  BY <1>2, <1>3, Zenon
<1>5. step' \in {"leave", "iterate"}
  BY DEF Advance
<1> QED BY <1>1, <1>4, <1>5

(* A yield drops at most the entry that ran the task.                        *)
LEMMA YieldTypes ==
    ASSUME TypeOK, running \in Tasks, entries[running] > 0, Yielded
    PROVE  /\ entries' \in [Tasks -> Nat]
           /\ \A t \in Tasks : t # running \/ ~sleeps[t] => entries'[t] = entries[t]
<1>1. CASE DropsAsleep
  BY <1>1 DEF DropsAsleep, TypeOK
<1>2. CASE LoopReturns
  BY <1>2 DEF LoopReturns, TypeOK
<1> QED BY <1>1, <1>2 DEF Yielded

(* Every step of a task inside _wait, and every other one, keeps the types.  *)
LEMMA NextTypes == Inv /\ [Next]_vars => TypeOK' /\ WaitInv'
<1> SUFFICES ASSUME Inv, [Next]_vars PROVE TypeOK' /\ WaitInv'
  OBVIOUS
<1> USE DEF Inv
<1>a. maxPending \in Nat /\ NoTask \notin Tasks
  BY SemaphoreAssumption DEF maxPending
<1> USE <1>a
<1>1. ASSUME NEW t \in Tasks, Dispatch(t) PROVE TypeOK' /\ WaitInv'
  BY <1>1 DEF Dispatch, TypeOK, WaitInv, sema, sched, maxPending
<1>2. ASSUME NEW t \in Tasks, DropEntry(t) PROVE TypeOK' /\ WaitInv'
  BY <1>2 DEF DropEntry, TypeOK, WaitInv, sema, locals, maxPending
<1>3. CASE Wait
  BY <1>3 DEF Wait, TypeOK, WaitInv, sema, sched, locals, maxPending
<1>4. CASE Take
  BY <1>4 DEF Take, TypeOK, WaitInv, sched, maxPending
<1>5. CASE Enqueue
  <2>1. selfFirst' \in BOOLEAN /\ fwd' \in BOOLEAN /\ selfSuccess' = FALSE
    <3>1. /\ selfFirst' = (selfFirst \/ (Joins /\ ~HasPlace))
          /\ fwd' = (~selfFirst' /\ val > 0) /\ selfSuccess' = FALSE
      BY <1>5, Zenon DEF Enqueue
    <3> QED BY <3>1, Zenon
  <2>2. /\ running \in Tasks /\ place[running] = "waiting" /\ step = "enqueue"
        /\ step' = "iterate"
    BY <1>5 DEF Enqueue, TypeOK, WaitInv
  <2>3. /\ pendingTasks' \in Seq(Tasks) /\ Len(pendingTasks') <= maxPending
        /\ sleeps' \in [Tasks -> BOOLEAN]
    <3>1. CASE Joins /\ HasPlace
      BY <1>5, <2>2, <3>1 DEF Enqueue, HasPlace, TypeOK
    <3>2. CASE ~(Joins /\ HasPlace)
      BY <1>5, <3>2 DEF Enqueue, TypeOK
    <3> QED BY <3>1, <3>2
  <2>4. UNCHANGED <<use, value, pendingTask0, place, entries, running, val,
                    valOnEntry, missed>>
    BY <1>5 DEF Enqueue
  <2>5. TypeOK'
    BY <2>1, <2>2, <2>3, <2>4 DEF TypeOK, maxPending
  <2>6. WaitInv'
    BY <2>1, <2>2, <2>4 DEF WaitInv
  <2> QED BY <2>5, <2>6
<1>6. CASE NoUnits
  BY <1>6, ShiftTypes DEF NoUnits, TypeOK, WaitInv, sched, locals, maxPending
<1>7. CASE GoOn
  BY <1>7, ShiftTypes DEF GoOn, TypeOK, WaitInv, sched, locals, maxPending
<1>8. CASE SelfFirst
  <2>1. /\ running \in Tasks /\ place[running] = "waiting" /\ valOnEntry > 0
        /\ val \in Nat /\ val > 0
    BY <1>8 DEF SelfFirst, TypeOK, WaitInv
  <2>2. sleeps' \in [Tasks -> BOOLEAN] /\ selfFirst' = FALSE /\ selfSuccess' = TRUE
    BY <1>8 DEF SelfFirst, TypeOK
  <2>3. UNCHANGED <<use, value, place, entries, running, valOnEntry, missed>>
    BY <1>8 DEF SelfFirst
  <2>4. Shift /\ Advance
    BY <1>8 DEF SelfFirst
  <2>a. /\ val' \in Nat /\ fwd' \in BOOLEAN /\ step' \in {"leave", "iterate"}
        /\ pendingTask0' \in Tasks \cup {NoTask}
        /\ pendingTasks' \in Seq(Tasks) /\ Len(pendingTasks') <= Len(pendingTasks)
    BY <2>1, <2>4, ShiftTypes, AdvanceTypes
  <2>b. Len(pendingTasks') <= maxPending'
    BY <2>3, <2>a DEF TypeOK, maxPending
  <2>5. TypeOK'
    BY <2>2, <2>3, <2>a, <2>b DEF TypeOK
  <2>6. WaitInv'
    BY <1>8, <2>1, <2>2, <2>3, <2>4, AdvanceTypes DEF SelfFirst, WaitInv, TypeOK
  <2> QED BY <2>5, <2>6
<1>9. CASE OwnTurn
  <2>1. running \in Tasks /\ Shift /\ Returned
    BY <1>9 DEF OwnTurn, WaitInv
  <2>2. sleeps' \in [Tasks -> BOOLEAN] /\ step' = "user"
    BY <1>9 DEF OwnTurn, TypeOK
  <2>3. place' \in [Tasks -> {"outside", "waiting", "inside"}]
    BY <1>9 DEF OwnTurn, TypeOK
  <2>4. UNCHANGED <<use, value, entries, running, missed>>
    BY <1>9 DEF OwnTurn
  <2>a. /\ pendingTask0' \in Tasks \cup {NoTask}
        /\ pendingTasks' \in Seq(Tasks) /\ Len(pendingTasks') <= Len(pendingTasks)
    BY <2>1, ShiftTypes
  <2>b. Len(pendingTasks') <= maxPending'
    BY <2>4, <2>a DEF TypeOK, maxPending
  <2>5. TypeOK'
    BY <2>1, <2>2, <2>3, <2>4, <2>a, <2>b DEF TypeOK, Returned
  <2>6. WaitInv'
    BY <2>1, <2>2, <2>4 DEF WaitInv
  <2> QED BY <2>5, <2>6
<1>10. CASE WakeOther
  BY <1>10, ShiftTypes, AdvanceTypes, ScheduleTypes
  DEF WakeOther, TypeOK, WaitInv, maxPending
<1>11. CASE LastOne
  BY <1>11, ShiftTypes, AdvanceTypes
  DEF LastOne, TypeOK, WaitInv, sched, maxPending
<1>12. CASE Succeed
  BY <1>12 DEF Succeed, TypeOK, WaitInv, sema, sched, Returned, maxPending
<1>13. CASE GiveUp
  <2>1. Yielded /\ Returned /\ value' = GivenBack
        /\ UNCHANGED <<use, pendingTask0, pendingTasks, place, missed>>
    BY <1>13 DEF GiveUp
  <2>2. value' \in Nat
    BY <2>1 DEF GivenBack, TypeOK
  <2>3. running \in Tasks /\ entries[running] > 0
    BY <1>13 DEF GiveUp, WaitInv, AwakeScheduled
  <2>4. entries' \in [Tasks -> Nat]
    BY <2>1, <2>3, YieldTypes DEF TypeOK
  <2>5. TypeOK'
    BY <2>1, <2>2, <2>4 DEF TypeOK, Yielded, Returned, maxPending
  <2>6. WaitInv'
    BY <2>1 DEF WaitInv, Yielded
  <2> QED BY <2>5, <2>6
<1>14. CASE GiveBack
  BY <1>14, PostTypes DEF GiveBack, TypeOK, WaitInv, locals, maxPending
<1>15. CASE UseUp
  BY <1>15 DEF UseUp, TypeOK, WaitInv, sema, sched, locals, maxPending
<1>16. CASE Yield
  <2>1. Yielded /\ running \in Tasks
        /\ UNCHANGED <<use, sema, place, locals, missed>>
    BY <1>16 DEF Yield, TypeOK
  <2>2. entries' \in [Tasks -> Nat]
    BY <2>1, YieldTypes DEF AwakeScheduled
  <2>3. sleeps' = sleeps /\ running' = NoTask /\ step' = "user"
    BY <2>1 DEF Yielded
  <2> QED BY <2>1, <2>2, <2>3 DEF TypeOK, WaitInv, sema, locals, maxPending
<1>17. CASE LoopPost
  BY <1>17, PostTypes DEF LoopPost, TypeOK, WaitInv, locals, maxPending
<1>18. CASE InterruptPost
  BY <1>18, PostTypes DEF InterruptPost, TypeOK, WaitInv, locals, maxPending
<1>19. CASE UNCHANGED vars
  BY <1>19 DEF vars, TypeOK, WaitInv, sema, sched, locals, maxPending
<1> QED BY <1>1, <1>2, <1>3, <1>4, <1>5, <1>6, <1>7, <1>8, <1>9, <1>10, <1>11,
           <1>12, <1>13, <1>14, <1>15, <1>16, <1>17, <1>18, <1>19
        DEF Next, InWait

(* Waking a task that sleeps gives it an entry.                              *)
LEMMA ScheduleScheduled ==
    ASSUME TypeOK, AwakeScheduled, running' = running, NEW t \in Tasks, Schedule(t)
    PROVE  AwakeScheduled'
<1>1. ASSUME NEW u \in Tasks, ~sleeps'[u] \/ u = running PROVE entries'[u] > 0
  <2>1. CASE u # t
    BY <1>1, <2>1 DEF Schedule, TypeOK, AwakeScheduled
  <2>2. CASE u = t
    <3>1. entries[u] \in Nat
      BY DEF TypeOK
    <3>2. entries'[u] = IF sleeps[u] THEN entries[u] + 1 ELSE entries[u]
      BY <2>2 DEF Schedule, TypeOK
    <3> QED BY <3>1, <3>2 DEF AwakeScheduled
  <2> QED BY <2>1, <2>2
<1> QED BY <1>1 DEF AwakeScheduled

LEMMA PostScheduled ==
    ASSUME TypeOK, AwakeScheduled, running' = running, PostEffect
    PROVE  AwakeScheduled'
<1>1. CASE pendingTask0 # NoTask
  <2>1. pendingTask0 \in Tasks /\ Schedule(pendingTask0)
    BY <1>1 DEF PostEffect, TypeOK
  <2> QED BY <2>1, ScheduleScheduled
<1>2. CASE pendingTask0 = NoTask
  <2>1. UNCHANGED <<sleeps, entries>>
    BY <1>2 DEF PostEffect, sched
  <2> QED BY <2>1 DEF AwakeScheduled
<1> QED BY <1>1, <1>2

(* A task that yields awake keeps its entries, whoever ran it.               *)
LEMMA YieldScheduled ==
    ASSUME TypeOK, AwakeScheduled, running \in Tasks, Yielded
    PROVE  AwakeScheduled'
<1>1. NoTask \notin Tasks /\ running' = NoTask /\ sleeps' = sleeps
  BY SemaphoreAssumption DEF Yielded
<1>2. \A t \in Tasks : t # running \/ ~sleeps[t] => entries'[t] = entries[t]
  BY YieldTypes DEF AwakeScheduled
<1> QED BY <1>1, <1>2 DEF AwakeScheduled

LEMMA NextScheduled == Inv /\ [Next]_vars => AwakeScheduled'
<1> SUFFICES ASSUME Inv, [Next]_vars PROVE AwakeScheduled'
  OBVIOUS
<1> USE DEF Inv
<1>a. NoTask \notin Tasks
  BY SemaphoreAssumption
<1>1. ASSUME NEW t \in Tasks, Dispatch(t) PROVE AwakeScheduled'
  BY <1>1 DEF Dispatch, AwakeScheduled, sched
<1>2. ASSUME NEW t \in Tasks, DropEntry(t) PROVE AwakeScheduled'
  <2>1. /\ sleeps[t] /\ t # running /\ UNCHANGED <<sleeps, running>>
        /\ entries' = [entries EXCEPT ![t] = @ - 1]
    BY <1>a, <1>2 DEF DropEntry
  <2> QED BY <2>1 DEF AwakeScheduled, TypeOK
<1>3. CASE Wait \/ Take \/ NoUnits \/ GoOn \/ LastOne \/ Succeed \/ UseUp
  BY <1>3 DEF Wait, Take, NoUnits, GoOn, LastOne, Succeed, UseUp, sched, AwakeScheduled
<1>4. CASE Enqueue
  <2>1. running \in Tasks /\ UNCHANGED <<entries, running>>
    BY <1>4 DEF Enqueue, WaitInv
  <2>2. \A t \in Tasks : t # running => sleeps'[t] = sleeps[t]
    BY <1>4 DEF Enqueue, TypeOK
  <2> QED BY <2>1, <2>2 DEF AwakeScheduled
<1>5. CASE SelfFirst \/ OwnTurn
  <2>1. /\ running \in Tasks /\ sleeps' = [sleeps EXCEPT ![running] = FALSE]
        /\ UNCHANGED <<entries, running>>
    BY <1>5 DEF SelfFirst, OwnTurn, WaitInv
  <2> QED BY <2>1 DEF AwakeScheduled, TypeOK
<1>6. CASE WakeOther
  <2>1. pendingTask0 \in Tasks /\ Schedule(pendingTask0) /\ running' = running
    BY <1>6 DEF WakeOther, TypeOK
  <2> QED BY <2>1, ScheduleScheduled
<1>7. CASE GiveUp \/ Yield
  <2>1. Yielded /\ running \in Tasks
    BY <1>7 DEF GiveUp, Yield, TypeOK, WaitInv
  <2> QED BY <2>1, YieldScheduled
<1>8. CASE GiveBack \/ LoopPost \/ InterruptPost
  BY <1>8, PostScheduled DEF GiveBack, LoopPost, InterruptPost
<1>9. CASE UNCHANGED vars
  BY <1>9 DEF vars, sched, AwakeScheduled
<1> QED BY <1>1, <1>2, <1>3, <1>4, <1>5, <1>6, <1>7, <1>8, <1>9 DEF Next, InWait

LEMMA NextInv == Inv /\ [Next]_vars => Inv'
BY NextTypes, NextScheduled DEF Inv

\* The variables of the semaphore, its tasks and their scheduling keep their types;
\* the queue stays within its capacity, whatever that is.
THEOREM SemaphoreTypes == Spec => []TypeOK
<1> QED BY InitInv, NextInv, PTL DEF Spec, Inv

-----------------------------------------------------------------------------
(* The refinement.                                                           *)

\* Units and holders stay as they are.
LEMMA Stutters ==
    ASSUME UNCHANGED <<value, place>>, InFlight' = InFlight
    PROVE  UNCHANGED <<Available, Holding>>
  BY DEF Available, Holding

LEMMA InFlightBoolean == InFlight \in BOOLEAN /\ InFlight' \in BOOLEAN
  BY DEF InFlight

\* A step of _wait between taking the unit and its end moves no unit.
LEMMA InnerStutters ==
    ASSUME UNCHANGED <<value, place, valOnEntry>>,
           step \in {"enqueue", "iterate", "leave"},
           step' \in {"enqueue", "iterate", "leave"}
    PROVE  UNCHANGED <<Available, Holding>>
<1>1. InFlight' = InFlight
  BY DEF InFlight
<1> QED BY <1>1, Stutters

\* A step outside of that part of _wait moves none either.
LEMMA OuterStutters ==
    ASSUME UNCHANGED <<value, place>>,
           step \in {"user", "take"}, step' \in {"user", "take"}
    PROVE  UNCHANGED <<Available, Holding>>
<1>1. ~InFlight /\ ~InFlight'
  BY DEF InFlight
<1> QED BY <1>1, InFlightBoolean, Stutters

\* Only a task that has taken a unit returns from wait().
LEMMA ReturnAcquires ==
    ASSUME TypeOK, InFlight, running \in Tasks, place[running] = "waiting",
           place' = [place EXCEPT ![running] = "inside"],
           value' = value, step' = "user"
    PROVE  Abstract!Acquire(running)
<1>1. Available = value + 1 /\ value \in Nat
  BY DEF Available, TypeOK
<1>2. ~InFlight'
  BY DEF InFlight
<1>3. Available' = value
  BY <1>1, <1>2 DEF Available
<1>4. running \notin Holding
  BY DEF Holding
<1>5. Holding' = Holding \cup {running}
  BY DEF Holding, TypeOK
<1> QED BY <1>1, <1>3, <1>4, <1>5 DEF Abstract!Acquire

\* post() adds a unit wherever it comes from.
LEMMA PostAdds ==
    ASSUME TypeOK, PostEffect, UNCHANGED <<step, valOnEntry>>
    PROVE  Available' = Available + 1
<1>1. InFlight' = InFlight
  BY DEF InFlight
<1>2. value' = value + 1
  BY DEF PostEffect
<1> QED BY <1>1, <1>2 DEF Available, TypeOK

\* A task that leaves takes itself out of the holders.
LEMMA LeavesHolding ==
    ASSUME TypeOK, running \in Tasks, place[running] = "inside",
           place' = [place EXCEPT ![running] = "outside"]
    PROVE  running \in Holding /\ Holding' = Holding \ {running}
  BY DEF Holding, TypeOK

\* Every step is one of the abstract semaphore or moves no unit; a mutex is never
\* posted by anyone but its holder.
AbstractStep ==
    \/ \E t \in Tasks : Abstract!Acquire(t) \/ Abstract!GiveBack(t)
    \/ use # "mutex" /\ (Abstract!Post \/ \E t \in Tasks : Abstract!UseUp(t))
    \/ UNCHANGED <<Available, Holding>>

LEMMA StepIsAbstract == Inv /\ [Next]_vars => AbstractStep
<1> SUFFICES ASSUME Inv, [Next]_vars PROVE AbstractStep
  OBVIOUS
<1> USE DEF Inv
<1>a. NoTask \notin Tasks
  BY SemaphoreAssumption
<1>1. ASSUME NEW t \in Tasks, Dispatch(t) PROVE AbstractStep
  <2>1. step \in {"user", "take"} /\ step' \in {"user", "take"}
    BY <1>1, <1>a DEF Dispatch, WaitInv
  <2> QED BY <1>1, <2>1, OuterStutters DEF Dispatch, AbstractStep, sema
<1>2. ASSUME NEW t \in Tasks, DropEntry(t) PROVE AbstractStep
  <2>1. step = "user" /\ step' = "user"
    BY <1>2, <1>a DEF DropEntry, WaitInv
  <2> QED BY <1>2, <2>1, OuterStutters DEF DropEntry, AbstractStep, sema
<1>3. CASE Wait
  <2>1. value' = value /\ step = "user" /\ step' = "take"
    BY <1>3 DEF Wait, sema
  <2>2. ~InFlight /\ ~InFlight'
    BY <2>1 DEF InFlight
  <2>3. Available' = Available
    BY <2>1, <2>2 DEF Available
  <2>4. Holding' = Holding
    BY <1>3 DEF Wait, Holding, TypeOK
  <2> QED BY <2>3, <2>4 DEF AbstractStep
<1>4. CASE Take
  <2>1. /\ value \in Nat /\ place' = place
        /\ value' = (IF value > 0 THEN value - 1 ELSE 0)
    BY <1>4 DEF Take, TypeOK
  <2>2. ~InFlight /\ (InFlight' <=> value > 0)
    BY <1>4 DEF Take, InFlight
  <2>3. Available' = Available
    BY <2>1, <2>2 DEF Available
  <2> QED BY <2>1, <2>3 DEF AbstractStep, Holding
<1>5. CASE Enqueue
  BY <1>5, InnerStutters DEF Enqueue, AbstractStep
<1>6. CASE NoUnits
  BY <1>6, InnerStutters DEF NoUnits, AbstractStep, locals
<1>7. CASE GoOn
  BY <1>7, InnerStutters DEF GoOn, AbstractStep, locals
<1>8. CASE SelfFirst
  BY <1>8, AdvanceTypes, InnerStutters DEF SelfFirst, AbstractStep
<1>9. CASE OwnTurn
  <2>1. InFlight /\ running \in Tasks /\ place[running] = "waiting"
    BY <1>9 DEF OwnTurn, InFlight, TypeOK, WaitInv
  <2>2. Abstract!Acquire(running)
    BY <1>9, <2>1, ReturnAcquires DEF OwnTurn
  <2> QED BY <2>1, <2>2 DEF AbstractStep
<1>10. CASE WakeOther
  BY <1>10, AdvanceTypes, InnerStutters DEF WakeOther, AbstractStep
<1>11. CASE LastOne
  BY <1>11, AdvanceTypes, InnerStutters DEF LastOne, AbstractStep
<1>12. CASE Succeed
  <2>1. InFlight /\ running \in Tasks /\ place[running] = "waiting"
    BY <1>12 DEF Succeed, InFlight, TypeOK, WaitInv
  <2>2. Abstract!Acquire(running)
    BY <1>12, <2>1, ReturnAcquires DEF Succeed, sema
  <2> QED BY <2>1, <2>2 DEF AbstractStep
<1>13. CASE GiveUp
  <2>1. /\ place' = place /\ value' = GivenBack
        /\ step = "leave" /\ step' = "user"
    BY <1>13 DEF GiveUp, Yielded
  <2>2. (InFlight <=> valOnEntry > 0) /\ ~InFlight'
    BY <2>1 DEF InFlight
  <2>3. Available' = Available
    BY <2>1, <2>2 DEF Available, GivenBack, TypeOK
  <2> QED BY <2>1, <2>3 DEF AbstractStep, Holding
<1>14. CASE GiveBack
  <2>1. PostEffect /\ UNCHANGED <<step, valOnEntry>>
    BY <1>14 DEF GiveBack, locals
  <2>2. running \in Tasks
    BY <1>14 DEF GiveBack, TypeOK
  <2>3. running \in Holding /\ Holding' = Holding \ {running}
    BY <1>14, <2>2, LeavesHolding DEF GiveBack
  <2>4. Abstract!GiveBack(running)
    BY <2>1, <2>3, PostAdds DEF Abstract!GiveBack
  <2> QED BY <2>2, <2>4 DEF AbstractStep
<1>15. CASE UseUp
  <2>1. running \in Tasks /\ use # "mutex"
    BY <1>15 DEF UseUp, TypeOK
  <2>2. running \in Holding /\ Holding' = Holding \ {running}
    BY <1>15, <2>1, LeavesHolding DEF UseUp
  <2>3. UNCHANGED <<value, step, valOnEntry>>
    BY <1>15 DEF UseUp, sema, locals
  <2>4. Available' = Available
    BY <2>3 DEF Available, InFlight
  <2>5. Abstract!UseUp(running)
    BY <2>2, <2>4 DEF Abstract!UseUp
  <2> QED BY <2>1, <2>5 DEF AbstractStep
<1>16. CASE Yield
  BY <1>16, OuterStutters DEF Yield, Yielded, AbstractStep, sema
<1>17. CASE LoopPost
  <2>1. PostEffect /\ use # "mutex" /\ UNCHANGED <<place, step, valOnEntry>>
    BY <1>17 DEF LoopPost, locals
  <2>2. Abstract!Post
    BY <2>1, PostAdds DEF Abstract!Post, Holding
  <2> QED BY <2>1, <2>2 DEF AbstractStep
<1>18. CASE InterruptPost
  <2>1. PostEffect /\ use # "mutex" /\ UNCHANGED <<place, step, valOnEntry>>
    BY <1>18 DEF InterruptPost, locals
  <2>2. Abstract!Post
    BY <2>1, PostAdds DEF Abstract!Post, Holding
  <2> QED BY <2>1, <2>2 DEF AbstractStep
<1>19. CASE UNCHANGED vars
  <2>1. UNCHANGED <<value, place, step, valOnEntry>>
    BY <1>19 DEF vars, sema, locals
  <2> QED BY <2>1 DEF AbstractStep, Available, Holding, InFlight
<1> QED BY <1>1, <1>2, <1>3, <1>4, <1>5, <1>6, <1>7, <1>8, <1>9, <1>10, <1>11,
           <1>12, <1>13, <1>14, <1>15, <1>16, <1>17, <1>18, <1>19
        DEF Next, InWait

LEMMA InitIsAbstract == Init => Abstract!Init
<1> SUFFICES ASSUME Init PROVE Abstract!Init
  OBVIOUS
<1>1. value \in {0, 1} /\ ~InFlight
  BY DEF Init, InFlight
<1>2. Available \in {0, 1}
  BY <1>1 DEF Available
<1>3. Holding = {}
  BY DEF Init, Holding
<1> QED BY <1>2, <1>3 DEF Abstract!Init

\* However many tasks, and whatever the capacity of the queue: each wait() that
\* returns uses up one unit that was there or that a post() has added, even though
\* _wait takes units out and returns them, and interrupts post in between.
THEOREM Implements == Spec => RefinesSemaphore
<1>1. Inv /\ [Next]_vars => [Abstract!Next]_(Abstract!absVars)
  BY StepIsAbstract
  DEF AbstractStep, Abstract!Next, Abstract!absVars
<1> QED BY <1>1, InitIsAbstract, InitInv, NextInv, PTL
        DEF Spec, Abstract!Spec, RefinesSemaphore

-----------------------------------------------------------------------------
(* The mutex.                                                                *)

\* The one unit of a mutex is in the semaphore or with one task.
OneUnit ==
    use = "mutex" => \/ Available = 1 /\ Holding = {}
                     \/ Available = 0 /\ \E t \in Tasks : Holding = {t}

LEMMA InitOneUnit == Init => OneUnit
<1> SUFFICES ASSUME Init, use = "mutex" PROVE Available = 1 /\ Holding = {}
  BY DEF OneUnit
<1>1. value = 1 /\ ~InFlight
  BY DEF Init, InFlight
<1> QED BY <1>1 DEF Init, Available, Holding

LEMMA NextOneUnit == Inv /\ OneUnit /\ [Next]_vars => OneUnit'
<1> SUFFICES ASSUME Inv, OneUnit, [Next]_vars, use' = "mutex" PROVE OneUnit'
  BY DEF OneUnit
<1>1. use' = use
  BY Zenon DEF Next, InWait, vars, Dispatch, DropEntry, Wait, Take, Enqueue, NoUnits,
         GoOn, SelfFirst, OwnTurn, WakeOther, LastOne, Succeed, GiveUp, GiveBack,
         UseUp, Yield, LoopPost, InterruptPost
<1>2. \/ Available = 1 /\ Holding = {}
      \/ Available = 0 /\ \E t \in Tasks : Holding = {t}
  BY <1>1 DEF OneUnit
<1>3. \/ \E t \in Tasks : Abstract!Acquire(t) \/ Abstract!GiveBack(t)
      \/ UNCHANGED <<Available, Holding>>
  BY <1>1, StepIsAbstract DEF AbstractStep
<1>4. ASSUME NEW t \in Tasks, Abstract!Acquire(t) PROVE OneUnit'
  <2>1. Available = 1 /\ Holding = {}
    BY <1>2, <1>4 DEF Abstract!Acquire
  <2>2. Available' = 0 /\ Holding' = {t}
    BY <1>4, <2>1 DEF Abstract!Acquire
  <2> QED BY <2>2 DEF OneUnit
<1>5. ASSUME NEW t \in Tasks, Abstract!GiveBack(t) PROVE OneUnit'
  <2>1. Available = 0 /\ Holding = {t}
    BY <1>2, <1>5 DEF Abstract!GiveBack
  <2>2. Available' = 1 /\ Holding' = {}
    BY <1>5, <2>1 DEF Abstract!GiveBack
  <2> QED BY <2>2 DEF OneUnit
<1>6. CASE UNCHANGED <<Available, Holding>>
  BY <1>2, <1>6 DEF OneUnit
<1> QED BY <1>3, <1>4, <1>5, <1>6

\* Two tasks are never past the wait() of a mutex together: OLEDMutex protects the
\* display buffer for any number of tasks, whatever the capacity of its queue.
THEOREM OneHolder == Spec => []MutualExclusion
<1>1. OneUnit => MutualExclusion
  <2> SUFFICES ASSUME OneUnit, use = "mutex",
                      NEW t \in Tasks, NEW u \in Tasks,
                      place[t] = "inside", place[u] = "inside"
               PROVE  t = u
    BY DEF MutualExclusion
  <2>1. t \in Holding /\ u \in Holding
    BY DEF Holding
  <2> QED BY <2>1 DEF OneUnit
<1> QED BY <1>1, InitInv, NextInv, InitOneUnit, NextOneUnit, PTL DEF Spec

-----------------------------------------------------------------------------
(* Who is awake.                                                             *)

\* While loop() is kept in a network call, the tasks that are awake go on running: each
\* has an entry in the scheduler, although loop() runs them past it between its calls.
THEOREM AwakeInScheduler == Spec => []AwakeScheduled
<1>1. Inv => AwakeScheduled
  BY DEF Inv
<1> QED BY <1>1, InitInv, NextInv, PTL DEF Spec

\* A task that runs its own code, or has its unit, is awake.
AwakeInv ==
    /\ running # NoTask /\ step \in {"user", "take", "enqueue"} => ~sleeps[running]
    /\ step \in {"iterate", "leave"} /\ selfSuccess => ~sleeps[running]

(* A post puts nobody to sleep.                                              *)
LEMMA PostWakes ==
    ASSUME TypeOK, PostEffect
    PROVE  \A u \in Tasks : sleeps'[u] => sleeps[u]
BY DEF PostEffect, Schedule, sched, TypeOK

LEMMA NextAwake == Inv /\ AwakeInv /\ [Next]_vars => AwakeInv'
<1> SUFFICES ASSUME Inv, AwakeInv, [Next]_vars PROVE AwakeInv'
  OBVIOUS
<1> USE DEF Inv
<1>a. NoTask \notin Tasks
  BY SemaphoreAssumption
<1>b. (step # "user" => running \in Tasks) /\ (running # NoTask => running \in Tasks)
  BY DEF WaitInv, TypeOK
<1>1. ASSUME NEW t \in Tasks, Dispatch(t) PROVE AwakeInv'
  BY <1>1 DEF Dispatch, AwakeInv, sched
<1>2. ASSUME NEW t \in Tasks, DropEntry(t) PROVE AwakeInv'
  BY <1>2 DEF DropEntry, AwakeInv, locals
<1>3. CASE Wait \/ Take \/ NoUnits \/ GoOn \/ Succeed \/ UseUp
  BY <1>3 DEF Wait, Take, NoUnits, GoOn, Succeed, UseUp, AwakeInv, sched, locals
<1>4. CASE Enqueue
  BY <1>4 DEF Enqueue, AwakeInv
<1>5. CASE SelfFirst \/ OwnTurn
  <2>1. /\ running \in Tasks /\ running' = running
        /\ sleeps' = [sleeps EXCEPT ![running] = FALSE]
    BY <1>5 DEF SelfFirst, OwnTurn, WaitInv
  <2>2. ~sleeps'[running']
    BY <2>1 DEF TypeOK
  <2> QED BY <2>2 DEF AwakeInv
<1>6. CASE WakeOther
  <2>1. /\ running' = running /\ Schedule(pendingTask0) /\ pendingTask0 \in Tasks
        /\ step' \in {"iterate", "leave"} /\ step = "iterate"
        /\ selfSuccess' = selfSuccess
    BY <1>6, AdvanceTypes DEF WakeOther, TypeOK
  <2>2. \A u \in Tasks : sleeps'[u] => sleeps[u]
    BY <2>1 DEF Schedule, TypeOK
  <2> QED BY <1>b, <2>1, <2>2 DEF AwakeInv
<1>7. CASE LastOne
  <2>1. step' \in {"iterate", "leave"} /\ step = "iterate"
        /\ UNCHANGED <<sleeps, running, selfSuccess>>
    BY <1>7, AdvanceTypes DEF LastOne, sched
  <2> QED BY <2>1 DEF AwakeInv
<1>8. CASE GiveUp \/ Yield
  BY <1>8 DEF GiveUp, Yield, Yielded, AwakeInv
<1>9. CASE GiveBack
  BY <1>9, <1>b, PostWakes DEF GiveBack, AwakeInv
<1>10. CASE LoopPost \/ InterruptPost
  <2>1. PostEffect /\ UNCHANGED <<running, step, selfSuccess>>
    BY <1>10 DEF LoopPost, InterruptPost, locals
  <2> QED BY <1>b, <2>1, PostWakes DEF AwakeInv
<1>11. CASE UNCHANGED vars
  BY <1>11 DEF vars, AwakeInv, sched, locals
<1> QED BY <1>1, <1>2, <1>3, <1>4, <1>5, <1>6, <1>7, <1>8, <1>9, <1>10, <1>11
        DEF Next, InWait

-----------------------------------------------------------------------------
(* The queue.                                                                *)

Places == 1..Len(pendingTasks)

\* t is in pendingTask0 or behind it.
Queued(t) == t = pendingTask0 \/ InQueue(t)

\* The queued tasks are those that sleep, each once, and all of them in wait().
QueueInv ==
    /\ \A i \in Places : /\ place[pendingTasks[i]] = "waiting"
                         /\ pendingTasks[i] # pendingTask0
    /\ \A i, j \in Places : pendingTasks[i] = pendingTasks[j] => i = j
    /\ \A t \in Tasks : sleeps[t] <=> Queued(t)

\* fwd says that the first of the queue is due; a task that is to be first is awake.
LoopInv ==
    /\ step = "enqueue" => val = valOnEntry
    /\ step = "iterate" =>
        /\ fwd <=> val > 0 /\ ~selfFirst
        /\ selfFirst /\ val > 0 => ~sleeps[running]

(* Shift takes nobody out of the queue but a pendingTask0 whose turn it is.  *)
LEMMA ShiftQueue ==
    ASSUME TypeOK, QueueInv, Shift
    PROVE  /\ \A i \in Places' : /\ pendingTasks'[i] # pendingTask0'
                                 /\ InQueue(pendingTasks'[i])
           /\ \A i, j \in Places' : pendingTasks'[i] = pendingTasks'[j] => i = j
           /\ ~fwd => \A t \in Tasks : Queued(t)' <=> Queued(t)
           /\ fwd => \A t \in Tasks : Queued(t)' <=> Queued(t) /\ t # pendingTask0
<1>1. CASE MovesUp
  <2>1. pendingTasks # << >>
    BY <1>1 DEF MovesUp, Stop
  <2>2. /\ pendingTask0' = pendingTasks[1] /\ pendingTasks' = Tail(pendingTasks)
        /\ Len(pendingTasks) > 0 /\ Len(pendingTasks') = Len(pendingTasks) - 1
        /\ 1 \in Places
    BY <1>1, <2>1 DEF Shift, TypeOK, Places
  <2>3. \A i \in Places' : i + 1 \in Places /\ pendingTasks'[i] = pendingTasks[i + 1]
    BY <2>1, <2>2 DEF TypeOK, Places
  <2>4. \A i \in Places' : i \in Nat /\ i > 0
    BY <2>2 DEF Places, TypeOK
  <2>5. \A i \in Places' : /\ pendingTasks'[i] # pendingTask0'
                          /\ InQueue(pendingTasks'[i])
    BY <2>2, <2>3, <2>4 DEF QueueInv, InQueue, Places
  <2>6. \A i, j \in Places' : pendingTasks'[i] = pendingTasks'[j] => i = j
    BY <2>3, <2>4 DEF QueueInv
  <2>7. ASSUME NEW t \in Tasks PROVE Queued(t)' <=> InQueue(t)
    <3>1. ASSUME Queued(t)' PROVE InQueue(t)
      BY <2>2, <2>3, <3>1 DEF Queued, InQueue, Places
    <3>2. ASSUME InQueue(t) PROVE Queued(t)'
      <4>1. PICK i \in Places : pendingTasks[i] = t
        BY <3>2 DEF InQueue, Places
      <4>2. CASE i = 1
        BY <2>2, <4>1, <4>2 DEF Queued
      <4>3. CASE i # 1
        <5>1. i - 1 \in Places' /\ (i - 1) + 1 = i
          BY <2>2, <4>3 DEF Places, TypeOK
        <5>2. pendingTasks'[i - 1] = t
          BY <2>3, <4>1, <5>1
        <5> QED BY <5>1, <5>2 DEF Queued, InQueue, Places
      <4> QED BY <4>2, <4>3
    <3> QED BY <3>1, <3>2
  <2>8. \A t \in Tasks : InQueue(t) <=> Queued(t) /\ t # pendingTask0
    BY DEF Queued, InQueue, QueueInv, Places
  <2>9. ~fwd => pendingTask0 = NoTask
    BY <1>1 DEF MovesUp
  <2>10. NoTask \notin Tasks
    BY SemaphoreAssumption
  <2> QED BY <2>5, <2>6, <2>7, <2>8, <2>9, <2>10
<1>2. CASE ~MovesUp
  <2>1. /\ pendingTasks' = pendingTasks
        /\ pendingTask0' = IF Stop /\ fwd THEN NoTask ELSE pendingTask0
        /\ fwd => Stop
    BY <1>2 DEF Shift, MovesUp
  <2>2. Stop => Places = {}
    BY DEF Stop, Places
  <2>3. Places' = Places
    BY <2>1 DEF Places
  <2>4. NoTask \notin Tasks
    BY SemaphoreAssumption
  <2>5. CASE fwd
    <3>1. \A t \in Tasks : ~InQueue(t) /\ ~InQueue(t)'
      BY <2>1, <2>2, <2>3, <2>5 DEF InQueue, Places
    <3>2. pendingTask0' = NoTask
      BY <2>1, <2>5
    <3> QED BY <2>1, <2>2, <2>3, <2>4, <2>5, <3>1, <3>2 DEF Queued
  <2>6. CASE ~fwd
    <3>1. pendingTask0' = pendingTask0
      BY <2>1, <2>6
    <3>2. \A t \in Tasks : Queued(t)' <=> Queued(t)
      BY <2>1, <3>1 DEF Queued, InQueue
    <3>3. \A i \in Places' : pendingTasks'[i] # pendingTask0' /\ InQueue(pendingTasks'[i])
      BY <2>1, <2>3, <3>1 DEF QueueInv, InQueue, Places
    <3>4. \A i, j \in Places' : pendingTasks'[i] = pendingTasks'[j] => i = j
      BY <2>1, <2>3 DEF QueueInv
    <3> QED BY <2>6, <3>2, <3>3, <3>4
  <2> QED BY <2>5, <2>6
<1> QED BY <1>1, <1>2

(* A post takes its pendingTask0 out of the queue and wakes it.              *)
LEMMA PostQueue ==
    ASSUME TypeOK, QueueInv, PostEffect, pendingTasks' = pendingTasks,
           \A i \in Places : place'[pendingTasks[i]] = place[pendingTasks[i]]
    PROVE  QueueInv' /\ \A t \in Tasks : sleeps'[t] => sleeps[t]
<1>1. pendingTask0' = NoTask /\ NoTask \notin Tasks
  BY SemaphoreAssumption DEF PostEffect
<1>2. Places' = Places /\ \A i \in Places : pendingTasks[i] \in Tasks
  BY DEF Places, TypeOK
<1>3. \A t \in Tasks : sleeps'[t] <=> sleeps[t] /\ t # pendingTask0
  <2>1. CASE pendingTask0 # NoTask
    BY <2>1 DEF PostEffect, Schedule, TypeOK
  <2>2. CASE pendingTask0 = NoTask
    BY <1>1, <2>2 DEF PostEffect, sched
  <2> QED BY <2>1, <2>2
<1>4. \A t \in Tasks : Queued(t)' <=> Queued(t) /\ t # pendingTask0
  BY <1>1 DEF Queued, InQueue, QueueInv, Places
<1> QED BY <1>1, <1>2, <1>3, <1>4 DEF QueueInv

LEMMA NextQueue ==
    Inv /\ AwakeInv /\ QueueInv /\ LoopInv /\ [Next]_vars => QueueInv'
<1> SUFFICES ASSUME Inv, AwakeInv, QueueInv, LoopInv, [Next]_vars PROVE QueueInv'
  OBVIOUS
<1> USE DEF Inv
<1>a. NoTask \notin Tasks
  BY SemaphoreAssumption
<1>b. ASSUME UNCHANGED <<pendingTask0, pendingTasks, place, sleeps>> PROVE QueueInv'
  BY <1>b DEF QueueInv, Queued, InQueue, Places
<1>c. \A i \in Places : pendingTasks[i] \in Tasks
  BY DEF Places, TypeOK
<1>d. ASSUME running \in Tasks, ~sleeps[running]
      PROVE  ~Queued(running) /\ \A i \in Places : pendingTasks[i] # running
  BY <1>d DEF QueueInv, Queued, InQueue, Places
<1>e. \A t : InQueue(t) => t \in Tasks /\ place[t] = "waiting" /\ t # pendingTask0
  BY <1>c DEF QueueInv, InQueue, Places
<1>1. ASSUME NEW t \in Tasks, Dispatch(t) PROVE QueueInv'
  BY <1>1, <1>b DEF Dispatch, sema, sched
<1>2. ASSUME NEW t \in Tasks, DropEntry(t) PROVE QueueInv'
  BY <1>2, <1>b DEF DropEntry, sema
<1>3. CASE Wait
  <2>1. running \in Tasks
    BY <1>3 DEF Wait, TypeOK
  <2>2. /\ UNCHANGED <<pendingTask0, pendingTasks, sleeps>>
        /\ place' = [place EXCEPT ![running] = "waiting"]
    BY <1>3 DEF Wait, sema, sched
  <2> QED BY <1>c, <2>1, <2>2 DEF QueueInv, Queued, InQueue, Places, TypeOK
<1>4. CASE Take
  BY <1>4, <1>b DEF Take, sched
<1>5. CASE Enqueue
  <2>1. running \in Tasks /\ ~sleeps[running] /\ place[running] = "waiting"
    BY <1>5, <1>a DEF Enqueue, AwakeInv, WaitInv
  <2>2. pendingTask0' = pendingTask0 /\ place' = place
    BY <1>5 DEF Enqueue
  <2>3. CASE Joins /\ HasPlace
    <3>1. /\ pendingTasks' = Append(pendingTasks, running)
          /\ sleeps' = [sleeps EXCEPT ![running] = TRUE]
      BY <1>5, <2>3 DEF Enqueue
    <3>2. /\ Len(pendingTasks') = Len(pendingTasks) + 1
          /\ \A i \in Places : pendingTasks'[i] = pendingTasks[i]
          /\ pendingTasks'[Len(pendingTasks) + 1] = running
      BY <2>1, <3>1 DEF TypeOK, Places
    <3>3. Places' = Places \cup {Len(pendingTasks) + 1}
          /\ Len(pendingTasks) + 1 \notin Places
      BY <3>2 DEF Places, TypeOK
    <3>4. ASSUME NEW t \in Tasks PROVE Queued(t)' <=> Queued(t) \/ t = running
      <4>1. InQueue(t)' <=> \E i \in Places' : pendingTasks'[i] = t
        BY DEF InQueue, Places
      <4>2. InQueue(t) <=> \E i \in Places : pendingTasks[i] = t
        BY DEF InQueue, Places
      <4> QED BY <2>2, <3>2, <3>3, <4>1, <4>2 DEF Queued
    <3>5. \A t \in Tasks : sleeps'[t] <=> sleeps[t] \/ t = running
      BY <3>1 DEF TypeOK
    <3>6. \A t \in Tasks : sleeps'[t] <=> Queued(t)'
      BY <3>4, <3>5 DEF QueueInv
    <3>7. running # pendingTask0 /\ \A i \in Places : pendingTasks[i] # running
      BY <1>d, <2>1 DEF Queued
    <3>8. \A i \in Places' : /\ place'[pendingTasks'[i]] = "waiting"
                            /\ pendingTasks'[i] # pendingTask0'
      BY <2>1, <2>2, <3>2, <3>3, <3>7 DEF QueueInv
    <3>9. \A i, j \in Places' : pendingTasks'[i] = pendingTasks'[j] => i = j
      BY <3>2, <3>3, <3>7 DEF QueueInv
    <3> QED BY <3>6, <3>8, <3>9 DEF QueueInv
  <2>4. CASE ~(Joins /\ HasPlace)
    BY <1>5, <1>b, <2>2, <2>4 DEF Enqueue
  <2> QED BY <2>3, <2>4
<1>6. CASE NoUnits
  <2>1. ~fwd /\ Shift /\ UNCHANGED <<place, sleeps>>
    BY <1>6 DEF NoUnits, LoopInv, sched, TypeOK
  <2> QED BY <2>1, <1>e, ShiftQueue DEF QueueInv
<1>7. CASE GoOn
  <2>1. Shift /\ UNCHANGED <<place, sleeps>> /\ running \in Tasks
    BY <1>7 DEF GoOn, sched, WaitInv
  <2>2. CASE pendingTask0 = NoTask
    <3>1. \A t \in Tasks : t # pendingTask0
      BY <1>a, <2>2
    <3>2. \A t \in Tasks : Queued(t)' <=> Queued(t)
      BY <2>1, <3>1, ShiftQueue
    <3> QED BY <2>1, <3>2, <1>e, ShiftQueue DEF QueueInv
  <2>3. CASE pendingTask0 # NoTask
    <3>1. pendingTask0 = running /\ selfSuccess
      BY <1>7, <2>3 DEF GoOn, Nobody
    <3>2. ~sleeps[running] /\ Queued(running)
      BY <1>7, <3>1 DEF GoOn, AwakeInv, Queued
    <3> QED BY <1>d, <2>1, <3>2
  <2> QED BY <2>2, <2>3
<1>8. CASE SelfFirst
  <2>1. /\ Shift /\ place' = place /\ running \in Tasks
        /\ sleeps' = [sleeps EXCEPT ![running] = FALSE]
    BY <1>8 DEF SelfFirst, WaitInv
  <2>2. ~fwd /\ ~sleeps[running]
    BY <1>8 DEF SelfFirst, LoopInv
  <2>3. sleeps' = sleeps
    BY <2>1, <2>2 DEF TypeOK
  <2> QED BY <2>1, <2>2, <2>3, <1>e, ShiftQueue DEF QueueInv
<1>9. CASE OwnTurn
  <2>1. /\ Shift /\ pendingTask0 = running /\ running \in Tasks /\ fwd
        /\ sleeps' = [sleeps EXCEPT ![running] = FALSE]
        /\ place' = [place EXCEPT ![running] = "inside"]
    BY <1>9 DEF OwnTurn, WaitInv, LoopInv
  <2>2. \A t \in Tasks : sleeps'[t] <=> sleeps[t] /\ t # running
    BY <2>1 DEF TypeOK
  <2>3. /\ \A i \in Places' : /\ pendingTasks'[i] # pendingTask0'
                              /\ InQueue(pendingTasks'[i])
        /\ \A i, j \in Places' : pendingTasks'[i] = pendingTasks'[j] => i = j
        /\ \A t \in Tasks : Queued(t)' <=> Queued(t) /\ t # pendingTask0
    BY <2>1, ShiftQueue
  <2>4. \A i \in Places' : place'[pendingTasks'[i]] = "waiting"
    BY <1>e, <2>1, <2>3 DEF TypeOK
  <2>5. \A t \in Tasks : sleeps'[t] <=> Queued(t)'
    BY <2>1, <2>2, <2>3 DEF QueueInv
  <2> QED BY <2>3, <2>4, <2>5 DEF QueueInv
<1>10. CASE WakeOther
  <2>1. /\ Shift /\ fwd /\ place' = place /\ Schedule(pendingTask0)
        /\ pendingTask0 \in Tasks
    BY <1>10 DEF WakeOther, LoopInv, TypeOK
  <2>2. \A t \in Tasks : sleeps'[t] <=> sleeps[t] /\ t # pendingTask0
    BY <2>1 DEF Schedule, TypeOK
  <2> QED BY <2>1, <2>2, <1>e, ShiftQueue DEF QueueInv
<1>11. CASE LastOne
  <2>1. Shift /\ UNCHANGED <<place, sleeps>> /\ running \in Tasks
    BY <1>11 DEF LastOne, sched, WaitInv
  <2>2. CASE pendingTask0 = NoTask
    <3>1. \A t \in Tasks : t # pendingTask0
      BY <1>a, <2>2
    <3>2. \A t \in Tasks : Queued(t)' <=> Queued(t)
      BY <2>1, <3>1, ShiftQueue
    <3> QED BY <2>1, <3>2, <1>e, ShiftQueue DEF QueueInv
  <2>3. CASE pendingTask0 # NoTask
    <3>1. pendingTask0 = running /\ selfSuccess
      BY <1>11, <2>3 DEF LastOne, Nobody
    <3>2. ~sleeps[running] /\ Queued(running)
      BY <1>11, <3>1 DEF LastOne, AwakeInv, Queued
    <3> QED BY <1>d, <2>1, <3>2
  <2> QED BY <2>2, <2>3
<1>12. CASE Succeed
  <2>1. running \in Tasks /\ ~sleeps[running]
    BY <1>12 DEF Succeed, WaitInv, AwakeInv
  <2>2. /\ UNCHANGED <<pendingTask0, pendingTasks, sleeps>>
        /\ place' = [place EXCEPT ![running] = "inside"]
    BY <1>12 DEF Succeed, sema, sched
  <2>3. \A i \in Places : place'[pendingTasks[i]] = place[pendingTasks[i]]
    BY <1>c, <1>d, <2>1, <2>2 DEF TypeOK
  <2> QED BY <2>2, <2>3 DEF QueueInv, Queued, InQueue, Places
<1>13. CASE GiveUp
  BY <1>13, <1>b DEF GiveUp, Yielded
<1>14. CASE GiveBack
  <2>1. running \in Tasks /\ ~sleeps[running] /\ PostEffect
        /\ place' = [place EXCEPT ![running] = "outside"]
        /\ pendingTasks' = pendingTasks
    BY <1>14 DEF GiveBack, TypeOK, AwakeInv
  <2>2. \A i \in Places : place'[pendingTasks[i]] = place[pendingTasks[i]]
    BY <1>c, <1>d, <2>1 DEF TypeOK
  <2> QED BY <2>1, <2>2, PostQueue
<1>15. CASE UseUp
  <2>1. running \in Tasks /\ ~sleeps[running]
        /\ place' = [place EXCEPT ![running] = "outside"]
        /\ UNCHANGED <<pendingTask0, pendingTasks, sleeps>>
    BY <1>15 DEF UseUp, TypeOK, AwakeInv, sema, sched
  <2>2. \A i \in Places : place'[pendingTasks[i]] = place[pendingTasks[i]]
    BY <1>c, <1>d, <2>1 DEF TypeOK
  <2> QED BY <2>1, <2>2 DEF QueueInv, Queued, InQueue, Places
<1>16. CASE Yield
  BY <1>16, <1>b DEF Yield, Yielded, sema
<1>17. CASE LoopPost
  BY <1>17, PostQueue DEF LoopPost
<1>18. CASE InterruptPost
  BY <1>18, PostQueue DEF InterruptPost
<1>19. CASE UNCHANGED vars
  BY <1>19, <1>b DEF vars, sema, sched
<1> QED BY <1>1, <1>2, <1>3, <1>4, <1>5, <1>6, <1>7, <1>8, <1>9, <1>10, <1>11,
           <1>12, <1>13, <1>14, <1>15, <1>16, <1>17, <1>18, <1>19
        DEF Next, InWait

LEMMA AdvanceLoop ==
    ASSUME val \in Nat, val > 0, Advance, step' = "iterate"
    PROVE  fwd' <=> val' > 0
<1>1. ~Stop
  BY DEF Advance
<1>2. fwd' = (val > 1)
  BY <1>1, Zenon DEF Advance
<1>3. val' = val - 1
  BY <1>1 DEF Advance
<1>4. (val > 1) <=> (val' > 0)
  BY <1>3
<1> QED BY <1>2, <1>4, Zenon

LEMMA NextLoop == Inv /\ AwakeInv /\ LoopInv /\ [Next]_vars => LoopInv'
<1> SUFFICES ASSUME Inv, AwakeInv, LoopInv, [Next]_vars PROVE LoopInv'
  OBVIOUS
<1> USE DEF Inv
<1>a. NoTask \notin Tasks
  BY SemaphoreAssumption
<1>b. ASSUME step' \notin {"enqueue", "iterate"} PROVE LoopInv'
  BY <1>b DEF LoopInv
<1>1. ASSUME NEW t \in Tasks, Dispatch(t) PROVE LoopInv'
  BY <1>1, <1>b DEF Dispatch
<1>2. ASSUME NEW t \in Tasks, DropEntry(t) PROVE LoopInv'
  BY <1>2, <1>a, <1>b DEF DropEntry, WaitInv
<1>3. CASE Wait
  BY <1>3, <1>b DEF Wait
<1>4. CASE Take
  BY <1>4 DEF Take, LoopInv
<1>5. CASE Enqueue
  <2>1. /\ fwd' = (~selfFirst' /\ val > 0) /\ step' = "iterate"
        /\ selfFirst' = (selfFirst \/ (Joins /\ ~HasPlace))
        /\ UNCHANGED <<val, valOnEntry, running>>
    BY <1>5 DEF Enqueue
  <2>2. val = valOnEntry /\ ~sleeps[running] /\ running \in Tasks
    BY <1>5, <1>a DEF Enqueue, LoopInv, AwakeInv, WaitInv
  <2>3. ASSUME selfFirst', val > 0 PROVE ~sleeps'[running]
    <3>1. ~(Joins /\ HasPlace)
      BY <2>1, <2>2, <2>3 DEF Joins
    <3> QED BY <1>5, <2>2, <3>1 DEF Enqueue
  <2> QED BY <2>1, <2>3 DEF LoopInv
<1>6. CASE NoUnits
  BY <1>6, <1>b DEF NoUnits
<1>7. CASE GoOn
  BY <1>7 DEF GoOn, LoopInv, sched, locals
<1>8. CASE SelfFirst
  <2>1. selfFirst' = FALSE /\ Advance /\ val \in Nat /\ val > 0
    BY <1>8 DEF SelfFirst, TypeOK
  <2>2. step' = "iterate" => (fwd' <=> val' > 0)
    BY <2>1, AdvanceLoop
  <2>3. step' \in {"leave", "iterate"}
    BY <2>1 DEF Advance
  <2> QED BY <2>1, <2>2, <2>3 DEF LoopInv
<1>9. CASE OwnTurn
  BY <1>9, <1>b DEF OwnTurn
<1>10. CASE WakeOther
  <2>1. ~selfFirst' /\ Advance /\ val \in Nat /\ val > 0
    BY <1>10 DEF WakeOther, TypeOK
  <2>2. step' = "iterate" => (fwd' <=> val' > 0)
    BY <2>1, AdvanceLoop
  <2>3. step' \in {"leave", "iterate"}
    BY <2>1 DEF Advance
  <2> QED BY <2>1, <2>2, <2>3 DEF LoopInv
<1>11. CASE LastOne
  BY <1>11, <1>b DEF LastOne, Advance
<1>12. CASE Succeed
  BY <1>12, <1>b DEF Succeed
<1>13. CASE GiveUp
  BY <1>13, <1>b DEF GiveUp, Yielded
<1>14. CASE GiveBack
  BY <1>14, <1>b DEF GiveBack
<1>15. CASE UseUp
  BY <1>15, <1>b DEF UseUp
<1>16. CASE Yield
  BY <1>16, <1>b DEF Yield, Yielded
<1>17. CASE LoopPost
  BY <1>17, <1>a, <1>b DEF LoopPost, WaitInv
<1>18. CASE InterruptPost
  <2>1. /\ PostEffect
        /\ UNCHANGED <<running, step, val, valOnEntry, fwd, selfFirst>>
    BY <1>18 DEF InterruptPost, locals
  <2>2. step = "iterate" => running \in Tasks
    BY DEF WaitInv
  <2>3. \A u \in Tasks : sleeps'[u] => sleeps[u]
    BY <2>1 DEF PostEffect, Schedule, sched, TypeOK
  <2> QED BY <2>1, <2>2, <2>3 DEF LoopInv
<1>19. CASE UNCHANGED vars
  BY <1>19 DEF vars, LoopInv, sched, locals
<1> QED BY <1>1, <1>2, <1>3, <1>4, <1>5, <1>6, <1>7, <1>8, <1>9, <1>10, <1>11,
           <1>12, <1>13, <1>14, <1>15, <1>16, <1>17, <1>18, <1>19
        DEF Next, InWait

\* No task that waits is ever lost to the queue, whatever the number of tasks and
\* the capacity: the sleeping tasks are the queued ones, even while a task runs and
\* with posts from interrupts.
THEOREM SleepersAreQueued == Spec => []SleepersQueued
<1>1. Init => AwakeInv /\ LoopInv
  BY DEF Init, AwakeInv, LoopInv
<1>2. Init => QueueInv
  <2> SUFFICES ASSUME Init PROVE QueueInv
    OBVIOUS
  <2>1. Places = {} /\ NoTask \notin Tasks
    BY SemaphoreAssumption DEF Init, Places
  <2> QED BY <2>1 DEF Init, QueueInv, Queued, InQueue, Places
<1>3. QueueInv => SleepersQueued
  BY DEF QueueInv, Queued, SleepersQueued, Places
<1> QED BY <1>1, <1>2, <1>3, InitInv, NextInv, NextAwake, NextQueue, NextLoop, PTL
        DEF Spec

=============================================================================
