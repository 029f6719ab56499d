--------------------------- MODULE CoopWakeup_proofs ---------------------------
(***************************************************************************)
(* Units and sleeping tasks never meet (NoLostWakeup).  What is inductive  *)
(* counts: as long as another task is queued, there are as many tasks that *)
(* wait and are awake as there are units (UnitsCovered), since each post() *)
(* wakes one and each unit that goes takes at most one of them along.  The *)
(* last part: a post is only missed when two tasks wait, one of them awake. *)
(***************************************************************************)
EXTENDS CoopSemaphore_proofs, FiniteSetTheorems

\* The tasks, besides the running one, that will ask again for a unit.
Ready == {t \in Tasks : t # running /\ place[t] = "waiting" /\ ~sleeps[t]}

OthersQueued == \E t \in Tasks : t # running /\ Queued(t)

\* Tasks are queued and pendingTask0 is empty.
Orphans == pendingTask0 = NoTask /\ pendingTasks # << >>

\* Units that are there for the tasks in Ready: the unit of the running one is not.
Due == IF step = "user" THEN value
       ELSE IF step = "take" THEN IF selfFirst THEN value - 1 ELSE value
       ELSE IF selfFirst \/ (step # "enqueue" /\ selfSuccess) THEN valOnEntry - 1
       ELSE valOnEntry

\* Somebody is queued who may be left asleep.  A running task that has handed out
\* no unit yet does not count: it takes one itself.
Exposed == IF step = "leave" \/ (step = "iterate" /\ val < valOnEntry)
           THEN \E t \in Tasks : Queued(t)
           ELSE OthersQueued

UnitsCovered == use # "interrupt" /\ ~missed /\ Exposed => Cardinality(Ready) >= Due

\* Only tasks in wait() sleep.
SleepInv == \A t \in Tasks : sleeps[t] => place[t] = "waiting"

\* _wait has taken one unit of those it saw, and a task that is to be first has not
\* lost it; it leaves no orphans behind, and those that a post leaves have a unit.
CallInv ==
    use # "interrupt" =>
        /\ step \in {"enqueue", "iterate", "leave"} =>
             value = IF valOnEntry > 0 THEN valOnEntry - 1 ELSE 0
        /\ step = "iterate" /\ selfFirst => val = valOnEntry
        /\ step = "leave" => ~Orphans /\ (selfFirst => valOnEntry = 0)
        /\ step = "user" /\ Orphans => value > 0

MutexInv == use = "mutex" => ~missed

Known == Inv /\ AwakeInv /\ QueueInv /\ LoopInv

LEMMA SameUse == [Next]_vars => use' = use
  BY Zenon DEF Next, InWait, vars, Dispatch, DropEntry, Wait, Take, Enqueue, NoUnits,
         GoOn, SelfFirst, OwnTurn, WakeOther, LastOne, Succeed, GiveUp, GiveBack,
         UseUp, Yield, LoopPost, InterruptPost

(* A post puts nobody to sleep.                                              *)
LEMMA PostSleep ==
    ASSUME TypeOK, PostEffect
    PROVE  \A t \in Tasks : sleeps'[t] => sleeps[t]
  BY DEF PostEffect, Schedule, sched, TypeOK

LEMMA NextSleep == Known /\ SleepInv /\ [Next]_vars => SleepInv'
<1> SUFFICES ASSUME Known, SleepInv, [Next]_vars PROVE SleepInv'
  OBVIOUS
<1> USE DEF Known, Inv
<1>a. ASSUME UNCHANGED place, \A t \in Tasks : sleeps'[t] => sleeps[t] PROVE SleepInv'
  BY <1>a DEF SleepInv
<1>b. ASSUME running \in Tasks, ~sleeps'[running],
             \A t \in Tasks : t # running => place'[t] = place[t],
             \A t \in Tasks : sleeps'[t] => sleeps[t]
      PROVE  SleepInv'
  BY <1>b DEF SleepInv
<1>1. ASSUME NEW t \in Tasks, Dispatch(t) PROVE SleepInv'
  BY <1>1, <1>a DEF Dispatch, sched
<1>2. ASSUME NEW t \in Tasks, DropEntry(t) PROVE SleepInv'
  BY <1>2, <1>a DEF DropEntry
<1>3. CASE Wait
  <2>1. running \in Tasks /\ ~sleeps[running]
    BY <1>3 DEF Wait, TypeOK, AwakeInv
  <2> QED BY <1>3, <1>b, <2>1 DEF Wait, sched, TypeOK
<1>4. CASE Take
  BY <1>4, <1>a DEF Take, sched
<1>5. CASE Enqueue
  <2>1. running \in Tasks /\ place[running] = "waiting" /\ place' = place
    BY <1>5 DEF Enqueue, WaitInv
  <2>2. \A t \in Tasks : t # running => sleeps'[t] = sleeps[t]
    BY <1>5 DEF Enqueue, TypeOK
  <2> QED BY <2>1, <2>2 DEF SleepInv
<1>6. CASE NoUnits
  BY <1>6, <1>a DEF NoUnits, sched
<1>7. CASE GoOn
  BY <1>7, <1>a DEF GoOn, sched
<1>8. CASE SelfFirst
  BY <1>8, <1>a DEF SelfFirst, TypeOK
<1>9. CASE OwnTurn
  <2>1. running \in Tasks
    BY <1>9 DEF OwnTurn, WaitInv
  <2> QED BY <1>9, <1>b, <2>1 DEF OwnTurn, TypeOK
<1>10. CASE WakeOther
  BY <1>10, <1>a DEF WakeOther, Schedule, TypeOK
<1>11. CASE LastOne
  BY <1>11, <1>a DEF LastOne, sched
<1>12. CASE Succeed
  <2>1. running \in Tasks /\ ~sleeps[running]
    BY <1>12 DEF Succeed, WaitInv, AwakeInv
  <2> QED BY <1>12, <1>b, <2>1 DEF Succeed, sched, TypeOK
<1>13. CASE GiveUp
  BY <1>13, <1>a DEF GiveUp, Yielded
<1>14. CASE GiveBack
  <2>1. running \in Tasks /\ ~sleeps[running] /\ PostEffect
    BY <1>14 DEF GiveBack, TypeOK, AwakeInv
  <2> QED BY <1>14, <1>b, <2>1, PostSleep DEF GiveBack, TypeOK
<1>15. CASE UseUp
  <2>1. running \in Tasks /\ ~sleeps[running]
    BY <1>15 DEF UseUp, TypeOK, AwakeInv
  <2> QED BY <1>15, <1>b, <2>1 DEF UseUp, sched, TypeOK
<1>16. CASE Yield
  BY <1>16, <1>a DEF Yield, Yielded
<1>17. CASE LoopPost
  BY <1>17, <1>a, PostSleep DEF LoopPost
<1>18. CASE InterruptPost
  BY <1>18, <1>a, PostSleep DEF InterruptPost
<1>19. CASE UNCHANGED vars
  BY <1>19, <1>a DEF vars, sched
<1> QED BY <1>1, <1>2, <1>3, <1>4, <1>5, <1>6, <1>7, <1>8, <1>9, <1>10, <1>11,
           <1>12, <1>13, <1>14, <1>15, <1>16, <1>17, <1>18, <1>19
        DEF Next, InWait

(* The queue has a first task again whenever the loop has looked at it.      *)
LEMMA ShiftNoOrphans ==
    ASSUME TypeOK, Shift
    PROVE  ~Orphans'
<1>1. NoTask \notin Tasks
  BY SemaphoreAssumption
<1>2. CASE MovesUp
  <2>1. Head(pendingTasks) \in Tasks
    BY <1>2 DEF MovesUp, Stop, TypeOK
  <2> QED BY <1>1, <1>2, <2>1 DEF Shift, Orphans
<1>3. CASE ~MovesUp
  BY <1>3 DEF Shift, MovesUp, Stop, Orphans
<1> QED BY <1>2, <1>3

LEMMA NextCall == Known /\ CallInv /\ [Next]_vars => CallInv'
<1> SUFFICES ASSUME Known, CallInv, [Next]_vars, use # "interrupt" PROVE CallInv'
  BY SameUse DEF CallInv
<1> USE DEF Known, Inv
<1>a. NoTask \notin Tasks /\ use' = use /\ value \in Nat
  BY SemaphoreAssumption, SameUse DEF TypeOK
<1>b. ASSUME step = "user", step' \in {"user", "take"}, UNCHANGED sema PROVE CallInv'
  BY <1>a, <1>b DEF CallInv, Orphans, sema
<1>1. ASSUME NEW t \in Tasks, Dispatch(t) PROVE CallInv'
  BY <1>1, <1>a, <1>b DEF Dispatch, WaitInv
<1>2. ASSUME NEW t \in Tasks, DropEntry(t) PROVE CallInv'
  BY <1>2, <1>a, <1>b DEF DropEntry, WaitInv
<1>3. CASE Wait
  BY <1>3, <1>b DEF Wait
<1>4. CASE Take
  <2>1. step' = "enqueue" /\ valOnEntry' = value
        /\ value' = IF value > 0 THEN value - 1 ELSE 0
    BY <1>4 DEF Take
  <2> QED BY <1>a, <2>1 DEF CallInv
<1>5. CASE Enqueue
  BY <1>5 DEF Enqueue, CallInv, LoopInv
<1>6. CASE NoUnits
  <2>1. /\ step = "iterate" /\ step' = "leave" /\ val = 0 /\ Shift
        /\ UNCHANGED <<value, valOnEntry, selfFirst>>
    BY <1>6 DEF NoUnits, locals
  <2> QED BY <1>a, <2>1, ShiftNoOrphans DEF CallInv
<1>7. CASE GoOn
  BY <1>7 DEF GoOn, CallInv, locals
<1>8. CASE SelfFirst
  <2>1. /\ step = "iterate" /\ step' \in {"leave", "iterate"} /\ Shift
        /\ selfFirst' = FALSE /\ UNCHANGED <<value, valOnEntry>>
    BY <1>8, AdvanceTypes DEF SelfFirst
  <2> QED BY <1>a, <2>1, ShiftNoOrphans DEF CallInv
<1>9. CASE OwnTurn
  <2>1. step' = "user" /\ Shift
    BY <1>9 DEF OwnTurn
  <2> QED BY <1>a, <2>1, ShiftNoOrphans DEF CallInv
<1>10. CASE WakeOther
  <2>1. /\ step = "iterate" /\ step' \in {"leave", "iterate"} /\ Shift
        /\ ~selfFirst' /\ UNCHANGED <<value, valOnEntry>>
    BY <1>10, AdvanceTypes DEF WakeOther
  <2> QED BY <1>a, <2>1, ShiftNoOrphans DEF CallInv
<1>11. CASE LastOne
  <2>1. /\ step = "iterate" /\ step' \in {"leave", "iterate"} /\ Shift
        /\ ~selfFirst' /\ UNCHANGED <<value, valOnEntry>>
    BY <1>11, AdvanceTypes DEF LastOne
  <2> QED BY <1>a, <2>1, ShiftNoOrphans DEF CallInv
<1>12. CASE Succeed
  <2>1. step = "leave" /\ step' = "user" /\ UNCHANGED <<pendingTask0, pendingTasks>>
    BY <1>12 DEF Succeed, sema
  <2> QED BY <1>a, <2>1 DEF CallInv, Orphans
<1>13. CASE GiveUp
  <2>1. step = "leave" /\ step' = "user" /\ UNCHANGED <<pendingTask0, pendingTasks>>
    BY <1>13 DEF GiveUp, Yielded
  <2> QED BY <1>a, <2>1 DEF CallInv, Orphans
<1>14. CASE GiveBack
  BY <1>14, <1>a DEF GiveBack, PostEffect, CallInv
<1>15. CASE UseUp
  BY <1>15, <1>b DEF UseUp
<1>16. CASE Yield
  BY <1>16, <1>b DEF Yield, Yielded
<1>17. CASE LoopPost
  <2>1. step = "user" /\ step' = "user" /\ value' = value + 1
    BY <1>17, <1>a DEF LoopPost, PostEffect, WaitInv
  <2> QED BY <1>a, <2>1 DEF CallInv
<1>18. CASE InterruptPost
  BY <1>18 DEF InterruptPost
<1>19. CASE UNCHANGED vars
  BY <1>19 DEF vars, CallInv, Orphans, sema, locals
<1> QED BY <1>1, <1>2, <1>3, <1>4, <1>5, <1>6, <1>7, <1>8, <1>9, <1>10, <1>11,
           <1>12, <1>13, <1>14, <1>15, <1>16, <1>17, <1>18, <1>19
        DEF Next, InWait

(* When the holder of a mutex posts, there is no unit, hence no orphan.      *)
LEMMA NextMutex ==
    Known /\ OneUnit /\ CallInv /\ MutexInv /\ [Next]_vars => MutexInv'
<1> SUFFICES ASSUME Known, OneUnit, CallInv, MutexInv, [Next]_vars, use = "mutex"
             PROVE  ~missed'
  BY SameUse DEF MutexInv
<1> USE DEF Known, Inv
<1>1. missed = FALSE
  BY DEF MutexInv, TypeOK
<1>2. CASE GiveBack
  <2>1. running \in Holding /\ step = "user"
    BY <1>2 DEF GiveBack, TypeOK, Holding
  <2>2. Available = 0
    BY <2>1 DEF OneUnit
  <2>3. value = 0
    BY <2>2 DEF Available, TypeOK
  <2>4. ~Orphans
    BY <2>1, <2>3 DEF CallInv
  <2> QED BY <1>1, <1>2, <2>4 DEF GiveBack, PostEffect, Orphans
<1>3. CASE UNCHANGED missed
  BY <1>1, <1>3
<1>4. GiveBack \/ UNCHANGED missed
  BY Zenon DEF Next, InWait, vars, Dispatch, DropEntry, Wait, Take, Enqueue, NoUnits,
         GoOn, SelfFirst, OwnTurn, WakeOther, LastOne, Succeed, GiveUp, GiveBack,
         UseUp, Yield, LoopPost, InterruptPost
<1> QED BY <1>2, <1>3, <1>4

-----------------------------------------------------------------------------
(* The count.                                                                *)

LEMMA ReadyFinite ==
    /\ IsFiniteSet(Ready) /\ Cardinality(Ready) \in Nat
    /\ IsFiniteSet(Ready') /\ Cardinality(Ready') \in Nat
<1>1. Ready \in SUBSET Tasks /\ Ready' \in SUBSET Tasks
  BY DEF Ready
<1>2. IsFiniteSet(Ready) /\ IsFiniteSet(Ready')
  BY <1>1, SemaphoreAssumption, FS_Subset
<1> QED BY <1>2, FS_CardinalityType

LEMMA DueType == TypeOK => Due \in Int
  BY DEF Due, TypeOK

\* Enough tasks stay ready as long as none of them goes and the units due do not grow.
LEMMA CoveredStays ==
    ASSUME TypeOK, UnitsCovered, use' = use, ~missed' => ~missed,
           Due' \in Int, Due' <= Due,
           \A t \in Tasks : t \in Ready => t \in Ready',
           Exposed' => Exposed
    PROVE  UnitsCovered'
<1> SUFFICES ASSUME use # "interrupt", ~missed', Exposed'
             PROVE  Cardinality(Ready') >= Due'
  BY DEF UnitsCovered
<1>1. Cardinality(Ready) >= Due
  BY DEF UnitsCovered
<1>2. Ready \in SUBSET Ready'
  BY DEF Ready
<1>3. Cardinality(Ready) <= Cardinality(Ready')
  BY <1>2, ReadyFinite, FS_Subset
<1> QED BY <1>1, <1>3, ReadyFinite, DueType

\* A post covers its unit with the task it wakes; if it wakes none, nobody is queued.
LEMMA PostCovers ==
    ASSUME Known, SleepInv, UnitsCovered, PostEffect, use' = use, use # "interrupt",
           running' = running, running # NoTask => ~sleeps[running],
           step = "user", step' = "user", pendingTasks' = pendingTasks,
           \A t \in Tasks : t # running => place'[t] = place[t]
    PROVE  UnitsCovered'
<1> SUFFICES ASSUME ~missed', Exposed' PROVE Cardinality(Ready') >= Due'
  BY DEF UnitsCovered
<1> USE DEF Known, Inv
<1>1. Due = value /\ Due' = value + 1 /\ value \in Nat /\ NoTask \notin Tasks
  BY SemaphoreAssumption DEF Due, PostEffect, TypeOK
<1>2. ~missed /\ pendingTask0' = NoTask
      /\ (pendingTask0 = NoTask => pendingTasks = << >>)
  BY DEF PostEffect
<1>3. PICK u \in Tasks : u # running /\ InQueue(u)
  BY <1>1, <1>2 DEF Exposed, OthersQueued, Queued, InQueue
<1>4. pendingTasks # << >>
  BY <1>3 DEF InQueue
<1>5. pendingTask0 \in Tasks /\ Schedule(pendingTask0)
  BY <1>2, <1>4 DEF PostEffect, TypeOK
<1>6. sleeps[pendingTask0] /\ pendingTask0 # running /\ place[pendingTask0] = "waiting"
  BY <1>1, <1>5 DEF QueueInv, Queued, SleepInv
<1>7. Ready' = Ready \cup {pendingTask0} /\ pendingTask0 \notin Ready
  BY <1>5, <1>6 DEF Ready, Schedule, TypeOK
<1>8. Cardinality(Ready') = Cardinality(Ready) + 1
  BY <1>7, ReadyFinite, FS_AddElement
<1>9. Exposed
  BY <1>3 DEF Exposed, OthersQueued, Queued
<1>10. Cardinality(Ready) >= value
  BY <1>1, <1>2, <1>9 DEF UnitsCovered
<1> QED BY <1>1, <1>8, <1>10, ReadyFinite

LEMMA NextCovered ==
    Known /\ SleepInv /\ CallInv /\ UnitsCovered /\ [Next]_vars => UnitsCovered'
<1> SUFFICES ASSUME Known, SleepInv, CallInv, UnitsCovered, [Next]_vars,
                    use # "interrupt"
             PROVE  UnitsCovered'
  BY SameUse DEF UnitsCovered
<1> USE DEF Known, Inv
<1>a. /\ NoTask \notin Tasks /\ use' = use
      /\ value \in Nat /\ valOnEntry \in Nat /\ val \in Nat
  BY SemaphoreAssumption, SameUse DEF TypeOK
<1>b. Due' \in Int
  BY NextInv, DueType DEF Due, TypeOK
<1>c. ASSUME running \in Tasks, ~sleeps[running] PROVE ~Queued(running)
  BY <1>c DEF QueueInv
<1>d. ASSUME UNCHANGED <<pendingTask0, pendingTasks>>
      PROVE  \A t : Queued(t)' <=> Queued(t)
  BY <1>d DEF Queued, InQueue
<1>e. ASSUME Shift PROVE \A t \in Tasks : Queued(t)' => Queued(t)
  BY <1>e, ShiftQueue
\* The tasks other than the running one, when only that one changes.
<1>f. ASSUME running' = running,
             \A t \in Tasks : t # running =>
                place'[t] = place[t] /\ (sleeps'[t] => sleeps[t])
      PROVE  \A t \in Tasks : t \in Ready => t \in Ready'
  BY <1>f DEF Ready
\* Steps of the loop that hand out no unit to another task.
<1>g. ASSUME running' = running, missed' = missed,
             \A t \in Tasks : t \in Ready => t \in Ready',
             \A t \in Tasks : Queued(t)' => Queued(t),
             Due' <= Due, Exposed' => Exposed
      PROVE  UnitsCovered'
  BY <1>a, <1>b, <1>g, CoveredStays
<1>1. ASSUME NEW t \in Tasks, Dispatch(t) PROVE UnitsCovered'
  <2>1. /\ running = NoTask /\ running' = t /\ step = "user" /\ ~sleeps[t]
        /\ UNCHANGED <<value, pendingTask0, pendingTasks, place, sleeps, missed>>
    BY <1>1, <1>a DEF Dispatch, WaitInv, sema, sched
  <2>2. Exposed' => Exposed
    <3>1. step' \in {"user", "take"}
      BY <1>1 DEF Dispatch
    <3>2. \A u \in Tasks : u # running
      BY <1>a, <2>1
    <3> QED BY <1>d, <2>1, <3>1, <3>2 DEF Exposed, OthersQueued
  <2>3. CASE place[t] = "waiting"
    <3>1. Due = value /\ Due' = value - 1
      BY <1>1, <2>1, <2>3 DEF Dispatch, Due
    <3>2. Ready' = Ready \ {t} /\ t \in Ready
      BY <1>a, <2>1, <2>3 DEF Ready
    <3>3. Cardinality(Ready') = Cardinality(Ready) - 1
      BY <3>2, ReadyFinite, FS_RemoveElement
    <3> QED BY <1>a, <2>1, <2>2, <3>1, <3>3, ReadyFinite DEF UnitsCovered
  <2>4. CASE place[t] # "waiting"
    <3>1. Due = value /\ Due' = value
      BY <1>1, <2>1, <2>4 DEF Dispatch, Due
    <3>2. \A u \in Tasks : u \in Ready => u \in Ready'
      BY <2>1, <2>4 DEF Ready
    <3> QED BY <1>a, <1>b, <2>1, <2>2, <3>1, <3>2, CoveredStays
  <2> QED BY <2>3, <2>4
<1>2. ASSUME NEW t \in Tasks, DropEntry(t) PROVE UnitsCovered'
  BY <1>2 DEF DropEntry, UnitsCovered, Exposed, OthersQueued, Queued, InQueue, Ready,
              Due, sema, locals
<1>3. CASE Wait
  <2>1. /\ step = "user" /\ step' = "take" /\ running' = running
        /\ UNCHANGED <<value, pendingTask0, pendingTasks, sleeps, missed>>
        /\ \A t \in Tasks : t # running => place'[t] = place[t]
    BY <1>3 DEF Wait, sema, sched, TypeOK
  <2>2. Due' <= Due
    BY <1>a, <2>1 DEF Due
  <2>3. Exposed' => Exposed
    BY <1>d, <2>1 DEF Exposed, OthersQueued
  <2> QED BY <1>d, <1>f, <1>g, <2>1, <2>2, <2>3
<1>4. CASE Take
  <2>1. /\ step = "take" /\ step' = "enqueue" /\ valOnEntry' = value
        /\ UNCHANGED <<running, place, sleeps, pendingTask0, pendingTasks, selfFirst,
                       missed>>
    BY <1>4 DEF Take, sched
  <2>2. Due' <= Due
    BY <1>a, <2>1 DEF Due
  <2>3. Exposed' => Exposed
    BY <1>d, <2>1 DEF Exposed, OthersQueued
  <2> QED BY <1>d, <1>f, <1>g, <2>1, <2>2, <2>3
<1>5. CASE Enqueue
  <2>1. /\ step = "enqueue" /\ step' = "iterate" /\ selfSuccess' = FALSE
        /\ selfFirst' = (selfFirst \/ (Joins /\ ~HasPlace))
        /\ UNCHANGED <<running, place, pendingTask0, val, valOnEntry, missed>>
        /\ \A t \in Tasks : t # running => sleeps'[t] = sleeps[t]
        /\ running \in Tasks
    BY <1>5 DEF Enqueue, TypeOK, WaitInv
  <2>2. Due' <= Due
    <3>1. selfFirst => selfFirst'
      BY <2>1, Zenon
    <3>2. UNCHANGED valOnEntry /\ step = "enqueue" /\ step' = "iterate" /\ ~selfSuccess'
      BY <2>1
    <3> QED BY <1>a, <3>1, <3>2 DEF Due
  <2>3. \A t \in Tasks : t # running /\ Queued(t)' => Queued(t)
    <3>1. \A t \in Tasks : t # running /\ InQueue(t)' => InQueue(t)
      BY <1>5, <2>1 DEF Enqueue, InQueue, TypeOK
    <3> QED BY <2>1, <3>1 DEF Queued
  <2>4. val = valOnEntry
    BY <2>1 DEF LoopInv
  <2>5. Exposed' => Exposed
    BY <1>a, <2>1, <2>3, <2>4 DEF Exposed, OthersQueued
  <2>6. \A t \in Tasks : t \in Ready => t \in Ready'
    BY <1>f, <2>1
  <2> QED BY <1>a, <1>b, <2>1, <2>2, <2>5, <2>6, CoveredStays
<1>6. CASE NoUnits
  <2>1. /\ step = "iterate" /\ step' = "leave" /\ val = 0 /\ Shift
        /\ UNCHANGED <<running, place, sleeps, missed, value, val, valOnEntry,
                       selfFirst, selfSuccess>>
    BY <1>6 DEF NoUnits, sched, locals
  <2>2. Due' <= Due
    BY <1>a, <2>1 DEF Due
  <2>3. CASE valOnEntry = 0
    <3>1. Due' <= 0
      BY <2>1, <2>3 DEF Due
    <3> QED BY <1>b, <3>1, ReadyFinite DEF UnitsCovered
  <2>4. CASE valOnEntry > 0
    <3>1. Exposed' => Exposed
      BY <1>e, <2>1, <2>4 DEF Exposed
    <3> QED BY <1>e, <1>f, <1>g, <2>1, <2>2, <3>1
  <2> QED BY <1>a, <2>3, <2>4
<1>7. CASE GoOn
  <2>1. /\ step = "iterate" /\ step' = "iterate" /\ Shift
        /\ UNCHANGED <<running, place, sleeps, missed, value, val, valOnEntry,
                       selfFirst, selfSuccess>>
    BY <1>7 DEF GoOn, sched, locals
  <2>2. Due' <= Due
    BY <1>a, <2>1 DEF Due
  <2>3. Exposed' => Exposed
    BY <1>e, <2>1 DEF Exposed, OthersQueued
  <2> QED BY <1>e, <1>f, <1>g, <2>1, <2>2, <2>3
<1>8. CASE SelfFirst
  <2>1. /\ step = "iterate" /\ step' \in {"iterate", "leave"} /\ selfFirst /\ Shift
        /\ UNCHANGED <<running, place, missed, valOnEntry>> /\ running \in Tasks
        /\ val > 0
        /\ \A t \in Tasks : sleeps'[t] => sleeps[t]
    BY <1>8, AdvanceTypes DEF SelfFirst, TypeOK, WaitInv
  <2>2. Due' <= Due
    BY <1>8, <1>a, <2>1 DEF SelfFirst, Due
  <2>3. ~Queued(running)
    BY <1>c, <2>1 DEF LoopInv
  <2>4. Exposed' => Exposed
    BY <1>e, <2>1, <2>3 DEF Exposed, OthersQueued
  <2> QED BY <1>e, <1>f, <1>g, <2>1, <2>2, <2>4
<1>9. CASE OwnTurn
  <2>1. /\ step = "iterate" /\ step' = "user" /\ Shift /\ running \in Tasks
        /\ UNCHANGED <<value, running, missed>> /\ val > 0 /\ ~selfSuccess /\ ~selfFirst
        /\ \A t \in Tasks : t # running =>
             place'[t] = place[t] /\ (sleeps'[t] => sleeps[t])
    BY <1>9 DEF OwnTurn, TypeOK, WaitInv
  <2>2. value = valOnEntry - 1
    BY <1>a, <2>1 DEF CallInv, WaitInv
  <2>3. Due' <= Due
    BY <1>a, <2>1, <2>2 DEF Due
  <2>4. Exposed' => Exposed
    BY <1>e, <2>1 DEF Exposed, OthersQueued
  <2> QED BY <1>e, <1>f, <1>g, <2>1, <2>3, <2>4
<1>10. CASE WakeOther
  <2>1. /\ step = "iterate" /\ step' \in {"iterate", "leave"} /\ Shift /\ fwd /\ Advance
        /\ UNCHANGED <<running, place, missed, valOnEntry, selfFirst, selfSuccess>>
        /\ pendingTask0 \in Tasks /\ pendingTask0 # running
        /\ Schedule(pendingTask0)
    BY <1>10, AdvanceTypes DEF WakeOther, TypeOK, LoopInv
  <2>2. \A t \in Tasks : sleeps'[t] => sleeps[t]
    BY <2>1 DEF Schedule, TypeOK
  <2>3. Due' <= Due
    BY <1>a, <2>1 DEF Due
  <2>4. Exposed
    BY <2>1 DEF Exposed, OthersQueued, Queued
  <2> QED BY <1>e, <1>f, <1>g, <2>1, <2>2, <2>3, <2>4
<1>11. CASE LastOne
  <2>1. /\ step = "iterate" /\ step' = "leave" /\ Shift /\ fwd /\ Stop
        /\ UNCHANGED <<running, place, sleeps, missed, valOnEntry, selfFirst,
                       selfSuccess>>
    BY <1>11 DEF LastOne, Advance, sched, LoopInv
  <2>2. Due' <= Due
    BY <1>a, <2>1 DEF Due
  <2>3. pendingTask0' = NoTask /\ pendingTasks' = << >>
    BY <2>1 DEF Shift, MovesUp, Stop
  <2>4. ~Exposed'
    BY <1>a, <2>1, <2>3 DEF Exposed, Queued, InQueue
  <2> QED BY <1>e, <1>f, <1>g, <2>1, <2>2, <2>4
<1>12. CASE Succeed
  <2>1. /\ step = "leave" /\ step' = "user" /\ selfSuccess /\ running \in Tasks
        /\ UNCHANGED <<value, running, pendingTask0, pendingTasks, sleeps, missed>>
        /\ \A t \in Tasks : t # running => place'[t] = place[t]
    BY <1>12 DEF Succeed, sema, sched, TypeOK, WaitInv
  <2>2. value = valOnEntry - 1
    BY <1>a, <2>1 DEF CallInv, WaitInv
  <2>3. Due' <= Due
    BY <1>a, <2>1, <2>2 DEF Due
  <2>4. Exposed' => Exposed
    BY <1>d, <2>1 DEF Exposed, OthersQueued
  <2> QED BY <1>d, <1>f, <1>g, <2>1, <2>3, <2>4
<1>13. CASE GiveUp
  <2>1. /\ step = "leave" /\ step' = "user" /\ ~selfSuccess /\ value' = GivenBack
        /\ running' = NoTask
        /\ UNCHANGED <<pendingTask0, pendingTasks, place, sleeps, missed>>
    BY <1>13 DEF GiveUp, Yielded
  <2>2. Due' = GivenBack
    BY <2>1 DEF Due
  <2>3. CASE valOnEntry = 0
    <3>1. Due' = 0
      BY <2>1, <2>2, <2>3 DEF GivenBack, CallInv
    <3> QED BY <3>1, ReadyFinite DEF UnitsCovered
  <2>4. CASE valOnEntry > 0
    <3>1. Due' = Due
      BY <1>a, <2>1, <2>2, <2>4 DEF GivenBack, CallInv, Due
    <3>2. Exposed' => Exposed
      BY <1>d, <2>1 DEF Exposed, OthersQueued
    <3>3. \A t \in Tasks : t \in Ready => t \in Ready'
      BY <1>a, <2>1 DEF Ready
    <3> QED BY <1>a, <1>b, <2>1, <3>1, <3>2, <3>3, CoveredStays
  <2> QED BY <1>a, <2>3, <2>4
<1>14. CASE GiveBack
  <2>1. /\ running \in Tasks /\ ~sleeps[running] /\ PostEffect
        /\ step = "user" /\ step' = "user" /\ UNCHANGED <<running, pendingTasks>>
        /\ \A t \in Tasks : t # running => place'[t] = place[t]
    BY <1>14 DEF GiveBack, TypeOK, AwakeInv
  <2> QED BY <1>a, <2>1, PostCovers
<1>15. CASE UseUp
  <2>1. /\ step = "user" /\ step' = "user"
        /\ UNCHANGED <<value, running, pendingTask0, pendingTasks, sleeps, missed>>
        /\ \A t \in Tasks : t # running => place'[t] = place[t]
    BY <1>15 DEF UseUp, sema, sched, TypeOK
  <2>2. Due' <= Due
    BY <1>a, <2>1 DEF Due
  <2>3. Exposed' => Exposed
    BY <1>d, <2>1 DEF Exposed, OthersQueued
  <2> QED BY <1>d, <1>f, <1>g, <2>1, <2>2, <2>3
<1>16. CASE Yield
  <2>1. /\ step = "user" /\ step' = "user" /\ running \in Tasks /\ running' = NoTask
        /\ UNCHANGED <<value, pendingTask0, pendingTasks, place, sleeps, missed>>
        /\ ~sleeps[running]
    BY <1>16 DEF Yield, Yielded, sema, TypeOK, AwakeInv
  <2>2. Due' <= Due
    BY <1>a, <2>1 DEF Due
  <2>3. Exposed' => Exposed
    BY <1>c, <1>d, <2>1 DEF Exposed, OthersQueued
  <2>4. \A t \in Tasks : t \in Ready => t \in Ready'
    BY <1>a, <2>1 DEF Ready
  <2> QED BY <1>a, <1>b, <2>1, <2>2, <2>3, <2>4, CoveredStays
<1>17. CASE LoopPost
  <2>1. /\ running = NoTask /\ PostEffect /\ step = "user" /\ step' = "user"
        /\ UNCHANGED <<running, pendingTasks, place>>
    BY <1>17, <1>a DEF LoopPost, WaitInv
  <2> QED BY <1>a, <2>1, PostCovers
<1>18. CASE InterruptPost
  BY <1>18 DEF InterruptPost
<1>19. CASE UNCHANGED vars
  BY <1>19 DEF vars, UnitsCovered, Exposed, OthersQueued, Queued, InQueue, Ready, Due,
              sema, sched, locals
<1> QED BY <1>1, <1>2, <1>3, <1>4, <1>5, <1>6, <1>7, <1>8, <1>9, <1>10, <1>11,
           <1>12, <1>13, <1>14, <1>15, <1>16, <1>17, <1>18, <1>19
        DEF Next, InWait

\* What is inductive, together.
WakeupInv ==
    /\ Known /\ OneUnit
    /\ SleepInv /\ CallInv /\ MutexInv
    /\ UnitsCovered

LEMMA WakeupInit == Init => WakeupInv
<1> SUFFICES ASSUME Init PROVE WakeupInv
  OBVIOUS
<1>1. NoTask \notin Tasks /\ \A t : ~InQueue(t)
  BY SemaphoreAssumption DEF Init, InQueue
<1>2. \A t \in Tasks : ~Queued(t)
  BY <1>1 DEF Init, Queued
<1>3. AwakeInv /\ LoopInv
  BY DEF Init, AwakeInv, LoopInv
<1>4. QueueInv
  BY <1>2 DEF Init, QueueInv, Places
<1>5. SleepInv /\ CallInv /\ MutexInv
  BY DEF Init, SleepInv, CallInv, MutexInv, Orphans
<1>6. UnitsCovered
  BY <1>2 DEF Init, UnitsCovered, Exposed, OthersQueued
<1> QED BY <1>3, <1>4, <1>5, <1>6, InitInv, InitOneUnit DEF Known, WakeupInv

LEMMA WakeupNext == WakeupInv /\ [Next]_vars => WakeupInv'
<1>1. Known /\ OneUnit /\ [Next]_vars => Known' /\ OneUnit'
  BY NextInv, NextAwake, NextQueue, NextLoop, NextOneUnit DEF Known
<1> QED BY <1>1, NextSleep, NextCall, NextMutex, NextCovered DEF WakeupInv

LEMMA WakeupAlways == Spec => []WakeupInv
BY WakeupInit, WakeupNext, PTL DEF Spec

\* With as many awake as there are units, and none awake, there is no unit.
LEMMA NotStranded ==
    ASSUME WakeupInv, use # "interrupt", ~missed
    PROVE  ~Stranded
<1> SUFFICES ASSUME Stranded PROVE FALSE
  OBVIOUS
<1> USE DEF WakeupInv, Known, Inv
<1>1. PICK t \in Tasks : place[t] = "waiting"
  BY DEF Stranded
<1>2. running = NoTask /\ value > 0 /\ sleeps[t] /\ NoTask \notin Tasks
  BY <1>1, SemaphoreAssumption DEF Stranded
<1>3. step = "user"
  BY <1>2 DEF WaitInv
<1>4. Exposed
  BY <1>1, <1>2, <1>3 DEF Exposed, OthersQueued, QueueInv
<1>5. Ready = {}
  BY DEF Ready, Stranded
<1>6. Cardinality(Ready) = 0
  BY <1>5, FS_EmptySet
<1>7. Due = value /\ value \in Nat
  BY <1>3 DEF Due, TypeOK
<1> QED BY <1>2, <1>4, <1>6, <1>7 DEF UnitsCovered

\* Whatever the number of tasks, the capacity of the queue and the order of the posts:
\* no task sleeps on a unit, unless a post was missed, which the mutex never does.
THEOREM NoWakeupLost == Spec => []NoLostWakeup
<1>1. WakeupInv => NoLostWakeup
  BY NotStranded DEF NoLostWakeup, WakeupInv, MutexInv
<1> QED BY <1>1, WakeupAlways, PTL

-----------------------------------------------------------------------------
(* Posts that are missed.                                                    *)

\* Units that are there while tasks are queued and nobody runs are those of tasks
\* awake: a post that finds pendingTask0 empty finds one of them.
LEMMA OrphansHaveReady ==
    ASSUME WakeupInv, use # "interrupt", ~missed, step = "user", Orphans,
           running = NoTask \/ place[running] = "inside"
    PROVE  \E t, u \in Tasks : /\ place[t] = "waiting" /\ ~sleeps[t]
                               /\ place[u] = "waiting" /\ sleeps[u]
<1> USE DEF WakeupInv, Known, Inv
<1> DEFINE u == pendingTasks[1]
<1>1. 1 \in Places /\ u \in Tasks
  BY DEF Orphans, Places, TypeOK
<1>2. InQueue(u) /\ place[u] = "waiting"
  BY <1>1 DEF QueueInv, Places, InQueue
<1>3. Queued(u) /\ sleeps[u]
  BY <1>1, <1>2 DEF QueueInv, Queued
<1>4. u # running
  BY <1>1, <1>2, SemaphoreAssumption
<1>5. Exposed
  BY <1>1, <1>3, <1>4 DEF Exposed, OthersQueued
<1>6. value > 0 /\ Due = value /\ value \in Nat
  BY DEF CallInv, Due, TypeOK
<1>7. Ready # {}
  BY <1>5, <1>6, FS_EmptySet DEF UnitsCovered
<1>8. PICK t \in Tasks : place[t] = "waiting" /\ ~sleeps[t]
  BY <1>7 DEF Ready
<1> QED BY <1>1, <1>2, <1>3, <1>8

\* A post of loop() or of a task is missed only while one task is awake in wait(), where
\* it will see the unit, and another asleep.
LEMMA MissingStep ==
    ASSUME WakeupInv, Next, ~missed, missed', use # "interrupt"
    PROVE  \E t, u \in Tasks : /\ place[t] = "waiting" /\ ~sleeps[t]
                               /\ place[u] = "waiting" /\ sleeps[u]
<1> USE DEF WakeupInv, Known, Inv
<1>1. PostEffect => Orphans
  BY DEF PostEffect, Orphans
<1>2. GiveBack \/ LoopPost
  BY Zenon DEF Next, InWait, Dispatch, DropEntry, Wait, Take, Enqueue, NoUnits, GoOn,
         SelfFirst, OwnTurn, WakeOther, LastOne, Succeed, GiveUp, UseUp, Yield,
         InterruptPost
<1>3. CASE GiveBack
  BY <1>1, <1>3, OrphansHaveReady DEF GiveBack
<1>4. CASE LoopPost
  <2>1. running = NoTask /\ Orphans
    BY <1>1, <1>4 DEF LoopPost
  <2>2. step = "user"
    BY <2>1, SemaphoreAssumption DEF WaitInv
  <2> QED BY <2>1, <2>2, OrphansHaveReady
<1> QED BY <1>2, <1>3, <1>4

\* For any number of tasks: the exception of NoLostWakeup takes two of them at once.
THEOREM MissesTakeTwo == Spec => MissesNeedTwo
<1>1. WakeupInv /\ [Next]_vars =>
        [~missed /\ missed' /\ use # "interrupt" =>
           \E t, u \in Tasks : /\ place[t] = "waiting" /\ ~sleeps[t]
                               /\ place[u] = "waiting" /\ sleeps[u]]_vars
  BY MissingStep
<1> QED BY <1>1, WakeupAlways, PTL DEF Spec, MissesNeedTwo

OneWaiter == \A t, u \in Tasks : t = u

OneWaiterInv == OneWaiter /\ use # "interrupt" => ~missed

\* valSema, taskSema and NorSema, which loop() posts and one task each waits for, never
\* leave that task asleep beside a unit, however often and early loop() posts.
THEOREM SingleWaiterServed ==
    Spec => [](OneWaiter /\ use # "interrupt" => ~Stranded)
<1>1. Init => OneWaiterInv
  BY DEF Init, OneWaiterInv
<1>2. WakeupInv /\ OneWaiterInv /\ [Next]_vars => OneWaiterInv'
  <2> SUFFICES ASSUME WakeupInv, OneWaiterInv, [Next]_vars, OneWaiter,
                      use # "interrupt", missed'
               PROVE  FALSE
    BY SameUse DEF OneWaiterInv, OneWaiter
  <2>1. ~missed
    BY DEF OneWaiterInv
  <2>2. Next
    BY <2>1 DEF vars
  <2>3. PICK t, u \in Tasks : ~sleeps[t] /\ sleeps[u]
    BY <2>1, <2>2, MissingStep
  <2> QED BY <2>3 DEF OneWaiter
<1>3. WakeupInv /\ OneWaiterInv => (OneWaiter /\ use # "interrupt" => ~Stranded)
  BY NotStranded DEF OneWaiterInv
<1> QED BY <1>1, <1>2, <1>3, WakeupAlways, PTL DEF Spec

=============================================================================
