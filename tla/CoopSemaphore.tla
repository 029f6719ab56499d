--------------------------- MODULE CoopSemaphore ---------------------------
(***************************************************************************)
(* The semaphore of the CoopTask library (CoopSemaphore.cpp) on the        *)
(* ESP8266, between its interrupt locks, with the sleeping, waking and     *)
(* scheduling of tasks it rests on (CoopTaskBase.cpp).  A task that waits  *)
(* joins the queue pendingTasks, whose first task is kept in pendingTask0, *)
(* the one place a post() looks at.                                        *)
(*                                                                         *)
(* Tasks are cooperative: only the running one executes, until it yields.  *)
(* loop() posts when no task runs; an interrupt posts at any moment.  The  *)
(* constructions of the firmware are the values of use:                    *)
(*   "mutex"      OLEDMutex: one unit, given back by its holder            *)
(*   "signal"     valSema, NorSema, taskSema: loop() posts as well         *)
(*   "interrupt"  what CoopSemaphore.h:27 allows besides                   *)
(*                                                                         *)
(* Left out, because the firmware never calls them: wait with a deadline,  *)
(* setval and try_wait.                                                    *)
(***************************************************************************)
EXTENDS Naturals, Sequences, FiniteSets

CONSTANTS
    Tasks,          \* the tasks that use the semaphore
    NoTask,         \* nullptr
    mutexPending,   \* capacity of pendingTasks of the mutex (10 in the code)
    signalPending,  \* capacity of pendingTasks otherwise (1 in the code)
    VALUEMAX,       \* bound: posts of loop() and of interrupts stop here
    ENTRYMAX        \* bound: so many scheduler entries of a task at most

ASSUME SemaphoreAssumption ==
    /\ IsFiniteSet(Tasks) /\ NoTask \notin Tasks
    /\ mutexPending \in Nat \ {0} /\ signalPending \in Nat \ {0}
    /\ VALUEMAX \in Nat /\ ENTRYMAX \in Nat

VARIABLES
    use,            \* how the application uses the semaphore
    value,          \* units in the semaphore
    pendingTask0,   \* the task the next post wakes
    pendingTasks,   \* the tasks behind it
    place,          \* per task: outside, inside wait(), or wait() returned
    sleeps,         \* per task: its sleep flag
    entries,        \* per task: its entries in the scheduler
    running,        \* the task that runs
    step,           \* where the running task is
    val, valOnEntry, fwd, selfFirst, selfSuccess,   \* locals of _wait
    missed          \* history: a post found tasks queued and pendingTask0 empty

sema   == <<value, pendingTask0, pendingTasks>>
sched  == <<sleeps, entries>>
locals == <<val, valOnEntry, fwd, selfFirst, selfSuccess>>
vars   == <<use, sema, place, sched, running, step, locals, missed>>

Uses == {"mutex", "signal", "interrupt"}

maxPending == IF use = "mutex" THEN mutexPending ELSE signalPending

Init ==
    /\ use \in Uses
    /\ value \in IF use = "mutex" THEN {1} ELSE {0, 1}
    /\ pendingTask0 = NoTask /\ pendingTasks = << >>
    /\ place = [t \in Tasks |-> "outside"]
    /\ sleeps = [t \in Tasks |-> FALSE]
    /\ entries = [t \in Tasks |-> 1]
    /\ running = NoTask /\ step = "user"
    /\ val = 0 /\ valOnEntry = 0
    /\ fwd = FALSE /\ selfFirst = FALSE /\ selfSuccess = FALSE
    /\ missed = FALSE

-----------------------------------------------------------------------------
(* The scheduler: run, rescheduleTask, runCoopTasks and scheduleTask.        *)

\* A task that is awake is run, by one of its entries or by loop(), which goes through
\* all tasks (runCoopTasks).  One that waits goes on in _wait after its yield.
Dispatch(t) ==
    /\ running = NoTask /\ ~sleeps[t]
    /\ running' = t
    /\ step' = IF place[t] = "waiting" THEN "take" ELSE "user"
    /\ selfFirst' = (place[t] = "waiting")
    /\ UNCHANGED <<use, sema, place, sched, val, valOnEntry, fwd,
                   selfSuccess, missed>>

\* An entry that finds t asleep is dropped.
DropEntry(t) ==
    /\ running = NoTask /\ entries[t] > 0 /\ sleeps[t]
    /\ entries' = [entries EXCEPT ![t] = @ - 1]
    /\ UNCHANGED <<use, sema, place, sleeps, running, step, locals, missed>>

\* Mutant: scheduleTask clears the flag before it looks at it.
ScheduleAwake(t) ==
    /\ entries' = entries
    /\ sleeps' = [sleeps EXCEPT ![t] = FALSE]

\* Mutant: scheduleTask(false), which leaves the flag alone.
ScheduleNoWakeup(t) ==
    /\ entries' = IF sleeps[t] THEN [entries EXCEPT ![t] = @ + 1] ELSE entries
    /\ sleeps' = sleeps

\* scheduleTask(true): a task that sleeps is woken and gets a new entry.
Schedule(t) ==
    /\ entries' = IF sleeps[t] THEN [entries EXCEPT ![t] = @ + 1] ELSE entries
    /\ sleeps' = [sleeps EXCEPT ![t] = FALSE]

\* rescheduleTask: the entry that ran the task is dropped if that is to sleep.
DropsAsleep == entries' = IF sleeps[running]
                          THEN [entries EXCEPT ![running] = @ - 1] ELSE entries

\* runCoopTasks calls run() itself: the entries of the task stay, asleep or not.
LoopReturns ==
    /\ sleeps[running] => entries[running] < ENTRYMAX
    /\ entries' = entries

\* The running task yields, to its entry or to loop(): which of them ran it matters
\* only now.
Yielded ==
    /\ running' = NoTask /\ step' = "user"
    /\ DropsAsleep \/ LoopReturns
    /\ sleeps' = sleeps

-----------------------------------------------------------------------------
(* _wait.                                                                    *)

\* The locals are gone.
Returned == /\ val' = 0 /\ valOnEntry' = 0
            /\ fwd' = FALSE /\ selfFirst' = FALSE /\ selfSuccess' = FALSE

Wait ==
    /\ running # NoTask /\ step = "user" /\ place[running] = "outside"
    /\ place' = [place EXCEPT ![running] = "waiting"]
    /\ step' = "take"
    /\ UNCHANGED <<use, sema, sched, running, locals, missed>>

\* Mutant: the unit is seen and not taken.
TakeKeeping ==
    /\ step = "take"
    /\ val' = value /\ valOnEntry' = value
    /\ value' = value
    /\ step' = "enqueue"
    /\ UNCHANGED <<use, pendingTask0, pendingTasks, place, sched, running,
                   fwd, selfFirst, selfSuccess, missed>>

\* Lines 57-72: one unit is taken, if there is one.
Take ==
    /\ step = "take"
    /\ val' = value /\ valOnEntry' = value
    /\ value' = IF value > 0 THEN value - 1 ELSE 0
    /\ step' = "enqueue"
    /\ UNCHANGED <<use, pendingTask0, pendingTasks, place, sched, running,
                   fwd, selfFirst, selfSuccess, missed>>

\* The running task joins the queue.
Joins == ~(selfFirst /\ valOnEntry > 0)

\* Mutant: one place too many.
HasPlaceOneMore == Len(pendingTasks) <= maxPending

\* The ring of circular_queue holds one less than its size, which is maxPending + 1.
HasPlace == Len(pendingTasks) < maxPending

\* Lines 74-88: it goes to sleep in the queue; if that is full it stays awake.
Enqueue ==
    /\ step = "enqueue"
    /\ pendingTasks' = IF Joins /\ HasPlace THEN Append(pendingTasks, running)
                       ELSE pendingTasks
    /\ sleeps' = IF Joins /\ HasPlace THEN [sleeps EXCEPT ![running] = TRUE]
                 ELSE sleeps
    /\ selfFirst' = (selfFirst \/ (Joins /\ ~HasPlace))
    /\ fwd' = (~selfFirst' /\ val > 0)
    /\ selfSuccess' = FALSE
    /\ step' = "iterate"
    /\ UNCHANGED <<use, value, pendingTask0, place, entries, running, val,
                   valOnEntry, missed>>

\* The queue is empty: this iteration is the last one.
Stop == pendingTasks = << >>

\* Mutant: the task in pendingTask0 is overwritten.
MovesUpAlways == ~Stop

\* Mutant: only a unit makes the first of the queue move up.
MovesUpForUnits == ~Stop /\ fwd

\* Lines 91-119: the first of the queue moves up, or pendingTask0 is emptied.
MovesUp == ~Stop /\ (fwd \/ pendingTask0 = NoTask)

Shift ==
    /\ pendingTasks' = IF MovesUp THEN Tail(pendingTasks) ELSE pendingTasks
    /\ pendingTask0' = IF MovesUp THEN Head(pendingTasks)
                       ELSE IF Stop /\ fwd THEN NoTask ELSE pendingTask0

\* Lines 150-155.
Advance ==
    /\ val' = IF Stop THEN val ELSE val - 1
    /\ fwd' = IF Stop THEN fwd ELSE val > 1
    /\ step' = IF Stop THEN "leave" ELSE "iterate"

\* Lines 120-123: there is nothing to hand out.
NoUnits ==
    /\ step = "iterate" /\ val = 0
    /\ Shift
    /\ step' = "leave"
    /\ UNCHANGED <<use, value, place, sched, running, locals, missed>>

\* pendingTask was nobody, or the running task that has its unit already.
Nobody == pendingTask0 \in IF selfSuccess THEN {NoTask, running} ELSE {NoTask}

\* Lines 124-127 and 138: the next iteration looks at the same unit.
GoOn ==
    /\ step = "iterate" /\ val > 0 /\ ~Stop
    /\ pendingTask0 = NoTask \/ (~selfFirst /\ Nobody)
    /\ Shift
    /\ UNCHANGED <<use, value, place, sched, running, step, locals, missed>>

\* Lines 128-133: a task that was woken for its unit takes it.
SelfFirst ==
    /\ step = "iterate" /\ val > 0 /\ selfFirst
    /\ pendingTask0 # NoTask \/ Stop
    /\ Shift
    /\ sleeps' = [sleeps EXCEPT ![running] = FALSE]
    /\ selfFirst' = FALSE /\ selfSuccess' = TRUE
    /\ Advance
    /\ UNCHANGED <<use, value, place, entries, running, valOnEntry, missed>>

\* Lines 140-144: it is the running task's turn.
OwnTurn ==
    /\ step = "iterate" /\ val > 0 /\ ~selfFirst
    /\ pendingTask0 = running /\ ~selfSuccess
    /\ Shift
    /\ sleeps' = [sleeps EXCEPT ![running] = FALSE]
    /\ place' = [place EXCEPT ![running] = "inside"]
    /\ step' = "user"
    /\ Returned
    /\ UNCHANGED <<use, value, entries, running, missed>>

\* Lines 146-149: it is another task's turn.
WakeOther ==
    /\ step = "iterate" /\ val > 0 /\ ~selfFirst
    /\ pendingTask0 \notin {NoTask, running}
    /\ Shift
    /\ Schedule(pendingTask0)
    /\ Advance
    /\ UNCHANGED <<use, value, place, running, valOnEntry, selfFirst,
                   selfSuccess, missed>>

\* Nobody is left to wake.
LastOne ==
    /\ step = "iterate" /\ val > 0 /\ ~selfFirst /\ Stop /\ Nobody
    /\ Shift
    /\ Advance
    /\ UNCHANGED <<use, value, place, sched, running, valOnEntry, selfFirst,
                   selfSuccess, missed>>

\* Lines 157-160.
Succeed ==
    /\ step = "leave" /\ selfSuccess
    /\ place' = [place EXCEPT ![running] = "inside"]
    /\ step' = "user"
    /\ Returned
    /\ UNCHANGED <<use, sema, sched, running, missed>>

\* Mutant: the unit taken is not returned.
GivenBackNot == value

\* Mutant: a unit is returned although none was taken.
GivenBackAlways == value + 1

\* The unit taken on entry is returned.
GivenBack == IF valOnEntry > 0 THEN value + 1 ELSE value

\* Lines 161-196: no unit for this task; it yields.  Of its locals only selfFirst
\* matters afterwards, and Dispatch sets it.
GiveUp ==
    /\ step = "leave" /\ ~selfSuccess
    /\ value' = GivenBack
    /\ Yielded
    /\ Returned
    /\ UNCHANGED <<use, pendingTask0, pendingTasks, place, missed>>

-----------------------------------------------------------------------------
(* post, and what tasks do besides.                                          *)

PostEffect ==
    /\ value' = value + 1
    /\ pendingTask0' = NoTask
    /\ IF pendingTask0 # NoTask THEN Schedule(pendingTask0) ELSE UNCHANGED sched
    /\ missed' = (missed \/ (pendingTask0 = NoTask /\ pendingTasks # << >>))

\* The task that holds a unit posts it.
GiveBack ==
    /\ running # NoTask /\ step = "user" /\ place[running] = "inside"
    /\ PostEffect
    /\ place' = [place EXCEPT ![running] = "outside"]
    /\ UNCHANGED <<use, pendingTasks, running, step, locals>>

\* The task goes on without giving it back.
UseUp ==
    /\ running # NoTask /\ step = "user" /\ place[running] = "inside"
    /\ use # "mutex"
    /\ place' = [place EXCEPT ![running] = "outside"]
    /\ UNCHANGED <<use, sema, sched, running, step, locals, missed>>

\* The task yields or delays outside of _wait.
Yield ==
    /\ running # NoTask /\ step = "user"
    /\ Yielded
    /\ UNCHANGED <<use, sema, place, locals, missed>>

LoopPost ==
    /\ use # "mutex" /\ running = NoTask /\ value < VALUEMAX
    /\ PostEffect
    /\ UNCHANGED <<use, pendingTasks, place, running, step, locals>>

InterruptPost ==
    /\ use = "interrupt" /\ value < VALUEMAX
    /\ pendingTask0 # NoTask => entries[pendingTask0] < ENTRYMAX
    /\ PostEffect
    /\ UNCHANGED <<use, pendingTasks, place, running, step, locals>>

InWait == \/ Take \/ Enqueue \/ NoUnits \/ GoOn \/ SelfFirst \/ OwnTurn
          \/ WakeOther \/ LastOne \/ Succeed \/ GiveUp

Next == \/ \E t \in Tasks : Dispatch(t) \/ DropEntry(t)
        \/ Wait \/ InWait \/ GiveBack \/ UseUp \/ Yield
        \/ LoopPost \/ InterruptPost

Spec == Init /\ [][Next]_vars

\* The scheduler calls every entry in turn; a task in _wait goes on to its yield,
\* and whoever holds the mutex gives it back.
Fairness ==
    /\ \A t \in Tasks : SF_vars(Dispatch(t))
    /\ WF_vars(InWait) /\ SF_vars(Yield)
    /\ \A t \in Tasks : SF_vars(GiveBack /\ running = t)

FairSpec == Spec /\ Fairness

-----------------------------------------------------------------------------
(* Properties.                                                               *)

InQueue(t) == \E i \in 1..Len(pendingTasks) : pendingTasks[i] = t

\* Every variable has its type; the queue stays within its capacity.
TypeOK ==
    /\ use \in Uses /\ value \in Nat
    /\ pendingTask0 \in Tasks \cup {NoTask}
    /\ pendingTasks \in Seq(Tasks) /\ Len(pendingTasks) <= maxPending
    /\ place \in [Tasks -> {"outside", "waiting", "inside"}]
    /\ sleeps \in [Tasks -> BOOLEAN] /\ entries \in [Tasks -> Nat]
    /\ running \in Tasks \cup {NoTask}
    /\ step \in {"user", "take", "enqueue", "iterate", "leave"}
    /\ val \in Nat /\ valOnEntry \in Nat
    /\ fwd \in BOOLEAN /\ selfFirst \in BOOLEAN /\ selfSuccess \in BOOLEAN
    /\ missed \in BOOLEAN

\* The running task has taken a unit in _wait and neither returned nor given it back.
InFlight == step \in {"enqueue", "iterate", "leave"} /\ valOnEntry > 0

\* At most one task is past the wait() of a mutex, although _wait takes the unit
\* out and puts it back while it decides whose turn it is.
MutualExclusion ==
    use = "mutex" => \A t, u \in Tasks :
        place[t] = "inside" /\ place[u] = "inside" => t = u

\* No task sleeps outside the queue, where no post would find it; and only tasks
\* inside wait() are queued, each once.
SleepersQueued ==
    /\ running = NoTask =>
        \A t \in Tasks : sleeps[t] => t = pendingTask0 \/ InQueue(t)
    /\ \A i \in 1..Len(pendingTasks) : /\ place[pendingTasks[i]] = "waiting"
                                      /\ pendingTasks[i] # pendingTask0
    /\ \A i, j \in 1..Len(pendingTasks) : pendingTasks[i] = pendingTasks[j] => i = j

\* There is a unit, and every task that waits is asleep.
Stranded ==
    /\ running = NoTask /\ value > 0
    /\ \E t \in Tasks : place[t] = "waiting"
    /\ \A t \in Tasks : place[t] = "waiting" => sleeps[t]

\* Units and sleeping tasks never meet: whoever takes a unit, or gives up one, leaves
\* a task awake that can take it.  The exception is a second post before the task
\* that the first one woke has run: it finds pendingTask0 empty and wakes nobody.
\* The holder of a mutex never meets it.  Posts from interrupts are excepted: one
\* that comes after Take has found no unit, but before Shift has moved the task into
\* pendingTask0, leaves it asleep beside the unit.
NoLostWakeup ==
    /\ use # "interrupt" /\ ~missed => ~Stranded
    /\ use = "mutex" => ~missed

\* The exception takes two tasks in wait(): the one that an earlier post woke, and that
\* has not run yet, and one asleep behind it.  A signal that one task waits for, as
\* valSema, taskSema and NorSema are, misses no post, however early loop() makes it.
MissesNeedTwo ==
    [][~missed /\ missed' /\ use # "interrupt" =>
        \E t, u \in Tasks : /\ place[t] = "waiting" /\ ~sleeps[t]
                            /\ place[u] = "waiting" /\ sleeps[u]]_vars

\* A task that is awake is never missing from the scheduler, whoever ran, woke or put it
\* to sleep in between: while loop() is kept in a network call, the entries alone run
\* the tasks.  They may be several, since those that loop() leaves behind are dropped
\* only when the scheduler meets them, and a post adds a new one.
AwakeScheduled ==
    \A t \in Tasks : ~sleeps[t] \/ t = running => entries[t] > 0

\* The units of the abstract semaphore and the tasks past their wait().
Available == value + (IF InFlight THEN 1 ELSE 0)
Holding   == {t \in Tasks : place[t] = "inside"}

Abstract == INSTANCE Semaphore WITH available <- Available, holding <- Holding

\* Each wait() that returns uses up one unit, whatever happens inside _wait.
RefinesSemaphore == Abstract!Spec

\* Units do not lie about while tasks wait: one of them gets past its wait().  Which
\* one is left open: a task that asks at the right moment may always be first.
UnitServed ==
    (use # "interrupt" /\ value > 0 /\ \E t \in Tasks : place[t] = "waiting")
        ~> (missed \/ \E t \in Tasks : place[t] = "inside")

=============================================================================
