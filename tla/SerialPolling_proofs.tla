------------------------ MODULE SerialPolling_proofs ------------------------
(***************************************************************************)
(* Proofs about SerialPolling for every value of its constants: its types, *)
(* the discipline of the polling token and of the semaphore that carries   *)
(* it, the invariants that rest on it, what an alarm that is shown comes   *)
(* with, and the refinement of PollCycle.                                  *)
(***************************************************************************)
EXTENDS SerialPolling, TLAPS

LEMMA AnswerType ==
    ASSUME NEW l \in Lists, NEW n \in Nat
    PROVE  Answer(l, n) \in Seq(Char)
<1>1. 2*n \in Nat
  OBVIOUS
<1>2. \A i \in 1..2*n : [of |-> l, eol |-> i % 2 = 0] \in Char
  BY DEF Char
<1>3. Answer(l, n) \in [1..2*n -> Char]
  BY <1>2, Zenon DEF Answer
<1> QED BY <1>1, <1>3, SMT

LEMMA FitType ==
    ASSUME NEW s \in Seq(Char)
    PROVE  Fit(s) \in Seq(Char)
BY SizesAssumption DEF Fit

LEMMA UnreadType ==
    ASSUME NEW read, rx \in Seq(Char), read => rx # << >>
    PROVE  Unread(read) \in Seq(Char)
BY DEF Unread

LEMMA CollectedType ==
    ASSUME NEW read, TypeOK, read => rx # << >>
    PROVE  Collected(read) \in Seq(Lists) /\ Len(Collected(read)) <= MAXMSGS
<1>1. CASE Stores(read)
  <2>1. Head(rx) \in Char
    <3>1. rx \in Seq(Char) /\ rx # << >>
      BY <1>1 DEF Stores, TypeOK
    <3> QED BY <3>1
  <2>3. Head(rx).of \in Lists
    BY <2>1 DEF Char
  <2>2. Len(Matriz) < MAXMSGS
    BY <1>1 DEF Stores, HasRoom
  <2> QED BY <1>1, <2>2, <2>3, SizesAssumption DEF Collected, TypeOK
<1>2. CASE ~Stores(read)
  BY <1>2 DEF Collected, TypeOK
<1> QED BY <1>1, <1>2

LEMMA BlocksType ==
    ASSUME NEW n \in Nat
    PROVE  Blocks(n) \in Nat
<1>1. JSON_NPACKET \in Nat /\ JSON_NPACKET > 0
  BY SizesAssumption
<1>2. \A a \in Nat, b \in Nat : b > 0 => a \div b \in Nat
  OBVIOUS
<1>3. n + JSON_NPACKET - 1 \in Nat
  BY <1>1
<1> QED BY <1>1, <1>2, <1>3 DEF Blocks

-----------------------------------------------------------------------------
(* Types.                                                                    *)

\* Each variable keeps its type, and Matriz stays within its MAXMSGS entries,
\* in every state of the polling core.
THEOREM TypeCorrect == Spec => []TypeOK
<1> USE DEF taskVars, windows, bufVars, powerVars, panel
<1>1. Init => TypeOK
  <2> SUFFICES ASSUME Init PROVE TypeOK
    OBVIOUS
  <2>1. Matriz \in Seq(Lists) /\ Len(Matriz) <= MAXMSGS /\ rx \in Seq(Char)
    BY SizesAssumption DEF Init
  <2>2. CAII \in States /\ NorSema \in 0..1 /\ taskSema \in Nat
    BY DEF Init, States
  <2> QED BY <2>1, <2>2 DEF Init, TypeOK
<1>2. TypeOK /\ [Next]_vars => TypeOK'
  <2> SUFFICES ASSUME TypeOK, [Next]_vars PROVE TypeOK'
    OBVIOUS
  <2>1. CASE TakeTurn
    BY <2>1 DEF TypeOK, TakeTurn
  <2>2. CASE RequestFails
    <3>1. "T" \in Lists /\ troubles \in Nat /\ rx \in Seq(Char)
      BY SizesAssumption DEF TypeOK, Lists
    <3>2. rx \o Answer("T", troubles) \in Seq(Char)
      BY <3>1, AnswerType
    <3>3. Fit(rx \o Answer("T", troubles)) \in Seq(Char)
      BY <3>2, FitType
    <3> QED BY <2>2, <3>3 DEF TypeOK, RequestFails
  <2>3. CASE TestFails
    BY <2>3 DEF TypeOK, TestFails
  <2>4. CASE FailsDone
    BY <2>4 DEF TypeOK, FailsDone
  <2>5. CASE RequestAlarms
    <3>1. "F" \in Lists /\ alarms \in Nat /\ rx \in Seq(Char)
      BY SizesAssumption DEF TypeOK, Lists
    <3>2. rx \o Answer("F", alarms) \in Seq(Char)
      BY <3>1, AnswerType
    <3>3. Fit(rx \o Answer("F", alarms)) \in Seq(Char)
      BY <3>2, FitType
    <3> QED BY <2>5, <3>3 DEF TypeOK, RequestAlarms
  <2>6. CASE TestAlarms
    BY <2>6 DEF TypeOK, TestAlarms
  <2>7. CASE AlarmsDone
    BY <2>7 DEF TypeOK, AlarmsDone
  <2>8. CASE PassTurn
    BY <2>8 DEF TypeOK, PassTurn
  <2>9. CASE SerialListen
    <3>1. /\ Collected(TRUE) \in Seq(Lists) /\ Len(Collected(TRUE)) <= MAXMSGS
          /\ Unread(TRUE) \in Seq(Char)
      BY <2>9, CollectedType, UnreadType DEF SerialListen, TypeOK
    <3>2. rx' \in Seq(Char) /\ Matriz' \in Seq(Lists) /\ Len(Matriz') <= MAXMSGS
      BY <2>9, <3>1 DEF SerialListen
    <3>3. inputString' \in Nat
      <4>1. inputString \in Nat
        BY DEF TypeOK
      <4>2. inputString' = 0 \/ inputString' = inputString + 1
        BY <2>9 DEF SerialListen
      <4> QED BY <4>1, <4>2
    <3>4. msg' \in BOOLEAN /\ lp' \in {"serial", "wake", "upload", "fix"}
      BY <2>9 DEF SerialListen, AfterSerial
    <3> QED BY <2>9, <3>2, <3>3, <3>4 DEF TypeOK, SerialListen
  <2>10. CASE SerialDiscard
    <3>1. Unread(TRUE) \in Seq(Char)
      BY <2>10, UnreadType DEF SerialDiscard, TypeOK
    <3> QED BY <2>10, <3>1 DEF TypeOK, SerialDiscard, AfterSerial, Unread
  <2>11. CASE SerialIdle
    BY <2>11 DEF TypeOK, SerialIdle, AfterSerial
  <2>12. CASE CloseFails
    <3>1. PICK read \in Reads :
            CloseWindow(read) /\ CAII' = AfterFails(msg \/ Stores(read))
      BY <2>12 DEF CloseFails
    <3>2. read => rx # << >>
      BY DEF Reads
    <3>3. /\ Collected(read) \in Seq(Lists) /\ Len(Collected(read)) <= MAXMSGS
          /\ Unread(read) \in Seq(Char)
      BY <3>2, CollectedType, UnreadType DEF TypeOK
    <3>4. CAII' \in States
      BY <3>1 DEF AfterFails, TypeOK, States
    <3>5. rx' \in Seq(Char) /\ Matriz' \in Seq(Lists) /\ Len(Matriz') <= MAXMSGS
      BY <3>1, <3>3 DEF CloseWindow
    <3>6. inputString' \in Nat /\ msg' \in BOOLEAN /\ taskSema' \in Nat
      <4>1. inputString' = 0 /\ msg' = FALSE /\ taskSema' = taskSema + 1
        BY <3>1, Zenon DEF CloseWindow
      <4>2. msg' \in BOOLEAN
        BY <4>1, Zenon
      <4>3. inputString' \in Nat /\ taskSema' \in Nat
        BY <4>1 DEF TypeOK
      <4> QED BY <4>2, <4>3
    <3>7. lp' \in {"serial", "wake", "upload", "fix"}
      BY <2>12 DEF CloseFails, AfterSerial
    <3> QED BY <2>12, <3>4, <3>5, <3>6, <3>7 DEF TypeOK, CloseFails
  <2>13. CASE CloseAlarms
    <3>1. PICK read \in Reads :
            CloseWindow(read) /\ CAII' = AfterAlarms(msg \/ Stores(read))
      BY <2>13 DEF CloseAlarms
    <3>2. read => rx # << >>
      BY DEF Reads
    <3>3. /\ Collected(read) \in Seq(Lists) /\ Len(Collected(read)) <= MAXMSGS
          /\ Unread(read) \in Seq(Char)
      BY <3>2, CollectedType, UnreadType DEF TypeOK
    <3>4. CAII' \in States
      BY <3>1 DEF AfterAlarms, TypeOK, States
    <3>5. rx' \in Seq(Char) /\ Matriz' \in Seq(Lists) /\ Len(Matriz') <= MAXMSGS
      BY <3>1, <3>3 DEF CloseWindow
    <3>6. inputString' \in Nat /\ msg' \in BOOLEAN /\ taskSema' \in Nat
      <4>1. inputString' = 0 /\ msg' = FALSE /\ taskSema' = taskSema + 1
        BY <3>1, Zenon DEF CloseWindow
      <4>2. msg' \in BOOLEAN
        BY <4>1, Zenon
      <4>3. inputString' \in Nat /\ taskSema' \in Nat
        BY <4>1 DEF TypeOK
      <4> QED BY <4>2, <4>3
    <3>7. lp' \in {"serial", "wake", "upload", "fix"}
      BY <2>13 DEF CloseAlarms, AfterSerial, Report
    <3> QED BY <2>13, <3>4, <3>5, <3>6, <3>7 DEF TypeOK, CloseAlarms
  <2>14. CASE WakeWiFi
    BY <2>14 DEF TypeOK, WakeWiFi
  <2>15. CASE Upload
    <3>1. Len(Matriz) \in Nat /\ Blocks(Len(Matriz)) \in Nat
      BY BlocksType DEF TypeOK
    <3>2. WiFi_Con' \in BOOLEAN
      BY <2>15 DEF Upload, TypeOK
    <3>3. Matriz' \in Seq(Lists) /\ Len(Matriz') <= MAXMSGS
      BY <2>15, SizesAssumption DEF Upload, Cleaned
    <3>4. NorSema' \in 0..1 /\ lp' \in {"serial", "wake", "upload", "fix"}
      BY <2>15 DEF Upload
    <3>5. N_uploads' \in Nat
      BY <2>15, <3>1 DEF Upload
    <3>6. UNCHANGED <<taskVars, taskToken, windows, inputString, msg, CAII,
                      wifi_down, pc3, rx, panel>>
      BY <2>15 DEF Upload
    <3> QED BY <3>2, <3>3, <3>4, <3>5, <3>6 DEF TypeOK
  <2>16. CASE Repair
    <3>1. WiFi_Con' \in BOOLEAN
      BY <2>16, Zenon DEF TypeOK, Repair
    <3> QED BY <2>16, <3>1 DEF TypeOK, Repair
  <2>17. ASSUME NEW ok \in BOOLEAN, Validate(ok) PROVE TypeOK'
    BY <2>17 DEF TypeOK, Validate
  <2>18. CASE StartWatch
    <3>1. NorSema' \in 0..1
      BY <2>18 DEF TypeOK, StartWatch
    <3> QED BY <2>18, <3>1 DEF TypeOK, StartWatch
  <2>19. CASE SwitchOff \/ SwitchedOff
    BY <2>19 DEF TypeOK, SwitchOff, SwitchedOff
  <2>20. CASE Restart
    <3>1. Matriz' \in Seq(Lists) /\ Len(Matriz') <= MAXMSGS /\ rx' \in Seq(Char)
      BY <2>20, SizesAssumption DEF Restart
    <3>2. CAII' \in States /\ NorSema' \in 0..1 /\ taskSema' \in Nat
      BY <2>20 DEF Restart, States
    <3> QED BY <2>20, <3>1, <3>2 DEF Restart, TypeOK
  <2>21. CASE TimeOut
    BY <2>21 DEF TypeOK, TimeOut
  <2>22. CASE PanelChange
    BY <2>22 DEF TypeOK, PanelChange
  <2>23. CASE UNCHANGED vars
    BY <2>23 DEF TypeOK, vars
  <2> QED
    BY <2>1, <2>2, <2>3, <2>4, <2>5, <2>6, <2>7, <2>8, <2>9, <2>10, <2>11,
       <2>12, <2>13, <2>14, <2>15, <2>16, <2>17, <2>18, <2>19, <2>20, <2>21,
       <2>22, <2>23
    DEF Next, Task4, Loop, Environment
<1> QED
  BY <1>1, <1>2, PTL DEF Spec

-----------------------------------------------------------------------------
(* The polling token.                                                        *)

\* TokenOwner and WaitsForWindow with what they rest on: the yield that follows
\* the opening of a window leaves it open, because SERIAL_TIME has not passed
\* then, and a cycle is only begun after the validation.
TokenInv ==
    /\ TokenOwner
    /\ WaitsForWindow
    /\ pc4 = "failsYield" => Serial_F_Event /\ ~elapsed
    /\ pc4 = "alarmsYield" => Serial_A_Event /\ ~elapsed
    /\ pc4 # "top" => taskToken = "SERIAL_REQ"

LEMMA CloseFailsEffect ==
    ASSUME CloseFails
    PROVE  /\ lp = "serial" /\ Serial_F_Event /\ elapsed
           /\ Serial_F_Event' = FALSE /\ lp' = AfterSerial
           /\ taskSema' = taskSema + 1 /\ inputString' = 0 /\ msg' = FALSE
           /\ CAII' \in {CAII, "FAILURE"}
           /\ UNCHANGED <<pc4, taskToken, elapsed, Serial_A_Event, WiFi_Con,
                          wifi_down, pc3, NorSema, N_uploads, panel>>
BY Zenon DEF CloseFails, CloseWindow, AfterFails, powerVars

LEMMA CloseAlarmsEffect ==
    ASSUME CloseAlarms
    PROVE  /\ lp = "serial" /\ Serial_A_Event /\ ~Serial_F_Event /\ elapsed
           /\ Serial_A_Event' = FALSE /\ lp' = Report(CAII')
           /\ taskSema' = taskSema + 1 /\ inputString' = 0 /\ msg' = FALSE
           /\ CAII' \in {"NORMAL", "ALARM", "BOTH"}
           /\ CAII' = "BOTH" => CAII = "FAILURE"
           /\ CAII' = "ALARM" => CAII # "FAILURE"
           /\ UNCHANGED <<pc4, taskToken, elapsed, Serial_F_Event, WiFi_Con,
                          wifi_down, pc3, NorSema, N_uploads, panel>>
<1>1. PICK m \in {msg \/ Stores(read) : read \in Reads} : CAII' = AfterAlarms(m)
  BY Zenon DEF CloseAlarms
<1>2. /\ CAII' \in {"NORMAL", "ALARM", "BOTH"}
      /\ CAII' = "BOTH" => CAII = "FAILURE"
      /\ CAII' = "ALARM" => CAII # "FAILURE"
  BY <1>1 DEF AfterAlarms
<1> QED BY <1>2, Zenon DEF CloseAlarms, CloseWindow, powerVars

LEMMA TokenInvInit == Init => TokenInv
BY DEF Init, TokenInv, TokenOwner, WaitsForWindow, Task4Holds, Open

LEMMA TokenInvNext == TypeOK /\ TokenInv /\ [Next]_vars => TokenInv'
<1> SUFFICES ASSUME TypeOK, TokenInv, [Next]_vars PROVE TokenInv'
  OBVIOUS
<1> USE DEF TokenInv, TokenOwner, WaitsForWindow, Task4Holds, Open,
            taskVars, windows, TypeOK
<1>1. CASE TakeTurn
  BY <1>1 DEF TakeTurn
<1>2. CASE RequestFails
  BY <1>2 DEF RequestFails
<1>3. CASE TestFails
  BY <1>3 DEF TestFails
<1>4. CASE FailsDone
  BY <1>4 DEF FailsDone
<1>5. CASE RequestAlarms
  BY <1>5 DEF RequestAlarms
<1>6. CASE TestAlarms
  BY <1>6 DEF TestAlarms
<1>7. CASE AlarmsDone
  BY <1>7 DEF AlarmsDone
<1>8. CASE PassTurn
  BY <1>8 DEF PassTurn
<1>9. CASE SerialListen
  BY <1>9 DEF SerialListen
<1>10. CASE SerialDiscard
  BY <1>10 DEF SerialDiscard
<1>11. CASE SerialIdle
  BY <1>11 DEF SerialIdle
<1>12. CASE CloseFails
  BY <1>12, CloseFailsEffect
<1>13. CASE CloseAlarms
  BY <1>13, CloseAlarmsEffect
<1>14. CASE WakeWiFi
  BY <1>14 DEF WakeWiFi
<1>15. CASE Upload
  BY <1>15 DEF Upload
<1>16. CASE Repair
  BY <1>16 DEF Repair
<1>17. ASSUME NEW ok \in BOOLEAN, Validate(ok) PROVE TokenInv'
  BY <1>17 DEF Validate
<1>18. CASE StartWatch
  BY <1>18 DEF StartWatch
<1>19. CASE SwitchOff \/ SwitchedOff
  BY <1>19 DEF SwitchOff, SwitchedOff
<1>20. CASE Restart
  BY <1>20 DEF Restart
<1>21. CASE TimeOut
  BY <1>21 DEF TimeOut
<1>22. CASE PanelChange
  BY <1>22 DEF PanelChange
<1>23. CASE UNCHANGED vars
  BY <1>23 DEF vars
<1> QED
  BY <1>1, <1>2, <1>3, <1>4, <1>5, <1>6, <1>7, <1>8, <1>9, <1>10,
   <1>11, <1>12, <1>13, <1>14, <1>15, <1>16, <1>17, <1>18, <1>19,
   <1>20, <1>21, <1>22, <1>23
  DEF Next, Task4, Loop, Environment

LEMMA TokenAlways == Spec => []TokenInv
BY TypeCorrect, TokenInvInit, TokenInvNext, PTL DEF Spec

\* The token of taskSema is never lost and never doubled, and at most one window is
\* open, whatever loop4 and SerialEvent do in between.
THEOREM OneToken == Spec => []TokenOwner
<1>1. TokenInv => TokenOwner
  BY DEF TokenInv
<1> QED BY <1>1, TokenAlways, PTL

\* loop4 stays at a window until SerialEvent has closed it.
THEOREM InStep == Spec => []WaitsForWindow
<1>1. TokenInv => WaitsForWindow
  BY DEF TokenInv
<1> QED BY <1>1, TokenAlways, PTL

-----------------------------------------------------------------------------
(* taskSema as the abstract semaphore.                                       *)

SemaStep == Restart \/ TaskSema!Next \/ UNCHANGED TaskSema!absVars

\* Steps that keep task 4 and the semaphore where they are.
LEMMA SemaAside == UNCHANGED <<pc4, taskSema>> => SemaStep
BY DEF SemaStep, TaskSema!absVars, Task4Holds

LEMMA SemaTaken ==
    ASSUME taskSema > 0, taskSema' = taskSema - 1, ~Task4Holds, Task4Holds'
    PROVE  SemaStep
BY DEF SemaStep, TaskSema!Next, TaskSema!Acquire

LEMMA SemaUsed ==
    ASSUME taskSema' = taskSema, Task4Holds, ~Task4Holds'
    PROVE  SemaStep
BY DEF SemaStep, TaskSema!Next, TaskSema!UseUp

LEMMA SemaPosted ==
    ASSUME taskSema' = taskSema + 1, pc4' = pc4
    PROVE  SemaStep
BY DEF SemaStep, TaskSema!Next, TaskSema!Post, Task4Holds

\* That a window is still open at the test behind its yield is what TokenInv adds.
LEMMA SemaNext == TypeOK /\ TokenInv /\ [Next]_vars => SemaStep
<1> SUFFICES ASSUME TypeOK, TokenInv, [Next]_vars PROVE SemaStep
  OBVIOUS
<1> USE DEF taskVars
<1>1. CASE TakeTurn
  BY <1>1, SemaTaken DEF TakeTurn, Task4Holds
<1>2. CASE RequestFails
  BY <1>2, SemaUsed DEF RequestFails, Task4Holds
<1>3. CASE TestFails
  <2>1. pc4 = "failsYield" /\ pc4' = "failsWait" /\ taskSema' = taskSema
    BY <1>3 DEF TestFails, TokenInv
  <2> QED BY <2>1 DEF SemaStep, TaskSema!absVars, Task4Holds
<1>4. CASE FailsDone
  BY <1>4, SemaTaken DEF FailsDone, TokenInv, Task4Holds
<1>5. CASE RequestAlarms
  BY <1>5, SemaUsed DEF RequestAlarms, Task4Holds
<1>6. CASE TestAlarms
  <2>1. pc4 = "alarmsYield" /\ pc4' = "alarmsWait" /\ taskSema' = taskSema
    BY <1>6 DEF TestAlarms, TokenInv
  <2> QED BY <2>1 DEF SemaStep, TaskSema!absVars, Task4Holds
<1>7. CASE AlarmsDone
  BY <1>7, SemaTaken DEF AlarmsDone, TokenInv, Task4Holds
<1>8. CASE PassTurn
  BY <1>8 DEF PassTurn, SemaStep, TaskSema!Next, TaskSema!GiveBack, Task4Holds
<1>9. CASE CloseFails \/ CloseAlarms
  BY <1>9, CloseFailsEffect, CloseAlarmsEffect, SemaPosted
<1>10. CASE Restart
  BY <1>10 DEF SemaStep
<1>11. CASE SerialListen \/ SerialDiscard \/ SerialIdle \/ WakeWiFi \/ Upload \/ Repair
  BY <1>11, SemaAside DEF SerialListen, SerialDiscard, SerialIdle, WakeWiFi, Upload,
     Repair
<1>12. ASSUME NEW ok \in BOOLEAN, Validate(ok) PROVE SemaStep
  BY <1>12, SemaAside DEF Validate
<1>13. CASE StartWatch \/ SwitchOff \/ SwitchedOff \/ TimeOut \/ PanelChange
  BY <1>13, SemaAside DEF StartWatch, SwitchOff, SwitchedOff, TimeOut, PanelChange
<1>14. CASE UNCHANGED vars
  BY <1>14, SemaAside DEF vars
<1> QED
  BY <1>1, <1>2, <1>3, <1>4, <1>5, <1>6, <1>7, <1>8, <1>9, <1>10, <1>11, <1>12, <1>13,
     <1>14
  DEF Next, Task4, Loop, Environment

\* The polling asks of taskSema what Semaphore promises, and CoopSemaphore keeps: task 4
\* moves on with a unit that it has waited for, in every interleaving with SerialEvent.
THEOREM PollingUsesSemaphore == Spec => UsesSemaphore
<1>1. TypeOK /\ TokenInv /\ [Next]_vars =>
        [Restart \/ TaskSema!Next]_(TaskSema!absVars)
  BY SemaNext DEF SemaStep
<1> QED BY <1>1, TypeCorrect, TokenAlways, PTL DEF Spec, UsesSemaphore

-----------------------------------------------------------------------------
(* What a cycle leaves behind.                                               *)

\* Inductive once the windows are known to open in turn (TokenInv); wifi_down tells
\* who may be at the radio.
CycleInv ==
    /\ FreshWindow
    /\ FailureEndsWithCycle
    /\ pc3 = "off" => ~wifi_down
    /\ lp = "wake" => wifi_down
    /\ UploadBeforeAlarms
    /\ LeftoverOnlyWhenDown

LEMMA CycleInvInit == Init => CycleInv
BY DEF Init, CycleInv, FreshWindow, FailureEndsWithCycle,
       UploadBeforeAlarms, LeftoverOnlyWhenDown, Phase, Open

LEMMA CycleInvNext ==
    TypeOK /\ TokenInv /\ CycleInv /\ [Next]_vars => CycleInv'
<1> SUFFICES ASSUME TypeOK, TokenInv, CycleInv, [Next]_vars PROVE CycleInv'
  OBVIOUS
<1> USE DEF CycleInv, FreshWindow, FailureEndsWithCycle,
            UploadBeforeAlarms, LeftoverOnlyWhenDown, Phase, Open,
            TokenInv, TokenOwner, WaitsForWindow, Task4Holds,
            taskVars, windows, bufVars, powerVars
<1>1. CASE TakeTurn
  BY <1>1 DEF TakeTurn
<1>2. CASE RequestFails
  BY <1>2 DEF RequestFails
<1>3. CASE TestFails
  BY <1>3 DEF TestFails
<1>4. CASE FailsDone
  BY <1>4 DEF FailsDone
<1>5. CASE RequestAlarms
  BY <1>5 DEF RequestAlarms
<1>6. CASE TestAlarms
  BY <1>6 DEF TestAlarms
<1>7. CASE AlarmsDone
  BY <1>7 DEF AlarmsDone
<1>8. CASE PassTurn
  BY <1>8 DEF PassTurn
<1>9. CASE SerialListen
  <2>1. /\ lp = "serial" /\ lp' \in {"serial", "fix"} /\ Open
        /\ UNCHANGED <<pc4, windows, CAII, wifi_down, pc3>>
    BY <1>9 DEF SerialListen, AfterSerial
  <2>2. Phase' = Phase /\ Phase # "quiet" /\ Open'
    BY <2>1
  <2> QED BY <2>1, <2>2
<1>10. CASE SerialDiscard
  BY <1>10 DEF SerialDiscard, AfterSerial
<1>11. CASE SerialIdle
  BY <1>11 DEF SerialIdle, AfterSerial
<1>12. CASE CloseFails
  BY <1>12, CloseFailsEffect DEF AfterSerial
<1>13. CASE CloseAlarms
  BY <1>13, CloseAlarmsEffect DEF Report, AfterSerial
<1>14. CASE WakeWiFi
  BY <1>14 DEF WakeWiFi
<1>15. CASE Upload
  BY <1>15 DEF Upload, Cleaned
<1>16. CASE Repair
  BY <1>16 DEF Repair
<1>17. ASSUME NEW ok \in BOOLEAN, Validate(ok)
      PROVE  CycleInv'
  BY <1>17 DEF Validate
<1>18. CASE StartWatch
  BY <1>18 DEF StartWatch
<1>19. CASE SwitchOff \/ SwitchedOff
  BY <1>19 DEF SwitchOff, SwitchedOff
<1>20. CASE Restart
  BY <1>20 DEF Restart
<1>21. CASE TimeOut
  BY <1>21 DEF TimeOut
<1>22. CASE PanelChange
  BY <1>22 DEF PanelChange
<1>23. CASE UNCHANGED vars
  BY <1>23 DEF vars
<1> QED
  BY <1>1, <1>2, <1>3, <1>4, <1>5, <1>6, <1>7, <1>8, <1>9, <1>10,
     <1>11, <1>12, <1>13, <1>14, <1>15, <1>16, <1>17, <1>18, <1>19,
     <1>20, <1>21, <1>22, <1>23
  DEF Next, Task4, Loop, Environment

LEMMA CycleAlways == Spec => []CycleInv
BY TypeCorrect, TokenAlways, CycleInvInit, CycleInvNext, PTL DEF Spec

\* SerialEvent leaves no half-read line and no message flag to the next window.
THEOREM WindowsFresh == Spec => []FreshWindow
<1>1. CycleInv => FreshWindow
  BY DEF CycleInv
<1> QED BY <1>1, CycleAlways, PTL

\* The FAILURE of a trouble window never outlives the alarm window of its cycle.
THEOREM FailureForgotten == Spec => []FailureEndsWithCycle
<1>1. CycleInv => FailureEndsWithCycle
  BY DEF CycleInv
<1> QED BY <1>1, CycleAlways, PTL

\* loop3's switching the radio off and SerialEvent's waking it never overlap.
THEOREM RadioOneAtATime == Spec => []RadioExclusive
<1>1. CycleInv => RadioExclusive
  BY DEF CycleInv, RadioExclusive
<1> QED BY <1>1, CycleAlways, PTL

\* Closing an alarm window leaves no alarm with the radio off and loop() not waking it.
LEMMA AlarmWakes == CloseAlarms => ~AlarmInTheDark'
BY CloseAlarmsEffect DEF AlarmInTheDark, Report

\* Steps that put out no radio, raise no alarm and end no waking.
LEMMA DarkBefore ==
    ASSUME wifi_down' = wifi_down, lp' # "wake" => lp # "wake",
           CAII' \in {CAII, "NORMAL", "FAILURE"}
    PROVE  AlarmInTheDark' => AlarmInTheDark
BY DEF AlarmInTheDark

LEMMA DarkNext ==
    ASSUME TypeOK, [Next]_vars, AlarmInTheDark'
    PROVE  AlarmInTheDark \/ SwitchedOff
<1>1. CASE Task4
  BY <1>1, DarkBefore DEF Task4, TakeTurn, RequestFails, TestFails, FailsDone,
     RequestAlarms, TestAlarms, AlarmsDone, PassTurn, powerVars
<1>2. CASE SerialListen \/ SerialDiscard \/ SerialIdle
  BY <1>2, DarkBefore DEF SerialListen, SerialDiscard, SerialIdle, powerVars
<1>3. CASE CloseFails
  BY <1>3, CloseFailsEffect, DarkBefore
<1>4. CASE CloseAlarms
  BY <1>4, AlarmWakes
<1>5. CASE WakeWiFi \/ Restart
  BY <1>5 DEF WakeWiFi, Restart, AlarmInTheDark
<1>6. CASE Upload \/ Repair
  BY <1>6, DarkBefore DEF Upload, Repair, powerVars
<1>7. ASSUME NEW ok \in BOOLEAN, Validate(ok) PROVE AlarmInTheDark
  BY <1>7, DarkBefore DEF Validate, powerVars
<1>8. CASE StartWatch \/ SwitchOff \/ TimeOut \/ PanelChange
  BY <1>8, DarkBefore DEF StartWatch, SwitchOff, TimeOut, PanelChange, powerVars
<1>9. CASE UNCHANGED vars
  BY <1>9, DarkBefore DEF vars, powerVars
<1> QED
  BY <1>1, <1>2, <1>3, <1>4, <1>5, <1>6, <1>7, <1>8, <1>9
  DEF Next, Loop, Environment

\* What leaves an alarm with the radio off is that loop3, overtaken by the alarm, sets
\* wifi_down late, never SerialEvent; and its next alarm window wakes the radio.
THEOREM AlarmAwake == Spec => AlarmKeepsWiFi
<1>1. TypeOK /\ [Next]_vars =>
        [AlarmInTheDark' => ~CloseAlarms /\ (AlarmInTheDark \/ SwitchedOff)]_vars
  BY AlarmWakes, DarkNext
<1> QED BY <1>1, TypeCorrect, PTL DEF Spec, AlarmKeepsWiFi

\* No upload runs into an alarm window, so none keeps loop() from reading alarms.
THEOREM UploadsOver == Spec => []UploadBeforeAlarms
<1>1. CycleInv => UploadBeforeAlarms
  BY DEF CycleInv
<1> QED BY <1>1, CycleAlways, PTL

\* Messages stay in Matriz beyond their cycle only while the radio is off.
THEOREM BufferEmptied == Spec => []LeftoverOnlyWhenDown
<1>1. CycleInv => LeftoverOnlyWhenDown
  BY DEF CycleInv
<1> QED BY <1>1, CycleAlways, PTL

-----------------------------------------------------------------------------
(* What is shown has been told.                                              *)

\* A message in the buffer takes a block.
LEMMA BlocksPositive ==
    ASSUME NEW n \in Nat, n > 0
    PROVE  Blocks(n) \in Nat /\ Blocks(n) > 0
<1>1. JSON_NPACKET \in Nat /\ JSON_NPACKET > 0
  BY SizesAssumption
<1>2. \A a \in Nat, b \in Nat : b > 0 /\ a >= b => a \div b \in Nat /\ a \div b > 0
  OBVIOUS
<1>3. n + JSON_NPACKET - 1 \in Nat /\ n + JSON_NPACKET - 1 >= JSON_NPACKET
  BY <1>1
<1> QED BY <1>1, <1>2, <1>3 DEF Blocks

\* Collecting loses no message, and one that is stored is in the buffer.
LEMMA CollectedKeeps ==
    ASSUME NEW read, TypeOK, read => rx # << >>
    PROVE  Matriz # << >> \/ Stores(read) => Collected(read) # << >>
<1>1. CASE Stores(read)
  <2>1. Len(Matriz) \in Nat /\ Len(Collected(read)) = Len(Matriz) + 1
    <3>1. rx \in Seq(Char) /\ rx # << >>
      BY <1>1 DEF Stores, TypeOK
    <3>2. Head(rx).of \in Lists
      <4>1. Head(rx) \in Char
        BY <3>1
      <4> QED BY <4>1 DEF Char
    <3> QED BY <1>1, <3>2 DEF Collected, TypeOK
  <2> QED BY <2>1
<1>2. CASE ~Stores(read)
  BY <1>2 DEF Collected
<1> QED BY <1>1, <1>2

\* AlarmTold with what it rests on: msg stands for a message in the buffer, and is
\* down while loop() reports, so that the upload empties no buffer behind its back.
TellInv ==
    /\ AlarmTold
    /\ msg => Matriz # << >>
    /\ lp \in {"wake", "upload"} => ~msg

\* A step that leaves the stage of loop() among those that report, or those that do not.
LEMMA TellSame ==
    ASSUME TellInv, UNCHANGED <<CAII, Matriz, msg, N_uploads>>,
           lp' \in {"wake", "upload"} <=> lp \in {"wake", "upload"}
    PROVE  TellInv'
BY DEF TellInv, AlarmTold

LEMMA TellListen ==
    ASSUME TypeOK, TellInv, SerialListen
    PROVE  TellInv'
<1>1. /\ lp = "serial" /\ rx # << >> /\ Matriz' = Collected(TRUE)
      /\ msg' = (msg \/ Stores(TRUE))
      /\ lp' \in {"serial", "fix"} /\ UNCHANGED <<CAII, N_uploads>>
  BY DEF SerialListen, AfterSerial
<1>2. msg' => Matriz' # << >>
  BY <1>1, CollectedKeeps DEF TellInv
<1> QED BY <1>1, <1>2 DEF TellInv, AlarmTold

LEMMA TellCloseAlarms ==
    ASSUME TypeOK, TellInv, CloseAlarms
    PROVE  TellInv'
<1>1. PICK read \in Reads :
        CloseWindow(read) /\ CAII' = AfterAlarms(msg \/ Stores(read))
  BY DEF CloseAlarms
<1>2. read => rx # << >>
  BY DEF Reads
<1>3. Matriz' = Collected(read) /\ msg' = FALSE
  BY <1>1 DEF CloseWindow
<1>4. CASE CAII' \in {"ALARM", "BOTH"}
  <2>1. msg \/ Stores(read)
    BY <1>1, <1>4 DEF AfterAlarms
  <2>2. Matriz' # << >>
    BY <1>2, <1>3, <2>1, CollectedKeeps DEF TellInv
  <2>3. lp' \in {"wake", "upload"}
    BY <1>4 DEF CloseAlarms, Report
  <2> QED BY <1>3, <2>2, <2>3 DEF TellInv, AlarmTold
<1>5. CASE CAII' \notin {"ALARM", "BOTH"}
  BY <1>3, <1>5 DEF TellInv, AlarmTold
<1> QED BY <1>4, <1>5

LEMMA TellUpload ==
    ASSUME TypeOK, TellInv, Upload
    PROVE  TellInv'
<1>1. /\ lp = "upload" /\ lp' \in {"serial", "fix"}
      /\ N_uploads' = Blocks(Len(Matriz)) /\ UNCHANGED <<CAII, msg>>
  BY DEF Upload
<1>2. ASSUME CAII' \in {"ALARM", "BOTH"} PROVE N_uploads' > 0
  <2>1. Matriz # << >>
    BY <1>1, <1>2 DEF TellInv, AlarmTold
  <2>2. Len(Matriz) \in Nat /\ Len(Matriz) > 0
    BY <2>1 DEF TypeOK
  <2> QED BY <1>1, <2>2, BlocksPositive
<1> QED BY <1>1, <1>2 DEF TellInv, AlarmTold

LEMMA TellNext == TypeOK /\ TellInv /\ [Next]_vars => TellInv'
<1> SUFFICES ASSUME TypeOK, TellInv, [Next]_vars PROVE TellInv'
  OBVIOUS
<1>1. CASE Task4
  BY <1>1, TellSame DEF Task4, TakeTurn, RequestFails, TestFails, FailsDone,
     RequestAlarms, TestAlarms, AlarmsDone, PassTurn, bufVars
<1>2. CASE SerialListen
  BY <1>2, TellListen
<1>3. CASE SerialDiscard \/ SerialIdle
  BY <1>3, TellSame DEF SerialDiscard, SerialIdle, AfterSerial, bufVars
<1>4. CASE CloseFails
  <2>1. /\ lp = "serial" /\ lp' \in {"serial", "fix"}
        /\ msg' = FALSE /\ CAII' \in {CAII, "FAILURE"} /\ N_uploads' = N_uploads
    BY <1>4, CloseFailsEffect DEF AfterSerial
  <2> QED BY <2>1 DEF TellInv, AlarmTold
<1>5. CASE CloseAlarms
  BY <1>5, TellCloseAlarms
<1>6. CASE WakeWiFi
  BY <1>6, TellSame DEF WakeWiFi, bufVars
<1>7. CASE Upload
  BY <1>7, TellUpload
<1>8. CASE Repair
  BY <1>8, TellSame DEF Repair, bufVars
<1>9. ASSUME NEW ok \in BOOLEAN, Validate(ok) PROVE TellInv'
  BY <1>9, TellSame DEF Validate, bufVars
<1>10. CASE Restart
  BY <1>10 DEF Restart, TellInv, AlarmTold
<1>11. CASE StartWatch \/ SwitchOff \/ SwitchedOff \/ TimeOut \/ PanelChange
  BY <1>11, TellSame DEF StartWatch, SwitchOff, SwitchedOff, TimeOut, PanelChange, bufVars
<1>12. CASE UNCHANGED vars
  BY <1>12, TellSame DEF vars, bufVars
<1> QED
  BY <1>1, <1>2, <1>3, <1>4, <1>5, <1>6, <1>7, <1>8, <1>9, <1>10, <1>11, <1>12
  DEF Next, Loop, Environment

LEMMA TellAlways == Spec => []TellInv
<1>1. Init => TellInv
  BY DEF Init, TellInv, AlarmTold
<1> QED BY <1>1, TellNext, TypeCorrect, PTL DEF Spec

\* No alarm is shown that loop() is not about to upload or has not made blocks of.
THEOREM AlarmsTold == Spec => []AlarmTold
<1>1. TellInv => AlarmTold
  BY DEF TellInv
<1> QED BY <1>1, TellAlways, PTL

-----------------------------------------------------------------------------
(* Refinement.                                                               *)

LEMMA CycleStep ==
    TypeOK /\ TokenInv /\ [Next]_vars => [Cycle!Next]_Cycle!vars
<1> SUFFICES ASSUME TypeOK, TokenInv, [Next]_vars
             PROVE  [Cycle!Next]_Cycle!vars
  OBVIOUS
<1> USE DEF Cycle!Next, Phase, Open,
            TokenInv, TokenOwner, WaitsForWindow, Task4Holds,
            taskVars, windows
<1>1. CASE TakeTurn
  <2>1. Phase' = Phase /\ CAII' = CAII
    BY <1>1 DEF TakeTurn
  <2> QED BY <2>1 DEF Cycle!vars
<1>2. CASE RequestFails
  <2>1. Phase = "quiet" /\ Phase' = "troubles" /\ CAII' = CAII
    BY <1>2 DEF RequestFails
  <2> QED BY <2>1 DEF Cycle!OpenTroubles
<1>3. CASE TestFails
  <2>1. Phase' = Phase /\ CAII' = CAII
    BY <1>3 DEF TestFails
  <2> QED BY <2>1 DEF Cycle!vars
<1>4. CASE FailsDone
  <2>1. Phase' = Phase /\ CAII' = CAII
    BY <1>4 DEF FailsDone
  <2> QED BY <2>1 DEF Cycle!vars
<1>5. CASE RequestAlarms
  <2>1. Phase = "between" /\ Phase' = "alarms" /\ CAII' = CAII
    BY <1>5 DEF RequestAlarms
  <2> QED BY <2>1 DEF Cycle!OpenAlarms
<1>6. CASE TestAlarms
  <2>1. Phase' = Phase /\ CAII' = CAII
    BY <1>6 DEF TestAlarms
  <2> QED BY <2>1 DEF Cycle!vars
<1>7. CASE AlarmsDone
  <2>1. Phase' = Phase /\ CAII' = CAII
    BY <1>7 DEF AlarmsDone
  <2> QED BY <2>1 DEF Cycle!vars
<1>8. CASE PassTurn
  <2>1. Phase' = Phase /\ CAII' = CAII
    BY <1>8 DEF PassTurn
  <2> QED BY <2>1 DEF Cycle!vars
<1>9. CASE SerialListen
  <2>1. Phase' = Phase /\ CAII' = CAII
    BY <1>9 DEF SerialListen
  <2> QED BY <2>1 DEF Cycle!vars
<1>10. CASE SerialDiscard
  <2>1. Phase' = Phase /\ CAII' = CAII
    BY <1>10 DEF SerialDiscard
  <2> QED BY <2>1 DEF Cycle!vars
<1>11. CASE SerialIdle
  <2>1. Phase' = Phase /\ CAII' = CAII
    BY <1>11 DEF SerialIdle
  <2> QED BY <2>1 DEF Cycle!vars
<1>12. CASE CloseFails
  <2>1. Phase = "troubles" /\ Phase' = "between" /\ CAII' \in {CAII, "FAILURE"}
    BY <1>12, CloseFailsEffect
  <2> QED BY <2>1 DEF Cycle!CloseTroubles
<1>13. CASE CloseAlarms
  <2>1. Phase = "alarms" /\ Phase' = "quiet"
    BY <1>13, CloseAlarmsEffect
  <2>2. CAII' \in {"NORMAL", IF CAII = "FAILURE" THEN "BOTH" ELSE "ALARM"}
    BY <1>13, CloseAlarmsEffect
  <2> QED BY <2>1, <2>2 DEF Cycle!CloseAlarms
<1>14. CASE WakeWiFi
  <2>1. Phase' = Phase /\ CAII' = CAII
    BY <1>14 DEF WakeWiFi
  <2> QED BY <2>1 DEF Cycle!vars
<1>15. CASE Upload
  <2>1. Phase' = Phase /\ CAII' = CAII
    BY <1>15 DEF Upload
  <2> QED BY <2>1 DEF Cycle!vars
<1>16. CASE Repair
  <2>1. Phase' = Phase /\ CAII' = CAII
    BY <1>16 DEF Repair
  <2> QED BY <2>1 DEF Cycle!vars
<1>17. ASSUME NEW ok \in BOOLEAN, Validate(ok)
      PROVE  [Cycle!Next]_Cycle!vars
  <2>1. Phase' = Phase /\ CAII' = CAII
    BY <1>17 DEF Validate
  <2> QED BY <2>1 DEF Cycle!vars
<1>18. CASE StartWatch
  <2>1. Phase' = Phase /\ CAII' = CAII
    BY <1>18 DEF StartWatch
  <2> QED BY <2>1 DEF Cycle!vars
<1>19. CASE SwitchOff \/ SwitchedOff
  <2>1. Phase' = Phase /\ CAII' = CAII
    BY <1>19 DEF SwitchOff, SwitchedOff
  <2> QED BY <2>1 DEF Cycle!vars
<1>20. CASE Restart
  <2>1. Phase' = "quiet" /\ CAII' = "NORMAL"
    BY <1>20 DEF Restart
  <2> QED BY <2>1 DEF Cycle!Reset
<1>21. CASE TimeOut
  <2>1. Phase' = Phase /\ CAII' = CAII
    BY <1>21 DEF TimeOut
  <2> QED BY <2>1 DEF Cycle!vars
<1>22. CASE PanelChange
  <2>1. Phase' = Phase /\ CAII' = CAII
    BY <1>22 DEF PanelChange
  <2> QED BY <2>1 DEF Cycle!vars
<1>23. CASE UNCHANGED vars
  <2>1. Phase' = Phase /\ CAII' = CAII
    BY <1>23 DEF vars
  <2> QED BY <2>1 DEF Cycle!vars
<1> QED
  BY <1>1, <1>2, <1>3, <1>4, <1>5, <1>6, <1>7, <1>8, <1>9, <1>10,
     <1>11, <1>12, <1>13, <1>14, <1>15, <1>16, <1>17, <1>18, <1>19,
     <1>20, <1>21, <1>22, <1>23
  DEF Next, Task4, Loop, Environment

\* Whatever the panel, the network and the resets do, the windows open and close
\* strictly in turn and CAII changes only as PollCycle allows.
THEOREM Refinement == Spec => RefinesPollCycle
<1>1. Init => Cycle!Init
  BY DEF Init, Cycle!Init, Phase, Open
<1> QED
  BY <1>1, TypeCorrect, TokenAlways, CycleStep, PTL
  DEF Spec, RefinesPollCycle, Cycle!Spec

=============================================================================
