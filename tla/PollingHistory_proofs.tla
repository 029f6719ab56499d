------------------------ MODULE PollingHistory_proofs ------------------------
(***************************************************************************)
(* The verdict of a polling cycle follows from what its two windows heard, *)
(* for every size of buffer, line and list and every interleaving.  What   *)
(* is inductive relates the flags msg and CAII, which SerialEvent keeps,   *)
(* to the history: msg speaks of the open window only, FAILURE of the      *)
(* trouble window of the same cycle, and a message heard without msg being *)
(* set means that the buffer is full, which lasts as long as the window.   *)
(* CarryInv adds which message of the buffer msg stands for.               *)
(***************************************************************************)
EXTENDS PollingHistory, SerialPolling_proofs

\* The trouble window is open, or over with the alarm window still to come.
BeforeAlarms ==
    Serial_F_Event \/ (~Open /\ pc4 \in {"failsYield", "failsWait", "alarmsLock"})

HistInv ==
    /\ Serial_F_Event /\ msg => heardT # {}
    /\ CAII = "FAILURE" => heardT # {}
    /\ BeforeAlarms => heardA = {}
    /\ Serial_A_Event /\ msg => heardA # {}
    /\ Serial_A_Event /\ heardA # {} /\ ~msg => ~HasRoom

\* What is known of SerialPolling.
Known == TypeOK /\ TokenInv /\ CycleInv

Heard ==
    /\ heardT' = IF CycleStarts THEN {}
                 ELSE IF Serial_F_Event THEN heardT \cup HeardNow ELSE heardT
    /\ heardA' = IF CycleStarts THEN {}
                 ELSE IF Serial_A_Event THEN heardA \cup HeardNow ELSE heardA

\* Nothing is heard unless a character is read.
LEMMA NothingHeard ==
    ASSUME TypeOK, rx' = rx
    PROVE  HeardNow = {}
<1>1. ASSUME rx # << >> PROVE Tail(rx) # rx
  <2>1. rx \in Seq(Char)
    BY DEF TypeOK
  <2>2. Len(Tail(rx)) # Len(rx)
    BY <1>1, <2>1
  <2> QED BY <2>2
<1> QED BY <1>1 DEF HeardNow

\* A step that neither reads, nor opens or closes a window, nor touches msg, CAII
\* and the buffer.
LEMMA Aside ==
    ASSUME Known, HistInv, Heard, UNCHANGED <<rx, windows, msg, CAII, Matriz>>,
           pc4' \in {"failsYield", "failsWait", "alarmsLock"} =>
               pc4 \in {"failsYield", "failsWait", "alarmsLock"}
    PROVE  HistInv'
<1>1. HeardNow = {}
  BY NothingHeard DEF Known
<1>2. ~CycleStarts /\ UNCHANGED <<Serial_F_Event, Serial_A_Event>>
  BY DEF CycleStarts, windows
<1>3. heardT' = heardT /\ heardA' = heardA
  BY <1>1, <1>2 DEF Heard
<1>4. BeforeAlarms' => BeforeAlarms
  BY <1>2 DEF BeforeAlarms, Open
<1>5. HasRoom' = HasRoom
  BY DEF HasRoom
<1> QED BY <1>2, <1>3, <1>4, <1>5 DEF HistInv

\* Reading the character that ends a message sets msg or finds the buffer full.
LEMMA HeardOrFull ==
    ASSUME NEW read \in Reads, lp = "serial", rx' = Unread(read)
    PROVE  /\ Stores(read) => HeardNow # {}
           /\ TypeOK /\ HeardNow # {} => Stores(read) \/ ~HasRoom
<1>1. read => rx # << >>
  BY DEF Reads
<1>2. ASSUME Stores(read) PROVE HeardNow # {}
  BY <1>1, <1>2 DEF Stores, Unread, HeardNow
<1>3. ASSUME TypeOK, HeardNow # {} PROVE Stores(read) \/ ~HasRoom
  <2>1. CASE read
    BY <1>3, <2>1 DEF HeardNow, Stores
  <2>2. CASE ~read
    BY <1>3, <2>2, NothingHeard DEF Unread
  <2> QED BY <2>1, <2>2
<1> QED BY <1>2, <1>3

LEMMA HistRequestFails ==
    ASSUME Known, HistInv, Heard, RequestFails
    PROVE  HistInv'
<1>1. ~Open
  BY DEF Known, TokenInv, TokenOwner, Task4Holds, RequestFails
<1>2. CycleStarts
  BY <1>1 DEF RequestFails, CycleStarts, Open
<1>3. heardT' = {} /\ heardA' = {}
  BY <1>2 DEF Heard
<1>4. msg' = FALSE
  BY <1>1 DEF Known, CycleInv, FreshWindow, RequestFails, bufVars
<1>5. CAII' # "FAILURE"
  BY <1>1 DEF Known, CycleInv, FailureEndsWithCycle, Phase, RequestFails, Open
<1>6. Serial_A_Event' = FALSE
  BY <1>1 DEF RequestFails, Open
<1> QED BY <1>3, <1>4, <1>5, <1>6 DEF HistInv

LEMMA HistRequestAlarms ==
    ASSUME Known, HistInv, Heard, RequestAlarms
    PROVE  HistInv'
<1>1. ~Open
  BY DEF Known, TokenInv, TokenOwner, Task4Holds, RequestAlarms
<1>2. ~CycleStarts /\ Serial_F_Event' = FALSE
  BY <1>1 DEF RequestAlarms, CycleStarts, Open
<1>3. heardT' = heardT /\ heardA' = heardA
  BY <1>1, <1>2 DEF Heard, Open
<1>4. heardA = {}
  BY <1>1 DEF HistInv, BeforeAlarms, RequestAlarms
<1>5. msg' = FALSE
  BY <1>1 DEF Known, CycleInv, FreshWindow, RequestAlarms, bufVars
<1>6. CAII' = CAII /\ ~BeforeAlarms'
  BY <1>2 DEF RequestAlarms, BeforeAlarms, Open
<1> QED BY <1>2, <1>3, <1>4, <1>5, <1>6 DEF HistInv

LEMMA HistListen ==
    ASSUME Known, HistInv, Heard, SerialListen
    PROVE  HistInv'
<1>1. /\ TRUE \in Reads /\ lp = "serial" /\ rx' = Unread(TRUE)
      /\ msg' = (msg \/ Stores(TRUE)) /\ Matriz' = Collected(TRUE)
      /\ UNCHANGED <<pc4, Serial_F_Event, Serial_A_Event, CAII>>
      /\ Open
  BY DEF SerialListen, Reads, taskVars, windows
<1>2. /\ Stores(TRUE) => HeardNow # {}
      /\ HeardNow # {} => Stores(TRUE) \/ ~HasRoom
  BY <1>1, HeardOrFull DEF Known
<1>3. /\ heardT' = IF Serial_F_Event THEN heardT \cup HeardNow ELSE heardT
      /\ heardA' = IF Serial_A_Event THEN heardA \cup HeardNow ELSE heardA
  BY <1>1 DEF Heard, CycleStarts
<1>4. ~(Serial_F_Event /\ Serial_A_Event)
  BY DEF Known, TokenInv, TokenOwner
<1>5. ~Stores(TRUE) => HasRoom' = HasRoom
  BY <1>1 DEF Collected, HasRoom
<1>6. Serial_F_Event' /\ msg' => heardT' # {}
  BY <1>1, <1>2, <1>3 DEF HistInv
<1>7. CAII' = "FAILURE" => heardT' # {}
  BY <1>1, <1>3 DEF HistInv
<1>8. BeforeAlarms' => heardA' = {}
  BY <1>1, <1>3, <1>4 DEF HistInv, BeforeAlarms, Open
<1>9. Serial_A_Event' /\ msg' => heardA' # {}
  BY <1>1, <1>2, <1>3 DEF HistInv
<1>10. Serial_A_Event' /\ heardA' # {} /\ ~msg' => ~HasRoom'
  BY <1>1, <1>2, <1>3, <1>5 DEF HistInv
<1> QED BY <1>6, <1>7, <1>8, <1>9, <1>10 DEF HistInv

LEMMA HistDiscard ==
    ASSUME Known, HistInv, Heard, SerialDiscard
    PROVE  HistInv'
<1>1. /\ ~Serial_F_Event /\ ~Serial_A_Event
      /\ UNCHANGED <<pc4, Serial_F_Event, Serial_A_Event, CAII>>
  BY DEF SerialDiscard, Open, taskVars, windows
<1>2. heardT' = heardT /\ heardA' = heardA
  BY <1>1 DEF Heard, CycleStarts
<1>3. BeforeAlarms' => BeforeAlarms
  BY <1>1 DEF BeforeAlarms, Open
<1> QED BY <1>1, <1>2, <1>3 DEF HistInv

LEMMA HistCloseFails ==
    ASSUME Known, HistInv, Heard, CloseFails
    PROVE  HistInv'
<1>1. PICK read \in Reads : CloseWindow(read) /\ CAII' = AfterFails(msg \/ Stores(read))
  BY DEF CloseFails
<1>2. /\ lp = "serial" /\ Serial_F_Event /\ ~Serial_A_Event
      /\ ~Serial_F_Event' /\ ~Serial_A_Event'
  BY DEF CloseFails, Known, TokenInv, TokenOwner
<1>3. Stores(read) => HeardNow # {}
  BY <1>1, <1>2, HeardOrFull DEF CloseWindow
<1>4. heardT' = heardT \cup HeardNow /\ heardA' = heardA
  BY <1>2 DEF Heard, CycleStarts
<1>5. heardA = {}
  BY <1>2 DEF HistInv, BeforeAlarms
<1>6. CAII' = "FAILURE" => heardT' # {}
  BY <1>1, <1>2, <1>3, <1>4 DEF AfterFails, HistInv
<1> QED BY <1>2, <1>4, <1>5, <1>6 DEF HistInv

LEMMA HistCloseAlarms ==
    ASSUME Known, HistInv, Heard, CloseAlarms
    PROVE  HistInv'
<1>1. CAII' # "FAILURE"
  BY DEF CloseAlarms, AfterAlarms
<1>2. ~Serial_F_Event' /\ ~Serial_A_Event'
  BY DEF CloseAlarms
<1>3. pc4' \in {"alarmsYield", "alarmsWait"}
  BY DEF CloseAlarms, Known, TokenInv, WaitsForWindow
<1>4. ~BeforeAlarms'
  BY <1>2, <1>3 DEF BeforeAlarms
<1> QED BY <1>1, <1>2, <1>4 DEF HistInv

LEMMA HistUpload ==
    ASSUME Known, HistInv, Heard, Upload
    PROVE  HistInv'
<1>1. ~Serial_A_Event
  BY DEF Known, CycleInv, UploadBeforeAlarms, Phase, Upload, TokenInv, TokenOwner
<1>2. /\ rx' = rx
      /\ UNCHANGED <<pc4, Serial_F_Event, Serial_A_Event, msg, CAII>>
  BY DEF Upload, taskVars, windows
<1>3. HeardNow = {}
  BY <1>2, NothingHeard DEF Known
<1>4. heardT' = heardT /\ heardA' = heardA
  BY <1>2, <1>3 DEF Heard, CycleStarts
<1>5. BeforeAlarms' => BeforeAlarms
  BY <1>2 DEF BeforeAlarms, Open
<1> QED BY <1>1, <1>2, <1>4, <1>5 DEF HistInv

LEMMA HistNextInv ==
    ASSUME Known, HistInv, [HistNext]_histVars
    PROVE  HistInv'
<1> USE DEF taskVars, windows, bufVars, powerVars, panel
<1>1. CASE UNCHANGED histVars
  BY <1>1 DEF histVars, vars, HistInv, BeforeAlarms, Open, HasRoom
<1>2. CASE HistNext
  <2>0. Heard
    BY <1>2 DEF HistNext, Heard
  <2>1. CASE TakeTurn \/ TestFails \/ FailsDone \/ TestAlarms \/ AlarmsDone \/ PassTurn
    BY <2>0, <2>1, Aside
    DEF TakeTurn, TestFails, FailsDone, TestAlarms, AlarmsDone, PassTurn
  <2>2. CASE RequestFails
    BY <2>0, <2>2, HistRequestFails
  <2>3. CASE RequestAlarms
    BY <2>0, <2>3, HistRequestAlarms
  <2>4. CASE SerialListen
    BY <2>0, <2>4, HistListen
  <2>5. CASE SerialDiscard
    BY <2>0, <2>5, HistDiscard
  <2>6. CASE SerialIdle \/ WakeWiFi \/ Repair
    BY <2>0, <2>6, Aside DEF SerialIdle, WakeWiFi, Repair
  <2>7. CASE CloseFails
    BY <2>0, <2>7, HistCloseFails
  <2>8. CASE CloseAlarms
    BY <2>0, <2>8, HistCloseAlarms
  <2>9. CASE Upload
    BY <2>0, <2>9, HistUpload
  <2>10. ASSUME NEW ok \in BOOLEAN, Validate(ok) PROVE HistInv'
    BY <2>0, <2>10, Aside DEF Validate
  <2>11. CASE StartWatch \/ SwitchOff \/ SwitchedOff \/ TimeOut \/ PanelChange
    BY <2>0, <2>11, Aside DEF StartWatch, SwitchOff, SwitchedOff, TimeOut, PanelChange
  <2>12. CASE Restart
    BY <2>12 DEF Restart, HistInv, BeforeAlarms
  <2> QED
    BY <1>2, <2>1, <2>2, <2>3, <2>4, <2>5, <2>6, <2>7, <2>8, <2>9, <2>10, <2>11, <2>12
    DEF HistNext, Next, Task4, Loop, Environment
<1> QED BY <1>1, <1>2

-----------------------------------------------------------------------------

\* What VerdictSound says of the step that closes the alarm window.
Verdict ==
    CloseAlarms =>
        /\ CAII' = "BOTH" => heardT # {} /\ heardA' # {}
        /\ CAII' = "ALARM" => heardA' # {}
        /\ CAII' = "NORMAL" => heardA' = {} \/ ~HasRoom

LEMMA VerdictStep ==
    ASSUME Known, HistInv, HistNext
    PROVE  Verdict
<1> SUFFICES ASSUME CloseAlarms PROVE Verdict
  BY DEF Verdict
<1>1. PICK read \in Reads : CloseWindow(read) /\ CAII' = AfterAlarms(msg \/ Stores(read))
  BY DEF CloseAlarms
<1>2. lp = "serial" /\ Serial_A_Event /\ ~Serial_F_Event'
  BY DEF CloseAlarms
<1>3. /\ Stores(read) => HeardNow # {}
      /\ HeardNow # {} => Stores(read) \/ ~HasRoom
  BY <1>1, <1>2, HeardOrFull DEF CloseWindow, Known
<1>4. heardA' = heardA \cup HeardNow
  BY <1>2 DEF HistNext, CycleStarts
<1>5. msg \/ Stores(read) => heardA' # {}
  BY <1>2, <1>3, <1>4 DEF HistInv
<1>6. ~(msg \/ Stores(read)) => heardA' = {} \/ ~HasRoom
  BY <1>2, <1>3, <1>4 DEF HistInv
<1>7. CAII = "FAILURE" => heardT # {}
  BY DEF HistInv
<1> QED BY <1>1, <1>5, <1>6, <1>7 DEF Verdict, AfterAlarms

\* The state that SerialEvent derives at the end of a cycle is that of the messages
\* heard in its two windows: no message of another window or cycle, no cut line and
\* no interleaving with the other tasks makes it BOTH, ALARM or, with room in the
\* buffer, NORMAL.
THEOREM VerdictFollows == HistSpec => VerdictSound
<1>1. HistInit => Init /\ HistInv
  BY DEF HistInit, Init, HistInv, BeforeAlarms, Open
<1>2. [HistNext]_histVars => [Next]_vars
  BY DEF HistNext, histVars
<1>3. HistSpec => Spec
  BY <1>1, <1>2, PTL DEF HistSpec, Spec
<1>4. Known /\ HistInv /\ [HistNext]_histVars => HistInv'
  BY HistNextInv
<1>5. Known /\ HistInv /\ [HistNext]_histVars => [Verdict]_histVars
  BY VerdictStep
<1>6. [Verdict]_histVars =>
        [CloseAlarms =>
            /\ CAII' = "BOTH" => heardT # {} /\ heardA' # {}
            /\ CAII' = "ALARM" => heardA' # {}
            /\ CAII' = "NORMAL" => heardA' = {} \/ ~HasRoom]_histVars
  BY DEF Verdict
<1>7. TypeOK /\ TokenInv /\ CycleInv => Known
  BY DEF Known
<1> QED
  BY <1>1, <1>3, <1>4, <1>5, <1>6, <1>7, TypeCorrect, TokenAlways, CycleAlways, PTL
  DEF HistSpec, VerdictSound

-----------------------------------------------------------------------------
(* What an alarm carries.                                                    *)

\* While the alarm window is open, msg means that the last message of the buffer was
\* heard in it.
CarryInv == Serial_A_Event /\ msg => Matriz # << >> /\ Matriz[Len(Matriz)] \in heardA

\* Storing a message puts what has just been heard at the end of the buffer.
LEMMA StoredLast ==
    ASSUME NEW read \in Reads, TypeOK, lp = "serial", rx' = Unread(read),
           Matriz' = Collected(read), Stores(read)
    PROVE  Matriz' # << >> /\ Matriz'[Len(Matriz')] \in HeardNow
<1>1. /\ read /\ rx # << >> /\ rx \in Seq(Char) /\ Ends(Head(rx))
      /\ Matriz \in Seq(Lists)
  BY DEF Reads, Stores, TypeOK
<1>2. Head(rx).of \in Lists
  <2>1. Head(rx) \in Char
    BY <1>1
  <2> QED BY <2>1 DEF Char
<1>3. HeardNow = {Head(rx).of}
  BY <1>1 DEF HeardNow, Unread
<1>4. Matriz' = Append(Matriz, Head(rx).of)
  BY DEF Collected
<1>5. \A s \in Seq(Lists), e \in Lists :
        LET t == Append(s, e) IN t # << >> /\ t[Len(t)] = e
  OBVIOUS
<1> QED BY <1>1, <1>2, <1>3, <1>4, <1>5

\* A step of SerialEvent that reads in the alarm window: the last message stays one
\* of the window, or is the one it ends.
LEMMA CarryRead ==
    ASSUME Known, CarryInv, Heard, NEW read \in Reads, Serial_A_Event, lp = "serial",
           Serial_F_Event' = Serial_F_Event, rx' = Unread(read), Matriz' = Collected(read), msg \/ Stores(read)
    PROVE  Matriz' # << >> /\ Matriz'[Len(Matriz')] \in heardA'
<1>1. heardA' = heardA \cup HeardNow
  BY DEF Heard, CycleStarts
<1>2. CASE Stores(read)
  BY <1>1, <1>2, StoredLast DEF Known
<1>3. CASE ~Stores(read)
  BY <1>1, <1>3 DEF Collected, CarryInv
<1> QED BY <1>2, <1>3

LEMMA CarryNext ==
    ASSUME Known, CarryInv, [HistNext]_histVars
    PROVE  CarryInv'
<1> USE DEF taskVars, windows, bufVars, powerVars, panel
<1>1. CASE UNCHANGED histVars
  BY <1>1 DEF histVars, vars, CarryInv
<1>2. CASE HistNext
  <2>0. Heard
    BY <1>2 DEF HistNext, Heard
  <2>1. ASSUME UNCHANGED <<rx, windows, msg, Matriz>> PROVE CarryInv'
    <3>1. HeardNow = {}
      BY <2>1, NothingHeard DEF Known
    <3>2. heardA' = heardA
      BY <2>0, <2>1, <3>1 DEF Heard, CycleStarts
    <3> QED BY <2>1, <3>2 DEF CarryInv
  <2>2. ASSUME ~msg' \/ ~Serial_A_Event' PROVE CarryInv'
    BY <2>2 DEF CarryInv
  <2>3. CASE TakeTurn \/ TestFails \/ FailsDone \/ TestAlarms \/ AlarmsDone \/ PassTurn
    BY <2>1, <2>3 DEF TakeTurn, TestFails, FailsDone, TestAlarms, AlarmsDone, PassTurn
  <2>4. CASE RequestFails \/ RequestAlarms
    <3>1. ~Open
      BY <2>4 DEF Known, TokenInv, TokenOwner, Task4Holds, RequestFails, RequestAlarms
    <3>2. ~msg'
      BY <2>4, <3>1 DEF Known, CycleInv, FreshWindow, RequestFails, RequestAlarms
    <3> QED BY <2>2, <3>2
  <2>5. CASE SerialListen
    <3>1. /\ TRUE \in Reads /\ lp = "serial" /\ rx' = Unread(TRUE)
          /\ msg' = (msg \/ Stores(TRUE)) /\ Matriz' = Collected(TRUE)
          /\ UNCHANGED <<Serial_F_Event, Serial_A_Event>>
      BY <2>5 DEF SerialListen, Reads
    <3> QED BY <2>0, <3>1, CarryRead DEF CarryInv
  <2>6. CASE SerialDiscard
    <3>1. ~Serial_A_Event'
      BY <2>6 DEF SerialDiscard, Open
    <3> QED BY <2>2, <3>1
  <2>7. CASE CloseFails \/ CloseAlarms
    <3>1. ~msg'
      BY <2>7, CloseFailsEffect, CloseAlarmsEffect
    <3> QED BY <2>2, <3>1
  <2>8. CASE SerialIdle \/ WakeWiFi \/ Repair
    BY <2>1, <2>8 DEF SerialIdle, WakeWiFi, Repair
  <2>9. CASE Upload
    <3>1. ~Serial_A_Event'
      BY <2>9 DEF Known, CycleInv, UploadBeforeAlarms, Phase, Upload, TokenInv, TokenOwner
    <3> QED BY <2>2, <3>1
  <2>10. ASSUME NEW ok \in BOOLEAN, Validate(ok) PROVE CarryInv'
    BY <2>1, <2>10 DEF Validate
  <2>11. CASE StartWatch \/ SwitchOff \/ SwitchedOff \/ TimeOut \/ PanelChange
    BY <2>1, <2>11 DEF StartWatch, SwitchOff, SwitchedOff, TimeOut, PanelChange
  <2>12. CASE Restart
    BY <2>2, <2>12 DEF Restart
  <2> QED
    BY <1>2, <2>3, <2>4, <2>5, <2>6, <2>7, <2>8, <2>9, <2>10, <2>11, <2>12
    DEF HistNext, Next, Task4, Loop, Environment
<1> QED BY <1>1, <1>2

\* What AlarmCarried says of the step that closes the alarm window.
Carried ==
    CloseAlarms /\ CAII' # "NORMAL" =>
        Matriz' # << >> /\ Matriz'[Len(Matriz')] \in heardA'

LEMMA CarryStep ==
    ASSUME Known, CarryInv, HistNext
    PROVE  Carried
<1> SUFFICES ASSUME CloseAlarms, CAII' # "NORMAL"
             PROVE  Matriz' # << >> /\ Matriz'[Len(Matriz')] \in heardA'
  BY DEF Carried
<1>1. PICK read \in Reads : CloseWindow(read) /\ CAII' = AfterAlarms(msg \/ Stores(read))
  BY DEF CloseAlarms
<1>2. msg \/ Stores(read)
  BY <1>1 DEF AfterAlarms
<1>3. /\ lp = "serial" /\ Serial_A_Event /\ Serial_F_Event' = Serial_F_Event
      /\ rx' = Unread(read) /\ Matriz' = Collected(read)
  BY <1>1 DEF CloseAlarms, CloseWindow
<1>4. Heard
  BY DEF HistNext, Heard
<1> QED BY <1>2, <1>3, <1>4, CarryRead

\* An alarm is never reported on the strength of a message that is not in the buffer:
\* its last message is one that SerialEvent heard in the alarm window it has just closed.
THEOREM AlarmsCarried == HistSpec => AlarmCarried
<1>1. HistInit => Init /\ CarryInv
  BY DEF HistInit, Init, CarryInv
<1>2. [HistNext]_histVars => [Next]_vars
  BY DEF HistNext, histVars
<1>3. HistSpec => Spec
  BY <1>1, <1>2, PTL DEF HistSpec, Spec
<1>4. Known /\ CarryInv /\ [HistNext]_histVars => CarryInv'
  BY CarryNext
<1>5. Known /\ CarryInv /\ [HistNext]_histVars =>
        [CloseAlarms /\ CAII' # "NORMAL" =>
            Matriz' # << >> /\ Matriz'[Len(Matriz')] \in heardA']_histVars
  BY CarryStep DEF Carried
<1>6. TypeOK /\ TokenInv /\ CycleInv => Known
  BY DEF Known
<1> QED
  BY <1>1, <1>3, <1>4, <1>5, <1>6, TypeCorrect, TokenAlways, CycleAlways, PTL
  DEF HistSpec, AlarmCarried

-----------------------------------------------------------------------------
(* What is not reported.                                                     *)

\* What UnreportedOnlyWhenFull says of the step that closes the alarm window.
Reported ==
    CloseAlarms /\ heardA' # {} =>
        lp' \in {"wake", "upload"} \/ (wifi_down /\ ~HasRoom)

LEMMA ReportedStep ==
    ASSUME Known, HistInv, HistNext
    PROVE  Reported
<1> SUFFICES ASSUME CloseAlarms, heardA' # {}, lp' \notin {"wake", "upload"}
             PROVE  wifi_down /\ ~HasRoom
  BY DEF Reported
<1>1. wifi_down /\ CAII' = "NORMAL"
  BY DEF CloseAlarms, Report
<1>2. ~HasRoom
  BY <1>1, VerdictStep DEF Verdict
<1> QED BY <1>1, <1>2

\* Alarms heard in a window go unreported only with the radio off and the buffer full
\* of earlier messages: the case that AlarmsUploaded runs into is the only one.
THEOREM UnreportedOnlyThen == HistSpec => UnreportedOnlyWhenFull
<1>1. HistInit => Init /\ HistInv
  BY DEF HistInit, Init, HistInv, BeforeAlarms, Open
<1>2. [HistNext]_histVars => [Next]_vars
  BY DEF HistNext, histVars
<1>3. HistSpec => Spec
  BY <1>1, <1>2, PTL DEF HistSpec, Spec
<1>4. Known /\ HistInv /\ [HistNext]_histVars => HistInv'
  BY HistNextInv
<1>5. Known /\ HistInv /\ [HistNext]_histVars =>
        [CloseAlarms /\ heardA' # {} =>
            lp' \in {"wake", "upload"} \/ (wifi_down /\ ~HasRoom)]_histVars
  BY ReportedStep DEF Reported
<1>6. TypeOK /\ TokenInv /\ CycleInv => Known
  BY DEF Known
<1> QED
  BY <1>1, <1>3, <1>4, <1>5, <1>6, TypeCorrect, TokenAlways, CycleAlways, PTL
  DEF HistSpec, UnreportedOnlyWhenFull

=============================================================================
