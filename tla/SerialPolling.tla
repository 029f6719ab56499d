--------------------------- MODULE SerialPolling ---------------------------
(***************************************************************************)
(* The polling core of the monitor (src/src/main.cpp): task 4 (loop4) asks *)
(* the fire panel for its trouble list and then for its alarm list, and    *)
(* SerialEvent, called from loop(), collects each answer during a window   *)
(* of SERIAL_TIME, derives the panel state CAII, wakes the WiFi and        *)
(* uploads.  Task 3 (loop3) switches the WiFi off when the panel is quiet. *)
(*                                                                         *)
(* The five contexts (loop and four CoopTasks) are cooperative: code runs  *)
(* undisturbed from one yield, delay, semaphore wait, mutex lock or        *)
(* network call to the next, so one action is one such slice.  While loop  *)
(* is inside a network call (lp # "serial") the tasks go on running.       *)
(*                                                                         *)
(* Abstracted: time (elapsed stands for millis() - time2 >= SERIAL_TIME),  *)
(* the text of a message (only the list it belongs to is kept), the        *)
(* network (each call ends with either result), task 1 and Fix_Firebase    *)
(* up to their effect on WiFi_Con and taskToken.                           *)
(***************************************************************************)
EXTENDS Naturals, Sequences

CONSTANTS
    MAXMSGS,        \* entries of Matriz (11 in the code)
    MAXMSGLENGTH,   \* characters after which a line is cut (100 in the code)
    JSON_NPACKET,   \* messages per uploaded block (5 in the code)
    RXSIZE,         \* characters the serial line and its buffer hold
    MAXTROUBLES,    \* longest trouble list of the panel
    MAXALARMS       \* longest alarm list of the panel

ASSUME SizesAssumption ==
    /\ MAXMSGS \in Nat \ {0}
    /\ MAXMSGLENGTH \in Nat \ {0}
    /\ JSON_NPACKET \in Nat \ {0}
    /\ RXSIZE \in Nat
    /\ MAXTROUBLES \in Nat
    /\ MAXALARMS \in Nat

VARIABLES
    pc4,            \* where task 4 continues
    taskSema,       \* value of the semaphore between task 4 and SerialEvent
    taskToken,      \* "FIREB_VAL" until the first successful validation
    elapsed,        \* SERIAL_TIME has passed since time2 was set
    Serial_F_Event, \* the trouble window is open
    Serial_A_Event, \* the alarm window is open
    inputString,    \* characters of the line being received
    Matriz,         \* lists of the stored messages; count_index is its length
    msg,            \* a message was stored in the current window
    CAII,           \* the state of the panel
    lp,             \* where loop() is: SerialEvent or a network call
    WiFi_Con,       \* Firebase believed reachable
    wifi_down,      \* the radio was switched off on purpose
    pc3,            \* task 3: before NorSema.wait(), watching, switching off
    NorSema,        \* value of NorSema, counted up to 1 (waited for once)
    N_uploads,      \* blocks that the last upload left on the server
    rx,             \* characters sent by the panel and not yet read
    troubles,       \* length of the panel's trouble list
    alarms          \* length of the panel's alarm list

taskVars  == <<pc4, taskSema, elapsed>>
windows   == <<Serial_F_Event, Serial_A_Event>>
bufVars   == <<inputString, Matriz, msg>>
powerVars == <<wifi_down, pc3, NorSema>>
panel     == <<troubles, alarms>>
vars == <<taskVars, taskToken, windows, bufVars, CAII, lp, WiFi_Con,
          powerVars, N_uploads, rx, panel>>

Lists  == {"T", "F"}                       \* troubles, fire alarms
Char   == [of : Lists, eol : BOOLEAN]      \* a character; eol for '\n'
States == {"NORMAL", "FAILURE", "ALARM", "BOTH"}

\* The panel's answer to "L T" or "L F": n lines of two characters each.
Answer(l, n) == [i \in 1..2*n |-> [of |-> l, eol |-> i % 2 = 0]]

\* What does not fit on the line and in the receive buffer is lost.
Fit(s) == IF Len(s) <= RXSIZE THEN s ELSE SubSeq(s, 1, RXSIZE)

Open == Serial_F_Event \/ Serial_A_Event

-----------------------------------------------------------------------------
(* Memory after a reset, when setup() has finished; it has set WiFi_Con.     *)

Init ==
    /\ pc4 = "top" /\ taskSema = 1 /\ taskToken = "FIREB_VAL"
    /\ elapsed = FALSE
    /\ Serial_F_Event = FALSE /\ Serial_A_Event = FALSE
    /\ inputString = 0 /\ Matriz = << >> /\ msg = FALSE
    /\ CAII = "NORMAL"
    /\ lp = "serial" /\ WiFi_Con = TRUE
    /\ wifi_down = FALSE /\ pc3 = "wait" /\ NorSema = 0
    /\ N_uploads = 0
    /\ rx = << >>
    /\ troubles \in 0..MAXTROUBLES
    /\ alarms \in 0..MAXALARMS

-----------------------------------------------------------------------------
(* Task 4: loop4.                                                            *)

\* taskSema.wait(); while taskToken is not SERIAL_REQ the token is posted
\* back at once, which changes nothing.
TakeTurn ==
    /\ pc4 = "top" /\ taskSema > 0 /\ taskToken = "SERIAL_REQ"
    /\ taskSema' = taskSema - 1
    /\ pc4' = "failsLock"
    /\ UNCHANGED <<taskToken, elapsed, windows, bufVars, CAII, lp, WiFi_Con,
                   powerVars, N_uploads, rx, panel>>

\* With the display lock obtained: ask for the troubles, open their window.
RequestFails ==
    /\ pc4 = "failsLock"
    /\ rx' = Fit(rx \o Answer("T", troubles))
    /\ Serial_F_Event' = TRUE
    /\ elapsed' = FALSE
    /\ pc4' = "failsYield"
    /\ UNCHANGED <<taskSema, taskToken, Serial_A_Event, bufVars, CAII, lp,
                   WiFi_Con, powerVars, N_uploads, panel>>

\* Mutant: task 4 does not wait for the trouble window to close.
TestFailsNoWait ==
    /\ pc4 = "failsYield"
    /\ pc4' = "alarmsLock"
    /\ UNCHANGED <<taskSema, taskToken, elapsed, windows, bufVars, CAII, lp,
                   WiFi_Con, powerVars, N_uploads, rx, panel>>

\* while (Serial_F_Event), tested after the yield.
TestFails ==
    /\ pc4 = "failsYield"
    /\ pc4' = IF Serial_F_Event THEN "failsWait" ELSE "alarmsLock"
    /\ UNCHANGED <<taskSema, taskToken, elapsed, windows, bufVars, CAII, lp,
                   WiFi_Con, powerVars, N_uploads, rx, panel>>

\* taskSema.wait() inside that loop returns.
FailsDone ==
    /\ pc4 = "failsWait" /\ taskSema > 0
    /\ IF taskToken = "SERIAL_REQ"
       THEN taskSema' = taskSema - 1 /\ pc4' = "alarmsLock"
       ELSE taskSema' = taskSema /\ pc4' = "failsYield"
    /\ UNCHANGED <<taskToken, elapsed, windows, bufVars, CAII, lp, WiFi_Con,
                   powerVars, N_uploads, rx, panel>>

\* Ask for the alarms, open their window.
RequestAlarms ==
    /\ pc4 = "alarmsLock"
    /\ rx' = Fit(rx \o Answer("F", alarms))
    /\ Serial_A_Event' = TRUE
    /\ elapsed' = FALSE
    /\ pc4' = "alarmsYield"
    /\ UNCHANGED <<taskSema, taskToken, Serial_F_Event, bufVars, CAII, lp,
                   WiFi_Con, powerVars, N_uploads, panel>>

\* Mutant: task 4 does not wait for the alarm window to close.
TestAlarmsNoWait ==
    /\ pc4 = "alarmsYield"
    /\ pc4' = "pause"
    /\ UNCHANGED <<taskSema, taskToken, elapsed, windows, bufVars, CAII, lp,
                   WiFi_Con, powerVars, N_uploads, rx, panel>>

\* while (Serial_A_Event), tested after the yield.
TestAlarms ==
    /\ pc4 = "alarmsYield"
    /\ pc4' = IF Serial_A_Event THEN "alarmsWait" ELSE "pause"
    /\ UNCHANGED <<taskSema, taskToken, elapsed, windows, bufVars, CAII, lp,
                   WiFi_Con, powerVars, N_uploads, rx, panel>>

AlarmsDone ==
    /\ pc4 = "alarmsWait" /\ taskSema > 0
    /\ IF taskToken = "SERIAL_REQ"
       THEN taskSema' = taskSema - 1 /\ pc4' = "pause"
       ELSE taskSema' = taskSema /\ pc4' = "alarmsYield"
    /\ UNCHANGED <<taskToken, elapsed, windows, bufVars, CAII, lp, WiFi_Con,
                   powerVars, N_uploads, rx, panel>>

\* Mutant: the post at the end of the cycle is missing.
PassTurnNoPost ==
    /\ pc4 = "pause"
    /\ pc4' = "top"
    /\ UNCHANGED <<taskSema, taskToken, elapsed, windows, bufVars, CAII, lp,
                   WiFi_Con, powerVars, N_uploads, rx, panel>>

\* delay(LOOP4_DELAY) is over: post and start the next cycle.
PassTurn ==
    /\ pc4 = "pause"
    /\ taskSema' = taskSema + 1
    /\ pc4' = "top"
    /\ UNCHANGED <<taskToken, elapsed, windows, bufVars, CAII, lp, WiFi_Con,
                   powerVars, N_uploads, rx, panel>>

Task4 == \/ TakeTurn \/ RequestFails \/ TestFails \/ FailsDone
         \/ RequestAlarms \/ TestAlarms \/ AlarmsDone \/ PassTurn

-----------------------------------------------------------------------------
(* loop(): SerialEvent, then Fix_Firebase when the connection is down.       *)

\* Where loop() continues when SerialEvent returns.
AfterSerial == IF WiFi_Con THEN "serial" ELSE "fix"

\* Reading c ends a message.
Ends(c) == c.eol \/ inputString + 1 >= MAXMSGLENGTH

\* Mutant: the bound Msg_Upload itself tests, one too far.
HasRoomOneMore == Len(Matriz) <= MAXMSGS

\* A further message is stored.
HasRoom == Len(Matriz) < MAXMSGS

\* One call reads at most one character; one still on its way is not read.
Reads == IF rx = << >> THEN {FALSE} ELSE BOOLEAN

Stores(read) == read /\ Ends(Head(rx)) /\ HasRoom

Unread(read) == IF read THEN Tail(rx) ELSE rx

Collected(read) == IF Stores(read) THEN Append(Matriz, Head(rx).of) ELSE Matriz

\* A window is open and its time is not up.
SerialListen ==
    /\ lp = "serial" /\ Open /\ ~elapsed
    /\ rx # << >>
    /\ rx' = Unread(TRUE)
    /\ Matriz' = Collected(TRUE)
    /\ msg' = (msg \/ Stores(TRUE))
    /\ inputString' = IF Stores(TRUE) THEN 0 ELSE inputString + 1
    /\ lp' = AfterSerial
    /\ UNCHANGED <<taskVars, taskToken, windows, CAII, WiFi_Con, powerVars,
                   N_uploads, panel>>

\* No window is open: what arrives is thrown away.
SerialDiscard ==
    /\ lp = "serial" /\ ~Open
    /\ rx # << >>
    /\ rx' = Tail(rx)
    /\ lp' = AfterSerial
    /\ UNCHANGED <<taskVars, taskToken, windows, bufVars, CAII, WiFi_Con,
                   powerVars, N_uploads, panel>>

\* Nothing to read; matters only because Fix_Firebase follows.
SerialIdle ==
    /\ lp = "serial" /\ ~(Open /\ elapsed)
    /\ ~WiFi_Con
    /\ lp' = AfterSerial
    /\ UNCHANGED <<taskVars, taskToken, windows, bufVars, CAII, WiFi_Con,
                   powerVars, N_uploads, rx, panel>>

\* Mutant: an empty trouble list also clears the last cycle's alarm.
AfterFailsClearing(m) == IF m THEN "FAILURE" ELSE "NORMAL"

\* CAII when the trouble window closes.
AfterFails(m) == IF m THEN "FAILURE" ELSE CAII

\* Mutant: without an alarm the state is left as it was.
AfterAlarmsKeeping(m) == IF m /\ CAII = "FAILURE" THEN "BOTH"
                         ELSE IF m THEN "ALARM" ELSE CAII

\* CAII when the alarm window closes.
AfterAlarms(m) == IF m /\ CAII = "FAILURE" THEN "BOTH"
                  ELSE IF m THEN "ALARM" ELSE "NORMAL"

\* Mutant: what is left of a line stays for the next window.
CloseWindowKeepingLine(read) ==
    /\ rx' = Unread(read)
    /\ Matriz' = Collected(read)
    /\ inputString' = IF Stores(read) THEN 0 ELSE inputString
    /\ msg' = FALSE
    /\ taskSema' = taskSema + 1

\* Mutant: msg is not reset.
CloseWindowKeepingMsg(read) ==
    /\ rx' = Unread(read)
    /\ Matriz' = Collected(read)
    /\ inputString' = 0
    /\ msg' = (msg \/ Stores(read))
    /\ taskSema' = taskSema + 1

\* The part of closing that both windows share.
CloseWindow(read) ==
    /\ rx' = Unread(read)
    /\ Matriz' = Collected(read)
    /\ inputString' = 0
    /\ msg' = FALSE
    /\ taskSema' = taskSema + 1

\* Mutant: the troubles are uploaded at once.
CloseFailsUploading ==
    /\ lp = "serial" /\ Serial_F_Event /\ elapsed
    /\ \E read \in Reads :
          /\ CloseWindow(read)
          /\ CAII' = AfterFails(msg \/ Stores(read))
    /\ Serial_F_Event' = FALSE
    /\ lp' = IF CAII' = "FAILURE" /\ ~wifi_down THEN "upload" ELSE AfterSerial
    /\ UNCHANGED <<pc4, taskToken, elapsed, Serial_A_Event, WiFi_Con,
                   powerVars, N_uploads, panel>>

CloseFails ==
    /\ lp = "serial" /\ Serial_F_Event /\ elapsed
    /\ \E read \in Reads :
          /\ CloseWindow(read)
          /\ CAII' = AfterFails(msg \/ Stores(read))
    /\ Serial_F_Event' = FALSE
    /\ lp' = AfterSerial
    /\ UNCHANGED <<pc4, taskToken, elapsed, Serial_A_Event, WiFi_Con,
                   powerVars, N_uploads, panel>>

\* Mutants: the WiFi is woken for alarms without troubles only; or never.
ReportAlarmOnly(c) == IF ~wifi_down THEN "upload"
                      ELSE IF c = "ALARM" THEN "wake" ELSE AfterSerial
ReportNoWake(c) == IF ~wifi_down THEN "upload" ELSE AfterSerial

\* How loop() reports the verdict c: it uploads, waking the WiFi first when it
\* is down and there is something to tell.
Report(c) == IF ~wifi_down THEN "upload"
             ELSE IF c # "NORMAL" THEN "wake" ELSE AfterSerial

CloseAlarms ==
    /\ lp = "serial" /\ Serial_A_Event /\ ~Serial_F_Event /\ elapsed
    /\ \E read \in Reads :
          /\ CloseWindow(read)
          /\ CAII' = AfterAlarms(msg \/ Stores(read))
    /\ Serial_A_Event' = FALSE
    /\ lp' = Report(CAII')
    /\ UNCHANGED <<pc4, taskToken, elapsed, Serial_F_Event, WiFi_Con,
                   powerVars, N_uploads, panel>>

\* Wifi_Con_Reset() succeeded; Restart is its failure.
WakeWiFi ==
    /\ lp = "wake"
    /\ wifi_down' = FALSE
    /\ lp' = "upload"
    /\ UNCHANGED <<taskVars, taskToken, windows, bufVars, CAII, WiFi_Con,
                   pc3, NorSema, N_uploads, rx, panel>>

\* Mutant: clean_JSON_array() is not called.
CleanedNot == Matriz

\* clean_JSON_array() empties the buffer.
Cleaned == << >>

\* Mutant: a block that is not full is not counted.
BlocksFull(n) == n \div JSON_NPACKET

\* Blocks of JSON_NPACKET messages that n messages take.
Blocks(n) == (n + JSON_NPACKET - 1) \div JSON_NPACKET

\* Firebase_upload() has requests to make: blocks to write or to delete.
HasRequests == Matriz # << >> \/ N_uploads > 0

\* Firebase_upload() returns, with either result if it made a request, and
\* NorSema is posted.  The buffer is emptied whatever the result.
Upload ==
    /\ lp = "upload"
    /\ \E ok \in IF HasRequests THEN BOOLEAN ELSE {TRUE} :
          WiFi_Con' = (WiFi_Con /\ ok)
    /\ N_uploads' = Blocks(Len(Matriz))
    /\ Matriz' = Cleaned
    /\ NorSema' = 1
    /\ lp' = IF WiFi_Con' THEN "serial" ELSE "fix"
    /\ UNCHANGED <<taskVars, taskToken, windows, inputString, msg, CAII,
                   wifi_down, pc3, rx, panel>>

\* Fix_Firebase() returns; Restart is its giving up.
Repair ==
    /\ lp = "fix"
    /\ WiFi_Con' \in {WiFi_Con, TRUE}
    /\ lp' = "serial"
    /\ UNCHANGED <<taskVars, taskToken, windows, bufVars, CAII, powerVars,
                   N_uploads, rx, panel>>

Loop == \/ SerialListen \/ SerialDiscard \/ SerialIdle \/ CloseFails
        \/ CloseAlarms \/ WakeWiFi \/ Upload \/ Repair

-----------------------------------------------------------------------------
(* Tasks 1 and 3, resets, the clock and the panel.                           *)

\* Task 1: the result of a validation arrives.
Validate(ok) ==
    /\ WiFi_Con' = ok
    /\ taskToken' = IF ok THEN "SERIAL_REQ" ELSE taskToken
    /\ UNCHANGED <<taskVars, windows, bufVars, CAII, lp, powerVars,
                   N_uploads, rx, panel>>

\* Task 3: NorSema.wait() returns, the first upload is over.
StartWatch ==
    /\ pc3 = "wait" /\ NorSema > 0
    /\ NorSema' = NorSema - 1
    /\ pc3' = "watch"
    /\ UNCHANGED <<taskVars, taskToken, windows, bufVars, CAII, lp, WiFi_Con,
                   wifi_down, N_uploads, rx, panel>>

\* Mutant: task 3 does not look whether the radio is off already.
SwitchOffAgain ==
    /\ pc3 = "watch" /\ CAII = "NORMAL"
    /\ pc3' = "off"
    /\ UNCHANGED <<taskVars, taskToken, windows, bufVars, CAII, lp, WiFi_Con,
                   wifi_down, NorSema, N_uploads, rx, panel>>

\* Task 3: the panel was normal at each look for NORMAL_MAXTIME.  It calls
\* WiFi.mode() and forceSleepBegin(), which yield.
SwitchOff ==
    /\ pc3 = "watch" /\ CAII = "NORMAL" /\ ~wifi_down
    /\ pc3' = "off"
    /\ UNCHANGED <<taskVars, taskToken, windows, bufVars, CAII, lp, WiFi_Con,
                   wifi_down, NorSema, N_uploads, rx, panel>>

\* Those calls return, and only now wifi_down is set: CAII is not looked at again.
SwitchedOff ==
    /\ pc3 = "off"
    /\ wifi_down' = TRUE
    /\ pc3' = "watch"
    /\ UNCHANGED <<taskVars, taskToken, windows, bufVars, CAII, lp, WiFi_Con,
                   NorSema, N_uploads, rx, panel>>

\* ESP.reset(): a failed validation without WiFi, the last repair attempt, or
\* a failed Wifi_Con_Reset().  Only the panel keeps its state.
Restart ==
    /\ pc4' = "top" /\ taskSema' = 1 /\ taskToken' = "FIREB_VAL"
    /\ elapsed' = FALSE
    /\ Serial_F_Event' = FALSE /\ Serial_A_Event' = FALSE
    /\ inputString' = 0 /\ Matriz' = << >> /\ msg' = FALSE
    /\ CAII' = "NORMAL"
    /\ lp' = "serial" /\ WiFi_Con' = TRUE
    /\ wifi_down' = FALSE /\ pc3' = "wait" /\ NorSema' = 0
    /\ N_uploads' = 0
    /\ rx' = << >>
    /\ UNCHANGED panel

\* Loop is inside a network call.
Blocked == lp \in {"wake", "fix"} \/ (lp = "upload" /\ HasRequests)

\* SERIAL_TIME passes.  It is long enough for task 4 to come back from its
\* yield and, unless loop is kept in a network call, for the whole answer.
TimeOut ==
    /\ Open /\ ~elapsed
    /\ pc4 \in {"failsWait", "alarmsWait"}
    /\ rx = << >> \/ Blocked
    /\ elapsed' = TRUE
    /\ UNCHANGED <<pc4, taskSema, taskToken, windows, bufVars, CAII, lp,
                   WiFi_Con, powerVars, N_uploads, rx, panel>>

PanelChange ==
    /\ troubles' \in 0..MAXTROUBLES
    /\ alarms' \in 0..MAXALARMS
    /\ UNCHANGED <<taskVars, taskToken, windows, bufVars, CAII, lp, WiFi_Con,
                   powerVars, N_uploads, rx>>

Environment == \/ \E ok \in BOOLEAN : Validate(ok)
               \/ StartWatch \/ SwitchOff \/ SwitchedOff
               \/ Restart \/ TimeOut \/ PanelChange

Next == Task4 \/ Loop \/ Environment

\* The tasks and loop() are scheduled in turn for ever, a network call ends, and
\* time passes.  Characters keep arriving although loop() may often find none.
Fairness ==
    /\ WF_vars(Task4)
    /\ SF_vars(SerialListen)
    /\ WF_vars(CloseFails) /\ WF_vars(CloseAlarms)
    /\ WF_vars(WakeWiFi) /\ WF_vars(Upload) /\ WF_vars(Repair)
    /\ WF_vars(TimeOut)

Spec == Init /\ [][Next]_vars

FairSpec == Spec /\ Fairness

-----------------------------------------------------------------------------
(* Invariants.                                                               *)

\* Every variable has its type; Matriz never outgrows the array it stands for.
TypeOK ==
    /\ pc4 \in {"top", "failsLock", "failsYield", "failsWait",
                "alarmsLock", "alarmsYield", "alarmsWait", "pause"}
    /\ taskSema \in Nat
    /\ taskToken \in {"FIREB_VAL", "SERIAL_REQ"}
    /\ elapsed \in BOOLEAN
    /\ Serial_F_Event \in BOOLEAN /\ Serial_A_Event \in BOOLEAN
    /\ inputString \in Nat
    /\ Matriz \in Seq(Lists) /\ Len(Matriz) <= MAXMSGS
    /\ msg \in BOOLEAN
    /\ CAII \in States
    /\ lp \in {"serial", "wake", "upload", "fix"}
    /\ WiFi_Con \in BOOLEAN /\ wifi_down \in BOOLEAN
    /\ pc3 \in {"wait", "watch", "off"} /\ NorSema \in 0..1
    /\ N_uploads \in Nat
    /\ rx \in Seq(Char)
    /\ troubles \in 0..MAXTROUBLES /\ alarms \in 0..MAXALARMS

\* Task 4 has taken the token and not yet handed it to SerialEvent.
Task4Holds == pc4 \in {"failsLock", "alarmsLock", "pause"}

\* The one token of taskSema is in exactly one place: in the semaphore, with
\* task 4, or with SerialEvent as the one open window, which will post it.  A
\* missing or a second post would stop the polling or open two windows.
TokenOwner ==
    /\ ~(Serial_F_Event /\ Serial_A_Event)
    /\ taskSema = IF Task4Holds \/ Open THEN 0 ELSE 1
    /\ ~(Task4Holds /\ Open)

\* Task 4 never runs ahead of SerialEvent: as long as a window is open it is
\* still in the loop that waits for that window to close.
WaitsForWindow ==
    /\ Serial_F_Event => pc4 \in {"failsYield", "failsWait"}
    /\ Serial_A_Event => pc4 \in {"alarmsYield", "alarmsWait"}

\* A window opens with no half-read line and no message of another window.
FreshWindow == ~Open => ~msg /\ inputString = 0

\* The phases of a polling cycle, as PollCycle names them.
Phase == CASE Serial_F_Event -> "troubles"
           [] Serial_A_Event -> "alarms"
           [] ~Open /\ pc4 \in {"failsYield", "failsWait", "alarmsLock"} -> "between"
           [] OTHER -> "quiet"

\* Troubles found in one cycle never leak into the next: FAILURE is the state
\* only from the closing of the trouble window to that of the alarm window.
FailureEndsWithCycle == CAII = "FAILURE" => Phase \in {"between", "alarms"}

\* Task 3's switching the radio off and loop()'s waking it, which both yield half
\* way, never overlap, although no lock keeps them apart: the tests of wifi_down do,
\* which each of them sets only when it is through.
RadioExclusive == ~(pc3 = "off" /\ lp = "wake")

\* An alarm is shown with the radio off, and loop() is not waking it.
AlarmInTheDark == CAII \in {"ALARM", "BOTH"} /\ wifi_down /\ lp # "wake"

\* An alarm is not only shown: its messages are about to be uploaded, or blocks of
\* the upload that came with the verdict are counted as on the server, whatever task
\* 3, validations and repairs did meanwhile and until the next alarm window closes.
AlarmTold ==
    CAII \in {"ALARM", "BOTH"} =>
        IF lp \in {"wake", "upload"} THEN Matriz # << >> ELSE N_uploads > 0

\* The upload of one cycle is over before the alarm window of the next opens,
\* so it never keeps loop() from receiving alarms (a repair still can).
UploadBeforeAlarms == lp \in {"wake", "upload"} => Phase \in {"quiet", "troubles"}

\* Messages outlive their cycle only while the WiFi is switched off: otherwise
\* each cycle starts collecting in an empty buffer.
LeftoverOnlyWhenDown ==
    Phase = "quiet" /\ lp \in {"serial", "fix"} /\ Matriz # << >> => wifi_down

-----------------------------------------------------------------------------
(* Refinement and liveness.                                                  *)

Cycle == INSTANCE PollCycle WITH phase <- Phase, status <- CAII

\* The windows open and close in turn, with CAII changing as PollCycle says.
RefinesPollCycle == Cycle!Spec

\* taskSema as the abstract semaphore, of which task 4 takes the units.
TaskSema == INSTANCE Semaphore WITH
    Tasks <- {"task4"}, available <- taskSema,
    holding <- IF Task4Holds THEN {"task4"} ELSE {}

\* Task 4 gets to the display lock of a request, and to the end of its cycle, only with
\* a unit it has waited for: its tests of the windows, which would let it pass without
\* one, never do.  So what Semaphore promises is all that the polling asks of taskSema.
UsesSemaphore == [][Restart \/ TaskSema!Next]_(TaskSema!absVars)

\* One step only leaves an alarm with the radio off: that of task 3 which sets
\* wifi_down, overtaken by the alarm since it looked at CAII.  No closing of an alarm
\* window does, and the next one ends it, whatever was off or on before.
AlarmKeepsWiFi ==
    [][AlarmInTheDark' => ~CloseAlarms /\ (AlarmInTheDark \/ SwitchedOff)]_vars

Validated == taskToken = "SERIAL_REQ"

\* Once Firebase has been validated, and as long as nothing resets the chip, the
\* panel is asked for troubles and for alarms again and again, whatever the
\* network does.
PollingContinues ==
    <>[]Validated => []<>Serial_F_Event /\ []<>Serial_A_Event

\* When a window closes, the whole answer has been read.
AllReceived == [][CloseFails \/ CloseAlarms => rx' = << >>]_vars

\* Between two cycles, with nothing stored and nothing on the line.
Clean == Phase = "quiet" /\ lp = "serial" /\ Matriz = << >> /\ rx = << >>

\* If from some clean moment on the connection holds and the panel shows alarms
\* and no troubles, CAII tells so and the alarms are taken to Firebase again and
\* again, the radio being woken if task 3 has switched it off.
AlarmReported ==
    <>(Clean /\ [](Validated /\ WiFi_Con /\ alarms > 0 /\ troubles = 0)) =>
        /\ []<>(CAII \in {"ALARM", "BOTH"})
        /\ []<>(lp = "upload" /\ \E i \in 1..Len(Matriz) : Matriz[i] = "F")

=============================================================================
