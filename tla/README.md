# Verification of the serial monitor (Serial_MOnitor_Coop)

The firmware runs on an ESP8266. It asks a Simplex fire panel over a serial line
for its troubles (`L T`) and its alarms (`L F`), derives a state of the panel,
shows it on an OLED display, and uploads the messages to Firebase. This
directory holds TLA+ models of its core, TLC runs on small instances, and TLAPS
proofs for every value of the constants.

Paths below are relative to `src/`; `main.cpp` is `src/main.cpp`, the headers are
in `lib/Personal/`.

## 1. The system

### Execution contexts

Four CoopTasks and the Arduino `loop()` share one CPU *cooperatively*: code runs
undisturbed from one `yield`, `delay`, `CoopSemaphore::wait`, mutex lock or
network or display call to the next. There are no data races between machine
instructions, but every variable that is read before such a point and used after
it may have changed.

| context | code | what it does |
|---|---|---|
| task 1 | `loop1` | waits for `valSema`, reads the operator's `Enable` switch from Firebase, sets `WiFi_Con`, `taskToken`, or resets the chip |
| task 2 | `loop2` | redraws the display under `OLEDMutex` |
| task 3 | `loop3` | after the first upload, switches the radio off when `CAII` has been `NORMAL` for five minutes |
| task 4 | `loop4` | asks for troubles, waits for the window to close, asks for alarms, waits, pauses |
| `loop()` | `SerialEvent`, `Fix_Firebase` | collects characters during a window, closes it after `SERIAL_TIME`, derives `CAII`, wakes the radio, uploads; repairs a connection that is down |

### Components

| component | state | operations | who uses it | what makes it correct |
|---|---|---|---|---|
| Polling core (`main.cpp`) | `taskSema`, `taskToken`, `Serial_F_Event`, `Serial_A_Event`, `inputString`, `msg`, `CAII`, `wifi_down`, `NorSema` | `loop4`, `SerialEvent`, `loop3` | everything | one window at a time; task 4 never runs ahead; no message or state leaks into another window or cycle; an alarm loses the radio in one named case only; polling never stops |
| Message buffer (`Serial_Msg.h`) | `Matriz`, `count_index`, `count_rtn_index` | `Msg_Upload`, `get_Serial_Msg`, `clean_JSON_array` | `SerialEvent`, `Firebase_upload` | never written past its end; emptied in every cycle that uploads; each message read once |
| Upload (`Coop_Serial_System.h`, `Firebase_Comm.h`) | `N_uploads`, `count`, the blocks on the server | `Firebase_upload`, `dataupload2`, `Firebase_Clean_Node` | `SerialEvent` | the server holds the blocks of the last upload |
| Connection (`main.cpp`, `Firebase_Comm.h`) | `WiFi_Con`, `valSema`, `firebase_tries`, `count` | `loop1`, `Fix_Firebase`, `Firebase_Enable`, `Firebase_Check_Conn` | task 1, `loop()` | a lost connection is restored or ends in a reset |
| Display (`Display_OLED.h`) | `OLEDMutex`, `refresh_oled`, `messageb`, the screen object | `Print_OLED`, `Trouble_OLED`, `Fire_OLED`, error screens | tasks 2 and 4, `loop()` | the last message set is the one displayed |
| CoopTask library | `value`, `pendingTask0`, `pendingTasks`, `sleeps`, the scheduler's entries | `CoopSemaphore::wait/post`, `CoopMutex`, `scheduleTask`, `run` | all tasks | a semaphore counts; no wake-up is lost; a task that is awake is in the scheduler |
| Provisioning (`WiFi_Config.h`, `SPIFFS_Serial_Monitor.h`, `setup()`) | five files, `all_set`, `WiFi_Incorrect` | access point, web form, `WiFi_Configuration` | `setup()` | a complete configuration leads to a connection |
| Parser (`Simplex_Protocol.c`) | `message_parser_t` | `Separator_Search` | `JSON_Conversion2` | splits a line into its fields, whatever was parsed before it |
| Vendored libraries | | Firebase client, async TCP and web server, display driver | | outside the project |

### Interactions

* Task 4 and `SerialEvent` pass one token through `taskSema`: task 4 takes it,
  opens a window, and waits for the post that `SerialEvent` makes when it closes
  the window.
* `SerialEvent` posts `NorSema` after an upload, which starts task 3. Task 3 writes
  `wifi_down`, which `SerialEvent` tests before it uploads.
* `Fix_Firebase` posts `valSema` after a repair, which lets task 1 validate.
* `WiFi_Con` is written by `SerialEvent`, `Fix_Firebase` and task 1; the request
  counter `count` is incremented by uploads, validations and repairs.

### What is hard

Interleavings of the five contexts at their yields; windows that time out while
`loop()` is inside a network call; a full buffer; the radio switched off in the
middle of something; refused requests, lost answers and resets in the middle of
an upload; failed repairs that must end in a reset. `PROJECT.json` lists these
hazards, each at its line, with the properties that cover it.

## 2. The modules

| module | models | written against |
|---|---|---|
| `SerialPolling` | task 4, `SerialEvent`, task 3; task 1 and `Fix_Firebase` by their effects | `main.cpp` 43-61, 140-412, 625-638; `Serial_Msg.h` |
| `PollCycle` | abstract: windows in turn, and how `CAII` may change | |
| `PollingHistory` | `SerialPolling` with what each window heard | |
| `SerialPolling_proofs`, `PollingHistory_proofs` | theorems about `SerialPolling` and its verdicts | |
| `FirebaseLink` | upload request by request, repairs, task 1, the server | `main.cpp` 85-125, 417-453; `Coop_Serial_System.h` 149-257; `Firebase_Comm.h` 281-483 |
| `LinkInPolling` | composition: `FirebaseLink` as `SerialPolling` sees it | `main.cpp` 377-443 |
| `FirebaseLink_proofs` | theorems about `FirebaseLink` and the composition | |
| `OledRefresh` | task 2, the texts of task 4, the error screen of `loop()` | `main.cpp` 128-138, 330-358, 444-451; `Display_OLED.h` 119-254, 398-425; `Coop_Serial_System.h` 266-292 |
| `OledRefresh_proofs` | theorem about `OledRefresh` | |
| `Provisioning` | from power-on to the end of `setup()` | `main.cpp` 482-590; `WiFi_Config.h`; `SPIFFS_Serial_Monitor.h`; `Firebase_Comm.h` 113-279 |
| `Provisioning_proofs` | theorems about `Provisioning` | |
| `Semaphore` | abstract: what `wait()` and `post()` promise; `CoopSemaphore` implements it, and `SerialPolling` uses `taskSema` as one | |
| `CoopSemaphore` | the library's semaphore and mutex with sleeping and scheduling | `CoopSemaphore.cpp` 50-221; `CoopTaskBase.cpp` 136-161, 247-262, 683-778, 885-934; `CoopMutex.h` |
| `CoopSemaphore_proofs`, `CoopWakeup_proofs` | theorems about `CoopSemaphore` | |
| `SimplexParser` | from the stored lines to the records of an upload, the parser by character | `Simplex_Protocol.c`; `Coop_Serial_System.h` 193-255; `Serial_Msg.h` 19-60 |
| `SimplexParser_proofs` | theorems about `SimplexParser` | |

`MC*` modules extend a module for TLC; each `.cfg` gives its constants.

### SerialPolling

One action is one slice between two yielding points. `pc4` is the place where
task 4 continues, `lp` the place of `loop()`: `serial` between calls of
`SerialEvent`, or `wake`, `upload`, `fix` inside a network call, while the tasks run
on.

| code | model |
|---|---|
| `taskSema.wait()` at 194, then the lock | `TakeTurn`, then `RequestFails` / `RequestAlarms` |
| `while (Serial_F_Event)` after `yield()` | `TestFails`, `FailsDone`; the same for alarms |
| `delay(LOOP4_DELAY); taskSema.post()` | `PassTurn` |
| `SerialEvent` with a window open, time not up | `SerialListen`, one character |
| time up: lines 311-404 | `CloseFails`, `CloseAlarms`, then `WakeWiFi`, `Upload` |
| no window open | `SerialDiscard` |
| `Fix_Firebase` | `lp = "fix"` and `Repair`; failing for good is `Restart` |
| `loop3` | `StartWatch`, `SwitchOff` (the tests, and `WiFi.mode()` begins), `SwitchedOff` (`wifi_down = true`) |
| task 1 | `Validate(ok)`; a reset is `Restart` |
| `millis() - time2 >= SERIAL_TIME` | `elapsed`, set by `TimeOut` |

A character keeps only the list it belongs to and whether it ends the line.
`Matriz` is the sequence of lists of the stored messages. A call of `SerialEvent`
that finds the time up may read one more character (`Reads`), as the code reads
before it tests the time. Switching the radio off is two steps, with `pc3 = "off"` in
between, because `WiFi.mode()` and `forceSleepBegin()` yield: `loop()` may close a window
there, with `wifi_down` still saying that the radio is on.

*Timing assumption.* `TimeOut` is enabled only when task 4 is back from the
`yield()` after its request (SERIAL_TIME is seconds, the yield one scheduler
round), and when the answer has been read unless `loop()` is kept in a network
call (`Blocked`), which can last longer than SERIAL_TIME. The first half is what
the firmware relies on everywhere; the second half makes the finding on
unread answers the only way to lose them.

The definition `Phase` names the phase of the cycle and is the refinement mapping
to `PollCycle`. `TaskSema` is the other abstraction: `taskSema` for the units of `Semaphore`, and
task 4 as holder of one while it is between a wait and the next window
(`UsesSemaphore`). Together with `RefinesSemaphore` of `CoopSemaphore` this is why a number is
enough for `taskSema` here: the library promises what the polling asks for. Resets
are excepted, they make a new semaphore.

### FirebaseLink

Every request of an upload is an action with three outcomes: done, refused, or
done with the answer lost (`Outcomes`). `server` gives each block as absent, `old`
(of an earlier upload) or `new` (of the last one). `failed` is a history variable: the
blocks whose own last request was not confirmed, or that a reset made the
firmware forget. `count` is the shared request counter. `Pause` and `Recheck` are the
two halves of `Firebase_Check_Conn`, because of the `delay` between them, in which
task 1 may count a request. `StartValidation`/`EndValidation` are the two halves of
`loop1` around its request. `Reboot` is `ESP.reset()` and `setup()`; the server and the
operator's switch keep their state.

### LinkInPolling

`SerialPolling` takes an upload, a repair and a validation for one step each. This module
maps the variables of `FirebaseLink` to those of `SerialPolling` (`Stage` for `lp`, `loops`
messages for `Matriz` as long as an upload runs) and says that every step of
`FirebaseLink` short of a reset is then an `Upload`, `Repair`, `Validate`, the start of one,
or nothing (`RefinesPolling`). The variables of the windows stand still, so it is a
statement about the network actions only; resets are compared by neither, as
`SerialPolling` forgets more than `FirebaseLink` has.

### OledRefresh

A picture is a text and the status beside it; `OLED_Display`, `frame` and `screen` are
the display object, the frame buffer and what can be seen. `display()` yields
before and after it sends the buffer, so a call of `Print_OLED` is three actions:
`Draw`, `Send`, and `Release`, where `refresh_oled` is cleared and the lock given
back. `SetText` is `Trouble_OLED` or `Fire_OLED`: it needs the lock, which task 2 holds
unless `pc2 = "rest"`, and does not yield with it. The error screen of `Fix_Firebase`
(`StartError`, `DrawError`, `SendError`) takes no lock and draws through the same
objects; it always ends in a reset. The screens of `setup()`, before the tasks exist,
are left out.

### Provisioning

`pc` is the place in `setup()`: `start`, `joining` (`Wifi_Connection`), `portal` (the loop at
main.cpp:510 with the access point open), `firebase`, `signUp`, `push` (the loop at 539,
cut where a request yields), `panel`, `running`. `files` are the five files of the form and
`USER` says whether `USER.txt` holds its flag; both survive a restart, everything
`Restarted` sets does not. `Submit` is the form's handler, whole: it writes all five
files, which the page always sends, and sets `all_set` when every one is long
enough. `CutSubmit` is the handler stopped by a power cut: some files written, perhaps
the next one emptied. The web server is never stopped, so both are also possible
through the joined network once the access point has been opened (`CanSend`).
`Reset` stands for the resets of a running device, in `Fix_Firebase`, `Wifi_Con_Reset`
and `loop1`. It may come at any time, with a perfect network too: `Fix_Firebase` also
gives up when `Enable` is absent or 0 (`FirebaseLink` has the details). A sign-up can be carried out with its answer lost; that also stands
for a power cut between the answer and the writing of `USER.txt`.

### CoopSemaphore

`SerialPolling`, `FirebaseLink` and `OledRefresh` take a semaphore for a counter and a
mutex for a flag, with atomic operations. This module is what the library does
instead. `use` tells the firmware's constructions apart: `mutex` (`OLEDMutex`), `signal`
(`valSema`, `NorSema`, `taskSema`, which `loop()` posts) and `interrupt`, which the firmware
has none of but the library allows.

| code | model |
|---|---|
| `wait()`, called by the running task | `Wait`, then the steps of `_wait` by `step` |
| lines 57-72, under the first lock | `Take`: a unit is taken before it is known whose it is |
| lines 74-88 | `Enqueue`: the task joins `pendingTasks` and sets its sleep flag, or stays awake if there is no place |
| the loop 89-156 | one iteration per step: `NoUnits`, `GoOn`, `SelfFirst`, `OwnTurn`, `WakeOther`, `LastOne`; `Shift` is the part under the second lock |
| lines 157-160, 161-197 | `Succeed`; `GiveUp` returns the unit and yields |
| `post()` | `PostEffect`, in `GiveBack` (a task), `LoopPost`, `InterruptPost` |
| `scheduleTask(true)` | `Schedule`: a new entry for a task that sleeps |
| `rescheduleTask`, `run` | `Dispatch`, `DropEntry`; at the yield `DropsAsleep`: the entry that ran a task which is to sleep goes |
| `runCoopTasks` (in `loop()`), `run` | `Dispatch`; at the yield `LoopReturns`: the entries stay, also those of a task that is to sleep |

Tasks do not preempt each other, so between two steps of `_wait` only an interrupt
can come. Which of its entries or `loop()` ran a task makes no difference until it yields,
so `Yielded` chooses. `missed` is a history variable: some `post()` found tasks queued and
`pendingTask0` empty, and woke nobody.

### SimplexParser

One action per character: `NameChar` while the 40 characters of the name are taken as
they come, `DataChar`, `SpaceChar` (`Separator_Eval`), `LineEnds` at `'\r'` or at the end of what
is looked at; then `AddRecord` (`Message_Final_Touch`, `data.add`, `dataupload2`). `NextLine`
is `get_Serial_Msg` and the `strcpy`. Two pieces of memory are used as they happen to be:
`data_flag`, which nothing initialises (`Setup` chooses it), and `msg_line` behind the line
copied into it (`Unwritten`, and whatever earlier lines have left). `Format` writes a line
as the panel does, and `Meant` is what should become of it: the reference the parser
is compared with. A message is a `text`, with `parts` when it is in the panel's format: the
fields and gaps that `InFormat` allows and `Format` puts together. `FormatAssumption` says
only that; messages without parts are any characters at all.

## 3. The runs

| run | checks | shows |
|---|---|---|
| `polling` | `TypeOK`, `TokenOwner`, `WaitsForWindow`, `FreshWindow`, `FailureEndsWithCycle`, `RadioExclusive`, `UploadBeforeAlarms`, `LeftoverOnlyWhenDown`, `AlarmTold`, `RefinesPollCycle`, `UsesSemaphore`, `AlarmKeepsWiFi`, `VerdictSound`, `AlarmCarried`, `UnreportedOnlyWhenFull` | the safety of the core under every interleaving with the clock, the panel, task 3, validations, repairs and resets; BOTH, ALARM and NORMAL follow from what the two windows of this very cycle received; an alarm that is shown is uploaded or about to be, with the message that raised it, and what an alarm window hears goes unreported in one case only, that of `alarms_uploaded`; an alarm is left with the radio off only where task 3, switching it off, was overtaken by it, and switching off never overlaps waking (1 071 768 states) |
| `polling_live` | `PollingContinues`, `AlarmReported` | polling never stops whatever the network does; alarms that stay are reported and uploaded when no earlier messages take their place, the radio being woken for them |
| `polling_received` | `AllReceived`, **violated** | a window that times out during a repair or an upload closes with the answer unread; main.cpp:310 claims otherwise |
| `alarms_uploaded` | `AlarmsUploaded`, **violated** | with the radio off, trouble messages fill the buffer over several cycles; an alarm that arrives then is neither shown nor uploaded |
| `firebase_link` | `TypeOK`, `MirrorsUnlessFailed`, `ValidationOwed`, `DownEnds`, `RefinesPolling` | the server mirrors the last upload but for blocks whose own last request failed or that a reset forgot; a connection that is down comes back, or the chip is reset; the first validation, without which nothing is polled, is never forgotten; and all this is what `SerialPolling` takes for `Upload`, `Repair` and `Validate` (570 032 states) |
| `upload_complete` | `UploadComplete`, **violated** | "Upload Complete" although an earlier block was refused |
| `disable` | `DisableTakesEffect`, **violated** | on a connection that works the operator's switch is read once and turning it off has no effect |
| `oled` | `NothingLost`, `ScreenSettles` | `Print_OLED` clears `refresh_oled` long after it has read it; the lock makes that safe, and the last text and status are what the screen shows in the end |
| `provisioning` | `FlagOfAccount`, `StagesSound`, `ConfiguredRuns` | `USER.txt` never speaks of an account that was not created, whatever is lost or cut off; the access point can always be left, and a device that polls belongs to a user the server knows; with everything right for good, and a form sent when the access point waits for one, `setup()` ends, and ends again after each reset (29 574 states) |
| `new_user` | `NewUserWorks`, **violated** | `USER.txt` outlives its user: a second user entered on the device is never signed up |
| `semaphore` | `TypeOK`, `MutualExclusion`, `SleepersQueued`, `NoLostWakeup`, `AwakeScheduled`, `RefinesSemaphore`, `MissesNeedTwo`, `UnitServed` | `_wait` and `post()` count like the abstract `Semaphore`, a mutex has one holder, no sleeping task is lost to the queue and no task that is awake to the scheduler, though `loop()` runs tasks past it, and units do not lie about while tasks sleep; a post that wakes nobody takes two waiting tasks, one of them awake (88 286 states) |
| `parser` | `InBlocks`, `RecordsFaithful` | lines in the panel's format become their fields, whatever uninitialised memory holds and whatever blank, cut or malformed lines come before them; the blocks hold the messages in order, each once (217 336 states) |

### Bounds

* `polling`: a buffer of 2 messages, lines cut after 2 characters, one trouble and
  one alarm on the panel at most, 3 characters on the line. One cycle fills the
  buffer, a line can be cut by the end of a window or by the length limit, and a
  leftover of one window can meet the answer of the next. The theorems hold for
  every value, so nothing rests on these.
* `polling_live` has a buffer of one message: it is full after one trouble.
  `alarms_uploaded` has two. `AlarmReported` therefore starts from a clean moment and
  excludes troubles from then on; without that the finding of `alarms_uploaded`
  refutes it.
* `firebase_link`: 5 messages in blocks of 2 give two blocks on the server and a
  third that is counted but never sent, like 11 messages in blocks of 5 in the
  code. 4 requests and 2 repairs reach both limits.
* Bounds that are not in the code: `NorSema` is counted up to 1 (it is waited
  for once); `VALMAX` and `COUNTMAX` cap `valSema` and `count`, which the code lets
  grow. Above `FIREBASE_TRIES` the value of `count` makes no difference.
* `oled`: two texts, two panel states; the texts only have to differ.
* `provisioning`: two users, one power cut, and words that are too short or right (a
  wrong word only differs from a short one in what `all_set` becomes, and then fails
  like it). The theorem holds for every value. In the violation
  nobody cuts the power, and the words are those the finding needs. In its trace the second form comes through the network; the
  usual way there is a device moved to another network, which opens its access
  point and asks for all five fields.
* `semaphore`: three tasks, a queue of one behind `pendingTask0` for signals, as in the
  code, so that the third task finds it full, and of two for the mutex (10 in the code,
  with two tasks). `VALUEMAX` stops the posts of `loop()` and of interrupts, `ENTRYMAX`
  the scheduler's entries of a task, which interrupts and the tasks that `loop()` runs to
  their sleep could pile up: two are enough for one that is left behind beside a new one. The theorems hold for any
  number of tasks, capacity and bound.
* `parser`: names of 3 characters (40 in the code) and 24 characters looked at (101),
  which hold a formatted line and two characters behind its end; 3 messages in blocks
  of 2, so one block is not full and a second one has no place (11 in blocks of 5 in
  the code). Two letters, three cut lines, memory filled with a letter or with spaces.
  `data_flag` only matters up to the first letter or separator.

### Fairness

`WF` of task 4 and of each action of `loop()`: the scheduler runs the tasks and
`loop()` in turn, and a network call returns (the client has timeouts).
`WF(TimeOut)`: the clock goes on. `SF(SerialListen)`: the characters sent do arrive,
although many calls of `SerialEvent` find none in between (`SerialIdle`). Nothing is
assumed of the panel, of validations, of resets, of the network or of task 3.
In `FirebaseLink`, `WF` of what `loop()` does and of what task 1 does; a request ends
with any outcome. Nothing is assumed of the operator or of the WiFi.
In `OledRefresh`, `WF` of task 2 (scheduled again after every `delay`) and of the error
screen (it lasts for a fixed time). In `CoopSemaphore`, `SF` of `Dispatch` (the scheduler
and `loop()` go round the tasks for ever), of `Yield` and of giving back a unit (no task of the
firmware keeps the processor or the mutex), and `WF` of `_wait`. Nothing makes a task call
`wait()` or `post()`. In `Provisioning`, `WF` of `setup()`, which never waits
without a limit (nothing is assumed of `Reset`, which may come again and again), and `SF` of a sign-up that is carried out: a server that can always
be reached does not refuse for ever. Nothing is assumed of installer, power or
router; the properties say what they need of them as premises.

## 4. The proofs

`SerialPolling_proofs` proves, for every buffer, line and list size allowed by
`SizesAssumption`:

* `TypeCorrect`: `TypeOK`. The interesting part is that `count_index` never passes
  `MAXMSGS`, although `Msg_Upload` itself tests one too far (Serial_Msg.h:64): the
  test of `SerialEvent` (298) saves it.
* `OneToken` and `InStep`: `TokenOwner` and `WaitsForWindow`. `TokenInv` strengthens
  them: it says for each place of task 4 which window is open and where the token
  is. Neither property is inductive alone: that a window closes only while task 4
  waits for it is what keeps `taskSema` at one post.
* `WindowsFresh`, `FailureForgotten`, `RadioOneAtATime`, `UploadsOver`, `BufferEmptied`: `FreshWindow`,
  `FailureEndsWithCycle`, `RadioExclusive`, `UploadBeforeAlarms`, `LeftoverOnlyWhenDown`, together
  inductive (`CycleInv`) once `TokenInv` says that windows open in turn. That the upload
  ends before the next alarm window rests on `loop()` being the only one to close the
  trouble window; that switching off and waking exclude each other, on what `wifi_down`
  says during each.
* `AlarmAwake`: `AlarmKeepsWiFi`, an action property. The state it is about, an alarm with the
  radio off, does occur; of all steps only `SwitchedOff` leads into it (`DarkNext`), and the
  next alarm window ends it (`AlarmWakes`).
* `AlarmsTold`: `AlarmTold`. `TellInv` adds that `msg` stands for a message in the buffer and is
  down while `loop()` reports, so the upload that follows a verdict makes at least one
  block, whatever its requests return. In `SerialPolling` the verdict of an alarm goes with
  blocks that are counted; which of them arrived is the matter of `Mirrors`.
* `PollingUsesSemaphore`: `UsesSemaphore`, from `TokenInv`: the tests of the windows, which let task
  4 pass without a unit when the window is already closed, never do.
* `Refinement`: `Spec => Cycle!Spec` with `Phase` and `CAII` for `phase` and `status`;
  each step maps to a step of `PollCycle` or to a stutter.

`PollingHistory_proofs` proves `VerdictFollows`: `VerdictSound`. `HistInv` relates the flags
that `SerialEvent` keeps to what was heard: `msg` speaks of the open window only, `FAILURE`
of the trouble window of the same cycle, and a message heard in the alarm window
without `msg` being set means that the buffer is full, and stays so until the window
closes, because no upload runs meanwhile (`UploadBeforeAlarms`). `AlarmsCarried` (`AlarmCarried`)
needs `CarryInv`: while the alarm window is open and `msg` set, the last message of the
buffer was heard in this window. `UnreportedOnlyThen` (`UnreportedOnlyWhenFull`) turns the
verdict round: something heard and nothing reported means `NORMAL` by a full buffer,
and a `NORMAL` cycle is only kept from its upload by the radio being off. So the
case of `alarms_uploaded` is the only one in which no upload follows what an alarm
window received.

`FirebaseLink_proofs` proves, for every buffer, block and limit allowed by
`LinkAssumption`:

* `LinkTypes`: `TypeOK`. `BlocksBound` (division by the block size is monotone) bounds
  the block indices; that a failed repair either resets or stays below the limit
  bounds `firebase_tries`.
* `Mirrors`: `MirrorsUnlessFailed`. It speaks only of the time between uploads;
  `MirrorInv` adds what the server holds in the middle of one: while deleting, the
  blocks below `Blocks(loops)` and those from `index` on are old; while writing, those
  below `index` are new. A reset may strike at any request: what is on the server is
  then forgotten.
* `ValidationNeverForgotten`: `ValidationOwed`, which is inductive. The one step that uses up a
  post is task 1's, and it leaves a request under way; when that fails the connection
  counts as down, and a repair, which alone makes it count as up without a
  validation, posts again (`OwedStays`, and one lemma for each of the other steps).
* `ImplementsPolling`: `RefinesPolling` of `LinkInPolling`. It rests on `MirrorInv` for one thing: an
  upload that can fail has messages or blocks to delete, which `SerialPolling` wants of
  it (`HasRequests`).

`OledRefresh_proofs` proves `TextKept`: `NothingLost`, for all texts and states. `Inv` follows the
text through the stages of a drawing: while task 2 holds the lock, what it has
drawn is what `messageb` holds, which is exactly what a `SetText` without the lock would
break. It is silent while `loop()` shows its error screen, from which only a reset leads
back.

`Provisioning_proofs` proves `FlagSound`: `FlagOfAccount`, for any users, words and number of
power cuts. It is inductive: `FlagKept` says that only `SignUp` touches `USER.txt` or the
accounts. `StagesHold`: `StagesSound`. `StagesInv` adds that `WiFi_Incorrect` stands for not
having joined, in both directions: from the access point `setup()` gets on only through
`WiFi_Status`, which tests it. That the user who reaches the polling has an account
rests on the first write being the gate: `auth` is copied when `Firebase_Set_Up` runs, so
files changed later do not matter.

`CoopSemaphore_proofs` and `CoopWakeup_proofs` prove, for any finite set of tasks, any capacity and
with posts at any moment:

* `SemaphoreTypes`: `TypeOK`; the queue never outgrows its capacity.
* `Implements`: `RefinesSemaphore`, and `OneHolder`: `MutualExclusion`. The units of the abstract
  semaphore are `value` and the one that the running task has in hand. `WaitInv`: `_wait`
  succeeds only with such a unit. Mutual exclusion follows, since the units and
  holders of a mutex add up to one.
* `AwakeInScheduler`: `AwakeScheduled`, which `Inv` includes: the entry it grants the running task
  is the one that a yield may drop.
* `SleepersAreQueued`: `SleepersQueued`; for each place in `_wait`, what the
  running task may look like while its sleep flag is set and it still runs.
* `NoWakeupLost`: `NoLostWakeup`. That no task sleeps beside a unit is not inductive, nor is
  any statement about one task. `UnitsCovered` counts: as long as another task is
  queued, there are at least as many awake tasks in `wait()` as units. Each `post()` adds
  a unit and wakes a task; a task that goes takes one unit along; one that gives up
  has handed the units it saw to the tasks in front. `WakeupInv` joins it with what
  is true in the middle of `_wait` (`CallInv`) and with `MutexInv`, which gives that the posts of a
  mutex never find `pendingTask0` empty with tasks behind it.
* `MissesTakeTwo`: `MissesNeedTwo`, from the same invariant: a post that finds `pendingTask0`
  empty with tasks behind it finds a unit too (`CallInv`), hence a task awake
  (`OrphansHaveReady`). `SingleWaiterServed` concludes for the firmware's own signals: with a
  single waiting task nothing is missed and the task never sleeps beside a unit.

`SimplexParser_proofs` proves, for any messages, any letters and any sizes of `Matriz` and of
a block:

* `BlocksWhole`: `InBlocks`. `BlockInv` adds up: the messages read are the full blocks
  finished, the records of the open block and the line in the parser. Whether the last
  block comes out right is then a matter of rounding (`Rounded`).
* `LinesBecomeRecords`: `RecordsFaithful`, from `FormatAssumption` and `ParserAssumption`, with fields
  and gaps of any length that a line holds. `LineInv` follows the parser through the line: after each character it is in
  a field (`InWord`) or in the gap behind one (`InGap`), and all its counters, `data_flag` and
  the fields kept so far are functions of that place. It holds from the first letter
  on whatever `data_flag` was, and does not look behind the line, since `'\r'` comes first.
  `TouchedIs` says what `Message_Final_Touch` makes of the four fields, in particular of
  the padding of the name, and `RecordInv` carries the record into its block.

Every safety property that a passing run checks is a theorem: what the runs add to
them is the liveness, the violations, and the evidence that the models move. Only
model-checked are the liveness properties (`PollingContinues`, `AlarmReported`, `DownEnds`,
`ScreenSettles`, `ConfiguredRuns`, `UnitServed`), since the prover does not do fairness and
ENABLED, and all violations. The proofs rest on the named assumptions about the
constants, which TLC evaluates in the runs.

## 5. Observations that are not findings

* A panel with troubles only ends its cycle `NORMAL`: `FAILURE` is overwritten when
  the alarm window closes without a message (main.cpp:355). So a trouble-only
  state is shown as normal most of the time and does not keep the radio on. The
  model follows the code; `FailureEndsWithCycle` states it.
* Task 3 tests `CAII` and `wifi_down` (main.cpp:151-155), yields inside `WiFi.mode(WIFI_OFF)` and
  `forceSleepBegin()` and only then sets `wifi_down` (162). An alarm window that `loop()` closes
  in between shows its alarm, sees the radio as up, does not wake it, and uploads while
  it goes off. The alarm stays on the display with the radio off until the next alarm
  window, which wakes it. `AlarmKeepsWiFi` has this as its one exception; no text of the
  repository denies it.
* `Screen_Set` tests `case FAIL` where the enum has `FAILURE`; it works because the
  SDK's `FAIL` also has the value 1.
* `Firebase_Clean` is never called: `count_index` is never negative.
* A device whose join fails once stays in its access point (WiFi_Config.h:276): it
  tries the network again only after a new form, although the stored configuration
  is right and the network may be back. A chip that starts faster than its router
  after a power failure, or resets while the router is down, waits there for
  somebody. Nothing in the repository promises otherwise; the second premise of
  `ConfiguredRuns` says so, and without it TLC refutes the property.
* Deletions increment `count` but do not test the limit.
* With the right WiFi and a mistyped user or password `setup()` repeats `Firebase_Set_Up`
  for ever (main.cpp:539) and the access point never opens again. `index_return.html`
  tells the installer to enter new data there, but promises no time.
* CoopTask: with two or more tasks queued, a second `post()` that comes before the task
  woken by the first has run finds `pendingTask0` empty and wakes nobody; a unit then
  lies beside a sleeping task until somebody else waits or posts. In the firmware each
  signal has one waiting task, for which it is proved impossible (`SingleWaiterServed`), as it
  is for the mutex. `NoLostWakeup`
  and `UnitServed` name the case (`missed`).
* CoopTask: a `post()` from an interrupt between lines 72 and 93 of `_wait` has the same
  effect with a single task, although CoopSemaphore.h:27 allows it. The firmware posts
  from no interrupt.
* CoopTask: `loop()` calls `runCoopTasks()` (main.cpp:627) although the tasks are also in the
  ESP8266's scheduler. `runCoopTasks` calls `run()` itself (CoopTaskBase.cpp:912), so a task that
  goes to sleep there keeps its entry, and the next `post()` gives it one more; a
  sleeping task may be scheduled, which CoopTaskBase.h:228 excludes ("For a non-running
  task, this implies it is also currently not scheduled"), and a task several times.
  Nothing else breaks: a surplus entry runs a task that is awake once more, or is
  dropped. `AwakeScheduled` says what the firmware needs.
* CoopTask: a task may starve at a mutex: which waiter is served is open (`UnitServed`
  speaks of some task). And `wait()` never returns false for a full queue, as
  CoopSemaphore.h:75 says: it spins from turn to turn.
* Parser: it stops at `'\r'` or after 101 characters, not at the NUL. A line without its
  end, or with a name cut short of its 40 characters, is read on into what an earlier
  line left in `msg_line`; its record is then not specified (`RecordsFaithful` speaks of
  lines in the panel's format), but the lines after it are not harmed.
* Parser: a fifth field writes `q` over the first character of the status
  (Simplex_Protocol.c:77); `TEST` is defined in main.cpp only.
* `strcpy` of a line of 100 characters writes the NUL one past `msg_line[100]`, and the
  parser looks at index 100 (Coop_Serial_System.h:199, Simplex_Protocol.c:150). The fields
  of 10 to 50 characters and the index -1 that an empty field gives (107, 134) are not
  tested either. The model takes the lines to fit.

## 6. Not modelled, and why

* CoopTask: `wait` with a deadline, `setval` and `try_wait`, which the firmware never calls;
  stacks, `setjmp`, delays and the table of runnable tasks; the ESP32 and host builds.
* The parser's field widths, and the comparison of a line with `USER_FLAG` over 100
  characters (Coop_Serial_System.h:201), which depends on uninitialised memory and only
  decides that a line equal to the flag is skipped.
* The text of messages, JSON, paths, wording of the screens, the database rules
  that `prepareDatabaseRules` writes.
* LED, debug output, stack reports: they touch no state that others read.
* Vendored libraries (Firebase client with its own copy of BearSSL, ESPAsyncTCP,
  ESPAsyncWebServer, WiFi manager, DNS, UDP, Adafruit GFX, SSD1306 and BusIO with their
  fonts): they make up well over nine tenths of the repository's lines, and so the share of all lines that the
  modules cover stays at a few percent. A request is modelled by its outcomes, the
  web server by the form it delivers, the display by the picture it shows; their inner
  protocols, TLS and drawing code hold no state the firmware reads, and a model of them
  would be one of those libraries. The one library the firmware's control flow runs
  through, CoopTask, is modelled.

## 7. State of the plan

Done: `SerialPolling` with its abstract cycle and history, `FirebaseLink` and its
composition with the polling, `OledRefresh`, `Provisioning`, `CoopSemaphore` with its
abstract semaphore, `SimplexParser`; all their safety properties are proved. What could
follow:

1. The composition of `SerialPolling` with `OledRefresh` through `OLEDMutex`, where task 4
   waits for the display before each request.
2. `wait` with a deadline, if the firmware comes to use it.
