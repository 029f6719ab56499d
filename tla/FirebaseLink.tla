---------------------------- MODULE FirebaseLink ----------------------------
(***************************************************************************)
(* The connection to Firebase: Firebase_upload (Coop_Serial_System.h) with *)
(* the requests of Firebase_Comm.h, Fix_Firebase and task 1 (loop1) of     *)
(* main.cpp, and the blocks /Abnormal_Devices/<i> on the server.           *)
(*                                                                         *)
(* A request yields to the other contexts, so an upload is one action per  *)
(* request; each may be done, refused, or done with its answer lost.  Task *)
(* 1 and loop() share the request counter count, WiFi_Con and valSema.     *)
(* Abstracted: the contents of a block (old: of an earlier upload, new: of *)
(* the last one) and the text of requests.                                 *)
(***************************************************************************)
EXTENDS Naturals, FiniteSets

CONSTANTS
    MAXMSGS,         \* entries of the message buffer (11 in the code)
    JSON_NPACKET,    \* messages per block (5 in the code)
    FIREBASE_TRIES,  \* requests until a pause is due (70 in the code)
    FBASE_TRIES,     \* repairs until a reset (50 in the code)
    VALMAX,          \* bound: highest value of valSema that is counted
    COUNTMAX         \* bound: highest value of count that is counted

ASSUME LinkAssumption ==
    /\ MAXMSGS \in Nat \ {0}
    /\ JSON_NPACKET \in Nat \ {0}
    /\ FIREBASE_TRIES \in Nat \ {0, 1}
    /\ FBASE_TRIES \in Nat \ {0}
    /\ VALMAX \in Nat \ {0}
    /\ COUNTMAX \in Nat /\ COUNTMAX > FIREBASE_TRIES

VARIABLES
    lp,              \* loop(): in SerialEvent, in an upload, or repairing
    loops,           \* messages of the running upload
    index,           \* block that the running upload deletes or writes next
    rtn,             \* its result so far
    N_uploads,       \* blocks the firmware believes to be on the server
    count,           \* requests since the last pause
    WiFi_Con,        \* Firebase believed reachable
    firebase_tries,  \* failed repairs since the last successful one
    pc1,             \* task 1: at valSema.wait() or with a request under way
    valSema,         \* value of the semaphore that starts a validation
    taskToken,       \* "SERIAL_REQ" once a validation succeeded
    server,          \* the blocks on the server
    failed,          \* history: blocks whose last operation is not confirmed
    Enable,          \* the operator's switch on the server
    online,          \* the WiFi is associated
    boot             \* history: changes with every reset

upload  == <<loops, index, rtn>>
link    == <<WiFi_Con, firebase_tries>>
task1   == <<pc1, valSema>>
remote  == <<server, failed>>
outside == <<Enable, online, boot>>
vars == <<lp, upload, N_uploads, count, link, task1, taskToken, remote, outside>>

\* Blocks an upload writes at most; the messages beyond them are not sent.
MaxBlocks == MAXMSGS \div JSON_NPACKET

Nodes == 0..MaxBlocks - 1

\* cycles_needed for n messages.
Blocks(n) == (n + JSON_NPACKET - 1) \div JSON_NPACKET

AtMost(n, bound) == IF n <= bound THEN n ELSE bound

CountOne == AtMost(count + 1, COUNTMAX)

Outcomes == IF online THEN {"done", "lost", "refused"} ELSE {"refused"}

-----------------------------------------------------------------------------

Init ==
    /\ lp = "serial"
    /\ loops = 0 /\ index = 0 /\ rtn = FALSE
    /\ N_uploads = 0 /\ count = 0
    /\ WiFi_Con = TRUE /\ firebase_tries = 0
    /\ pc1 = "wait" /\ valSema = 1
    /\ taskToken = "FIREB_VAL"
    /\ server = [i \in Nodes |-> "none"] /\ failed = {}
    /\ Enable \in BOOLEAN /\ online = TRUE /\ boot = 0

-----------------------------------------------------------------------------
(* loop(): the upload that ends a polling cycle.                             *)

\* Mutant: the blocks to delete are counted from the wrong end.
FirstToDeleteNext(n) == Blocks(n) + 1

\* The first block to delete when n messages are uploaded.
FirstToDelete(n) == Blocks(n)

\* Before the first request: what is on the server becomes old.
StartUpload(n) ==
    /\ lp = "serial"
    /\ taskToken = "SERIAL_REQ"
    /\ n > 0 \/ N_uploads > 0
    /\ loops' = n
    /\ rtn' = FALSE
    /\ IF Blocks(n) < N_uploads
       THEN lp' = "delete" /\ index' = FirstToDelete(n)
       ELSE lp' = "write" /\ index' = 0
    /\ server' = [i \in Nodes |-> IF server[i] = "none" THEN "none" ELSE "old"]
    /\ UNCHANGED <<N_uploads, count, link, task1, taskToken, failed, outside>>

\* Mutant: the result overrides what a validation has found meanwhile.
FinishOverriding(ok) ==
    /\ N_uploads' = Blocks(loops)
    /\ WiFi_Con' = ok
    /\ lp' = IF WiFi_Con' THEN "serial" ELSE "fix"

\* What a finished upload leaves: SerialEvent clears WiFi_Con if it failed.
Finish(ok) ==
    /\ N_uploads' = Blocks(loops)
    /\ WiFi_Con' = (WiFi_Con /\ ok)
    /\ lp' = IF WiFi_Con' THEN "serial" ELSE "fix"

\* Firebase_Clean_Node(index); then the next one, or the writes, or the end.
DeleteBlock(o) ==
    /\ lp = "delete"
    /\ count' = CountOne
    /\ rtn' = (o = "done")
    /\ server' = IF o # "refused" /\ index \in Nodes
                 THEN [server EXCEPT ![index] = "none"] ELSE server
    /\ failed' = IF index \notin Nodes THEN failed
                 ELSE IF o = "done" THEN failed \ {index} ELSE failed \cup {index}
    /\ \/ /\ index + 1 < N_uploads
          /\ index' = index + 1
          /\ UNCHANGED <<lp, N_uploads, WiFi_Con>>
       \/ /\ index + 1 >= N_uploads /\ loops > 0
          /\ index' = 0
          /\ lp' = "write"
          /\ UNCHANGED <<N_uploads, WiFi_Con>>
       \/ /\ index + 1 >= N_uploads /\ loops = 0
          /\ Finish(o = "done")
          /\ UNCHANGED index
    /\ UNCHANGED <<loops, firebase_tries, task1, taskToken, outside>>

\* The block at index is sent only if the server has a place for it and the
\* counter, which this call has incremented, allows another request.
Sendable == index < MaxBlocks /\ count + 1 <= FIREBASE_TRIES

\* One block of messages: dataupload2(index), or nothing beyond MaxBlocks.
WriteBlock(o) ==
    /\ lp = "write"
    /\ ~Sendable => o = "refused"
    /\ count' = IF index < MaxBlocks THEN CountOne ELSE count
    /\ rtn' = IF index < MaxBlocks THEN o = "done" ELSE rtn
    /\ server' = IF o # "refused" THEN [server EXCEPT ![index] = "new"] ELSE server
    /\ failed' = IF index \notin Nodes THEN failed
                 ELSE IF o = "done" THEN failed \ {index} ELSE failed \cup {index}
    /\ \/ /\ index + 1 < Blocks(loops)
          /\ index' = index + 1
          /\ UNCHANGED <<lp, N_uploads, WiFi_Con>>
       \/ /\ index + 1 >= Blocks(loops)
          /\ Finish(rtn')
          /\ UNCHANGED index
    /\ UNCHANGED <<loops, firebase_tries, task1, taskToken, outside>>

-----------------------------------------------------------------------------
(* Resets.                                                                   *)

\* Blocks on the server that a reset makes the firmware forget.
Forgotten == failed \cup {i \in Nodes : server[i] # "none"}

\* ESP.reset() and setup(), which ends with WiFi and Firebase set up.
Reboot ==
    /\ lp' = "serial"
    /\ loops' = 0 /\ index' = 0 /\ rtn' = FALSE
    /\ N_uploads' = 0 /\ count' = 0
    /\ WiFi_Con' = TRUE /\ firebase_tries' = 0
    /\ pc1' = "wait" /\ valSema' = 1
    /\ taskToken' = "FIREB_VAL"
    /\ failed' = Forgotten
    /\ online' = TRUE /\ boot' = 1 - boot
    /\ UNCHANGED <<server, Enable>>

-----------------------------------------------------------------------------
(* loop(): Fix_Firebase.                                                     *)

\* Answers that reading the Enable switch may give when a request is made.
Answers == IF online THEN {Enable, FALSE} ELSE {FALSE}

\* Mutant: the limit of repairs is tested before the failed one is counted.
LastRepairLate == firebase_tries >= FBASE_TRIES

\* Fix_Firebase() resets after this failed repair.
LastRepair == firebase_tries + 1 >= FBASE_TRIES

\* Mutant: failed repairs are not counted.
TriedNot == firebase_tries

\* firebase_tries after a failed repair.
Tried == firebase_tries + 1

\* A repair fails; c is the new value of count.
RepairFails(c) ==
    \/ /\ ~LastRepair
       /\ firebase_tries' = Tried
       /\ count' = c
       /\ lp' = "serial"
       /\ UNCHANGED <<upload, N_uploads, WiFi_Con, task1, taskToken, remote,
                      outside>>
    \/ LastRepair /\ Reboot

StartFix ==
    /\ lp = "serial" /\ ~WiFi_Con
    /\ lp' = "fix"
    /\ UNCHANGED <<upload, N_uploads, count, link, task1, taskToken, remote,
                   outside>>

\* pauseFirebase(1), delay, pauseFirebase(0): both succeed or the repair fails.
Pause ==
    /\ lp = "fix"
    /\ \/ /\ online
          /\ count' = 0
          /\ lp' = "recheck"
          /\ UNCHANGED <<upload, N_uploads, link, task1, taskToken, remote,
                         outside>>
       \/ RepairFails(count)

\* Mutant: task 1 is not told of the repair.
ValidationPostedNot == valSema

\* valSema.post() after a successful repair.
ValidationPosted == AtMost(valSema + 1, VALMAX)

\* Firebase_Enable() after the pause decides the repair.
Recheck ==
    /\ lp = "recheck"
    /\ \/ /\ count + 1 < FIREBASE_TRIES /\ TRUE \in Answers
          /\ count' = CountOne
          /\ WiFi_Con' = TRUE /\ firebase_tries' = 0
          /\ valSema' = ValidationPosted
          /\ lp' = "serial"
          /\ UNCHANGED <<upload, N_uploads, pc1, taskToken, remote, outside>>
       \/ RepairFails(CountOne)

-----------------------------------------------------------------------------
(* Task 1: loop1.                                                            *)

\* A validation fails; c and v are the new values of count and valSema.
ValidationFails(c, v) ==
    \/ /\ online
       /\ WiFi_Con' = FALSE
       /\ count' = c /\ valSema' = v
       /\ pc1' = "wait"
       /\ UNCHANGED <<lp, upload, N_uploads, firebase_tries, taskToken, remote,
                      outside>>
    \/ ~online /\ Reboot

\* valSema.wait() returns and Firebase_Enable() counts its request; it is only
\* made below the limit.
StartValidation ==
    /\ pc1 = "wait" /\ valSema > 0
    /\ valSema' = valSema - 1
    /\ count + 1 < FIREBASE_TRIES
    /\ count' = CountOne
    /\ pc1' = "asking"
    /\ UNCHANGED <<lp, upload, N_uploads, link, taskToken, remote, outside>>

RefuseValidation ==
    /\ pc1 = "wait" /\ valSema > 0
    /\ count + 1 >= FIREBASE_TRIES
    /\ ValidationFails(CountOne, valSema - 1)

EndValidation ==
    /\ pc1 = "asking"
    /\ \/ /\ TRUE \in Answers
          /\ WiFi_Con' = TRUE
          /\ taskToken' = "SERIAL_REQ"
          /\ pc1' = "wait"
          /\ UNCHANGED <<lp, upload, N_uploads, count, firebase_tries, valSema,
                         remote, outside>>
       \/ ValidationFails(count, valSema)

-----------------------------------------------------------------------------

\* The operator's switch and the WiFi change.
Operator ==
    /\ Enable' = ~Enable
    /\ UNCHANGED <<lp, upload, N_uploads, count, link, task1, taskToken, remote,
                   online, boot>>

Radio ==
    /\ online' = ~online
    /\ UNCHANGED <<lp, upload, N_uploads, count, link, task1, taskToken, remote,
                   Enable, boot>>

Requests == \E o \in Outcomes : DeleteBlock(o) \/ WriteBlock(o)

Next == \/ \E n \in 0..MAXMSGS : StartUpload(n)
        \/ Requests
        \/ StartFix \/ Pause \/ Recheck
        \/ StartValidation \/ RefuseValidation \/ EndValidation
        \/ Operator \/ Radio

Spec == Init /\ [][Next]_vars

\* loop() and task 1 are scheduled for ever and a request comes to an end.
Fairness == /\ WF_vars(Requests \/ StartFix \/ Pause \/ Recheck)
            /\ WF_vars(StartValidation \/ RefuseValidation \/ EndValidation)

FairSpec == Spec /\ Fairness

-----------------------------------------------------------------------------
(* Properties.                                                               *)

\* Types; a repair count that reached FBASE_TRIES has reset the chip.
TypeOK ==
    /\ lp \in {"serial", "delete", "write", "fix", "recheck"}
    /\ loops \in 0..MAXMSGS /\ index \in 0..Blocks(MAXMSGS) /\ rtn \in BOOLEAN
    /\ N_uploads \in 0..Blocks(MAXMSGS)
    /\ count \in 0..COUNTMAX
    /\ WiFi_Con \in BOOLEAN /\ firebase_tries \in 0..FBASE_TRIES - 1
    /\ pc1 \in {"wait", "asking"} /\ valSema \in 0..VALMAX
    /\ taskToken \in {"FIREB_VAL", "SERIAL_REQ"}
    /\ server \in [Nodes -> {"none", "old", "new"}] /\ failed \subseteq Nodes
    /\ Enable \in BOOLEAN /\ online \in BOOLEAN /\ boot \in 0..1

\* Between uploads the server holds exactly the blocks of the last one, but for
\* those whose own last request failed or that a reset made the firmware forget.
MirrorsUnlessFailed ==
    lp \notin {"delete", "write"} =>
        \A i \in Nodes \ failed :
            server[i] = IF i < N_uploads THEN "new" ELSE "none"

\* The first validation, without which task 4 never polls, is never forgotten: until it
\* succeeds it is under way, or task 1 has a post left to start it, or the connection
\* counts as down, so that loop() repairs it and posts again.
ValidationOwed ==
    taskToken = "FIREB_VAL" => valSema > 0 \/ pc1 = "asking" \/ ~WiFi_Con

UploadReturns ==
    lp \in {"delete", "write"} /\ lp' \notin {"delete", "write"} /\ boot' = boot

\* "Upload Complete" (main.cpp:388) is printed when Firebase_upload() returns
\* true: then the server holds the blocks of this upload and no others.
UploadComplete ==
    [][UploadReturns /\ rtn' =>
        \A i \in Nodes : server'[i] = (IF i < Blocks(loops) THEN "new" ELSE "none")]_vars

\* A connection that is down is restored, or else the chip is reset: repairs do
\* not go on for ever, whatever uploads and validations come between them.
DownEnds ==
    \A b \in 0..1 : ~WiFi_Con /\ boot = b ~> WiFi_Con \/ boot # b

\* "Firebase Validation Task is meant to enable/disable the entire system"
\* (main.cpp:82): polling stops some time after the switch is turned off.
DisableTakesEffect == <>[]~Enable => <>[](taskToken # "SERIAL_REQ")

=============================================================================
