------------------------- MODULE FirebaseLink_proofs -------------------------
(***************************************************************************)
(* Theorems about FirebaseLink, for every size of the message buffer and   *)
(* of a block and for every limit of requests and repairs: types, what the *)
(* server holds, the validation that task 4 waits for, and that requests   *)
(* are what SerialPolling's Upload, Repair and Validate stand for.         *)
(***************************************************************************)
EXTENDS LinkInPolling, TLAPS

-----------------------------------------------------------------------------
(* Division by the size of a block.                                          *)

LEMMA Division ==
    ASSUME NEW a \in Nat, NEW d \in Nat \ {0}
    PROVE  /\ a \div d \in Nat
           /\ d * (a \div d) <= a
           /\ a < d * (a \div d) + d
OBVIOUS

LEMMA DivisionMonotone ==
    ASSUME NEW a \in Nat, NEW b \in Nat, NEW d \in Nat \ {0}, a <= b
    PROVE  a \div d <= b \div d
<1> DEFINE p == a \div d
           q == b \div d
<1>1. /\ p \in Nat /\ q \in Nat
      /\ d * p <= a /\ b < d * q + d
  BY Division
<1> HIDE DEF p, q
<1>2. ASSUME q < p PROVE FALSE
  <2>1. q + 1 <= p
    BY <1>1, <1>2
  <2>2. d * (q + 1) <= d * p
    BY <1>1, <2>1
  <2>3. d * (q + 1) = d * q + d
    BY <1>1
  <2> QED BY <1>1, <2>2, <2>3
<1>3. p <= q
  BY <1>1, <1>2
<1> QED BY <1>3 DEF p, q

\* The blocks of n messages: none of no message, and no more than those of a
\* full buffer.
LEMMA BlocksBound ==
    ASSUME NEW n \in 0..MAXMSGS
    PROVE  /\ Blocks(n) \in 0..Blocks(MAXMSGS)
           /\ Blocks(MAXMSGS) \in Nat
           /\ n = 0 <=> Blocks(n) = 0
<1>1. /\ MAXMSGS \in Nat /\ JSON_NPACKET \in Nat \ {0} /\ n \in Nat
      /\ n + JSON_NPACKET - 1 \in Nat /\ MAXMSGS + JSON_NPACKET - 1 \in Nat
      /\ n + JSON_NPACKET - 1 <= MAXMSGS + JSON_NPACKET - 1
  BY LinkAssumption
<1>2. Blocks(n) \in Nat /\ Blocks(MAXMSGS) \in Nat
  BY <1>1, Division DEF Blocks
<1>3. Blocks(n) <= Blocks(MAXMSGS)
  BY <1>1, DivisionMonotone DEF Blocks
<1>4. n = 0 => Blocks(n) = 0
  <2> SUFFICES ASSUME n = 0 PROVE Blocks(n) = 0
    OBVIOUS
  <2> DEFINE q == Blocks(n)
  <2>1. JSON_NPACKET * q <= JSON_NPACKET - 1
    BY <1>1, Division DEF Blocks
  <2> HIDE DEF q
  <2>2. ASSUME q >= 1 PROVE FALSE
    <3>1. JSON_NPACKET * q >= JSON_NPACKET
      BY <1>1, <1>2, <2>2 DEF q
    <3> QED BY <1>1, <2>1, <3>1, <1>2 DEF q
  <2> QED BY <1>2, <2>2 DEF q
<1>5. n # 0 => Blocks(n) # 0
  <2> SUFFICES ASSUME n # 0, Blocks(n) = 0 PROVE FALSE
    OBVIOUS
  <2>1. n + JSON_NPACKET - 1 < JSON_NPACKET * 0 + JSON_NPACKET
    BY <1>1, Division DEF Blocks
  <2> QED BY <1>1, <2>1
<1> QED BY <1>2, <1>3, <1>4, <1>5

LEMMA NodesType == MaxBlocks \in Nat /\ Nodes \subseteq Nat
BY LinkAssumption, Division DEF MaxBlocks, Nodes

-----------------------------------------------------------------------------
(* Types.                                                                    *)

LEMMA Counted ==
    ASSUME count \in 0..COUNTMAX
    PROVE  CountOne \in 0..COUNTMAX
BY LinkAssumption DEF CountOne, AtMost

\* What a reset sets has its type.
LEMMA RebootType ==
    ASSUME TypeOK, Reboot
    PROVE  TypeOK'
<1>1. 0 \in 0..MAXMSGS /\ 0 \in 0..Blocks(MAXMSGS) /\ 0 \in 0..COUNTMAX
      /\ 0 \in 0..FBASE_TRIES - 1 /\ 1 \in 0..VALMAX
  <2>1. 0 \in 0..MAXMSGS
    BY LinkAssumption
  <2> QED BY <2>1, BlocksBound, LinkAssumption
<1>2. failed' \subseteq Nodes
  BY DEF TypeOK, Reboot, Forgotten
<1>3. boot' \in 0..1
  BY DEF TypeOK, Reboot
<1> QED BY <1>1, <1>2, <1>3 DEF TypeOK, Reboot

LEMMA FinishType ==
    ASSUME TypeOK, NEW ok \in BOOLEAN, Finish(ok)
    PROVE  /\ N_uploads' \in 0..Blocks(MAXMSGS)
           /\ WiFi_Con' \in BOOLEAN
           /\ lp' \in {"serial", "fix"}
<1>1. N_uploads' \in 0..Blocks(MAXMSGS)
  BY BlocksBound DEF Finish, TypeOK
<1>2. WiFi_Con' \in BOOLEAN
  BY Zenon DEF Finish, TypeOK
<1>3. lp' \in {"serial", "fix"}
  BY DEF Finish
<1> QED BY <1>1, <1>2, <1>3

LEMMA DeleteType ==
    ASSUME TypeOK, NEW o \in Outcomes, DeleteBlock(o)
    PROVE  TypeOK'
<1>1. count' \in 0..COUNTMAX
  BY Counted DEF DeleteBlock, TypeOK
<1>2. rtn' \in BOOLEAN
  BY DEF DeleteBlock
<1>3. server' \in [Nodes -> {"none", "old", "new"}] /\ failed' \subseteq Nodes
  BY DEF DeleteBlock, TypeOK
<1>4. /\ N_uploads' \in 0..Blocks(MAXMSGS)
      /\ WiFi_Con' \in BOOLEAN
      /\ lp' \in {"serial", "delete", "write", "fix"}
      /\ index' \in 0..Blocks(MAXMSGS)
  <2>0. /\ N_uploads \in 0..Blocks(MAXMSGS) /\ index \in 0..Blocks(MAXMSGS)
        /\ loops \in 0..MAXMSGS /\ WiFi_Con \in BOOLEAN /\ lp = "delete"
        /\ Blocks(MAXMSGS) \in Nat
    BY BlocksBound DEF TypeOK, DeleteBlock
  <2>1. CASE index + 1 < N_uploads
    BY <2>0, <2>1 DEF DeleteBlock
  <2>2. CASE index + 1 >= N_uploads /\ loops > 0
    BY <2>0, <2>2 DEF DeleteBlock
  <2>3. CASE index + 1 >= N_uploads /\ loops = 0
    <3>1. Finish(o = "done") /\ index' = index
      BY <2>0, <2>3 DEF DeleteBlock
    <3> QED BY <2>0, <3>1, FinishType
  <2> QED BY <2>0, <2>1, <2>2, <2>3
<1>5. UNCHANGED <<loops, firebase_tries, pc1, valSema, taskToken, Enable,
                  online, boot>>
  BY DEF DeleteBlock, task1, outside
<1> QED BY <1>1, <1>2, <1>3, <1>4, <1>5 DEF TypeOK

LEMMA WriteType ==
    ASSUME TypeOK, NEW o \in Outcomes, WriteBlock(o)
    PROVE  TypeOK'
<1>1. count' \in 0..COUNTMAX
  BY Counted DEF WriteBlock, TypeOK
<1>2. rtn' \in BOOLEAN
  BY DEF WriteBlock, TypeOK
<1>3. server' \in [Nodes -> {"none", "old", "new"}] /\ failed' \subseteq Nodes
  BY DEF WriteBlock, TypeOK
<1>4. /\ N_uploads' \in 0..Blocks(MAXMSGS)
      /\ WiFi_Con' \in BOOLEAN
      /\ lp' \in {"serial", "write", "fix"}
      /\ index' \in 0..Blocks(MAXMSGS)
  <2>0. /\ N_uploads \in 0..Blocks(MAXMSGS) /\ index \in 0..Blocks(MAXMSGS)
        /\ WiFi_Con \in BOOLEAN /\ lp = "write"
        /\ Blocks(MAXMSGS) \in Nat /\ Blocks(loops) \in 0..Blocks(MAXMSGS)
    BY BlocksBound DEF TypeOK, WriteBlock
  <2>1. CASE index + 1 < Blocks(loops)
    BY <2>0, <2>1 DEF WriteBlock
  <2>2. CASE index + 1 >= Blocks(loops)
    <3>1. Finish(rtn') /\ index' = index
      BY <2>0, <2>2 DEF WriteBlock
    <3> QED BY <2>0, <3>1, <1>2, FinishType
  <2> QED BY <2>0, <2>1, <2>2
<1>5. UNCHANGED <<loops, firebase_tries, pc1, valSema, taskToken, Enable,
                  online, boot>>
  BY DEF WriteBlock, task1, outside
<1> QED BY <1>1, <1>2, <1>3, <1>4, <1>5 DEF TypeOK

\* A failed repair that does not reset leaves room for another one.
LEMMA RepairFailsType ==
    ASSUME TypeOK, NEW c \in 0..COUNTMAX, RepairFails(c)
    PROVE  TypeOK'
<1>1. CASE LastRepair /\ Reboot
  BY <1>1, RebootType
<1>2. CASE ~LastRepair
  <2>1. firebase_tries' \in 0..FBASE_TRIES - 1
    BY <1>2, LinkAssumption DEF RepairFails, LastRepair, Tried, TypeOK
  <2> QED
    BY <1>2, <2>1 DEF RepairFails, TypeOK, upload, task1, remote, outside
<1> QED BY <1>1, <1>2 DEF RepairFails

LEMMA ValidationFailsType ==
    ASSUME TypeOK, NEW c \in 0..COUNTMAX, NEW v \in 0..VALMAX,
           ValidationFails(c, v)
    PROVE  TypeOK'
<1>1. CASE online
  BY <1>1 DEF ValidationFails, TypeOK, upload, remote, outside
<1>2. CASE ~online
  BY <1>2, RebootType DEF ValidationFails
<1> QED BY <1>1, <1>2

\* Types: indices stay within the blocks of a full buffer, and the number of
\* failed repairs below FBASE_TRIES, where Fix_Firebase resets.
THEOREM LinkTypes == Spec => []TypeOK
<1> USE DEF upload, link, task1, remote, outside
<1>1. Init => TypeOK
  <2> SUFFICES ASSUME Init PROVE TypeOK
    OBVIOUS
  <2>1. 0 \in 0..MAXMSGS
    BY LinkAssumption
  <2>2. 0 \in 0..Blocks(MAXMSGS)
    BY <2>1, BlocksBound
  <2>3. 0 \in 0..COUNTMAX /\ 0 \in 0..FBASE_TRIES - 1 /\ 1 \in 0..VALMAX
    BY LinkAssumption
  <2>4. server \in [Nodes -> {"none", "old", "new"}]
    BY DEF Init
  <2>5. /\ lp = "serial" /\ loops = 0 /\ index = 0 /\ rtn \in BOOLEAN
        /\ N_uploads = 0 /\ count = 0 /\ WiFi_Con \in BOOLEAN
        /\ firebase_tries = 0 /\ pc1 = "wait" /\ valSema = 1
        /\ taskToken = "FIREB_VAL" /\ failed = {}
        /\ Enable \in BOOLEAN /\ online \in BOOLEAN /\ boot = 0
    BY DEF Init
  <2> QED BY <2>1, <2>2, <2>3, <2>4, <2>5 DEF TypeOK
<1>2. TypeOK /\ [Next]_vars => TypeOK'
  <2> SUFFICES ASSUME TypeOK, [Next]_vars PROVE TypeOK'
    OBVIOUS
  <2>1. ASSUME NEW n \in 0..MAXMSGS, StartUpload(n) PROVE TypeOK'
    <3>1. index' \in 0..Blocks(MAXMSGS) /\ lp' \in {"delete", "write"}
      BY <2>1, BlocksBound DEF StartUpload, FirstToDelete
    <3>2. server' \in [Nodes -> {"none", "old", "new"}]
      BY <2>1 DEF StartUpload, TypeOK
    <3> QED BY <2>1, <3>1, <3>2 DEF StartUpload, TypeOK
  <2>2. ASSUME NEW o \in Outcomes, DeleteBlock(o) PROVE TypeOK'
    BY <2>2, DeleteType
  <2>3. ASSUME NEW o \in Outcomes, WriteBlock(o) PROVE TypeOK'
    BY <2>3, WriteType
  <2>4. CASE StartFix
    BY <2>4 DEF StartFix, TypeOK
  <2>5. CASE Pause
    <3>1. CASE RepairFails(count)
      BY <3>1, RepairFailsType DEF TypeOK
    <3>2. CASE ~RepairFails(count)
      <4>1. 0 \in 0..COUNTMAX
        BY LinkAssumption
      <4> QED BY <2>5, <3>2, <4>1 DEF Pause, TypeOK
    <3> QED BY <3>1, <3>2
  <2>6. CASE Recheck
    <3>0. CountOne \in 0..COUNTMAX
      BY Counted DEF TypeOK
    <3>1. CASE RepairFails(CountOne)
      BY <3>0, <3>1, RepairFailsType
    <3>2. CASE ~RepairFails(CountOne)
      <4>1. 0 \in 0..FBASE_TRIES - 1
        BY LinkAssumption
      <4>2. /\ count' = CountOne /\ WiFi_Con' = TRUE /\ firebase_tries' = 0
            /\ valSema' = AtMost(valSema + 1, VALMAX) /\ lp' = "serial"
            /\ UNCHANGED <<upload, N_uploads, pc1, taskToken, remote, outside>>
        BY <2>6, <3>2, Zenon DEF Recheck, ValidationPosted
      <4>3. valSema' \in 0..VALMAX
        BY <4>2, LinkAssumption DEF AtMost, TypeOK
      <4> QED BY <3>0, <4>1, <4>2, <4>3 DEF TypeOK
    <3> QED BY <3>1, <3>2
  <2>7. CASE StartValidation
    <3>1. count' \in 0..COUNTMAX
      BY <2>7, Counted DEF StartValidation, TypeOK
    <3>2. valSema' \in 0..VALMAX
      BY <2>7, LinkAssumption DEF StartValidation, TypeOK
    <3> QED BY <2>7, <3>1, <3>2 DEF StartValidation, TypeOK
  <2>8. CASE RefuseValidation
    <3>1. CountOne \in 0..COUNTMAX /\ valSema - 1 \in 0..VALMAX
      BY <2>8, Counted, LinkAssumption DEF RefuseValidation, TypeOK
    <3> QED BY <2>8, <3>1, ValidationFailsType DEF RefuseValidation
  <2>9. CASE EndValidation
    <3>1. CASE ValidationFails(count, valSema)
      BY <3>1, ValidationFailsType DEF TypeOK
    <3>2. CASE ~ValidationFails(count, valSema)
      BY <2>9, <3>2 DEF EndValidation, TypeOK
    <3> QED BY <3>1, <3>2
  <2>10. CASE Operator
    BY <2>10 DEF Operator, TypeOK
  <2>11. CASE Radio
    BY <2>11 DEF Radio, TypeOK
  <2>12. CASE UNCHANGED vars
    BY <2>12 DEF vars, TypeOK
  <2> QED
    BY <2>1, <2>2, <2>3, <2>4, <2>5, <2>6, <2>7, <2>8, <2>9, <2>10, <2>11,
       <2>12 DEF Next, Requests
<1> QED BY <1>1, <1>2, PTL DEF Spec

-----------------------------------------------------------------------------
(* What the server holds.                                                    *)

\* The block i when no upload runs, and in the middle of one: the blocks to
\* delete are still there from index on, those to write up to index.
Expected(i) ==
    IF lp = "delete"
    THEN IF i < Blocks(loops) \/ (index <= i /\ i < N_uploads)
         THEN "old" ELSE "none"
    ELSE IF lp = "write"
    THEN IF i < index THEN "new"
         ELSE IF i < N_uploads /\ i < Blocks(loops) THEN "old" ELSE "none"
    ELSE IF i < N_uploads THEN "new" ELSE "none"

\* Where index is during an upload.
IndexInv ==
    /\ lp = "delete" => Blocks(loops) <= index /\ index < N_uploads
    /\ lp = "write" => index < Blocks(loops)

MirrorInv ==
    /\ IndexInv
    /\ \A i \in Nodes \ failed : server[i] = Expected(i)

LEMMA MirrorInit == Init => MirrorInv
BY NodesType DEF Init, MirrorInv, IndexInv, Expected

LEMMA MirrorStart ==
    ASSUME TypeOK, MirrorInv, NEW n \in 0..MAXMSGS, StartUpload(n)
    PROVE  MirrorInv'
<1>0. /\ Blocks(n) \in Nat /\ N_uploads \in Nat /\ Nodes \subseteq Nat
      /\ n = 0 <=> Blocks(n) = 0
  BY BlocksBound, NodesType DEF TypeOK
<1>1. /\ lp = "serial" /\ (n > 0 \/ N_uploads > 0) /\ loops' = n
      /\ N_uploads' = N_uploads /\ failed' = failed
      /\ IF Blocks(n) < N_uploads
         THEN lp' = "delete" /\ index' = Blocks(n)
         ELSE lp' = "write" /\ index' = 0
  BY DEF StartUpload, FirstToDelete, remote
<1>2. IndexInv'
  <2>1. Blocks(loops') = Blocks(n)
    BY <1>1
  <2> QED BY <1>0, <1>1, <2>1 DEF IndexInv, Blocks
<1>3. ASSUME NEW i \in Nodes \ failed PROVE server'[i] = Expected(i)'
  <2>1. server[i] = IF i < N_uploads THEN "new" ELSE "none"
    BY <1>1 DEF MirrorInv, Expected, StartUpload
  <2>2. server'[i] = IF i < N_uploads THEN "old" ELSE "none"
    BY <2>1 DEF StartUpload
  <2> QED BY <1>0, <1>1, <2>2 DEF Expected, Blocks
<1> QED BY <1>1, <1>2, <1>3 DEF MirrorInv

LEMMA MirrorDelete ==
    ASSUME TypeOK, MirrorInv, NEW o \in Outcomes, DeleteBlock(o)
    PROVE  MirrorInv'
<1>0. /\ Blocks(loops) \in Nat /\ N_uploads \in Nat /\ Nodes \subseteq Nat
      /\ index \in Nat /\ loops \in Nat /\ (loops = 0 <=> Blocks(loops) = 0)
      /\ Blocks(loops) <= index /\ index < N_uploads
  <2>1. lp = "delete" /\ loops \in 0..MAXMSGS /\ index \in Nat /\ N_uploads \in Nat
    BY BlocksBound DEF DeleteBlock, TypeOK
  <2> QED BY <2>1, BlocksBound, NodesType DEF MirrorInv, IndexInv
<1>1. loops' = loops /\ Blocks(loops') = Blocks(loops)
  BY DEF DeleteBlock
<1>2. \/ /\ index + 1 < N_uploads
         /\ index' = index + 1 /\ lp' = "delete" /\ N_uploads' = N_uploads
      \/ /\ index + 1 >= N_uploads /\ loops > 0
         /\ index' = 0 /\ lp' = "write" /\ N_uploads' = N_uploads
      \/ /\ index + 1 >= N_uploads /\ loops = 0
         /\ N_uploads' = Blocks(loops) /\ lp' \in {"serial", "fix"}
  BY DEF DeleteBlock, Finish
<1>3. IndexInv'
  BY <1>0, <1>1, <1>2 DEF IndexInv
<1>4. ASSUME NEW i \in Nodes \ failed' PROVE server'[i] = Expected(i)'
  <2>1. CASE i = index
    <3>1. o = "done"
      BY <2>1, <1>4 DEF DeleteBlock
    <3>2. server'[i] = "none"
      BY <2>1, <3>1 DEF DeleteBlock, TypeOK
    <3> QED BY <1>0, <1>1, <1>2, <2>1, <3>2 DEF Expected
  <2>2. CASE i # index
    <3>1. i \in Nodes \ failed /\ server'[i] = server[i]
      BY <2>2, <1>4 DEF DeleteBlock, TypeOK
    <3>2. server[i] = IF i < Blocks(loops) \/ (index <= i /\ i < N_uploads)
                      THEN "old" ELSE "none"
      BY <3>1 DEF MirrorInv, Expected, DeleteBlock
    <3>3. i \in Nat
      BY <1>0, <3>1
    <3>4. CASE lp' = "delete" /\ index' = index + 1 /\ N_uploads' = N_uploads
      BY <1>0, <1>1, <2>2, <3>1, <3>2, <3>3, <3>4 DEF Expected
    <3>5. CASE /\ index + 1 >= N_uploads /\ index' = 0 /\ lp' = "write"
               /\ N_uploads' = N_uploads
      BY <1>0, <1>1, <2>2, <3>1, <3>2, <3>3, <3>5 DEF Expected
    <3>6. CASE /\ index + 1 >= N_uploads /\ loops = 0
               /\ N_uploads' = Blocks(loops) /\ lp' \in {"serial", "fix"}
      BY <1>0, <1>1, <2>2, <3>1, <3>2, <3>3, <3>6 DEF Expected
    <3> QED BY <1>2, <3>4, <3>5, <3>6
  <2> QED BY <2>1, <2>2
<1> QED BY <1>3, <1>4 DEF MirrorInv

LEMMA MirrorWrite ==
    ASSUME TypeOK, MirrorInv, NEW o \in Outcomes, WriteBlock(o)
    PROVE  MirrorInv'
<1>0. /\ Blocks(loops) \in Nat /\ N_uploads \in Nat /\ Nodes \subseteq Nat
      /\ index \in Nat /\ index < Blocks(loops)
  <2>1. lp = "write" /\ loops \in 0..MAXMSGS /\ index \in Nat /\ N_uploads \in Nat
    BY BlocksBound DEF WriteBlock, TypeOK
  <2> QED BY <2>1, BlocksBound, NodesType DEF MirrorInv, IndexInv
<1>1. loops' = loops /\ Blocks(loops') = Blocks(loops)
  BY DEF WriteBlock
<1>2. \/ /\ index + 1 < Blocks(loops)
         /\ index' = index + 1 /\ lp' = "write" /\ N_uploads' = N_uploads
      \/ /\ index + 1 >= Blocks(loops)
         /\ N_uploads' = Blocks(loops) /\ lp' \in {"serial", "fix"}
  BY DEF WriteBlock, Finish
<1>3. IndexInv'
  BY <1>0, <1>1, <1>2 DEF IndexInv
<1>4. ASSUME NEW i \in Nodes \ failed' PROVE server'[i] = Expected(i)'
  <2>1. CASE i = index
    <3>1. o = "done"
      BY <2>1, <1>4 DEF WriteBlock
    <3>2. server'[i] = "new"
      BY <2>1, <3>1 DEF WriteBlock, TypeOK
    <3> QED BY <1>0, <1>1, <1>2, <2>1, <3>2 DEF Expected
  <2>2. CASE i # index
    <3>1. i \in Nodes \ failed /\ server'[i] = server[i]
      BY <2>2, <1>4 DEF WriteBlock, TypeOK
    <3>2. server[i] = IF i < index THEN "new"
                      ELSE IF i < N_uploads /\ i < Blocks(loops) THEN "old"
                      ELSE "none"
      BY <3>1 DEF MirrorInv, Expected, WriteBlock
    <3>3. i \in Nat
      BY <1>0, <3>1
    <3>4. CASE lp' = "write" /\ index' = index + 1 /\ N_uploads' = N_uploads
      BY <1>0, <1>1, <2>2, <3>1, <3>2, <3>3, <3>4 DEF Expected
    <3>5. CASE /\ index + 1 >= Blocks(loops)
               /\ N_uploads' = Blocks(loops) /\ lp' \in {"serial", "fix"}
      BY <1>0, <1>1, <2>2, <3>1, <3>2, <3>3, <3>5 DEF Expected
    <3> QED BY <1>2, <3>4, <3>5
  <2> QED BY <2>1, <2>2
<1> QED BY <1>3, <1>4 DEF MirrorInv

\* A reset forgets the blocks, which failed then accounts for.
LEMMA MirrorReboot ==
    ASSUME Reboot
    PROVE  MirrorInv'
<1>1. /\ lp' = "serial" /\ N_uploads' = 0
      /\ failed' = failed \cup {i \in Nodes : server[i] # "none"}
      /\ server' = server
  BY DEF Reboot, Forgotten
<1>2. ASSUME NEW i \in Nodes \ failed' PROVE server'[i] = Expected(i)'
  <2>1. server'[i] = "none" /\ i \in Nat
    BY <1>1, NodesType
  <2> QED BY <1>1, <2>1 DEF Expected
<1> QED BY <1>1, <1>2 DEF MirrorInv, IndexInv

\* The other actions leave the server and the upload as they are.
LEMMA MirrorSame ==
    ASSUME MirrorInv, UNCHANGED <<loops, index, N_uploads, server, failed>>,
           \/ lp' = lp
           \/ {lp, lp'} \cap {"delete", "write"} = {}
    PROVE  MirrorInv'
<1>1. IndexInv'
  BY DEF MirrorInv, IndexInv, Blocks
<1>2. ASSUME NEW i \in Nodes \ failed PROVE server'[i] = Expected(i)'
  BY DEF MirrorInv, Expected, Blocks
<1> QED BY <1>1, <1>2 DEF MirrorInv

LEMMA MirrorNext == TypeOK /\ MirrorInv /\ [Next]_vars => MirrorInv'
<1> SUFFICES ASSUME TypeOK, MirrorInv, [Next]_vars PROVE MirrorInv'
  OBVIOUS
<1> USE DEF upload, link, task1, remote, outside
<1>1. ASSUME NEW n \in 0..MAXMSGS, StartUpload(n) PROVE MirrorInv'
  BY <1>1, MirrorStart
<1>2. ASSUME NEW o \in Outcomes, DeleteBlock(o) PROVE MirrorInv'
  BY <1>2, MirrorDelete
<1>3. ASSUME NEW o \in Outcomes, WriteBlock(o) PROVE MirrorInv'
  BY <1>3, MirrorWrite
<1>4. CASE StartFix
  BY <1>4, MirrorSame DEF StartFix
<1>5. CASE Pause
  BY <1>5, MirrorReboot, MirrorSame DEF Pause, RepairFails
<1>6. CASE Recheck
  BY <1>6, MirrorReboot, MirrorSame DEF Recheck, RepairFails
<1>7. CASE StartValidation
  BY <1>7, MirrorSame DEF StartValidation
<1>8. CASE RefuseValidation
  BY <1>8, MirrorReboot, MirrorSame DEF RefuseValidation, ValidationFails
<1>9. CASE EndValidation
  BY <1>9, MirrorReboot, MirrorSame DEF EndValidation, ValidationFails
<1>10. CASE Operator
  BY <1>10, MirrorSame DEF Operator
<1>11. CASE Radio
  BY <1>11, MirrorSame DEF Radio
<1>12. CASE UNCHANGED vars
  BY <1>12, MirrorSame DEF vars
<1> QED
  BY <1>1, <1>2, <1>3, <1>4, <1>5, <1>6, <1>7, <1>8, <1>9, <1>10, <1>11,
     <1>12 DEF Next, Requests

\* Between uploads the server holds exactly the blocks of the last one, except
\* where a block's own last request failed or a reset forgot it, whatever
\* requests, repairs, validations and resets come between.
THEOREM Mirrors == Spec => []MirrorsUnlessFailed
<1>1. MirrorInv => MirrorsUnlessFailed
  BY DEF MirrorInv, MirrorsUnlessFailed, Expected
<1> QED
  BY <1>1, LinkTypes, MirrorInit, MirrorNext, PTL DEF Spec

-----------------------------------------------------------------------------
(* The validation that is owed.                                              *)

\* A request of an upload may clear WiFi_Con and never sets it.
LEMMA UploadClears ==
    ASSUME NEW o \in Outcomes, TypeOK, DeleteBlock(o) \/ WriteBlock(o)
    PROVE  (WiFi_Con' => WiFi_Con) /\ UNCHANGED <<pc1, valSema, taskToken>>
BY DEF DeleteBlock, WriteBlock, Finish, task1, TypeOK

\* A reset owes the validation that starts every run.
LEMMA RebootOwes == Reboot => ValidationOwed'
BY DEF Reboot, ValidationOwed

\* A step after which the connection counts as down, or which leaves task 1 alone and
\* does not set WiFi_Con, forgets no validation.
LEMMA OwedStays ==
    ASSUME ValidationOwed,
           \/ ~WiFi_Con'
           \/ (WiFi_Con' => WiFi_Con) /\ UNCHANGED <<pc1, valSema, taskToken>>
    PROVE  ValidationOwed'
BY DEF ValidationOwed

LEMMA RepairFailsOwes ==
    ASSUME NEW c, ValidationOwed, RepairFails(c)
    PROVE  ValidationOwed'
<1>1. CASE ~LastRepair
  BY <1>1, OwedStays DEF RepairFails, task1
<1>2. CASE LastRepair
  BY <1>2, RebootOwes DEF RepairFails
<1> QED BY <1>1, <1>2

LEMMA ValidationFailsOwes ==
    ASSUME NEW c, NEW v, ValidationOwed, ValidationFails(c, v)
    PROVE  ValidationOwed'
<1>1. CASE online
  BY <1>1, OwedStays DEF ValidationFails
<1>2. CASE ~online
  BY <1>2, RebootOwes DEF ValidationFails
<1> QED BY <1>1, <1>2

LEMMA OwedNext == TypeOK /\ ValidationOwed /\ [Next]_vars => ValidationOwed'
<1> SUFFICES ASSUME TypeOK, ValidationOwed, [Next]_vars PROVE ValidationOwed'
  OBVIOUS
<1>1. ASSUME NEW n \in 0..MAXMSGS, StartUpload(n) PROVE ValidationOwed'
  BY <1>1, OwedStays DEF StartUpload, link, task1
<1>2. CASE Requests
  BY <1>2, UploadClears, OwedStays DEF Requests
<1>3. CASE StartFix
  BY <1>3, OwedStays DEF StartFix, link, task1
<1>4. CASE Pause
  <2>1. CASE RepairFails(count)
    BY <2>1, RepairFailsOwes
  <2>2. CASE UNCHANGED <<WiFi_Con, pc1, valSema, taskToken>>
    BY <2>2, OwedStays
  <2> QED BY <1>4, <2>1, <2>2 DEF Pause, link, task1
<1>5. CASE Recheck
  <2>1. CASE RepairFails(CountOne)
    BY <2>1, RepairFailsOwes
  <2>2. CASE valSema' = ValidationPosted
    <3>1. valSema' > 0
      BY <2>2, LinkAssumption DEF ValidationPosted, AtMost, TypeOK
    <3> QED BY <3>1 DEF ValidationOwed
  <2> QED BY <1>5, <2>1, <2>2 DEF Recheck
<1>6. CASE StartValidation
  BY <1>6 DEF StartValidation, ValidationOwed
<1>7. CASE RefuseValidation
  BY <1>7, ValidationFailsOwes DEF RefuseValidation
<1>8. CASE EndValidation
  <2>1. CASE ValidationFails(count, valSema)
    BY <2>1, ValidationFailsOwes
  <2>2. CASE taskToken' = "SERIAL_REQ"
    BY <2>2 DEF ValidationOwed
  <2> QED BY <1>8, <2>1, <2>2 DEF EndValidation
<1>9. CASE Operator \/ Radio
  BY <1>9, OwedStays DEF Operator, Radio, link, task1
<1>10. CASE UNCHANGED vars
  BY <1>10, OwedStays DEF vars, link, task1
<1> QED
  BY <1>1, <1>2, <1>3, <1>4, <1>5, <1>6, <1>7, <1>8, <1>9, <1>10 DEF Next

\* However uploads, repairs, validations and resets interleave, the system is never left
\* with a connection that counts as up, polling disabled, and no validation to enable it.
THEOREM ValidationNeverForgotten == Spec => []ValidationOwed
<1>1. Init => ValidationOwed
  BY DEF Init, ValidationOwed
<1> QED BY <1>1, OwedNext, LinkTypes, PTL DEF Spec

-----------------------------------------------------------------------------
(* The steps of SerialPolling.                                               *)

\* The variables that both modules have.
shared == <<lp, loops, WiFi_Con, N_uploads, taskToken>>

\* A step that one of SerialPolling's accounts for.
Matched == \/ boot' # boot
           \/ UploadStarts
           \/ Polling!Upload \/ Polling!Repair \/ Polling!SerialIdle
           \/ \E ok \in BOOLEAN : Polling!Validate(ok)

\* The variables of SerialPolling that FirebaseLink has no part in.
LEMMA Unseen ==
    ASSUME Stage' = Stage, Buffer' = Buffer,
           UNCHANGED <<WiFi_Con, N_uploads, taskToken>>
    PROVE  UNCHANGED Polling!vars
BY DEF Polling!vars, Polling!taskVars, Polling!windows, Polling!bufVars,
       Polling!powerVars, Polling!panel

LEMMA SameStage ==
    ASSUME Stage' = Stage, loops' = loops
    PROVE  Buffer' = Buffer
BY DEF Buffer

\* The buffer holds loops messages during an upload.
LEMMA BufferLength ==
    ASSUME TypeOK, lp \in {"delete", "write"}
    PROVE  /\ Len(Buffer) = loops
           /\ Buffer = << >> <=> loops = 0
<1>1. loops \in Nat /\ Buffer = [i \in 1..loops |-> "T"]
  BY LinkAssumption DEF TypeOK, Buffer, Stage
<1>2. Buffer \in Seq({"T"})
  BY <1>1
<1>3. Len(Buffer) = loops
  BY <1>1, <1>2
<1> QED BY <1>2, <1>3

\* The return of an upload is SerialPolling's Upload.
LEMMA UploadMatched ==
    ASSUME TypeOK, MirrorInv, lp \in {"delete", "write"}, NEW ok \in BOOLEAN,
           Finish(ok), UNCHANGED <<loops, taskToken>>
    PROVE  Polling!Upload
<1>1. Stage = "upload"
  BY DEF Stage
<1>2. Stage' = IF WiFi_Con' THEN "serial" ELSE "fix"
  BY DEF Stage, Finish
<1>3. Polling!HasRequests
  <2>1. CASE lp = "delete"
    <3>1. N_uploads > 0
      BY <2>1, BlocksBound DEF MirrorInv, IndexInv, TypeOK
    <3> QED BY <3>1 DEF Polling!HasRequests
  <2>2. CASE lp = "write"
    <3>1. loops # 0
      BY <2>2, BlocksBound DEF MirrorInv, IndexInv, TypeOK
    <3> QED BY <3>1, BufferLength DEF Polling!HasRequests
  <2> QED BY <2>1, <2>2
<1>4. N_uploads' = Polling!Blocks(Len(Buffer))
  BY BufferLength DEF Finish, Blocks, Polling!Blocks
<1>5. Buffer' = Polling!Cleaned
  BY <1>2 DEF Buffer, Polling!Cleaned
<1>6. WiFi_Con' = (WiFi_Con /\ ok)
  BY DEF Finish
<1> QED
  BY <1>1, <1>2, <1>3, <1>4, <1>5, <1>6
  DEF Polling!Upload, Polling!taskVars, Polling!windows, Polling!panel

\* A step that leaves loop() in the upload changes nothing that SerialPolling has.
LEMMA StillUploading ==
    ASSUME lp \in {"delete", "write"}, lp' \in {"delete", "write"},
           UNCHANGED <<loops, WiFi_Con, N_uploads, taskToken>>
    PROVE  UNCHANGED Polling!vars
<1>1. Stage' = Stage
  BY DEF Stage
<1> QED BY <1>1, SameStage, Unseen

\* The end of a repair is SerialPolling's Repair.
LEMMA RepairMatched ==
    ASSUME lp \in {"fix", "recheck"}, lp' = "serial", WiFi_Con' \in {WiFi_Con, TRUE},
           UNCHANGED <<loops, N_uploads, taskToken>>
    PROVE  Polling!Repair
<1>1. Stage = "fix" /\ Stage' = "serial"
  BY DEF Stage
<1>2. Buffer' = Buffer
  BY <1>1 DEF Buffer
<1> QED
  BY <1>1, <1>2 DEF Polling!Repair, Polling!taskVars, Polling!windows, Polling!bufVars,
                    Polling!powerVars, Polling!panel

\* The result of a validation is SerialPolling's Validate.
LEMMA ValidationMatched ==
    ASSUME NEW ok \in BOOLEAN, WiFi_Con' = ok,
           taskToken' = IF ok THEN "SERIAL_REQ" ELSE taskToken,
           UNCHANGED <<lp, loops, N_uploads>>
    PROVE  Polling!Validate(ok)
<1>1. Stage' = Stage /\ Buffer' = Buffer
  BY DEF Stage, Buffer
<1> QED
  BY <1>1 DEF Polling!Validate, Polling!taskVars, Polling!windows, Polling!bufVars,
              Polling!powerVars, Polling!panel

-----------------------------------------------------------------------------

LEMMA RebootMatched ==
    ASSUME TypeOK, Reboot
    PROVE  Matched
BY DEF Reboot, TypeOK, Matched

LEMMA RepairFailsMatched ==
    ASSUME TypeOK, lp \in {"fix", "recheck"}, NEW c, RepairFails(c)
    PROVE  Matched
<1>1. CASE LastRepair /\ Reboot
  BY <1>1, RebootMatched
<1>2. CASE ~LastRepair
  BY <1>2, RepairMatched DEF RepairFails, upload, Matched
<1> QED BY <1>1, <1>2 DEF RepairFails

LEMMA ValidationFailsMatched ==
    ASSUME TypeOK, NEW c, NEW v, ValidationFails(c, v)
    PROVE  Matched
<1>1. CASE online
  <2>1. Polling!Validate(FALSE)
    BY <1>1, ValidationMatched DEF ValidationFails, upload
  <2> QED BY <2>1 DEF Matched
<1>2. CASE ~online
  BY <1>2, RebootMatched DEF ValidationFails
<1> QED BY <1>1, <1>2

\* Every step is matched or leaves alone what SerialPolling has.
LEMMA StepMatched ==
    ASSUME TypeOK, MirrorInv, [Next]_vars
    PROVE  Matched \/ UNCHANGED Polling!vars
<1> USE DEF upload, link, task1, remote, outside
<1>0. ASSUME UNCHANGED shared PROVE UNCHANGED Polling!vars
  <2>1. Stage' = Stage /\ Buffer' = Buffer
    BY <1>0 DEF shared, Stage, Buffer
  <2> QED BY <1>0, <2>1, Unseen DEF shared
<1>1. ASSUME NEW n \in 0..MAXMSGS, StartUpload(n) PROVE Matched
  BY <1>1 DEF StartUpload, Matched, UploadStarts, Stage
<1>2. ASSUME NEW o \in Outcomes, DeleteBlock(o)
      PROVE  Matched \/ UNCHANGED Polling!vars
  <2>1. lp = "delete" /\ UNCHANGED <<loops, taskToken>>
    BY <1>2 DEF DeleteBlock
  <2>2. CASE Finish(o = "done")
    <3>1. Polling!Upload
      BY <2>1, <2>2, UploadMatched
    <3> QED BY <3>1 DEF Matched
  <2>3. CASE lp' \in {"delete", "write"} /\ UNCHANGED <<N_uploads, WiFi_Con>>
    BY <2>1, <2>3, StillUploading
  <2> QED BY <1>2, <2>1, <2>2, <2>3 DEF DeleteBlock
<1>3. ASSUME NEW o \in Outcomes, WriteBlock(o)
      PROVE  Matched \/ UNCHANGED Polling!vars
  <2>1. lp = "write" /\ UNCHANGED <<loops, taskToken>>
    BY <1>3 DEF WriteBlock
  <2>2. rtn' \in BOOLEAN
    BY <1>3, WriteType DEF TypeOK
  <2>3. CASE Finish(rtn')
    <3>1. Polling!Upload
      BY <2>1, <2>2, <2>3, UploadMatched
    <3> QED BY <3>1 DEF Matched
  <2>4. CASE lp' \in {"delete", "write"} /\ UNCHANGED <<N_uploads, WiFi_Con>>
    BY <2>1, <2>4, StillUploading
  <2> QED BY <1>3, <2>1, <2>3, <2>4 DEF WriteBlock
<1>4. ASSUME StartFix PROVE Matched
  <2>1. /\ Stage = "serial" /\ Stage' = "fix" /\ Buffer' = Buffer
        /\ ~WiFi_Con /\ UNCHANGED <<WiFi_Con, N_uploads, taskToken>>
    BY <1>4 DEF StartFix, Stage, Buffer
  <2>2. Polling!SerialIdle
    BY <2>1 DEF Polling!SerialIdle, Polling!AfterSerial, Polling!Open,
                Polling!taskVars, Polling!windows, Polling!bufVars,
                Polling!powerVars, Polling!panel
  <2> QED BY <2>2 DEF Matched
<1>5. ASSUME Pause PROVE Matched \/ UNCHANGED Polling!vars
  <2>1. CASE RepairFails(count)
    BY <1>5, <2>1, RepairFailsMatched DEF Pause
  <2>2. CASE lp = "fix" /\ lp' = "recheck" /\ UNCHANGED <<upload, link, N_uploads, taskToken>>
    <3>1. Stage' = Stage /\ loops' = loops
      BY <2>2 DEF Stage
    <3> QED BY <2>2, <3>1, SameStage, Unseen
  <2> QED BY <1>5, <2>1, <2>2 DEF Pause
<1>6. ASSUME Recheck PROVE Matched
  <2>1. CASE RepairFails(CountOne)
    BY <1>6, <2>1, RepairFailsMatched DEF Recheck
  <2>2. CASE ~RepairFails(CountOne)
    <3>1. Polling!Repair
      BY <1>6, <2>2, RepairMatched DEF Recheck
    <3> QED BY <3>1 DEF Matched
  <2> QED BY <2>1, <2>2
<1>7. ASSUME StartValidation PROVE UNCHANGED Polling!vars
  BY <1>0, <1>7 DEF StartValidation, shared
<1>8. ASSUME RefuseValidation PROVE Matched
  BY <1>8, ValidationFailsMatched DEF RefuseValidation
<1>9. ASSUME EndValidation PROVE Matched
  <2>1. CASE ValidationFails(count, valSema)
    BY <2>1, ValidationFailsMatched
  <2>2. CASE ~ValidationFails(count, valSema)
    <3>1. Polling!Validate(TRUE)
      BY <1>9, <2>2, ValidationMatched DEF EndValidation
    <3> QED BY <3>1 DEF Matched
  <2> QED BY <2>1, <2>2
<1>10. ASSUME Operator \/ Radio PROVE UNCHANGED Polling!vars
  BY <1>0, <1>10 DEF Operator, Radio, shared
<1>11. ASSUME UNCHANGED vars PROVE UNCHANGED Polling!vars
  BY <1>0, <1>11 DEF vars, shared
<1> QED
  BY <1>1, <1>2, <1>3, <1>4, <1>5, <1>6, <1>7, <1>8, <1>9, <1>10, <1>11
  DEF Next, Requests

\* Whatever requests are refused or lose their answers, and however task 1 and loop()
\* interleave, short of a reset the connection does to the polling core what
\* SerialPolling says (Firebase_upload, Fix_Firebase, loop1).
THEOREM ImplementsPolling == Spec => RefinesPolling
<1>1. TypeOK /\ MirrorInv /\ [Next]_vars => [Matched]_(Polling!vars)
  BY StepMatched
<1>2. [Matched]_(Polling!vars) =>
        [\/ boot' # boot
         \/ UploadStarts
         \/ Polling!Upload \/ Polling!Repair \/ Polling!SerialIdle
         \/ \E ok \in BOOLEAN : Polling!Validate(ok)]_(Polling!vars)
  BY DEF Matched
<1> QED
  BY <1>1, <1>2, LinkTypes, MirrorInit, MirrorNext, PTL DEF Spec, RefinesPolling

=============================================================================
