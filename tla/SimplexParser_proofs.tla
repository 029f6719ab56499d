------------------------ MODULE SimplexParser_proofs ------------------------
(***************************************************************************)
(* The blocks of an upload hold its messages, each once, for every size of *)
(* the buffer and of a block.  BlockInv adds up, between two messages, the *)
(* messages read, the full blocks and the records of the one being filled. *)
(* And a line in the panel's format becomes its four fields: LineInv says, *)
(* after each character, in which field or gap the parser is and what it   *)
(* has kept, and TouchedIs what Message_Final_Touch makes of that.         *)
(***************************************************************************)
EXTENDS SimplexParser, TLAPS

\* A sequence, whatever its elements are.
IsSeq(s) == \E S : s \in Seq(S)

LEMMA Empty == IsSeq(<< >>) /\ Len(<< >>) = 0
<1>1. << >> \in Seq({})
  OBVIOUS
<1> QED BY <1>1 DEF IsSeq

LEMMA Appended ==
    ASSUME NEW s, NEW e, IsSeq(s)
    PROVE  /\ IsSeq(Append(s, e)) /\ Len(s) \in Nat
           /\ Len(Append(s, e)) = Len(s) + 1
           /\ \A n \in 1..Len(s) : Append(s, e)[n] = s[n]
           /\ Append(s, e)[Len(s) + 1] = e
<1>1. PICK S : s \in Seq(S)
  BY DEF IsSeq
<1> DEFINE T == S \cup {e}
<1>2. s \in Seq(T) /\ e \in T
  BY <1>1
<1> HIDE DEF T
<1>3. Append(s, e) \in Seq(T)
  BY <1>2
<1> QED BY <1>2, <1>3 DEF IsSeq

LEMMA LengthOf ==
    ASSUME NEW n \in Nat, NEW S, NEW s \in [1..n -> S]
    PROVE  Len(s) = n
<1>1. s \in Seq(S)
  OBVIOUS
<1> QED BY <1>1

\* The quotient of a number is the one it lies between the multiples of.
LEMMA Quotient ==
    ASSUME NEW a \in Nat, NEW d \in Nat \ {0}, NEW q \in Nat,
           d * q <= a, a < d * q + d
    PROVE  a \div d = q
<1> DEFINE p == a \div d
<1>1. p \in Nat /\ d * p <= a /\ a < d * p + d
  OBVIOUS
<1> HIDE DEF p
<1>2. ASSUME p < q PROVE FALSE
  <2>1. d * (p + 1) <= d * q
    BY <1>1, <1>2
  <2>2. d * (p + 1) = d * p + d
    BY <1>1
  <2> QED BY <1>1, <2>1, <2>2
<1>3. ASSUME q < p PROVE FALSE
  <2>1. d * (q + 1) <= d * p
    BY <1>1, <1>3
  <2>2. d * (q + 1) = d * q + d
    OBVIOUS
  <2> QED BY <1>1, <2>1, <2>2
<1> QED BY <1>1, <1>2, <1>3 DEF p

\* The blocks that total messages take, c of them full and one with k more.
LEMMA Rounded ==
    ASSUME NEW c \in Nat, NEW k \in 1..JSON_NPACKET
    PROVE  (JSON_NPACKET * c + k + JSON_NPACKET - 1) \div JSON_NPACKET = c + 1
<1>1. JSON_NPACKET \in Nat \ {0}
  BY ParserAssumption
<1> DEFINE a == JSON_NPACKET * c + k + JSON_NPACKET - 1
<1>2. /\ JSON_NPACKET * c \in Nat
      /\ JSON_NPACKET * (c + 1) = JSON_NPACKET * c + JSON_NPACKET
  BY <1>1
<1>3. /\ a \in Nat
      /\ JSON_NPACKET * (c + 1) <= a
      /\ a < JSON_NPACKET * (c + 1) + JSON_NPACKET
  BY <1>1, <1>2
<1> HIDE DEF a
<1>4. a \div JSON_NPACKET = c + 1
  BY <1>1, <1>3, Quotient
<1> QED BY <1>4 DEF a

-----------------------------------------------------------------------------

Total == Len(Matriz)

\* Messages that have become records.
Recorded == JSON_NPACKET * cycle_count + Len(data)

\* Where the upload is, when it has not yet read all messages.
Reading ==
    /\ pc = "next" => count_rtn_index < Total /\ count_rtn_index = Recorded
    /\ pc \in {"parse", "touch"} =>
         count_rtn_index <= Total /\ count_rtn_index = Recorded + 1

BlockInv ==
    /\ IsSeq(data) /\ IsSeq(sent)
    /\ cycle_count \in Nat /\ count_rtn_index \in Nat /\ Total \in Nat
    /\ pc = "idle" => /\ data = << >> /\ sent = << >>
                      /\ cycle_count = 0 /\ count_rtn_index = 0
    /\ pc \in {"next", "parse", "touch"} =>
         /\ Len(data) < JSON_NPACKET
         /\ Len(sent) = Least(cycle_count, MaxBlocks)
         /\ \A b \in 1..Len(sent) : Len(sent[b]) = JSON_NPACKET
    /\ Reading
    /\ InBlocks

LEMMA BlockInit == Init => BlockInv
BY Empty DEF Init, BlockInv, Reading, InBlocks, Total, Recorded

LEMMA BlockStart ==
    ASSUME BlockInv, StartUpload
    PROVE  BlockInv'
<1>1. PICK n \in 1..MAXMSGS : Matriz' \in [1..n -> Messages]
  BY DEF StartUpload
<1>2. n \in Nat /\ n > 0 /\ Len(Matriz') = n
  BY <1>1, LengthOf, ParserAssumption
<1>3. /\ pc' = "next" /\ data' = << >> /\ sent' = << >>
      /\ cycle_count' = 0 /\ count_rtn_index' = 0
  BY DEF StartUpload, BlockInv, blocks
<1>4. MaxBlocks \in Nat /\ JSON_NPACKET \in Nat \ {0} /\ JSON_NPACKET * 0 = 0
  BY ParserAssumption DEF MaxBlocks
<1>5. Least(0, MaxBlocks) = 0
  BY <1>4 DEF Least
<1> QED
  BY <1>2, <1>3, <1>4, <1>5, Empty DEF BlockInv, Reading, InBlocks, Total, Recorded

LEMMA BlockNextLine ==
    ASSUME BlockInv, NextLine
    PROVE  BlockInv'
<1>1. /\ pc = "next" /\ pc' = "parse" /\ count_rtn_index' = count_rtn_index + 1
      /\ UNCHANGED <<Matriz, data, cycle_count, sent>>
  BY DEF NextLine, blocks
<1>2. Total' = Total /\ Recorded' = Recorded
  BY <1>1 DEF Total, Recorded
<1> QED BY <1>1, <1>2 DEF BlockInv, Reading, InBlocks

\* The parser leaves the blocks alone.
LEMMA BlockParse ==
    ASSUME BlockInv, Parse
    PROVE  BlockInv'
<1>1. /\ pc = "parse" /\ pc' \in {"parse", "touch"}
      /\ UNCHANGED <<Matriz, count_rtn_index, data, cycle_count, sent>>
  BY DEF Parse, NameChar, DataChar, SpaceChar, LineEnds, Parsing, blocks
<1>2. Total' = Total /\ Recorded' = Recorded
  BY <1>1 DEF Total, Recorded
<1> QED BY <1>1, <1>2 DEF BlockInv, Reading, InBlocks

LEMMA BlockAdd ==
    ASSUME BlockInv, AddRecord
    PROVE  BlockInv'
<1> DEFINE J   == JSON_NPACKET
           c   == cycle_count
           k   == Len(data) + 1
           out == Append(data, Touched)
<1>1. /\ J \in Nat \ {0} /\ c \in Nat /\ Total \in Nat /\ MaxBlocks \in Nat
      /\ J * c \in Nat /\ J * (c + 1) = J * c + J
  BY ParserAssumption DEF BlockInv, MaxBlocks
<1>2. IsSeq(out) /\ Len(data) \in Nat /\ Len(out) = k
  BY Appended DEF BlockInv
<1>3. /\ pc = "touch" /\ k \in 1..J
      /\ count_rtn_index = J * c + k /\ count_rtn_index <= Total
      /\ Len(sent) = Least(c, MaxBlocks)
      /\ \A b \in 1..Len(sent) : Len(sent[b]) = J
  BY <1>1, <1>2 DEF AddRecord, BlockInv, Reading, Recorded
<1>4. /\ UNCHANGED <<Matriz, count_rtn_index>> /\ Total' = Total
      /\ pc' = IF count_rtn_index = Total THEN "done" ELSE "next"
  BY DEF AddRecord, Total
<1>5. CASE ~BlockEnds
  <2>1. k < J /\ count_rtn_index < Total
    BY <1>1, <1>2, <1>3, <1>5 DEF BlockEnds, Total
  <2>2. data' = out /\ UNCHANGED <<cycle_count, sent>> /\ pc' = "next"
    BY <1>4, <1>5, <2>1, <1>1, <1>3 DEF AddRecord
  <2>3. Recorded' = count_rtn_index
    BY <1>1, <1>2, <1>3, <2>2 DEF Recorded
  <2> QED
    BY <1>1, <1>2, <1>3, <1>4, <2>1, <2>2, <2>3 DEF BlockInv, Reading, InBlocks
<1>6. CASE BlockEnds
  <2>1. /\ data' = << >> /\ cycle_count' = c + 1
        /\ sent' = IF c < MaxBlocks THEN Append(sent, out) ELSE sent
    BY <1>6 DEF AddRecord
  <2>2. IsSeq(sent) /\ IsSeq(sent') /\ Len(sent) \in Nat
    BY <2>1, Appended DEF BlockInv
  <2>3. /\ Len(sent') = Least(c + 1, MaxBlocks)
        /\ Len(sent') <= c + 1
    <3>1. CASE c < MaxBlocks
      BY <1>1, <1>3, <2>1, <2>2, <3>1, Appended DEF Least
    <3>2. CASE ~(c < MaxBlocks)
      BY <1>1, <1>3, <2>1, <3>2 DEF Least
    <3> QED BY <3>1, <3>2
  <2>4. \A b \in 1..Len(sent') :
          \/ b <= c /\ Len(sent'[b]) = J
          \/ b = c + 1 /\ Len(sent'[b]) = k
    <3> TAKE b \in 1..Len(sent')
    <3>1. CASE c < MaxBlocks
      <4>1. Len(sent) = c /\ Len(sent') = c + 1
        BY <1>1, <1>3, <2>3, <3>1 DEF Least
      <4>2. b \in 1..Len(sent) => sent'[b] = sent[b]
        BY <2>1, <2>2, <3>1, Appended
      <4>3. sent'[c + 1] = out
        BY <2>1, <2>2, <3>1, <4>1, Appended
      <4> QED BY <1>1, <1>2, <1>3, <4>1, <4>2, <4>3
    <3>2. CASE ~(c < MaxBlocks)
      BY <1>1, <1>3, <2>1, <3>2 DEF Least
    <3> QED BY <3>1, <3>2
  <2>5. CASE count_rtn_index = Total
    <3>1. Total = J * c + k /\ pc' = "done"
      BY <1>3, <1>4, <2>5
    <3>2. (Total + J - 1) \div J = c + 1
      BY <1>1, <1>3, <3>1, Rounded
    <3>3. ASSUME NEW b \in 1..Len(sent')
          PROVE  Len(sent'[b]) = Least(J, Total - (b - 1) * J)
      <4>1. CASE b <= c /\ Len(sent'[b]) = J
        <5>1. J * b <= J * c /\ (b - 1) * J = J * b - J
          BY <1>1, <4>1
        <5>2. J <= Total - (b - 1) * J
          BY <1>1, <1>3, <3>1, <5>1
        <5> QED BY <4>1, <5>2 DEF Least
      <4>2. CASE b = c + 1 /\ Len(sent'[b]) = k
        <5>1. (b - 1) * J = J * c
          BY <1>1, <4>2
        <5>2. Total - (b - 1) * J = k
          BY <1>1, <1>2, <3>1, <5>1
        <5> QED BY <1>1, <1>3, <4>2, <5>2 DEF Least
      <4> QED BY <2>4, <4>1, <4>2
    <3>4. InBlocks'
      BY <1>4, <2>1, <2>3, <3>2, <3>3 DEF InBlocks, Total
    <3>5. Reading'
      BY <3>1 DEF Reading
    <3> QED
      BY <1>1, <1>4, <2>1, <2>2, <3>1, <3>4, <3>5, Empty DEF BlockInv
  <2>6. CASE count_rtn_index # Total
    <3>1. k = J /\ count_rtn_index < Total /\ pc' = "next"
      <4>1. k >= J
        BY <1>6, <2>6 DEF BlockEnds, Total
      <4> QED BY <1>1, <1>2, <1>3, <1>4, <2>6, <4>1
    <3>2. Recorded' = count_rtn_index
      <4>1. Len(data') = 0 /\ cycle_count' = c + 1
        BY <1>2, <2>1, Empty
      <4>2. J * (c + 1) = J * c + J
        BY <1>1
      <4>3. Recorded' = J * (c + 1)
        BY <1>1, <4>1 DEF Recorded
      <4> QED BY <1>1, <1>3, <3>1, <4>2, <4>3
    <3>3. \A b \in 1..Len(sent') : Len(sent'[b]) = J
      BY <2>4, <3>1
    <3>4. Reading' /\ InBlocks'
      BY <1>4, <3>1, <3>2 DEF Reading, InBlocks
    <3>5. Len(data') < J
      BY <1>1, <2>1, Empty
    <3>6. IsSeq(data') /\ count_rtn_index' \in Nat /\ Total' \in Nat /\ cycle_count' \in Nat
      BY <1>1, <1>4, <2>1, Empty DEF BlockInv
    <3> QED
      BY <2>1, <2>2, <2>3, <3>1, <3>3, <3>4, <3>5, <3>6 DEF BlockInv
  <2> QED BY <2>5, <2>6
<1> QED BY <1>5, <1>6

LEMMA BlockReturn ==
    ASSUME BlockInv, Return
    PROVE  BlockInv'
BY Empty DEF Return, BlockInv, Reading, InBlocks, Total

LEMMA BlockNext == BlockInv /\ [Next]_vars => BlockInv'
<1> SUFFICES ASSUME BlockInv, [Next]_vars PROVE BlockInv'
  OBVIOUS
<1>1. CASE UNCHANGED vars
  BY <1>1 DEF vars, blocks, BlockInv, Reading, InBlocks, Total, Recorded
<1> QED
  BY <1>1, BlockStart, BlockNextLine, BlockParse, BlockAdd, BlockReturn DEF Next

\* Firebase_upload sends every message it reads once, in blocks that are full but for
\* the last one, whatever the sizes of Matriz and of a block.
THEOREM BlocksWhole == Spec => []InBlocks
<1>1. BlockInv => InBlocks
  BY DEF BlockInv
<1> QED BY <1>1, BlockInit, BlockNext, PTL DEF Spec

-----------------------------------------------------------------------------
(* A line in the panel's format, and where the parser is in it.              *)

\* The four fields as the line p has them, the gap behind each, and its distance from the
\* start of the line; Start(p, 4) is that of the end of the line.
Word(p, n) ==
    <<p.fields.id, Padded(p.fields.name), p.fields.type, p.fields.status>>[n + 1]

Width(p, n) == Len(Word(p, n))

Gap(p, n) == p.gap[n + 1]

Size(p, n) == Width(p, n) + Gap(p, n)

Start(p, n) ==
    <<0, Size(p, 0), Size(p, 0) + Size(p, 1), Size(p, 0) + Size(p, 1) + Size(p, 2),
      Size(p, 0) + Size(p, 1) + Size(p, 2) + Size(p, 3)>>[n + 1]

\* A field as the parser leaves it: with one space behind it.
Kept(p, n) == Append(Word(p, n), SPACE)

\* The fields when the nth is s, those before it are read and those behind it are not.
FieldsAt(p, n, s) ==
    [q \in PointName..Status |-> IF q < n THEN Kept(p, q)
                                 ELSE IF q = n THEN s ELSE << >>]

\* The parser has read j characters of the nth field.
InWord(p, n, j) ==
    /\ j \in 0..Width(p, n) /\ i = Start(p, n) + j
    /\ sep_counter = n
    /\ fields = FieldsAt(p, n, SubSeq(Word(p, n), 1, j))
    /\ name_counter = IF n = 0 THEN 0 ELSE IF n = 1 THEN j
                      ELSE SIMPLEX_NAME_MAX_LEN + 1
    /\ j > 0 => IF n # 1 /\ Word(p, n)[j] = SPACE
                THEN space_counter = 1 /\ ~data_flag
                ELSE space_counter = 0 /\ data_flag

\* It has read j spaces of the gap behind the nth field.
InGap(p, n, j) ==
    /\ j \in 1..Gap(p, n) /\ i = Start(p, n) + Width(p, n) + j
    /\ sep_counter = IF j = 1 THEN n ELSE n + 1
    /\ fields = FieldsAt(p, n, Kept(p, n))
    /\ name_counter = IF n = 0 THEN 0 ELSE SIMPLEX_NAME_MAX_LEN + 1
    /\ space_counter = j /\ ~data_flag

Reaches(p) ==
    \E n \in PointName..Status : \/ \E j \in 0..Width(p, n) : InWord(p, n, j)
                                 \/ \E j \in 1..Gap(p, n) : InGap(p, n, j)

\* The message being parsed.
Current == Matriz[count_rtn_index]

LineInv ==
    \A m \in Messages : m = Current /\ m.parts # << >> =>
        LET p == m.parts[1]
        IN  /\ pc = "parse" =>
                  /\ \A k \in 1..Len(m.text) : msg_line[k - 1] = m.text[k]
                  /\ Reaches(p)
            /\ pc = "touch" => fields = FieldsAt(p, Status, Kept(p, Status))

\* What became of the message m is what should.
Faithful(m, r) == m.parts # << >> => r = Meant(m.parts[1].fields)

RecordInv ==
    /\ \A k \in 1..Len(data) : Faithful(Matriz[JSON_NPACKET * cycle_count + k], data[k])
    /\ \A b \in 1..Len(sent) : \A k \in 1..Len(sent[b]) :
          Faithful(Matriz[(b - 1) * JSON_NPACKET + k], sent[b][k])

ParserInv ==
    /\ BlockInv
    /\ \A k \in 1..Total : Matriz[k] \in Messages
    /\ pc \in {"parse", "touch"} => LineInv
    /\ RecordInv

-----------------------------------------------------------------------------
(* The format.                                                               *)

FieldChars == Chars \ {FINAL, NUL}

LEMMA SpacesAre ==
    ASSUME NEW n \in Nat
    PROVE  /\ Spaces(n) \in Seq(FieldChars) /\ Len(Spaces(n)) = n
           /\ \A k \in 1..n : Spaces(n)[k] = SPACE
<1>1. SPACE \in FieldChars
  BY DEF FieldChars, Chars, SPACE, FINAL, NUL
<1>2. Spaces(n) \in [1..n -> FieldChars]
  BY <1>1 DEF Spaces
<1>3. Spaces(n) \in Seq(FieldChars)
  BY <1>2
<1> QED BY <1>2, <1>3, LengthOf DEF Spaces

\* The parts of a concatenation are found in it.
LEMMA Joined ==
    ASSUME NEW S, NEW s \in Seq(S), NEW w \in Seq(S)
    PROVE  /\ s \o w \in Seq(S) /\ Len(s) \in Nat /\ Len(w) \in Nat
           /\ Len(s \o w) = Len(s) + Len(w)
           /\ \A k \in 1..Len(s) : (s \o w)[k] = s[k]
           /\ \A k \in 1..Len(w) : (s \o w)[Len(s) + k] = w[k]
OBVIOUS

LEMMA PaddedIs ==
    ASSUME NEW s, IsField(s), Len(s) <= SIMPLEX_NAME_MAX_LEN + 1
    PROVE  /\ Padded(s) \in Seq(FieldChars)
           /\ Len(Padded(s)) = SIMPLEX_NAME_MAX_LEN + 1
           /\ Len(s) \in 1..SIMPLEX_NAME_MAX_LEN + 1
           /\ \A k \in 1..Len(s) : Padded(s)[k] = s[k]
           /\ \A k \in Len(s) + 1..SIMPLEX_NAME_MAX_LEN + 1 : Padded(s)[k] = SPACE
<1> DEFINE N   == SIMPLEX_NAME_MAX_LEN + 1
           pad == Spaces(N - Len(s))
<1>1. N \in Nat /\ s \in Seq(FieldChars) /\ Len(s) \in 1..N
  BY ParserAssumption DEF IsField, FieldChars
<1>2. N - Len(s) \in Nat
  BY <1>1
<1>3. /\ pad \in Seq(FieldChars) /\ Len(pad) = N - Len(s)
      /\ \A k \in 1..N - Len(s) : pad[k] = SPACE
  BY <1>2, SpacesAre
<1>4. Padded(s) = s \o pad
  <2>1. SIMPLEX_NAME_MAX_LEN + 1 - Len(s) = N - Len(s)
    BY <1>1, ParserAssumption
  <2> QED BY <2>1 DEF Padded
<1> HIDE DEF pad
<1>5. /\ Padded(s) \in Seq(FieldChars) /\ Len(Padded(s)) = N
      /\ \A k \in 1..Len(s) : Padded(s)[k] = s[k]
      /\ \A k \in 1..N - Len(s) : Padded(s)[Len(s) + k] = pad[k]
  <2>1. /\ s \o pad \in Seq(FieldChars) /\ Len(s \o pad) = Len(s) + Len(pad)
        /\ \A k \in 1..Len(s) : (s \o pad)[k] = s[k]
        /\ \A k \in 1..Len(pad) : (s \o pad)[Len(s) + k] = pad[k]
    <3>1. s \in Seq(FieldChars) /\ pad \in Seq(FieldChars)
      BY <1>1, <1>3
    <3> HIDE DEF N
    <3> QED BY <3>1, Joined
  <2>2. Len(s) + Len(pad) = N
    BY <1>1, <1>3
  <2> QED BY <1>3, <1>4, <2>1, <2>2
<1>6. ASSUME NEW k \in Len(s) + 1..N PROVE Padded(s)[k] = SPACE
  <2>1. k - Len(s) \in 1..N - Len(s) /\ Len(s) + (k - Len(s)) = k
    BY <1>1
  <2>2. Padded(s)[Len(s) + (k - Len(s))] = SPACE
    BY <1>3, <1>5, <2>1
  <2> QED BY <2>1, <2>2
<1> QED BY <1>1, <1>5, <1>6

\* The fields of a line, the name with its padding, and the gaps behind them.
LEMMA WordIs ==
    ASSUME NEW p, InFormat(p.fields, p.gap), NEW n \in PointName..Status
    PROVE  /\ Word(p, n) \in Seq(FieldChars)
           /\ Width(p, n) \in Nat \ {0}
           /\ Word(p, n)[1] # SPACE
           /\ n # 1 => Word(p, n)[Width(p, n)] # SPACE /\ SingleSpaced(Word(p, n))
           /\ n = 1 => Width(p, n) = SIMPLEX_NAME_MAX_LEN + 1
           /\ Gap(p, n) \in Nat \ {0}
           /\ n < Status => Gap(p, n) >= 2
<1>1. n \in {0, 1, 2, 3}
  BY DEF PointName, Status
<1>2. Gap(p, n) \in Nat \ {0} /\ (n < Status => Gap(p, n) >= 2)
  BY <1>1 DEF InFormat, Gap, Status
<1>3. CASE n # 1
  <2>1. Word(p, n) \in {p.fields.id, p.fields.type, p.fields.status}
    BY <1>1, <1>3 DEF Word
  <2>2. IsField(Word(p, n)) /\ SingleSpaced(Word(p, n))
    BY <2>1 DEF InFormat
  <2>3. Width(p, n) \in Nat \ {0}
    BY <2>2 DEF IsField, Width
  <2> QED BY <1>2, <1>3, <2>2, <2>3 DEF IsField, Width, FieldChars
<1>4. CASE n = 1
  <2> DEFINE s == p.fields.name
  <2>1. /\ IsField(s) /\ Len(s) <= SIMPLEX_NAME_MAX_LEN + 1
        /\ Word(p, n) = Padded(s)
    <3>1. IsField(s) /\ Len(s) <= SIMPLEX_NAME_MAX_LEN + 1
      BY DEF InFormat
    <3>2. Word(p, n) = Padded(s)
      BY <1>4 DEF Word
    <3> QED BY <3>1, <3>2
  <2> HIDE DEF s
  <2>2. Padded(s)[1] = s[1] /\ s[1] # SPACE
    BY <2>1, PaddedIs DEF IsField
  <2>3. SIMPLEX_NAME_MAX_LEN + 1 \in Nat \ {0}
    BY ParserAssumption
  <2> QED BY <1>2, <1>4, <2>1, <2>2, <2>3, PaddedIs DEF Width
<1> QED BY <1>3, <1>4

LEMMA StartIs ==
    ASSUME NEW p, InFormat(p.fields, p.gap), NEW n \in PointName..Status
    PROVE  /\ Start(p, n) \in Nat /\ Start(p, n + 1) \in Nat /\ Start(p, 0) = 0
           /\ Start(p, n + 1) = Start(p, n) + Width(p, n) + Gap(p, n)
           /\ Start(p, n + 1) <= Start(p, 4) /\ Start(p, 4) \in Nat
<1>1. \A m \in PointName..Status : Width(p, m) \in Nat /\ Gap(p, m) \in Nat
  BY WordIs
<1>2. /\ Size(p, 0) \in Nat /\ Size(p, 1) \in Nat /\ Size(p, 2) \in Nat
      /\ Size(p, 3) \in Nat
  BY <1>1 DEF Size, PointName, Status
<1>3. n \in {0, 1, 2, 3}
  BY DEF PointName, Status
<1>4. Size(p, n) = Width(p, n) + Gap(p, n)
  BY DEF Size
<1>5. /\ Start(p, n) \in Nat /\ Start(p, n + 1) = Start(p, n) + Size(p, n)
      /\ Start(p, n + 1) <= Start(p, 4) /\ Start(p, 4) \in Nat /\ Start(p, 0) = 0
  BY <1>2, <1>3 DEF Start
<1>6. Start(p, n) + Size(p, n) = Start(p, n) + Width(p, n) + Gap(p, n)
  BY <1>1, <1>4, <1>5
<1>7. Start(p, n) + Size(p, n) \in Nat
  BY <1>1, <1>4, <1>5
<1> QED BY <1>5, <1>6, <1>7

\* t begins with u; w stands in t behind its first d characters.
Begins(u, t)   == \A k \in 1..Len(u) : t[k] = u[k]
Holds(t, d, w) == \A k \in 1..Len(w) : t[d + k] = w[k]

LEMMA Grown ==
    ASSUME NEW S, NEW u \in Seq(S), NEW a \in Seq(S), NEW b \in Seq(S)
    PROVE  /\ u \o a \o b \in Seq(S)
           /\ Len(u \o a \o b) = Len(u) + Len(a) + Len(b)
           /\ Begins(u, u \o a \o b)
           /\ Holds(u \o a \o b, Len(u), a)
           /\ Holds(u \o a \o b, Len(u) + Len(a), b)
<1> DEFINE v == u \o a
<1>1. /\ v \in Seq(S) /\ Len(u) \in Nat /\ Len(a) \in Nat /\ Len(v) = Len(u) + Len(a)
      /\ \A k \in 1..Len(u) : v[k] = u[k]
      /\ \A k \in 1..Len(a) : v[Len(u) + k] = a[k]
  BY Joined
<1> HIDE DEF v
<1>a. v \in Seq(S)
  BY <1>1
<1>2. /\ v \o b \in Seq(S) /\ Len(b) \in Nat /\ Len(v \o b) = Len(v) + Len(b)
      /\ \A k \in 1..Len(v) : (v \o b)[k] = v[k]
      /\ \A k \in 1..Len(b) : (v \o b)[Len(v) + k] = b[k]
  BY <1>a, Joined
<1>3. Begins(u, v \o b)
  BY <1>1, <1>2 DEF Begins
<1>4. Holds(v \o b, Len(u), a)
  <2> SUFFICES ASSUME NEW k \in 1..Len(a) PROVE (v \o b)[Len(u) + k] = a[k]
    BY DEF Holds
  <2>1. Len(u) + k \in 1..Len(v)
    BY <1>1
  <2> QED BY <1>1, <1>2, <2>1
<1>5. Holds(v \o b, Len(u) + Len(a), b)
  BY <1>1, <1>2 DEF Holds
<1> QED BY <1>1, <1>2, <1>3, <1>4, <1>5 DEF v

LEMMA BeginsAll ==
    ASSUME NEW u, NEW v, NEW t, Len(u) \in Nat, Len(v) \in Nat, Len(u) <= Len(v),
           Begins(u, v), Begins(v, t)
    PROVE  Begins(u, t)
BY DEF Begins

LEMMA HoldsAlso ==
    ASSUME NEW v, NEW t, NEW d \in Nat, NEW w, Len(w) \in Nat, Len(v) \in Nat,
           d + Len(w) <= Len(v), Holds(v, d, w), Begins(v, t)
    PROVE  Holds(t, d, w)
<1> SUFFICES ASSUME NEW k \in 1..Len(w) PROVE t[d + k] = w[k]
  BY DEF Holds
<1>1. d + k \in 1..Len(v)
  OBVIOUS
<1> QED BY <1>1 DEF Holds, Begins

\* The characters of a line in the panel's format.
LEMMA TextIs ==
    ASSUME NEW p, InFormat(p.fields, p.gap), NEW t, t = Format(p.fields, p.gap)
    PROVE  /\ \A n \in PointName..Status :
                 /\ Holds(t, Start(p, n), Word(p, n))
                 /\ Holds(t, Start(p, n) + Width(p, n), Spaces(Gap(p, n)))
           /\ t[Start(p, 4) + 1] = FINAL
           /\ Len(t) = Start(p, 4) + 2
<1> DEFINE w(n) == Word(p, n)
           g(n) == Spaces(Gap(p, n))
           v1   == w(0) \o g(0)
           v2   == v1 \o w(1) \o g(1)
           v3   == v2 \o w(2) \o g(2)
           v4   == v3 \o w(3) \o g(3)
           e    == <<FINAL, "\n">>
<1>1. t = v4 \o e
  <2>1. /\ w(0) = p.fields.id /\ w(1) = Padded(p.fields.name)
        /\ w(2) = p.fields.type /\ w(3) = p.fields.status
    BY DEF Word
  <2>2. /\ g(0) = Spaces(p.gap[1]) /\ g(1) = Spaces(p.gap[2])
        /\ g(2) = Spaces(p.gap[3]) /\ g(3) = Spaces(p.gap[4])
    BY DEF Gap
  <2> HIDE DEF w, g
  <2> QED BY <2>1, <2>2 DEF Format
<1>2. ASSUME NEW n \in PointName..Status
      PROVE  /\ w(n) \in Seq(Chars) /\ Len(w(n)) = Width(p, n) /\ Width(p, n) \in Nat
             /\ g(n) \in Seq(Chars) /\ Len(g(n)) = Gap(p, n) /\ Gap(p, n) \in Nat
  <2>1. /\ w(n) \in Seq(FieldChars) /\ Width(p, n) \in Nat /\ Gap(p, n) \in Nat
    BY WordIs
  <2>2. g(n) \in Seq(FieldChars) /\ Len(g(n)) = Gap(p, n)
    BY <2>1, SpacesAre
  <2>3. FieldChars \subseteq Chars
    BY DEF FieldChars
  <2> HIDE DEF g
  <2>4. w(n) \in Seq(Chars) /\ g(n) \in Seq(Chars)
    BY <2>1, <2>2, <2>3
  <2> QED BY <2>1, <2>2, <2>4 DEF Width
<1>3. e \in Seq(Chars) /\ Len(e) = 2 /\ e[1] = FINAL
  BY DEF Chars
<1>4. {0, 1, 2, 3} = PointName..Status
  BY DEF PointName, Status
<1>5. /\ Start(p, 0) = 0
      /\ \A n \in {0, 1, 2, 3} :
            /\ Start(p, n) \in Nat /\ Start(p, n + 1) \in Nat
            /\ Start(p, n + 1) = Start(p, n) + Width(p, n) + Gap(p, n)
  BY <1>4, StartIs
<1> HIDE DEF w, g, e
<1>6. /\ v1 \in Seq(Chars) /\ Len(v1) = Start(p, 1)
      /\ Holds(v1, Start(p, 0), w(0)) /\ Holds(v1, Start(p, 0) + Width(p, 0), g(0))
  <2>1. /\ w(0) \in Seq(Chars) /\ g(0) \in Seq(Chars)
        /\ Len(w(0)) = Width(p, 0) /\ Len(g(0)) = Gap(p, 0)
        /\ Width(p, 0) \in Nat /\ Gap(p, 0) \in Nat
    BY <1>2, <1>4
  <2>a. w(0) \in Seq(Chars) /\ g(0) \in Seq(Chars)
    BY <2>1
  <2>b. /\ v1 \in Seq(Chars) /\ Len(v1) = Len(w(0)) + Len(g(0))
        /\ \A k \in 1..Len(w(0)) : v1[k] = w(0)[k]
        /\ \A k \in 1..Len(g(0)) : v1[Len(w(0)) + k] = g(0)[k]
    BY <2>a, Joined
  <2>2. /\ v1 \in Seq(Chars) /\ Len(v1) = Width(p, 0) + Gap(p, 0)
        /\ \A k \in 1..Len(w(0)) : v1[k] = w(0)[k]
        /\ \A k \in 1..Len(g(0)) : v1[Width(p, 0) + k] = g(0)[k]
    BY <2>1, <2>b
  <2>3. Start(p, 0) = 0 /\ Start(p, 0 + 1) = 0 + Width(p, 0) + Gap(p, 0)
    BY <1>5
  <2> HIDE DEF v1
  <2> QED BY <2>1, <2>2, <2>3 DEF Holds
<1> HIDE DEF v1
<1>7. ASSUME NEW v, NEW n \in {1, 2, 3}, v \in Seq(Chars), Len(v) = Start(p, n)
      PROVE  LET u == v \o w(n) \o g(n)
             IN  /\ u \in Seq(Chars) /\ Len(u) = Start(p, n + 1)
                 /\ Begins(v, u) /\ Len(v) <= Len(u)
                 /\ Holds(u, Start(p, n), w(n))
                 /\ Holds(u, Start(p, n) + Width(p, n), g(n))
  <2>1. /\ w(n) \in Seq(Chars) /\ g(n) \in Seq(Chars)
        /\ Len(w(n)) = Width(p, n) /\ Len(g(n)) = Gap(p, n)
        /\ Width(p, n) \in Nat /\ Gap(p, n) \in Nat
    BY <1>2, <1>4
  <2>2. Start(p, n) \in Nat /\ Start(p, n + 1) = Start(p, n) + Width(p, n) + Gap(p, n)
    BY <1>5
  <2> DEFINE u == v \o w(n) \o g(n)
  <2>3. v \in Seq(Chars) /\ w(n) \in Seq(Chars) /\ g(n) \in Seq(Chars)
    BY <1>7, <2>1
  <2>4. /\ u \in Seq(Chars) /\ Len(u) = Len(v) + Len(w(n)) + Len(g(n))
        /\ Begins(v, u) /\ Holds(u, Len(v), w(n)) /\ Holds(u, Len(v) + Len(w(n)), g(n))
    BY <2>3, Grown
  <2> HIDE DEF u
  <2>5. /\ u \in Seq(Chars) /\ Len(u) = Start(p, n + 1)
        /\ Begins(v, u) /\ Len(v) <= Len(u)
        /\ Holds(u, Start(p, n), w(n)) /\ Holds(u, Start(p, n) + Width(p, n), g(n))
    BY <1>7, <2>1, <2>2, <2>4
  <2> QED BY <2>5 DEF u
<1>8. /\ v2 \in Seq(Chars) /\ Len(v2) = Start(p, 2) /\ Begins(v1, v2) /\ Len(v1) <= Len(v2)
      /\ Holds(v2, Start(p, 1), w(1)) /\ Holds(v2, Start(p, 1) + Width(p, 1), g(1))
  BY <1>6, <1>7
<1> HIDE DEF v2
<1>9. /\ v3 \in Seq(Chars) /\ Len(v3) = Start(p, 3) /\ Begins(v2, v3) /\ Len(v2) <= Len(v3)
      /\ Holds(v3, Start(p, 2), w(2)) /\ Holds(v3, Start(p, 2) + Width(p, 2), g(2))
  BY <1>7, <1>8
<1> HIDE DEF v3
<1>10. /\ v4 \in Seq(Chars) /\ Len(v4) = Start(p, 4) /\ Begins(v3, v4) /\ Len(v3) <= Len(v4)
       /\ Holds(v4, Start(p, 3), w(3)) /\ Holds(v4, Start(p, 3) + Width(p, 3), g(3))
  BY <1>7, <1>9
<1> HIDE DEF v4
<1>11. /\ Len(t) = Start(p, 4) + 2 /\ t[Start(p, 4) + 1] = FINAL /\ Begins(v4, t)
  <2>a. v4 \in Seq(Chars) /\ e \in Seq(Chars)
    BY <1>3, <1>10
  <2>b. /\ Len(v4 \o e) = Len(v4) + Len(e)
        /\ \A k \in 1..Len(v4) : (v4 \o e)[k] = v4[k]
        /\ \A k \in 1..Len(e) : (v4 \o e)[Len(v4) + k] = e[k]
    BY <2>a, Joined
  <2>1. /\ Len(t) = Len(v4) + 2 /\ t[Len(v4) + 1] = e[1]
        /\ \A k \in 1..Len(v4) : t[k] = v4[k]
    BY <1>1, <1>3, <2>b
  <2> QED BY <1>3, <1>10, <2>1 DEF Begins
<1>12. Begins(v1, t) /\ Begins(v2, t) /\ Begins(v3, t)
  <2>1. /\ Len(v1) \in Nat /\ Len(v2) \in Nat /\ Len(v3) \in Nat /\ Len(v4) \in Nat
    BY <1>6, <1>8, <1>9, <1>10
  <2>2. Begins(v3, t)
    BY <1>10, <1>11, <2>1, BeginsAll
  <2>3. Begins(v2, t)
    BY <1>9, <2>1, <2>2, BeginsAll
  <2> QED BY <1>8, <2>1, <2>2, <2>3, BeginsAll
<1>13. ASSUME NEW v, NEW n \in {0, 1, 2, 3}, Len(v) = Start(p, n + 1), Begins(v, t),
              Holds(v, Start(p, n), w(n)), Holds(v, Start(p, n) + Width(p, n), g(n))
       PROVE  Holds(t, Start(p, n), w(n)) /\ Holds(t, Start(p, n) + Width(p, n), g(n))
  <2>1. /\ Len(w(n)) = Width(p, n) /\ Len(g(n)) = Gap(p, n)
        /\ Width(p, n) \in Nat /\ Gap(p, n) \in Nat
    BY <1>2, <1>4
  <2>2. /\ Start(p, n) \in Nat /\ Start(p, n) + Width(p, n) \in Nat /\ Len(v) \in Nat
        /\ Start(p, n) + Width(p, n) <= Len(v)
        /\ Start(p, n) + Width(p, n) + Gap(p, n) <= Len(v)
    BY <1>5, <1>13, <2>1
  <2> QED BY <1>13, <2>1, <2>2, HoldsAlso
<1>14. \A n \in {0, 1, 2, 3} :
          Holds(t, Start(p, n), w(n)) /\ Holds(t, Start(p, n) + Width(p, n), g(n))
  BY <1>6, <1>8, <1>9, <1>10, <1>11, <1>12, <1>13
<1> QED BY <1>4, <1>11, <1>14 DEF w, g

-----------------------------------------------------------------------------
(* The parser in such a line.                                                *)

\* msg_line holds the line p.
OnLine(p) ==
    /\ InFormat(p.fields, p.gap)
    /\ Len(Format(p.fields, p.gap)) <= BUFFER_SIZE
    /\ \A k \in 1..Len(Format(p.fields, p.gap)) :
          msg_line[k - 1] = Format(p.fields, p.gap)[k]

LEMMA HereInWord ==
    ASSUME NEW p, OnLine(p), NEW n \in PointName..Status, NEW j \in 0..Width(p, n) - 1,
           i = Start(p, n) + j
    PROVE  i <= BUFFER_SIZE /\ i \in Nat /\ Here = Word(p, n)[j + 1]
           /\ Here \notin {FINAL, NUL}
<1> DEFINE t == Format(p.fields, p.gap)
<1>1. /\ Holds(t, Start(p, n), Word(p, n)) /\ Len(t) = Start(p, 4) + 2
      /\ Word(p, n) \in Seq(FieldChars) /\ Width(p, n) \in Nat /\ Gap(p, n) \in Nat
      /\ InFormat(p.fields, p.gap)
  BY TextIs, WordIs DEF OnLine
<1>2. /\ Start(p, n) \in Nat /\ Start(p, n) + Width(p, n) + Gap(p, n) <= Start(p, 4)
      /\ Start(p, 4) \in Nat
  BY <1>1, StartIs
<1>3. i + 1 \in 1..Len(t) /\ i \in Nat /\ i = (i + 1) - 1 /\ j + 1 \in 1..Len(Word(p, n))
  BY <1>1, <1>2 DEF Width
<1>4. Here = t[i + 1]
  BY <1>3 DEF OnLine, Here
<1>5. t[i + 1] = Word(p, n)[j + 1]
  <2>1. Start(p, n) + (j + 1) = i + 1
    BY <1>2, <1>3
  <2> QED BY <1>1, <1>3, <2>1 DEF Holds
<1>6. Word(p, n)[j + 1] \in FieldChars
  BY <1>1, <1>3
<1>7. i <= BUFFER_SIZE
  BY <1>3, ParserAssumption DEF OnLine
<1> QED BY <1>3, <1>4, <1>5, <1>6, <1>7 DEF FieldChars

LEMMA HereInGap ==
    ASSUME NEW p, OnLine(p), NEW n \in PointName..Status, NEW j \in 0..Gap(p, n) - 1,
           i = Start(p, n) + Width(p, n) + j
    PROVE  i <= BUFFER_SIZE /\ i \in Nat /\ Here = SPACE
<1> DEFINE t == Format(p.fields, p.gap)
           s == Spaces(Gap(p, n))
<1>1. /\ Holds(t, Start(p, n) + Width(p, n), s) /\ Len(t) = Start(p, 4) + 2
      /\ Width(p, n) \in Nat /\ Gap(p, n) \in Nat /\ InFormat(p.fields, p.gap)
  BY TextIs, WordIs DEF OnLine
<1>2. /\ Start(p, n) \in Nat /\ Start(p, n) + Width(p, n) + Gap(p, n) <= Start(p, 4)
      /\ Start(p, 4) \in Nat
  BY <1>1, StartIs
<1>3. Len(s) = Gap(p, n) /\ \A k \in 1..Gap(p, n) : s[k] = SPACE
  BY <1>1, SpacesAre
<1> DEFINE d == Start(p, n) + Width(p, n)
<1>a. d \in Nat /\ d + Gap(p, n) <= Start(p, 4) /\ i = d + j /\ Gap(p, n) \in Nat
  BY <1>1, <1>2
<1>b. Holds(t, d, s)
  BY <1>1
<1> HIDE DEF s, d
<1>4. i + 1 \in 1..Len(t) /\ i \in Nat /\ i = (i + 1) - 1 /\ j + 1 \in 1..Gap(p, n)
  <2>1. j \in Nat /\ j + 1 <= Gap(p, n)
    BY <1>a
  <2>2. i \in Nat
    BY <1>a, <2>1
  <2>3. i + 1 <= Start(p, 4)
    BY <1>a, <1>2, <2>1
  <2>4. j + 1 \in 1..Gap(p, n)
    BY <1>a, <2>1
  <2>5. i + 1 \in 1..Len(t)
    BY <1>1, <1>2, <2>2, <2>3
  <2> QED BY <2>2, <2>4, <2>5
<1>5. Here = t[i + 1]
  BY <1>4 DEF OnLine, Here
<1>6. t[i + 1] = s[j + 1]
  <2>1. d + (j + 1) = i + 1
    BY <1>a
  <2> QED BY <1>b, <1>3, <1>4, <2>1 DEF Holds
<1>7. i <= BUFFER_SIZE
  BY <1>4, ParserAssumption DEF OnLine
<1> QED BY <1>3, <1>4, <1>5, <1>6, <1>7

LEMMA HereAtEnd ==
    ASSUME NEW p, OnLine(p), i = Start(p, 4)
    PROVE  i <= BUFFER_SIZE /\ i \in Nat /\ Here = FINAL
<1> DEFINE t == Format(p.fields, p.gap)
<1>1. /\ t[Start(p, 4) + 1] = FINAL /\ Len(t) = Start(p, 4) + 2
      /\ InFormat(p.fields, p.gap)
  BY TextIs DEF OnLine
<1>2. Start(p, 4) \in Nat
  BY <1>1, StartIs DEF PointName, Status
<1>3. i + 1 \in 1..Len(t) /\ i \in Nat /\ i = (i + 1) - 1
  BY <1>1, <1>2
<1>4. Here = t[i + 1]
  BY <1>3 DEF OnLine, Here
<1>5. i <= BUFFER_SIZE
  BY <1>3, ParserAssumption DEF OnLine
<1> QED BY <1>1, <1>3, <1>4, <1>5

\* The nth field with one more character, whatever it is.
LEMMA OneMore ==
    ASSUME NEW p, NEW n \in PointName..Status, NEW s,
           sep_counter = n, fields = FieldsAt(p, n, s)
    PROVE  Extracted = FieldsAt(p, n, Append(s, Here))
<1>1. n <= Status /\ n \in DOMAIN fields
  BY DEF FieldsAt, PointName, Status
<1>2. Extracted = [fields EXCEPT ![n] = Append(@, Here)]
  BY <1>1 DEF Extracted
<1>3. ASSUME NEW q \in PointName..Status
      PROVE  Extracted[q] = FieldsAt(p, n, Append(s, Here))[q]
  <2>1. CASE q = n
    BY <1>1, <1>2, <2>1 DEF FieldsAt
  <2>2. CASE q # n
    BY <1>1, <1>2, <2>2 DEF FieldsAt
  <2> QED BY <2>1, <2>2
<1>4. Extracted = [q \in PointName..Status |-> Extracted[q]]
  BY <1>2 DEF FieldsAt
<1> QED BY <1>3, <1>4 DEF FieldsAt

LEMMA Grows ==
    ASSUME NEW S, NEW s \in Seq(S), NEW j \in 0..Len(s) - 1
    PROVE  SubSeq(s, 1, j + 1) = Append(SubSeq(s, 1, j), s[j + 1])
OBVIOUS

\* The steps of the parser leave the line and its message alone.
LEMMA ParseKeeps ==
    ASSUME NEW p, OnLine(p), Parse
    PROVE  OnLine(p)' /\ UNCHANGED <<Matriz, count_rtn_index, msg_line, blocks>>
<1>1. UNCHANGED <<Matriz, count_rtn_index, msg_line, blocks>>
  BY DEF Parse, NameChar, DataChar, SpaceChar, LineEnds
<1> QED BY <1>1 DEF OnLine

\* In the name, and only there, the characters are taken as they come.
LEMMA InNameIs ==
    ASSUME NEW p, OnLine(p), NEW n \in PointName..Status, NEW j \in 0..Width(p, n),
           InWord(p, n, j), j = Width(p, n) => Here = SPACE
    PROVE  InName <=> n = 1 /\ j < Width(p, n)
<1>1. SIMPLEX_NAME_MAX_LEN \in Nat
  BY ParserAssumption
<1>2. /\ Width(p, n) \in Nat \ {0} /\ Word(p, n)[1] # SPACE
      /\ n = 1 => Width(p, n) = SIMPLEX_NAME_MAX_LEN + 1
  BY WordIs DEF OnLine
<1>3. /\ sep_counter = n
      /\ name_counter = IF n = 0 THEN 0 ELSE IF n = 1 THEN j
                        ELSE SIMPLEX_NAME_MAX_LEN + 1
  BY DEF InWord
<1>4. CASE n = 0
  BY <1>1, <1>3, <1>4 DEF InName, Name
<1>5. CASE n = 1 /\ j = 0
  <2>1. i = Start(p, n) + j
    BY DEF InWord
  <2>2. Here # SPACE /\ Here # FINAL
    BY <1>2, <1>5, <2>1, HereInWord
  <2> QED BY <1>1, <1>2, <1>3, <1>5, <2>2 DEF InName, Name
<1>6. CASE n = 1 /\ j # 0
  BY <1>1, <1>2, <1>3, <1>6 DEF InName, Name
<1>7. CASE n \in {2, 3}
  BY <1>1, <1>3, <1>7 DEF InName, Name
<1> QED BY <1>4, <1>5, <1>6, <1>7 DEF PointName, Status

LEMMA WordStep ==
    ASSUME NEW p, OnLine(p), NEW n \in PointName..Status, NEW j \in 0..Width(p, n) - 1,
           pc = "parse", InWord(p, n, j), Parse
    PROVE  pc' = "parse" /\ InWord(p, n, j + 1)'
<1> DEFINE w == Word(p, n)
           f == SubSeq(w, 1, j)
<1>1. /\ i = Start(p, n) + j /\ sep_counter = n /\ fields = FieldsAt(p, n, f)
      /\ name_counter = IF n = 0 THEN 0 ELSE IF n = 1 THEN j
                        ELSE SIMPLEX_NAME_MAX_LEN + 1
  BY DEF InWord
<1>2. /\ i <= BUFFER_SIZE /\ i \in Nat /\ Here = w[j + 1] /\ Here # FINAL
  BY <1>1, HereInWord
<1>3. /\ w \in Seq(FieldChars) /\ Width(p, n) = Len(w) /\ Width(p, n) \in Nat \ {0}
      /\ w[1] # SPACE
      /\ n # 1 => SingleSpaced(w)
      /\ Start(p, n) \in Nat
  BY WordIs, StartIs DEF OnLine, Width
<1>4. j \in Nat /\ j + 1 \in 0..Width(p, n) /\ j # Width(p, n) /\ j < Width(p, n)
  BY <1>3
<1>5. InName <=> n = 1
  <2>1. j \in 0..Width(p, n) /\ (j = Width(p, n) => Here = SPACE)
    BY <1>3, <1>4
  <2>2. InName <=> n = 1 /\ j < Width(p, n)
    BY <2>1, InNameIs
  <2> QED BY <1>4, <2>2
<1>6. SubSeq(w, 1, j + 1) = Append(f, Here)
  <2>1. j \in 0..Len(w) - 1
    BY <1>3
  <2> QED BY <1>2, <1>3, <2>1, Grows
<1>7. Extracted = FieldsAt(p, n, SubSeq(w, 1, j + 1))
  BY <1>1, <1>6, OneMore
<1>8. ~LineEnds
  BY <1>2 DEF LineEnds
<1>9. i + 1 = Start(p, n) + (j + 1)
  BY <1>1, <1>3, <1>4
<1>10. (j + 1) - 1 = j /\ j + 1 > 0
  BY <1>4
<1> HIDE DEF w, f
<1>11. CASE n = 1
  <2>1. NameChar
    BY <1>5, <1>8, <1>11 DEF Parse, DataChar, SpaceChar
  <2>2. /\ pc' = "parse" /\ i' = i + 1 /\ sep_counter' = n
        /\ fields' = FieldsAt(p, n, SubSeq(w, 1, j + 1))
        /\ name_counter' = j + 1 /\ space_counter' = 0 /\ data_flag' = TRUE
    BY <1>1, <1>7, <1>11, <2>1 DEF NameChar, Parsing
  <2> QED BY <1>4, <1>9, <1>11, <2>2 DEF InWord, w
<1>12. CASE n # 1 /\ Here # SPACE
  <2>1. DataChar
    BY <1>5, <1>8, <1>12 DEF Parse, NameChar, SpaceChar
  <2>2. /\ pc' = "parse" /\ i' = i + 1 /\ sep_counter' = n
        /\ fields' = FieldsAt(p, n, SubSeq(w, 1, j + 1))
        /\ name_counter' = name_counter /\ space_counter' = 0 /\ data_flag' = TRUE
    BY <1>1, <1>7, <2>1 DEF DataChar, Parsing
  <2> QED BY <1>1, <1>2, <1>4, <1>9, <1>12, <2>2 DEF InWord, w
<1>13. CASE n # 1 /\ Here = SPACE
  <2>1. SpaceChar
    BY <1>5, <1>8, <1>13 DEF Parse, NameChar, DataChar
  <2>0. w[j + 1] = SPACE
    BY <1>2, <1>13
  <2>2. j > 0
    <3>1. ASSUME j = 0 PROVE FALSE
      <4>1. j + 1 = 1
        BY <3>1
      <4>2. w[1] # SPACE
        BY <1>3
      <4> QED BY <2>0, <4>1, <4>2
    <3> QED BY <1>4, <3>1
  <2>3. w[j] # SPACE
    <3>1. j \in 1..Len(w) - 1
      BY <1>3, <1>4, <2>2
    <3>2. SingleSpaced(w) /\ w[j + 1] = SPACE
      BY <1>3, <1>13, <2>0
    <3> QED BY <3>1, <3>2 DEF SingleSpaced
  <2>4. space_counter = 0 /\ data_flag
    BY <1>13, <2>2, <2>3 DEF InWord, w
  <2>5. /\ pc' = "parse" /\ i' = i + 1 /\ sep_counter' = n
        /\ fields' = FieldsAt(p, n, SubSeq(w, 1, j + 1))
        /\ name_counter' = name_counter /\ space_counter' = 1 /\ data_flag' = FALSE
    BY <1>1, <1>7, <2>1, <2>4 DEF SpaceChar, Separates, Parsing
  <2> QED BY <1>1, <1>2, <1>4, <1>9, <1>13, <2>5 DEF InWord, w
<1> QED BY <1>11, <1>12, <1>13

LEMMA LastStep ==
    ASSUME NEW p, OnLine(p), NEW n \in PointName..Status,
           pc = "parse", InWord(p, n, Width(p, n)), Parse
    PROVE  pc' = "parse" /\ InGap(p, n, 1)'
<1> DEFINE w == Word(p, n)
           j == Width(p, n)
<1>1. /\ w \in Seq(FieldChars) /\ j = Len(w) /\ j \in Nat \ {0}
      /\ Gap(p, n) \in Nat \ {0} /\ Start(p, n) \in Nat
      /\ n # 1 => w[j] # SPACE
      /\ n = 1 => j = SIMPLEX_NAME_MAX_LEN + 1
  BY WordIs, StartIs DEF OnLine, Width
<1>2. /\ i = Start(p, n) + j /\ sep_counter = n
      /\ fields = FieldsAt(p, n, SubSeq(w, 1, j))
      /\ name_counter = IF n = 0 THEN 0 ELSE IF n = 1 THEN j
                        ELSE SIMPLEX_NAME_MAX_LEN + 1
      /\ space_counter = 0 /\ data_flag
  BY <1>1 DEF InWord
<1>3. SubSeq(w, 1, j) = w
  BY <1>1
<1>4. i <= BUFFER_SIZE /\ Here = SPACE
  <2>1. 0 \in 0..Gap(p, n) - 1 /\ i = Start(p, n) + Width(p, n) + 0
    BY <1>1, <1>2
  <2> QED BY <2>1, HereInGap
<1>5. ~InName
  <2>1. j \in 0..Width(p, n)
    BY <1>1
  <2>2. InName <=> n = 1 /\ j < Width(p, n)
    BY <1>4, <2>1, InNameIs
  <2> QED BY <1>1, <2>2
<1>6. ~LineEnds
  BY <1>4 DEF LineEnds, SPACE, FINAL
<1>7. SpaceChar
  BY <1>4, <1>5, <1>6 DEF Parse, NameChar, DataChar
<1>8. Extracted = FieldsAt(p, n, Kept(p, n))
  BY <1>2, <1>3, <1>4, OneMore DEF Kept
<1> HIDE DEF w, j
<1>9. /\ pc' = "parse" /\ i' = i + 1 /\ sep_counter' = n
      /\ fields' = FieldsAt(p, n, Kept(p, n)) /\ name_counter' = name_counter
      /\ space_counter' = 1 /\ data_flag' = FALSE
  BY <1>2, <1>7, <1>8 DEF SpaceChar, Separates, Parsing
<1>10. name_counter = IF n = 0 THEN 0 ELSE SIMPLEX_NAME_MAX_LEN + 1
  BY <1>1, <1>2
<1>11. i' = Start(p, n) + Width(p, n) + 1 /\ 1 \in 1..Gap(p, n)
  BY <1>1, <1>2, <1>9 DEF j
<1> QED BY <1>9, <1>10, <1>11 DEF InGap

\* In a gap the parser is outside the name.
LEMMA InGapNoName ==
    ASSUME NEW p, NEW n \in PointName..Status, NEW j, InGap(p, n, j),
           Here \in {SPACE, FINAL}
    PROVE  ~InName
<1>1. SIMPLEX_NAME_MAX_LEN \in Nat
  BY ParserAssumption
<1>2. name_counter = IF n = 0 THEN 0 ELSE SIMPLEX_NAME_MAX_LEN + 1
  BY DEF InGap
<1>3. name_counter \notin 1..SIMPLEX_NAME_MAX_LEN
  BY <1>1, <1>2
<1> QED BY <1>3 DEF InName

LEMMA GapStep ==
    ASSUME NEW p, OnLine(p), NEW n \in PointName..Status, NEW j \in 1..Gap(p, n) - 1,
           pc = "parse", InGap(p, n, j), Parse
    PROVE  pc' = "parse" /\ InGap(p, n, j + 1)'
<1>1. Gap(p, n) \in Nat /\ Width(p, n) \in Nat /\ Start(p, n) \in Nat
  BY WordIs, StartIs DEF OnLine
<1>2. /\ i = Start(p, n) + Width(p, n) + j /\ sep_counter = IF j = 1 THEN n ELSE n + 1
      /\ fields = FieldsAt(p, n, Kept(p, n))
      /\ name_counter = IF n = 0 THEN 0 ELSE SIMPLEX_NAME_MAX_LEN + 1
      /\ space_counter = j /\ ~data_flag
  BY DEF InGap
<1>3. j \in Nat /\ j > 0 /\ j \in 0..Gap(p, n) - 1 /\ j + 1 \in 1..Gap(p, n)
  BY <1>1
<1>4. i <= BUFFER_SIZE /\ Here = SPACE
  BY <1>2, <1>3, HereInGap
<1>5. ~InName
  BY <1>4, InGapNoName
<1>6. ~LineEnds
  BY <1>4 DEF LineEnds, SPACE, FINAL
<1>7. SpaceChar
  BY <1>4, <1>5, <1>6 DEF Parse, NameChar, DataChar
<1>8. /\ pc' = "parse" /\ i' = i + 1 /\ fields' = fields
      /\ name_counter' = name_counter /\ space_counter' = j + 1 /\ ~data_flag'
      /\ sep_counter' = IF j = 1 THEN sep_counter + 1 ELSE sep_counter
  BY <1>2, <1>3, <1>7 DEF SpaceChar, Separates, Parsing
<1>9. j + 1 # 1 /\ sep_counter' = n + 1
  BY <1>2, <1>3, <1>8
<1>10. i' = Start(p, n) + Width(p, n) + (j + 1)
  BY <1>1, <1>2, <1>3, <1>8
<1> QED BY <1>2, <1>3, <1>8, <1>9, <1>10 DEF InGap

\* The end of a gap is the start of the next field.
LEMMA NextWord ==
    ASSUME NEW p, InFormat(p.fields, p.gap), NEW n \in PointName..Status, n < Status,
           InGap(p, n, Gap(p, n))
    PROVE  InWord(p, n + 1, 0)
<1>1. n \in {0, 1, 2} /\ n + 1 \in {1, 2, 3} /\ n + 1 \in PointName..Status
  BY DEF PointName, Status
<1>2. /\ Gap(p, n) \in Nat /\ Gap(p, n) >= 2
      /\ Start(p, n + 1) = Start(p, n) + Width(p, n) + Gap(p, n)
      /\ Start(p, n + 1) \in Nat
      /\ Width(p, n + 1) \in Nat
  BY <1>1, WordIs, StartIs
<1>3. /\ i = Start(p, n + 1) + 0 /\ sep_counter = n + 1 /\ 0 \in 0..Width(p, n + 1)
      /\ fields = FieldsAt(p, n, Kept(p, n))
      /\ name_counter = IF n = 0 THEN 0 ELSE SIMPLEX_NAME_MAX_LEN + 1
  BY <1>2 DEF InGap
<1>4. SubSeq(Word(p, n + 1), 1, 0) = << >>
  OBVIOUS
<1>5. FieldsAt(p, n, Kept(p, n)) = FieldsAt(p, n + 1, << >>)
  <2>1. ASSUME NEW q \in PointName..Status
        PROVE  (IF q < n THEN Kept(p, q) ELSE IF q = n THEN Kept(p, n) ELSE << >>)
                 = IF q < n + 1 THEN Kept(p, q) ELSE IF q = n + 1 THEN << >> ELSE << >>
    BY <1>1 DEF PointName, Status
  <2> QED BY <2>1 DEF FieldsAt
<1>6. name_counter = IF n + 1 = 0 THEN 0 ELSE IF n + 1 = 1 THEN 0
                     ELSE SIMPLEX_NAME_MAX_LEN + 1
  BY <1>1, <1>3
<1>7. fields = FieldsAt(p, n + 1, SubSeq(Word(p, n + 1), 1, 0))
  BY <1>3, <1>4, <1>5
<1> QED BY <1>3, <1>6, <1>7 DEF InWord

LEMMA EndStep ==
    ASSUME NEW p, OnLine(p), pc = "parse", InGap(p, Status, Gap(p, Status)), Parse
    PROVE  pc' = "touch" /\ fields' = FieldsAt(p, Status, Kept(p, Status))
<1>1. Status \in PointName..Status /\ Status = 3
  BY DEF PointName, Status
<1>2. Start(p, Status + 1) = Start(p, Status) + Width(p, Status) + Gap(p, Status)
  BY <1>1, StartIs DEF OnLine
<1>3. i = Start(p, 4) /\ fields = FieldsAt(p, Status, Kept(p, Status))
  BY <1>1, <1>2 DEF InGap
<1>4. Here = FINAL
  BY <1>3, HereAtEnd
<1>5. ~InName
  BY <1>1, <1>4, InGapNoName
<1>6. LineEnds
  BY <1>4, <1>5 DEF Parse, NameChar, DataChar, SpaceChar, SPACE, FINAL
<1> QED BY <1>3, <1>6 DEF LineEnds, parser

\* The parser goes on through the line, or has read it.
LEMMA Onward ==
    ASSUME NEW p, OnLine(p), pc = "parse", Reaches(p), Parse
    PROVE  \/ pc' = "parse" /\ Reaches(p)'
           \/ pc' = "touch" /\ fields' = FieldsAt(p, Status, Kept(p, Status))
<1>1. ASSUME NEW n \in PointName..Status, NEW j \in 0..Width(p, n), InWord(p, n, j)
      PROVE  pc' = "parse" /\ Reaches(p)'
  <2>1. Width(p, n) \in Nat /\ Gap(p, n) \in Nat \ {0}
    BY WordIs DEF OnLine
  <2>2. CASE j < Width(p, n)
    <3>1. j \in 0..Width(p, n) - 1 /\ j + 1 \in 0..Width(p, n)
      BY <2>1, <2>2
    <3> QED BY <1>1, <3>1, WordStep DEF Reaches
  <2>3. CASE j = Width(p, n)
    <3>1. pc' = "parse" /\ InGap(p, n, 1)'
      BY <1>1, <2>3, LastStep
    <3>2. 1 \in 1..Gap(p, n)
      BY <2>1
    <3> QED BY <3>1, <3>2 DEF Reaches
  <2> QED BY <2>1, <2>2, <2>3
<1>2. ASSUME NEW n \in PointName..Status, NEW j \in 1..Gap(p, n) - 1, InGap(p, n, j)
      PROVE  pc' = "parse" /\ Reaches(p)'
  <2>1. Gap(p, n) \in Nat
    BY WordIs DEF OnLine
  <2>2. j + 1 \in 1..Gap(p, n)
    BY <2>1
  <2> QED BY <1>2, <2>2, GapStep DEF Reaches
<1>3. ASSUME InGap(p, Status, Gap(p, Status))
      PROVE  pc' = "touch" /\ fields' = FieldsAt(p, Status, Kept(p, Status))
  BY <1>3, EndStep
<1>4. ASSUME NEW n \in PointName..Status, n < Status, InGap(p, n, Gap(p, n))
      PROVE  pc' = "parse" /\ Reaches(p)'
  <2>1. n + 1 \in PointName..Status
    BY <1>4 DEF PointName, Status
  <2>2. InWord(p, n + 1, 0) /\ 0 \in 0..Width(p, n + 1)
    BY <1>4, <2>1, NextWord, WordIs DEF OnLine
  <2> QED BY <1>1, <2>1, <2>2
<1>5. PICK n \in PointName..Status : \/ \E j \in 0..Width(p, n) : InWord(p, n, j)
                                     \/ \E j \in 1..Gap(p, n) : InGap(p, n, j)
  BY DEF Reaches
<1>6. CASE \E j \in 0..Width(p, n) : InWord(p, n, j)
  BY <1>1, <1>6
<1>7. CASE \E j \in 1..Gap(p, n) : InGap(p, n, j)
  <2>1. PICK j \in 1..Gap(p, n) : InGap(p, n, j)
    BY <1>7
  <2>2. Gap(p, n) \in Nat
    BY WordIs DEF OnLine
  <2>3. CASE j < Gap(p, n)
    <3>1. j \in 1..Gap(p, n) - 1
      BY <2>2, <2>3
    <3> QED BY <1>2, <2>1, <3>1
  <2>4. CASE n < Status /\ j = Gap(p, n)
    BY <1>4, <2>1, <2>4
  <2>5. CASE n = Status /\ j = Gap(p, n)
    BY <1>3, <2>1, <2>5
  <2> QED BY <2>2, <2>3, <2>4, <2>5 DEF PointName, Status
<1> QED BY <1>5, <1>6, <1>7

-----------------------------------------------------------------------------
(* Message_Final_Touch.                                                      *)

LEMMA TextSame ==
    ASSUME NEW s \in Seq(FieldChars)
    PROVE  Text(s) = s
<1>1. \A k \in 1..Len(s) : s[k] # NUL
  BY DEF FieldChars
<1>2. {k \in 1..Len(s) : s[k] = NUL} = {}
  BY <1>1
<1> QED BY <1>2 DEF Text

LEMMA FrontOfAppend ==
    ASSUME NEW S, NEW s \in Seq(S), NEW e \in S
    PROVE  Front(Append(s, e)) = s
<1>1. Append(s, e) \in Seq(S) /\ Len(Append(s, e)) - 1 = Len(s)
  OBVIOUS
<1>2. SubSeq(Append(s, e), 1, Len(s)) = s
  OBVIOUS
<1> QED BY <1>1, <1>2 DEF Front

\* The name loses its padding.
LEMMA TrimmedIs ==
    ASSUME NEW s, IsField(s), Len(s) <= SIMPLEX_NAME_MAX_LEN + 1
    PROVE  Trimmed(Append(Padded(s), SPACE)) = s
<1> DEFINE N == SIMPLEX_NAME_MAX_LEN + 1
           t == Append(Padded(s), SPACE)
           K == {k \in 1..N : t[k] # SPACE}
<1>1. N \in Nat /\ SIMPLEX_NAME_MAX_LEN \in Nat
  BY ParserAssumption
<1>2. /\ Padded(s) \in Seq(FieldChars) /\ Len(Padded(s)) = N /\ Len(s) \in 1..N
      /\ \A k \in 1..Len(s) : Padded(s)[k] = s[k]
      /\ \A k \in Len(s) + 1..N : Padded(s)[k] = SPACE
  BY PaddedIs
<1>3. SPACE \in FieldChars
  BY DEF FieldChars, Chars, SPACE, FINAL, NUL
<1>4. /\ t \in Seq(FieldChars) /\ Len(t) = N + 1
      /\ \A k \in 1..N : t[k] = Padded(s)[k]
  <2> DEFINE P == Padded(s)
  <2>1. P \in Seq(FieldChars) /\ Len(P) = N
    BY <1>2
  <2> HIDE DEF P, N
  <2>2. /\ Append(P, SPACE) \in Seq(FieldChars) /\ Len(Append(P, SPACE)) = N + 1
        /\ \A k \in 1..N : Append(P, SPACE)[k] = P[k]
    BY <1>3, <2>1
  <2> QED BY <2>2 DEF P
<1> HIDE DEF N, t
<1>5. Len(s) \in K
  <2>1. t[Len(s)] = s[Len(s)]
    BY <1>2, <1>4
  <2> QED BY <1>2, <2>1 DEF IsField
<1>6. \A k \in K : k <= Len(s)
  BY <1>1, <1>2, <1>4
<1>7. \A x \in K : (\A y \in K : x >= y) => x = Len(s)
  <2> SUFFICES ASSUME NEW x \in K, \A y \in K : x >= y PROVE x = Len(s)
    OBVIOUS
  <2>1. x >= Len(s) /\ x <= Len(s) /\ x \in Nat /\ Len(s) \in Nat
    BY <1>1, <1>2, <1>5, <1>6
  <2> QED BY <2>1
<1>8. \A y \in K : Len(s) >= y
  BY <1>1, <1>2, <1>6
<1> HIDE DEF K
<1>9. Max(K) = Len(s)
  BY <1>5, <1>7, <1>8 DEF Max
<1>10. Trimmed(t) = SubSeq(t, 1, Len(s))
  <2>1. ~(Len(t) <= SIMPLEX_NAME_MAX_LEN)
    BY <1>1, <1>4 DEF N
  <2>2. Trimmed(t) = SubSeq(t, 1, Max(K))
    BY <2>1 DEF Trimmed, K, N
  <2> QED BY <1>9, <2>2
<1>11. SubSeq(t, 1, Len(s)) = s
  <2>1. s \in Seq(FieldChars) /\ \A k \in 1..Len(s) : t[k] = s[k]
    BY <1>1, <1>2, <1>4 DEF IsField, FieldChars
  <2>2. Len(s) <= Len(t)
    BY <1>1, <1>2, <1>4
  <2> QED BY <1>4, <2>1, <2>2
<1> QED BY <1>10, <1>11 DEF t

\* The record of a line that has been read.
LEMMA TouchedIs ==
    ASSUME NEW p, InFormat(p.fields, p.gap), fields = FieldsAt(p, Status, Kept(p, Status))
    PROVE  Touched = Meant(p.fields)
<1> DEFINE f == p.fields
<1>1. /\ fields[PointName] = Append(f.id, SPACE)
      /\ fields[Name] = Append(Padded(f.name), SPACE)
      /\ fields[Type] = Append(f.type, SPACE)
      /\ fields[Status] = Append(f.status, SPACE)
  <2>1. \A q \in PointName..Status : fields[q] = Append(Word(p, q), SPACE)
    <3> TAKE q \in PointName..Status
    <3>1. q < Status \/ q = Status
      BY DEF PointName, Status
    <3> QED BY <3>1 DEF FieldsAt, Kept
  <2>2. /\ Word(p, PointName) = f.id /\ Word(p, Name) = Padded(f.name)
        /\ Word(p, Type) = f.type /\ Word(p, Status) = f.status
    BY DEF Word, PointName, Name, Type, Status
  <2>3. {PointName, Name, Type, Status} \subseteq PointName..Status
    BY DEF PointName, Name, Type, Status
  <2> HIDE DEF f
  <2> QED BY <2>1, <2>2, <2>3
<1>2. SPACE \in FieldChars
  BY DEF FieldChars, Chars, SPACE, FINAL, NUL
<1>3. /\ f.id \in Seq(FieldChars) /\ f.type \in Seq(FieldChars)
      /\ f.status \in Seq(FieldChars) /\ f.status # << >>
      /\ IsField(f.name) /\ Len(f.name) <= SIMPLEX_NAME_MAX_LEN + 1
  BY DEF InFormat, IsField, FieldChars
<1>4. f.name \in Seq(FieldChars)
  BY <1>3 DEF IsField, FieldChars
<1> HIDE DEF f
<1>5. /\ Append(f.id, SPACE) \in Seq(FieldChars) /\ Append(f.type, SPACE) \in Seq(FieldChars)
      /\ Append(f.status, SPACE) \in Seq(FieldChars)
  BY <1>2, <1>3
<1>6. /\ Front(Text(Append(f.id, SPACE))) = f.id
      /\ Front(Text(Append(f.type, SPACE))) = f.type
      /\ Front(Text(Append(f.status, SPACE))) = f.status
  <2>1. \A s \in Seq(FieldChars) : Front(Append(s, SPACE)) = s
    BY <1>2, FrontOfAppend
  <2>2. \A s \in Seq(FieldChars) : Text(s) = s
    BY TextSame
  <2> QED BY <1>3, <1>5, <2>1, <2>2
<1>7. Text(Trimmed(Append(Padded(f.name), SPACE))) = f.name
  BY <1>3, <1>4, TrimmedIs, TextSame
<1>8. /\ Text(Append(f.status, SPACE)) # << >>
      /\ Text(Append(f.status, SPACE))[1] = f.status[1]
  <2>1. Text(Append(f.status, SPACE)) = Append(f.status, SPACE)
    BY <1>5, TextSame
  <2> QED BY <1>3, <2>1
<1> QED BY <1>1, <1>6, <1>7, <1>8 DEF Touched, Meant, f

-----------------------------------------------------------------------------
(* The records of an upload.                                                 *)

\* A message in the panel's format.
LEMMA MessageIs ==
    ASSUME NEW m \in Messages, m.parts # << >>
    PROVE  /\ InFormat(m.parts[1].fields, m.parts[1].gap)
           /\ m.text = Format(m.parts[1].fields, m.parts[1].gap)
           /\ Len(m.text) \in Nat /\ Len(m.text) <= BUFFER_SIZE
BY ParserAssumption, FormatAssumption

LEMMA LineStarts ==
    ASSUME NextLine
    PROVE  LineInv'
<1>1. /\ pc = "next" /\ pc' = "parse" /\ count_rtn_index' = count_rtn_index + 1
      /\ Matriz' = Matriz
      /\ i' = 0 /\ sep_counter' = 0 /\ name_counter' = 0 /\ fields' = NoFields
  BY DEF NextLine, Setup
<1>3. Current' = Matriz[count_rtn_index + 1] /\ Copied = Matriz[count_rtn_index + 1].text
  BY <1>1 DEF Current, Copied
<1> SUFFICES ASSUME NEW m \in Messages, m = Current', m.parts # << >>
             PROVE  /\ \A k \in 1..Len(m.text) : msg_line'[k - 1] = m.text[k]
                    /\ Reaches(m.parts[1])'
  BY <1>1 DEF LineInv
<1> DEFINE p == m.parts[1]
<1>5. InFormat(p.fields, p.gap) /\ Len(m.text) \in Nat /\ Len(m.text) <= BUFFER_SIZE
  BY MessageIs
<1> HIDE DEF p
<1>6. ASSUME NEW k \in 1..Len(m.text) PROVE msg_line'[k - 1] = m.text[k]
  <2>1. k - 1 \in 0..BUFFER_SIZE /\ k - 1 < Len(m.text) /\ (k - 1) + 1 = k
    BY <1>5, ParserAssumption
  <2>2. Copied = m.text
    BY <1>3
  <2>3. msg_line' = [x \in 0..BUFFER_SIZE |->
                        IF x < Len(m.text) THEN m.text[x + 1]
                        ELSE IF x = Len(m.text) THEN NUL ELSE msg_line[x]]
    BY <2>2 DEF NextLine
  <2> QED BY <2>1, <2>3
<1>7. InWord(p, 0, 0)'
  <2>1. 0 \in PointName..Status
    BY DEF PointName, Status
  <2>2. Width(p, 0) \in Nat /\ Start(p, 0) = 0
    BY <1>5, <2>1, WordIs, StartIs
  <2>3. NoFields = FieldsAt(p, 0, SubSeq(Word(p, 0), 1, 0))
    <3>1. SubSeq(Word(p, 0), 1, 0) = << >>
      OBVIOUS
    <3>2. FieldsAt(p, 0, << >>) = NoFields
      BY DEF FieldsAt, NoFields, PointName, Status
    <3> QED BY <3>1, <3>2
  <2> QED BY <1>1, <2>2, <2>3 DEF InWord
<1>8. Reaches(p)'
  <2>1. 0 \in PointName..Status /\ 0 \in 0..Width(p, 0)
    <3>1. 0 \in PointName..Status
      BY DEF PointName, Status
    <3> QED BY <1>5, <3>1, WordIs
  <2> QED BY <1>7, <2>1 DEF Reaches
<1> QED BY <1>6, <1>8 DEF p

LEMMA LineGoesOn ==
    ASSUME LineInv, pc = "parse", Parse
    PROVE  LineInv'
<1>1. UNCHANGED <<Matriz, count_rtn_index, msg_line>>
  BY DEF Parse, NameChar, DataChar, SpaceChar, LineEnds
<1>2. Current' = Current
  BY <1>1 DEF Current
<1> SUFFICES ASSUME NEW m \in Messages, m = Current, m.parts # << >>
             PROVE  LET p == m.parts[1]
                    IN  /\ pc' = "parse" =>
                              /\ \A k \in 1..Len(m.text) : msg_line'[k - 1] = m.text[k]
                              /\ Reaches(p)'
                        /\ pc' = "touch" =>
                              fields' = FieldsAt(p, Status, Kept(p, Status))
  BY <1>2 DEF LineInv
<1> DEFINE p == m.parts[1]
<1>3. /\ \A k \in 1..Len(m.text) : msg_line[k - 1] = m.text[k]
      /\ Reaches(p)
  BY DEF LineInv
<1>4. InFormat(p.fields, p.gap) /\ m.text = Format(p.fields, p.gap)
      /\ Len(m.text) <= BUFFER_SIZE
  BY MessageIs
<1> HIDE DEF p
<1>5. OnLine(p)
  BY <1>3, <1>4 DEF OnLine
<1>6. \/ pc' = "parse" /\ Reaches(p)'
      \/ pc' = "touch" /\ fields' = FieldsAt(p, Status, Kept(p, Status))
  BY <1>3, <1>5, Onward
<1> QED BY <1>1, <1>3, <1>6 DEF p

LEMMA RecordsKept ==
    ASSUME RecordInv, UNCHANGED <<Matriz, blocks>>
    PROVE  RecordInv'
BY DEF RecordInv, blocks

\* The record added is that of the message read last.
LEMMA RecordAdded ==
    ASSUME ParserInv, AddRecord
    PROVE  RecordInv'
<1> DEFINE J   == JSON_NPACKET
           c   == cycle_count
           out == Append(data, Touched)
<1>1. /\ pc = "touch" /\ c \in Nat /\ J \in Nat \ {0} /\ IsSeq(data) /\ IsSeq(sent)
      /\ count_rtn_index = J * c + Len(data) + 1 /\ count_rtn_index \in 1..Total
      /\ Len(data) < J /\ Len(data) \in Nat /\ J * c \in Nat
      /\ Len(sent) = Least(c, MaxBlocks) /\ MaxBlocks \in Nat
  <2>1. pc = "touch"
    BY DEF AddRecord
  <2>2. /\ c \in Nat /\ J \in Nat \ {0} /\ IsSeq(data) /\ IsSeq(sent)
        /\ count_rtn_index \in Nat /\ Total \in Nat
        /\ count_rtn_index <= Total /\ count_rtn_index = Recorded + 1
        /\ Len(data) < J /\ Len(sent) = Least(c, MaxBlocks)
    BY <2>1, ParserAssumption DEF ParserInv, BlockInv, Reading
  <2>3. Len(data) \in Nat /\ J * c \in Nat
    BY <2>2, Appended
  <2>4. MaxBlocks \in Nat
    BY ParserAssumption DEF MaxBlocks
  <2> QED BY <2>1, <2>2, <2>3, <2>4 DEF Recorded
<1>2. Faithful(Current, Touched)
  <2> SUFFICES ASSUME Current.parts # << >>
               PROVE  Touched = Meant(Current.parts[1].fields)
    BY DEF Faithful
  <2>1. Current \in Messages
    BY <1>1 DEF ParserInv, Current
  <2> DEFINE p == Current.parts[1]
  <2>2. fields = FieldsAt(p, Status, Kept(p, Status))
    BY <1>1, <2>1 DEF ParserInv, LineInv
  <2>3. InFormat(p.fields, p.gap)
    BY <2>1, MessageIs
  <2> HIDE DEF p
  <2>4. Touched = Meant(p.fields)
    BY <2>2, <2>3, TouchedIs
  <2> QED BY <2>4 DEF p
<1>3. /\ Len(out) = Len(data) + 1 /\ out[Len(data) + 1] = Touched
      /\ \A k \in 1..Len(data) : out[k] = data[k]
  BY <1>1, Appended
<1> HIDE DEF out
<1>4. ASSUME NEW k \in 1..Len(out) PROVE Faithful(Matriz[J * c + k], out[k])
  <2>1. CASE k \in 1..Len(data)
    BY <1>3, <2>1 DEF ParserInv, RecordInv
  <2>2. CASE k = Len(data) + 1
    <3>1. J * c + k = count_rtn_index
      BY <1>1, <2>2
    <3>2. Matriz[J * c + k] = Current
      BY <3>1 DEF Current
    <3> QED BY <1>2, <1>3, <2>2, <3>2
  <2> QED BY <1>1, <1>3, <2>1, <2>2
<1>5. Matriz' = Matriz
  BY DEF AddRecord
<1>6. CASE ~BlockEnds
  <2>1. data' = out /\ cycle_count' = c /\ sent' = sent
    BY <1>6 DEF AddRecord, out
  <2> QED BY <1>4, <1>5, <2>1 DEF ParserInv, RecordInv
<1>7. CASE BlockEnds
  <2>1. /\ data' = << >>
        /\ sent' = IF c < MaxBlocks THEN Append(sent, out) ELSE sent
    BY <1>7 DEF AddRecord, out
  <2>2. \A k \in 1..Len(data') :
            Faithful(Matriz'[JSON_NPACKET * cycle_count' + k], data'[k])
    BY <2>1, Empty
  <2>3. ASSUME NEW b \in 1..Len(sent'), NEW k \in 1..Len(sent'[b])
        PROVE  Faithful(Matriz'[(b - 1) * J + k], sent'[b][k])
    <3>1. CASE c < MaxBlocks
      <4>1. /\ Len(sent) = c /\ Len(sent') = c + 1 /\ sent'[c + 1] = out
            /\ \A x \in 1..Len(sent) : sent'[x] = sent[x]
        <5>1. Len(sent) = c
          BY <1>1, <3>1 DEF Least
        <5> QED BY <1>1, <2>1, <3>1, <5>1, Appended
      <4>2. CASE b \in 1..Len(sent)
        BY <1>5, <4>1, <4>2 DEF ParserInv, RecordInv
      <4>3. CASE b = c + 1
        <5>1. (b - 1) * J = J * c
          BY <1>1, <4>3
        <5> QED BY <1>4, <1>5, <4>1, <4>3, <5>1
      <4> QED BY <1>1, <4>1, <4>2, <4>3
    <3>2. CASE ~(c < MaxBlocks)
      BY <1>5, <2>1, <3>2 DEF ParserInv, RecordInv
    <3> QED BY <3>1, <3>2
  <2> QED BY <2>2, <2>3 DEF RecordInv
<1> QED BY <1>6, <1>7

LEMMA ParserInit == Init => ParserInv
BY BlockInit, Empty DEF Init, ParserInv, RecordInv, Total

LEMMA ParserNext == ParserInv /\ [Next]_vars => ParserInv'
<1> SUFFICES ASSUME ParserInv, [Next]_vars PROVE ParserInv'
  OBVIOUS
<1>1. BlockInv'
  BY BlockNext DEF ParserInv
<1>2. CASE UNCHANGED vars
  <2>1. UNCHANGED <<pc, Matriz, count_rtn_index, msg_line, parser, blocks>>
    BY <1>2 DEF vars
  <2>2. LineInv => LineInv'
    BY <2>1 DEF LineInv, Current, Reaches, InWord, InGap, parser
  <2> QED BY <1>1, <2>1, <2>2, RecordsKept DEF ParserInv, Total
<1>3. CASE StartUpload
  <2>1. PICK n \in 1..MAXMSGS : Matriz' \in [1..n -> Messages]
    BY <1>3 DEF StartUpload
  <2>2. n \in Nat /\ Len(Matriz') = n
    BY <2>1, LengthOf, ParserAssumption
  <2>3. \A k \in 1..Total' : Matriz'[k] \in Messages
    BY <2>1, <2>2 DEF Total
  <2>4. pc = "idle" /\ pc' = "next" /\ data' = << >> /\ sent' = << >>
    BY <1>3 DEF StartUpload, ParserInv, BlockInv, blocks
  <2> QED BY <1>1, <2>3, <2>4, Empty DEF ParserInv, RecordInv
<1>4. CASE NextLine
  <2>1. UNCHANGED <<Matriz, blocks>>
    BY <1>4 DEF NextLine
  <2> QED BY <1>1, <1>4, <2>1, LineStarts, RecordsKept DEF ParserInv, Total
<1>5. CASE Parse
  <2>1. pc = "parse" /\ UNCHANGED <<Matriz, blocks>>
    BY <1>5 DEF Parse, NameChar, DataChar, SpaceChar, LineEnds, Parsing
  <2> QED BY <1>1, <1>5, <2>1, LineGoesOn, RecordsKept DEF ParserInv, Total
<1>6. CASE AddRecord
  <2>1. pc' \in {"done", "next"} /\ Matriz' = Matriz
    BY <1>6 DEF AddRecord
  <2> QED BY <1>1, <1>6, <2>1, RecordAdded DEF ParserInv, Total
<1>7. CASE Return
  <2>1. pc' = "idle" /\ Matriz' = << >> /\ data' = << >> /\ sent' = << >>
    BY <1>7 DEF Return
  <2> QED BY <1>1, <2>1, Empty DEF ParserInv, RecordInv, Total
<1> QED BY <1>2, <1>3, <1>4, <1>5, <1>6, <1>7 DEF Next

\* A line in the panel's format becomes its four fields, for all letters, messages and
\* sizes, whatever data_flag was, what msg_line held and which lines came before it.
THEOREM LinesBecomeRecords == Spec => []RecordsFaithful
<1>1. ParserInv => RecordsFaithful
  BY DEF ParserInv, RecordInv, RecordsFaithful, Faithful
<1> QED BY <1>1, ParserInit, ParserNext, PTL DEF Spec

=============================================================================
