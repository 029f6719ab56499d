--------------------------- MODULE SimplexParser ---------------------------
(***************************************************************************)
(* From the message buffer to the records of an upload: the loop of        *)
(* Firebase_upload (Coop_Serial_System.h) over the stored lines, the read  *)
(* cursor of Serial_Msg.h, and the parser Separator_Search                 *)
(* (Simplex_Protocol.c), character by character.                           *)
(*                                                                         *)
(* Two pieces of memory are used as they happen to be: data_flag, which    *)
(* nothing initialises, and what msg_line holds behind the line copied     *)
(* into it.  Both are arbitrary here.                                      *)
(*                                                                         *)
(* Abstracted: the letters of a line; the sizes of the four fields (a line *)
(* is taken to fit, one write before the start of a field to be harmless); *)
(* the requests, which FirebaseLink models.                                *)
(***************************************************************************)
EXTENDS Naturals, SequencesExt

CONSTANTS
    Letters,                \* the characters without a meaning to the parser
    BUFFER_SIZE,            \* index of the last character looked at (100)
    SIMPLEX_NAME_MAX_LEN,   \* index of the last character of a name (39)
    MAXMSGS,                \* entries of Matriz (11 in the code)
    JSON_NPACKET,           \* messages per block (5 in the code)
    Leftovers,              \* bound: the characters of unwritten memory
    Messages                \* bound: the messages the buffer may hold; of one in the
                            \* panel's format, parts has the fields and the gaps

VARIABLES
    pc,             \* outside an upload, or what it does next
    Matriz,         \* the stored messages
    count_rtn_index,\* messages read so far
    msg_line,       \* the line being parsed and what is behind it
    i,              \* index of the next character
    sep_counter,    \* separators seen
    space_counter,  \* spaces since the last letter
    data_flag,      \* the next first space is part of the field
    name_counter,   \* characters of the name; 0 before it starts
    fields,         \* point_name, name, type and status
    data,           \* the records of the block being filled
    cycle_count,    \* blocks finished
    sent            \* the blocks handed to dataupload2

parser == <<i, sep_counter, space_counter, data_flag, name_counter, fields>>
blocks == <<data, cycle_count, sent>>
vars == <<pc, Matriz, count_rtn_index, msg_line, parser, blocks>>

SPACE == " "
FINAL == "\r"
NUL   == "0"
Chars == Letters \cup {SPACE, FINAL, NUL, "?", "q", "\n"}

\* What memory that nobody has written may hold.
Unwritten == {[k \in 0..BUFFER_SIZE |-> c] : c \in Leftovers}

\* The fields by the number of separators before them.
PointName == 0
Name      == 1
Type      == 2
Status    == 3
NoFields  == [n \in PointName..Status |-> << >>]

MaxBlocks == MAXMSGS \div JSON_NPACKET

ASSUME ParserAssumption ==
    /\ {SPACE, FINAL, NUL, "?", "q", "\n"} \cap Letters = {}
    /\ BUFFER_SIZE \in Nat /\ SIMPLEX_NAME_MAX_LEN \in Nat
    /\ MAXMSGS \in Nat \ {0} /\ JSON_NPACKET \in Nat \ {0}
    /\ Leftovers \subseteq Chars
    /\ \A m \in Messages : m.text \in Seq(Chars \ {NUL}) /\ Len(m.text) <= BUFFER_SIZE

-----------------------------------------------------------------------------
(* What the panel sends.                                                     *)

\* A field of a line: it neither begins nor ends with a space.
IsField(s) ==
    /\ s \in Seq(Chars \ {FINAL, NUL}) /\ s # << >>
    /\ s[1] # SPACE /\ s[Len(s)] # SPACE

\* Two spaces would end it.
SingleSpaced(s) == \A k \in 1..Len(s) - 1 : s[k] = SPACE => s[k + 1] # SPACE

Spaces(n) == [k \in 1..n |-> SPACE]

Padded(s) == s \o Spaces(SIMPLEX_NAME_MAX_LEN + 1 - Len(s))

\* A line of a list: four fields, the name padded, with two spaces or more in between
\* and one or more at the end (gap has the four numbers).
Format(f, gap) ==
    f.id \o Spaces(gap[1]) \o Padded(f.name) \o Spaces(gap[2])
        \o f.type \o Spaces(gap[3]) \o f.status \o Spaces(gap[4]) \o <<FINAL, "\n">>

\* The fields f and the gaps of a line in the panel's format; the name may have more
\* spaces inside, being read by its width.
InFormat(f, gap) ==
    /\ \A s \in {f.id, f.type, f.status} : IsField(s) /\ SingleSpaced(s)
    /\ IsField(f.name) /\ Len(f.name) <= SIMPLEX_NAME_MAX_LEN + 1
    /\ gap \in [1..4 -> Nat]
    /\ \A k \in 1..3 : gap[k] >= 2
    /\ gap[4] >= 1

\* A line with parts is what the panel makes of them.
ASSUME FormatAssumption ==
    \A m \in Messages : m.parts # << >> =>
        LET p == m.parts[1]
        IN  InFormat(p.fields, p.gap) /\ m.text = Format(p.fields, p.gap)

\* What should become of it: a "?" for the status stands for the type instead.
Meant(f) == [id |-> f.id, name |-> f.name,
             type |-> IF f.status[1] = "?" THEN << >> ELSE f.type,
             status |-> IF f.status[1] = "?" THEN f.type ELSE f.status]

-----------------------------------------------------------------------------

Init ==
    /\ pc = "idle"
    /\ Matriz = << >> /\ count_rtn_index = 0
    /\ msg_line \in Unwritten
    /\ i = 0 /\ sep_counter = 0 /\ space_counter = 0 /\ data_flag = FALSE
    /\ name_counter = 0 /\ fields = NoFields
    /\ data = << >> /\ cycle_count = 0 /\ sent = << >>

\* An upload of some messages; its msg_line is new, hence holds anything.
StartUpload ==
    /\ pc = "idle"
    /\ \E n \in 1..MAXMSGS : Matriz' \in [1..n -> Messages]
    /\ msg_line' \in Unwritten
    /\ pc' = "next"
    /\ UNCHANGED <<count_rtn_index, parser, blocks>>

\* get_Serial_Msg().
Copied == Matriz[count_rtn_index + 1].text

\* Mutant: the separators of the line before are not forgotten.
SetupKeeping ==
    /\ i' = 0 /\ sep_counter' = sep_counter % 4 /\ space_counter' = 0
    /\ name_counter' = 0
    /\ fields' = NoFields
    /\ data_flag' \in BOOLEAN

\* Message_Setup and the locals of Separator_Search; data_flag is whatever it is.
Setup ==
    /\ i' = 0 /\ sep_counter' = 0 /\ space_counter' = 0
    /\ name_counter' = 0
    /\ fields' = NoFields
    /\ data_flag' \in BOOLEAN

\* strcpy(msg_line, get_Serial_Msg()), which leaves alone what is behind the NUL.
NextLine ==
    /\ pc = "next"
    /\ msg_line' = [k \in 0..BUFFER_SIZE |->
                        IF k < Len(Copied) THEN Copied[k + 1]
                        ELSE IF k = Len(Copied) THEN NUL ELSE msg_line[k]]
    /\ count_rtn_index' = count_rtn_index + 1
    /\ Setup
    /\ pc' = "parse"
    /\ UNCHANGED <<Matriz, blocks>>

-----------------------------------------------------------------------------
(* Separator_Search: one character per step.                                 *)

Here == msg_line[i]

\* The first letter after the first separator starts the name, whose characters are
\* then taken as they come.
InName ==
    \/ name_counter \in 1..SIMPLEX_NAME_MAX_LEN
    \/ name_counter = 0 /\ sep_counter = Name /\ Here \notin {SPACE, FINAL}

\* fields with one more character; a fifth field marks the status.
Extracted ==
    IF sep_counter <= Status
    THEN [fields EXCEPT ![sep_counter] = Append(@, Here)]
    ELSE [fields EXCEPT ![Status] = IF @ = << >> THEN <<"q">> ELSE [@ EXCEPT ![1] = "q"]]

Parsing == pc = "parse" /\ i <= BUFFER_SIZE /\ i' = i + 1

NameChar ==
    /\ Parsing /\ InName
    /\ name_counter' = name_counter + 1
    /\ fields' = Extracted
    /\ space_counter' = 0 /\ data_flag' = TRUE
    /\ UNCHANGED <<pc, Matriz, count_rtn_index, msg_line, sep_counter, blocks>>

DataChar ==
    /\ Parsing /\ ~InName /\ Here \notin {SPACE, FINAL}
    /\ fields' = Extracted
    /\ space_counter' = 0 /\ data_flag' = TRUE
    /\ UNCHANGED <<pc, Matriz, count_rtn_index, msg_line, sep_counter, name_counter,
                   blocks>>

\* The space that makes a separator.
Separates == space_counter + 1 = 2

\* Separator_Eval.
SpaceChar ==
    /\ Parsing /\ ~InName /\ Here = SPACE
    /\ \/ /\ Separates
          /\ sep_counter' = sep_counter + 1
          /\ space_counter' = space_counter + 1
          /\ UNCHANGED <<fields, data_flag>>
       \/ /\ ~Separates /\ data_flag
          /\ fields' = Extracted
          /\ space_counter' = 1 /\ data_flag' = FALSE
          /\ UNCHANGED sep_counter
       \/ /\ ~Separates /\ ~data_flag
          /\ space_counter' = space_counter + 1
          /\ UNCHANGED <<fields, data_flag, sep_counter>>
    /\ UNCHANGED <<pc, Matriz, count_rtn_index, msg_line, name_counter, blocks>>

\* The end of the line, or of what the parser looks at.
LineEnds ==
    /\ pc = "parse"
    /\ i <= BUFFER_SIZE => (~InName /\ Here = FINAL)
    /\ pc' = "touch"
    /\ UNCHANGED <<Matriz, count_rtn_index, msg_line, parser, blocks>>

-----------------------------------------------------------------------------
(* Message_Final_Touch and the blocks.                                       *)

\* A field as a C string.
Text(s) == LET ends == {k \in 1..Len(s) : s[k] = NUL}
           IN  IF ends = {} THEN s ELSE SubSeq(s, 1, Min(ends) - 1)

\* The name without the spaces at its end, if it fills its width.
Trimmed(s) ==
    IF Len(s) <= SIMPLEX_NAME_MAX_LEN THEN s
    ELSE SubSeq(s, 1, Max({k \in 1..SIMPLEX_NAME_MAX_LEN + 1 : s[k] # SPACE}))

\* The record of the line.
Touched ==
    LET type    == Text(fields[Type])
        status  == Text(fields[Status])
        unknown == status # << >> /\ status[1] = "?"
    IN  [id     |-> Front(Text(fields[PointName])),
         name   |-> Text(Trimmed(fields[Name])),
         type   |-> IF unknown THEN << >> ELSE Front(type),
         status |-> IF unknown THEN Front(type) ELSE Front(status)]

\* Mutant: the last block is only sent when it is full.
BlockEndsFull == Len(data) + 1 >= JSON_NPACKET

\* The block is full, or this is the last message.
BlockEnds == Len(data) + 1 >= JSON_NPACKET \/ count_rtn_index = Len(Matriz)

\* data.add, and dataupload2 when the block ends, if the server has a place for it.
AddRecord ==
    /\ pc = "touch"
    /\ \/ /\ ~BlockEnds
          /\ data' = Append(data, Touched)
          /\ UNCHANGED <<cycle_count, sent>>
       \/ /\ BlockEnds
          /\ data' = << >>
          /\ sent' = IF cycle_count < MaxBlocks
                     THEN Append(sent, Append(data, Touched)) ELSE sent
          /\ cycle_count' = cycle_count + 1
    /\ pc' = IF count_rtn_index = Len(Matriz) THEN "done" ELSE "next"
    /\ UNCHANGED <<Matriz, count_rtn_index, msg_line, parser>>

\* clean_JSON_array() and the end of the upload.
Return ==
    /\ pc = "done"
    /\ Matriz' = << >> /\ count_rtn_index' = 0
    /\ data' = << >> /\ cycle_count' = 0 /\ sent' = << >>
    /\ i' = 0 /\ sep_counter' = 0 /\ space_counter' = 0 /\ data_flag' = FALSE
    /\ name_counter' = 0 /\ fields' = NoFields
    /\ pc' = "idle"
    /\ UNCHANGED msg_line

Parse == NameChar \/ DataChar \/ SpaceChar \/ LineEnds

Next == StartUpload \/ NextLine \/ Parse \/ AddRecord \/ Return

Spec == Init /\ [][Next]_vars

-----------------------------------------------------------------------------
(* Properties.                                                               *)

Least(m, n) == IF m <= n THEN m ELSE n

\* The blocks of an upload hold its messages in their order, each once: full blocks
\* and a last one with what is left, up to the places on the server.
InBlocks ==
    pc = "done" =>
        LET total == (Len(Matriz) + JSON_NPACKET - 1) \div JSON_NPACKET
        IN  /\ cycle_count = total
            /\ Len(sent) = Least(total, MaxBlocks)
            /\ \A b \in 1..Len(sent) :
                  Len(sent[b]) = Least(JSON_NPACKET, Len(Matriz) - (b - 1) * JSON_NPACKET)

\* A line in the panel's format becomes its four fields, whatever data_flag was, what
\* stood in msg_line before, and which lines, whole or cut, came before it.
RecordsFaithful ==
    pc = "done" =>
        \A b \in 1..Len(sent) : \A k \in 1..Len(sent[b]) :
            LET m == Matriz[(b - 1) * JSON_NPACKET + k]
            IN  m.parts # << >> => sent[b][k] = Meant(m.parts[1].fields)

=============================================================================
