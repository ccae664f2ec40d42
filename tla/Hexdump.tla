-------------------------------- MODULE Hexdump --------------------------------
(***************************************************************************)
(* hexdump_bytes of src/wasabi/src/print.rs.  A row is printed byte by     *)
(* byte while it is read; its bytes are kept in ascii, a buffer that every *)
(* row reuses, until the row is full or the data ends.  The last row is    *)
(* printed by a copy of the code.  (The comment above the function calls   *)
(* it a stub whose loop prints nothing, which it no longer is.)            *)
(*                                                                         *)
(* The output is a sequence of tokens <<kind, value>>, whose wording is    *)
(* left out.  The code has WIDTH 16, SPACE 0x20 and DEL 0x7f.              *)
(***************************************************************************)
EXTENDS Integers, Sequences, SequencesExt

CONSTANTS
  Inputs,           \* the data that may be dumped
  WIDTH,            \* bytes in a row
  SPACE, DEL        \* the first printable byte, and the one after the last

Byte == Nat

ASSUME HexdumpAssumption ==
  /\ WIDTH \in Nat \ {0}
  /\ SPACE \in Nat /\ DEL \in Nat /\ 8 < SPACE /\ SPACE < DEL
  /\ Inputs \subseteq Seq(Byte)

VARIABLES
  bytes,            \* the data
  read,             \* how many of them the loop has taken
  column,           \* i in the code
  ascii, offset,    \* as in the code
  output,
  done

dumpVars == <<bytes, read, column, ascii, offset, output, done>>

DumpInit ==
  /\ bytes \in Inputs
  /\ read = 0
  /\ column = 0
  /\ ascii = [k \in 1 .. WIDTH |-> 8]
  /\ offset = 0
  /\ output = << >>
  /\ done = FALSE

-----------------------------------------------------------------------------
Bar == << <<"bar", 0>> >>

Ascii(chars, last_printable) ==
  [k \in DOMAIN chars |-> IF chars[k] \in SPACE .. last_printable
                          THEN <<"char", chars[k]>> ELSE <<"dot", 0>>]

Address == IF column = 0 THEN << <<"address", offset>> >> ELSE << >>

(* One turn of the loop. *)
NextByte ==
  /\ read < Len(bytes)
  /\ LET v == bytes[read + 1]
     IN  /\ ascii' = [ascii EXCEPT ![column + 1] = v]
         /\ output' = output \o Address \o << <<"hex", v>> >>
                        \o IF column + 1 = WIDTH
                           THEN Bar \o Ascii(ascii', DEL - 1) \o Bar ELSE << >>
  /\ column' = (column + 1) % WIDTH
  /\ offset' = IF column + 1 = WIDTH THEN offset + WIDTH ELSE offset
  /\ read' = read + 1
  /\ UNCHANGED <<bytes, done>>

(* Mutant: the whole buffer is shown, not the part that this row filled.   *)
Filled_all == ascii

(* ascii[0..old_i] *)
Filled == SubSeq(ascii, 1, column)

(* After the loop.  DEL counts as printable here, and only here. *)
LastRow ==
  /\ read = Len(bytes) /\ ~done
  /\ output' = IF column = 0 THEN output
               ELSE output \o [k \in 1 .. WIDTH - column |-> <<"blank", 0>>]
                           \o Bar \o Ascii(Filled, DEL) \o Bar
  /\ column' = IF column = 0 THEN 0 ELSE WIDTH
  /\ done' = TRUE
  /\ UNCHANGED <<bytes, read, ascii, offset>>

DumpNext == NextByte \/ LastRow

DumpSpec == DumpInit /\ [][DumpNext]_dumpVars

-----------------------------------------------------------------------------
(***************************************************************************)
(* DumpShowsData: the dump can be read back.  Row by row it has the        *)
(* address, each byte of the row once and in order, and beside them the    *)
(* printable ones of the same row - never one left in the buffer by the    *)
(* row before, whatever the length of the data.  One rule says which bytes *)
(* are printable, in every row alike; DEL is not one of them, but the last *)
(* row may show it all the same (the two copies of the code differ there). *)
(***************************************************************************)
Row(k) == SubSeq(bytes, k * WIDTH + 1, IF (k + 1) * WIDTH < Len(bytes)
                                      THEN (k + 1) * WIDTH ELSE Len(bytes))

RowTokens(k, last) ==
  LET row == Row(k)
      Column(c) == IF SPACE <= c /\ c <= last THEN <<"char", c>> ELSE <<"dot", 0>>
  IN  << <<"address", k * WIDTH>> >>
      \o [j \in 1 .. WIDTH |-> IF j <= Len(row) THEN <<"hex", row[j]>> ELSE <<"blank", 0>>]
      \o Bar \o [j \in DOMAIN row |-> Column(row[j])] \o Bar

DumpShowsData ==
  LET rows == (Len(bytes) + WIDTH - 1) \div WIDTH
      Dump(last) == FlattenSeq([k \in 1 .. rows |->
                                  RowTokens(k - 1, IF k = rows THEN last ELSE DEL - 1)])
  IN  done => \E last \in {DEL - 1, DEL} : output = Dump(last)

=============================================================================
