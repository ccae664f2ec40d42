------------------------------- MODULE TextWriter -------------------------------
(***************************************************************************)
(* Text on the screen (VramTextWriter of src/wasabi/src/uefi.rs).  write!  *)
(* hands over its text in pieces, one call of write_str for each, and the  *)
(* cursor is all that one call leaves for the next.  Nothing wraps and     *)
(* nothing scrolls: what lies beyond the screen is lost.                   *)
(***************************************************************************)
EXTENDS Font

CONSTANTS
  Pieces,           \* the strings of a call, sequences of codes
  NEWLINE,          \* the code of '\n'
  MaxText           \* bound: characters in all

ASSUME TextWriterAssumption ==
  /\ Pieces \subseteq Seq(Nat)
  /\ NEWLINE \in 0 .. CODES - 1
  /\ MaxText \in Nat

VARIABLES
  cursor_x, cursor_y,
  pending,          \* what the loop of the call has still before it
  text              \* what has been written, over all calls

textVars == <<cursor_x, cursor_y, pending, text>>

TextInit ==
  /\ cursor_x = 0 /\ cursor_y = 0
  /\ pending = << >>
  /\ text = << >>

write_str(s) ==
  /\ pending = << >>
  /\ Len(text) + Len(s) <= MaxText
  /\ pending' = s
  /\ UNCHANGED <<bitmapVars, cursor_x, cursor_y, text>>

(* One turn of the loop. *)
Turns(c) ==
  /\ pending # << >> /\ c = Head(pending)
  /\ pending' = Tail(pending)
  /\ text' = Append(text, c)
  /\ UNCHANGED <<screen, overflow_checks>>

(* Mutant: a new line keeps the column.                                    *)
NewLine_no_return ==
  /\ Turns(NEWLINE)
  /\ cursor_y' = cursor_y + GLYPH_ROWS
  /\ UNCHANGED <<written, cursor_x>>

NewLine ==
  /\ Turns(NEWLINE)
  /\ cursor_y' = cursor_y + GLYPH_ROWS
  /\ cursor_x' = 0
  /\ UNCHANGED written

Character(c) ==
  /\ Turns(c) /\ c # NEWLINE
  /\ written' = written \cup {PixelAt(p) : p \in draw_font_fg(cursor_x, cursor_y, c)}
  /\ cursor_x' = cursor_x + GLYPH_COLUMNS
  /\ UNCHANGED cursor_y

TextNext ==
  \/ \E s \in Pieces : write_str(s)
  \/ NewLine
  \/ pending # << >> /\ Character(Head(pending))

-----------------------------------------------------------------------------
(* The cursor never leaves the grid of character cells. *)
TextTypeOK ==
  /\ cursor_x \in {GLYPH_COLUMNS * i : i \in 0 .. MaxText}
  /\ cursor_y \in {GLYPH_ROWS * i : i \in 0 .. MaxText}
  /\ text \in Seq(Nat) /\ pending \in Seq(Nat)
  /\ Len(text) + Len(pending) <= MaxText

(***************************************************************************)
(* ScreenShowsText: however the text was cut into calls, each character    *)
(* stands in its cell - the line by the new lines before it, the column by *)
(* the characters since the last of them - and exactly the part of its     *)
(* glyph that lies on the screen is lit; nothing wraps into another line.  *)
(* The glyphs are those the code has, for all of a u8: see OnlyAsciiLit.   *)
(***************************************************************************)
LineOf(i) == Cardinality({j \in 1 .. i - 1 : text[j] = NEWLINE})
ColumnOf(i) == Cardinality({j \in 1 .. i - 1 : LineOf(j + 1) = LineOf(i)
                                               /\ text[j] # NEWLINE})

CellPixels(i) ==
  {<<ColumnOf(i) * GLYPH_COLUMNS + d[1], LineOf(i) * GLYPH_ROWS + d[2]>> :
     d \in GlyphPixels(text[i])}

ScreenShowsText ==
  text # << >> =>
    {PixelOf(a) : a \in written} =
      Visible \cap UNION {CellPixels(i) : i \in {j \in DOMAIN text : text[j] # NEWLINE}}

(***************************************************************************)
(* OnlyAsciiLit: the font covers ASCII only; a character from U+0080 on    *)
(* has no glyph, and nothing is drawn for it (the comment of lookup_font). *)
(***************************************************************************)
ASCII == CODES \div 2

OnlyAsciiLit ==
  text # << >> =>
    {PixelOf(a) : a \in written} \subseteq
      UNION {CellPixels(i) : i \in {j \in DOMAIN text : text[j] < ASCII /\ text[j] # NEWLINE}}

=============================================================================
