------------------------------ MODULE TestPattern ------------------------------
(***************************************************************************)
(* The first drawing of a boot: efi_main clears the screen and calls       *)
(* draw_test_pattern (src/wasabi/src/main.rs, graphics.rs).  A rectangle   *)
(* out of range panics; a line or a character out of range is not missed   *)
(* by anybody.  drawn lists, in order, what each call has written.         *)
(*                                                                         *)
(* The code has SIDE 64, four colours and the labels "0123456789" and      *)
(* "ABCDEF", of which only the length matters here.                        *)
(***************************************************************************)
EXTENDS Font

CONSTANTS
  SIDE,             \* h, the side of a square
  COLORS,           \* how many colours
  Labels            \* the two strings

ASSUME TestPatternAssumption ==
  /\ SIDE \in 1 .. I64_LIMIT - 1 /\ COLORS \in Nat \ 0 .. 2
  /\ Labels \in Seq(Seq(Nat)) /\ Len(Labels) = 2

VARIABLES
  drawn,            \* sequence of [what, pixels]
  lost,             \* how many lines answered with an Err
  pattern           \* "drawing", "done" or "panic"

patternVars == <<drawn, lost, pattern>>

PatternInit ==
  /\ drawn = << >>
  /\ lost = 0
  /\ pattern = "drawing"

Width == 2 * SIDE

(* Mutant: the column that the lines need at the right is not left.        *)
left_flush == screen.width - Width

left == screen.width - Width - 1

Whole == [px |-> 0, py |-> 0, w |-> screen.width, h |-> screen.height]

(* Square k, from 0: a colour on the left, its inverse beside it. *)
Square(k) ==
  [px |-> left + (k % 2) * SIDE, py |-> (k \div 2) * SIDE, w |-> SIDE, h |-> SIDE]

Points == {0, Width} \X {0, Width}

Segment(p, q) ==
  [x0 |-> left + p[1], y0 |-> p[2], x1 |-> left + q[1], y1 |-> q[2]]

(* All that draw_line writes: it does not stop half-way (LineWhole).       *)
LinePixels(c) ==
  IF EndsInRange(c) THEN UNION {LinePoints(c, i) : i \in 0 .. LineLength(c) - 1} ELSE {}

-----------------------------------------------------------------------------
Turn == Len(drawn)

Draw(what, pixels) ==
  /\ drawn' = Append(drawn, [what |-> what, pixels |-> pixels])
  /\ written' = written \cup {PixelAt(p) : p \in pixels}
  /\ UNCHANGED <<screen, overflow_checks>>

(* fill_rect(...).expect(...) *)
FillOrPanic(what, c) ==
  /\ pattern = "drawing"
  /\ IF FillPanics(c) \/ ~CornersInRange(c)
     THEN pattern' = "panic" /\ UNCHANGED <<bitmapVars, drawn, lost>>
     ELSE Draw(what, Rect(c)) /\ UNCHANGED <<lost, pattern>>

Clear == Turn = 0 /\ FillOrPanic("screen", Whole)

FillSquare == Turn \in 1 .. 2 * COLORS /\ FillOrPanic("square", Square(Turn - 1))

(* All sixteen lines; `let _` drops their Errs.  The order does not show. *)
DrawLines ==
  /\ pattern = "drawing" /\ Turn = 2 * COLORS + 1
  /\ LET segments == {Segment(p, q) : p \in Points, q \in Points}
     IN  /\ Draw("lines", UNION {LinePixels(c) : c \in segments})
         /\ lost' = Cardinality({c \in segments : ~EndsInRange(c)})
  /\ UNCHANGED pattern

DrawLabel ==
  /\ pattern = "drawing"
  /\ Turn \in {2 * COLORS + 2, 2 * COLORS + 3}
  /\ LET i == Turn - 2 * COLORS - 1
     IN  /\ Draw("label", draw_str_fg(left, SIDE * COLORS + (i - 1) * GLYPH_ROWS, Labels[i]))
         /\ pattern' = IF i = 2 THEN "done" ELSE "drawing"
  /\ UNCHANGED lost

PatternNext == Clear \/ FillSquare \/ DrawLines \/ DrawLabel

-----------------------------------------------------------------------------
(* The first panic is at the first rectangle that does not fit. *)
PatternTypeOK ==
  /\ Len(drawn) <= 2 * COLORS + 4
  /\ \A i \in DOMAIN drawn : drawn[i].pixels \subseteq Visible
  /\ drawn # << >> =>
       written = UNION {{PixelAt(p) : p \in drawn[i].pixels} : i \in DOMAIN drawn}
  /\ lost \in Nat
  /\ pattern \in {"drawing", "done", "panic"}

(***************************************************************************)
(* PatternFits: the boot ends in a panic at draw_test_pattern or before it *)
(* exactly on a screen whose lines are shorter than it is wide, that is    *)
(* not wider than two squares, or lower than the four rows of them; and    *)
(* on every screen that passes, all the lines are there too, although      *)
(* nobody looks at their Errs.                                             *)
(***************************************************************************)
Fits ==
  /\ screen.pixels_per_line >= screen.width
  /\ screen.width > Width
  /\ screen.height >= COLORS * SIDE

PatternFits ==
  /\ pattern = "panic" => ~Fits
  /\ pattern = "done" => Fits /\ lost = 0

=============================================================================
