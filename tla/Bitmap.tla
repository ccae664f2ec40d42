--------------------------------- MODULE Bitmap ---------------------------------
(***************************************************************************)
(* The Bitmap trait and its frame buffer (src/wasabi/src/graphics.rs,      *)
(* VramBufferInfo of uefi.rs), and the pixels of rectangles and lines on   *)
(* it.  Drawing and TextWriter draw with them.                             *)
(*                                                                         *)
(* Coordinates are i64: I64_LIMIT is 2^63 in the code.                     *)
(***************************************************************************)
EXTENDS Integers

CONSTANTS
  Screens,          \* [width, height, pixels_per_line], as the firmware reports
  I64_LIMIT,        \* an i64 lies in -I64_LIMIT .. I64_LIMIT - 1
  OverflowChecks    \* whether a build panics when an addition overflows

BYTES_PER_PIXEL == 4

I64 == -I64_LIMIT .. I64_LIMIT - 1

Screen == [width : Nat, height : Nat, pixels_per_line : Nat]

(***************************************************************************)
(* The firmware reports a screen in u32s; neither the address of a pixel   *)
(* nor the product in calc_slope_point leaves an i64 below 2^30 pixels.    *)
(***************************************************************************)
ASSUME BitmapAssumption ==
  /\ I64_LIMIT \in Nat \ {0}
  /\ Screens \subseteq Screen
  /\ \A s \in Screens :
       /\ s.width < I64_LIMIT /\ s.height < I64_LIMIT /\ s.pixels_per_line < I64_LIMIT
       /\ s.pixels_per_line * s.height * BYTES_PER_PIXEL <= I64_LIMIT
       /\ \A d \in {s.width, s.height} : 2 * s.width * s.height + d <= I64_LIMIT
  /\ OverflowChecks \subseteq BOOLEAN

VARIABLES
  screen,           \* the VramBufferInfo
  overflow_checks,  \* of this build
  written           \* the addresses written, from the start of the frame buffer

bitmapVars == <<screen, overflow_checks, written>>

(* init_vram *)
BitmapInit ==
  /\ screen \in Screens
  /\ overflow_checks \in OverflowChecks
  /\ written = {}

-----------------------------------------------------------------------------
(* The Bitmap trait. *)

(* Mutant: the visible width is taken for the length of a line.            *)
is_in_x_range_width(px) == 0 <= px /\ px < screen.width

is_in_x_range(px) ==
  0 <= px /\ px < screen.width /\ px < screen.pixels_per_line

is_in_y_range(py) == 0 <= py /\ py < screen.height

InRange(p) == is_in_x_range(p[1]) /\ is_in_y_range(p[2])

(* unchecked_pixel_at_mut *)
PixelAt(p) == (p[2] * screen.pixels_per_line + p[1]) * BYTES_PER_PIXEL

(***************************************************************************)
(* The sum of two i64s, less one perhaps, as a build without overflow      *)
(* checks computes it.                                                     *)
(***************************************************************************)
Wrap(n) ==
  IF n >= I64_LIMIT THEN n - 2 * I64_LIMIT
  ELSE IF n < -I64_LIMIT THEN n + 2 * I64_LIMIT ELSE n

Overflows(start, length) == ~(start + length \in I64 /\ start + length - 1 \in I64)

FirstCorner(c) == InRange(<<c.px, c.py>>)

(* The four tests of fill_rect, as far as the build computes them.         *)
CornersInRange(c) ==
  /\ FirstCorner(c)
  /\ is_in_x_range(Wrap(c.px + c.w - 1))
  /\ is_in_y_range(Wrap(c.py + c.h - 1))

FillPanics(c) ==
  /\ overflow_checks
  /\ FirstCorner(c)
  /\ \/ Overflows(c.px, c.w)
     \/ is_in_x_range(c.px + c.w - 1) /\ Overflows(c.py, c.h)

(* Mutant: the rectangle includes the column and the row at its far end.   *)
Rect_inclusive(c) ==
  (c.px .. Wrap(c.px + c.w)) \X (c.py .. Wrap(c.py + c.h))

Rect(c) ==
  (c.px .. Wrap(c.px + c.w) - 1) \X (c.py .. Wrap(c.py + c.h) - 1)

-----------------------------------------------------------------------------
Abs(n) == IF n < 0 THEN -n ELSE n
Signum(n) == IF n < 0 THEN -1 ELSE IF n = 0 THEN 0 ELSE 1

(* Mutant: the point is rounded up.                                        *)
calc_slope_point_up(da, db, ia) ==
  IF da < db \/ ia \notin 0 .. da THEN {}
  ELSE IF da = 0 THEN {0} ELSE {((2 * db * ia + 3 * da) \div da) \div 2}

(* Mutant: the point is rounded down.                                      *)
calc_slope_point_down(da, db, ia) ==
  IF da < db \/ ia \notin 0 .. da THEN {}
  ELSE IF da = 0 THEN {0} ELSE {(db * ia) \div da}

(* An Option: a set of one value, or of none. *)
calc_slope_point(da, db, ia) ==
  IF da < db THEN {}
  ELSE IF da = 0 THEN {0}
  ELSE IF ia \in 0 .. da THEN {((2 * db * ia + da) \div da) \div 2} ELSE {}

EndsInRange(c) ==
  /\ is_in_x_range(c.x0) /\ is_in_x_range(c.x1)
  /\ is_in_y_range(c.y0) /\ is_in_y_range(c.y1)

DX(c) == Abs(c.x1 - c.x0)
DY(c) == Abs(c.y1 - c.y0)

(* The points that one turn of either loop draws. *)
LinePoints(c, i) ==
  LET At(rx, ry) == <<c.x0 + rx * Signum(c.x1 - c.x0), c.y0 + ry * Signum(c.y1 - c.y0)>>
  IN  IF DX(c) >= DY(c)
      THEN {At(i, ry) : ry \in calc_slope_point(DX(c), DY(c), i)}
      ELSE {At(rx, i) : rx \in calc_slope_point(DY(c), DX(c), i)}

LineLength(c) == IF DX(c) >= DY(c) THEN DX(c) ELSE DY(c)

-----------------------------------------------------------------------------
Visible == {p \in (0 .. screen.width - 1) \X (0 .. screen.height - 1) :
              p[1] < screen.pixels_per_line}

(* The pixel at an address, by line and column of the frame buffer.        *)
PixelOf(a) ==
  <<(a \div BYTES_PER_PIXEL) % screen.pixels_per_line,
    (a \div BYTES_PER_PIXEL) \div screen.pixels_per_line>>

=============================================================================
