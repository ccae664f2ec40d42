-------------------------------- MODULE Drawing --------------------------------
(***************************************************************************)
(* Drawing on the frame buffer (src/wasabi/src/graphics.rs): fill_rect     *)
(* checks the corners of its rectangle and then writes without checking;   *)
(* draw_line checks its end points and then every point it writes.         *)
(*                                                                         *)
(* A call is drawn on one screen; written holds the byte addresses of the  *)
(* pixels that the call has written so far, relative to the start of the   *)
(* frame buffer.  Coordinates are i64: I64_LIMIT is 2^63 in the code.      *)
(***************************************************************************)
EXTENDS Bitmap

CONSTANTS
  Rectangles,       \* the calls [px, py, w, h] of fill_rect
  Lines             \* the calls [x0, y0, x1, y1] of draw_line

ASSUME DrawingAssumption ==
  /\ Rectangles \subseteq [px : I64, py : I64, w : I64, h : I64]
  /\ Lines \subseteq [x0 : I64, y0 : I64, x1 : I64, y1 : I64]

VARIABLES
  call,             \* the call, with its arguments
  point,            \* the loop variable of draw_line
  result            \* "drawing", "ok", "err" or "panic"

drawingVars == <<call, point, result>>

NoCall == [op |-> "none", args |-> << >>]

-----------------------------------------------------------------------------
DrawingInit ==
  /\ call = NoCall
  /\ point = 0
  /\ result = "ok"

(* A behaviour is one call: calls share nothing but the pixels, which none *)
(* of them reads.                                                          *)
Idle == call = NoCall

(* A call that writes nothing, or all that it writes, in one step.         *)
Answer(r, pixels) ==
  /\ result' = r
  /\ written' = {PixelAt(p) : p \in pixels}
  /\ UNCHANGED <<screen, overflow_checks, point>>

fill_rect(c) ==
  /\ Idle
  /\ call' = [op |-> "fill_rect", args |-> c]
  /\ \/ FillPanics(c) /\ Answer("panic", {})
     \/ ~FillPanics(c) /\ ~CornersInRange(c) /\ Answer("err", {})
     \/ ~FillPanics(c) /\ CornersInRange(c) /\ Answer("ok", Rect(c))

-----------------------------------------------------------------------------
(* Mutant: the end points are left to draw_point.                          *)
draw_line_unchecked(c) ==
  /\ Idle
  /\ call' = [op |-> "draw_line", args |-> c]
  /\ point' = 0
  /\ written' = {}
  /\ result' = "drawing"
  /\ UNCHANGED <<screen, overflow_checks>>

draw_line(c) ==
  /\ Idle
  /\ call' = [op |-> "draw_line", args |-> c]
  /\ point' = 0
  /\ written' = {}
  /\ result' = IF EndsInRange(c) THEN "drawing" ELSE "err"
  /\ UNCHANGED <<screen, overflow_checks>>

Drawing == result = "drawing" /\ point < LineLength(call.args)

(* draw_point writes the pixel, or its Err is handed on at once.           *)
LinePoint ==
  /\ Drawing
  /\ LET ps == LinePoints(call.args, point)
     IN  IF \A p \in ps : InRange(p)
         THEN /\ written' = written \cup {PixelAt(p) : p \in ps}
              /\ UNCHANGED result
         ELSE result' = "err" /\ UNCHANGED written
  /\ point' = point + 1
  /\ UNCHANGED <<screen, overflow_checks, call>>

LineOk ==
  /\ result = "drawing" /\ point >= LineLength(call.args)
  /\ result' = "ok"
  /\ UNCHANGED <<screen, overflow_checks, call, point, written>>

DrawingNext ==
  \/ \E c \in Rectangles : fill_rect(c)
  \/ \E c \in Lines : draw_line(c)
  \/ LinePoint \/ LineOk

-----------------------------------------------------------------------------
DrawingTypeOK ==
  /\ \/ call = NoCall
     \/ call.op = "fill_rect" /\ call.args \in Rectangles
     \/ call.op = "draw_line" /\ call.args \in Lines
  /\ point \in Nat
  /\ result \in {"drawing", "ok", "err", "panic"}
  /\ result = "drawing" => call.op = "draw_line" /\ EndsInRange(call.args)

(***************************************************************************)
(* FillsExactly: fill_rect writes the visible pixels of its rectangle and  *)
(* no other - none in the padding of a line, none in the next line - or    *)
(* nothing at all; with an area it succeeds exactly if all of it is        *)
(* visible.                                                                *)
(***************************************************************************)
Asked(c) == {p \in Visible : /\ c.px <= p[1] /\ p[1] < c.px + c.w
                             /\ c.py <= p[2] /\ p[2] < c.py + c.h}

FillsExactly ==
  call.op = "fill_rect" =>
    LET c == call.args
        whole == /\ <<c.px, c.py>> \in Visible
                 /\ <<c.px + c.w - 1, c.py + c.h - 1>> \in Visible
    IN  /\ {PixelOf(a) : a \in written} = IF result = "ok" THEN Asked(c) ELSE {}
        /\ c.w > 0 /\ c.h > 0 => (result = "ok" <=> whole)

(***************************************************************************)
(* LineFollows: draw_line draws a line whole or not at all: once it has    *)
(* begun, no point between the two ends is out of range.  A line that was  *)
(* drawn has one pixel for each step along its longer side, from its start *)
(* up to but not including its end, and that pixel is the nearest to the   *)
(* ideal line (of two, the farther from the start).                        *)
(***************************************************************************)
LineWhole ==
  call.op = "draw_line" /\ result = "err" => written = {}

Nearest(along, across, i, j) ==
  LET off == 2 * (along * j - across * i) IN -along < off /\ off <= along

OnLine(c, p) ==
  LET i == Abs(p[1] - c.x0)
      j == Abs(p[2] - c.y0)
  IN  /\ (p[1] - c.x0) * (c.x1 - c.x0) >= 0
      /\ (p[2] - c.y0) * (c.y1 - c.y0) >= 0
      /\ IF DX(c) >= DY(c)
         THEN i < DX(c) /\ Nearest(DX(c), DY(c), i, j)
         ELSE j < DY(c) /\ Nearest(DY(c), DX(c), j, i)

LineFollows ==
  /\ LineWhole
  /\ call.op = "draw_line" /\ result = "ok" =>
       {PixelOf(a) : a \in written} = {p \in Visible : OnLine(call.args, p)}

=============================================================================
