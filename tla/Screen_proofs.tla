----------------------------- MODULE Screen_proofs -----------------------------
(***************************************************************************)
(* Drawing on the frame buffer is correct for every screen, every width of *)
(* an i64, both kinds of build, every rectangle, line, font, pattern and   *)
(* text.                                                                   *)
(*                                                                         *)
(* The first part is arithmetic: pixels and their addresses, rectangles    *)
(* whose far corner may overflow, and the points of a line.  The second is *)
(* the invariant ScreenInv, which places all that is drawn inside the      *)
(* buffer and knows what a call of fill_rect or draw_line has drawn.  The  *)
(* test pattern, the text and the types have invariants of their own,      *)
(* which rest on it.                                                       *)
(***************************************************************************)
EXTENDS Screen, FiniteSetTheorems, IntegerFacts

-----------------------------------------------------------------------------
(* Arithmetic. *)

(* What the assumption says of a screen. *)
LEMMA ScreenFields ==
  ASSUME screen \in Screens
  PROVE  /\ screen.width \in Nat /\ screen.height \in Nat /\ screen.pixels_per_line \in Nat
         /\ screen.width < I64_LIMIT /\ screen.height < I64_LIMIT
         /\ I64_LIMIT \in Nat \ {0}
BY BitmapAssumption DEF Screen

(* A pair of integers is in range if and only if it is a visible pixel.    *)
LEMMA InRangeVisible ==
  ASSUME screen \in Screens, NEW x \in Int, NEW y \in Int
  PROVE  InRange(<<x, y>>) <=> <<x, y>> \in Visible
BY ScreenFields DEF InRange, is_in_x_range, is_in_y_range, Visible

(* When a pair of integers is a visible pixel. *)
LEMMA VisibleIff ==
  ASSUME screen \in Screens, NEW x \in Int, NEW y \in Int
  PROVE  <<x, y>> \in Visible <=>
           /\ 0 <= x /\ x < screen.width /\ x < screen.pixels_per_line
           /\ 0 <= y /\ y < screen.height
<1>1. PICK w \in Nat, h \in Nat, l \in Nat :
        w = screen.width /\ h = screen.height /\ l = screen.pixels_per_line
  BY ScreenFields
<1>2. InRange(<<x, y>>) <=> 0 <= x /\ x < w /\ x < l /\ 0 <= y /\ y < h
  BY <1>1 DEF InRange, is_in_x_range, is_in_y_range
<1>3. QED BY <1>1, <1>2, InRangeVisible

(* The coordinates of a visible pixel. *)
LEMMA VisibleFields ==
  ASSUME screen \in Screens, NEW p \in Visible
  PROVE  /\ p[1] \in 0 .. screen.width - 1 /\ p[2] \in 0 .. screen.height - 1
         /\ p[1] \in 0 .. screen.pixels_per_line - 1
         /\ p = <<p[1], p[2]>>
BY ScreenFields DEF Visible

(* The address of a visible pixel names that pixel and lies in the buffer. *)
LEMMA PixelAddress ==
  ASSUME screen \in Screens, NEW p \in Visible
  PROVE  /\ PixelOf(PixelAt(p)) = p
         /\ PixelAt(p) \in Nat
         /\ PixelAt(p) + BYTES_PER_PIXEL
              <= screen.height * screen.pixels_per_line * BYTES_PER_PIXEL
<1>1. PICK w \in Nat, h \in Nat, l \in Nat :
        w = screen.width /\ h = screen.height /\ l = screen.pixels_per_line
  BY ScreenFields
<1>2. PICK x \in 0 .. l - 1, y \in 0 .. h - 1 : p = <<x, y>>
  BY <1>1, VisibleFields
<1>3. PICK k \in Int : k = y * l + x
  BY <1>2, SMT
<1>4. PixelAt(p) = k * 4
  BY <1>1, <1>2, <1>3 DEF PixelAt, BYTES_PER_PIXEL
<1>5. (k * 4) \div 4 = k
  BY SMT
<1>6. k \div l = y /\ k % l = x
  BY <1>2, <1>3, DivUnique, SMT
<1>7. PixelOf(PixelAt(p)) = p
  BY <1>1, <1>2, <1>4, <1>5, <1>6 DEF PixelOf, BYTES_PER_PIXEL
<1>8. k >= 0 /\ k + 1 <= h * l
  <2>1. l * 0 <= l * y /\ l * y <= l * (h - 1)
    BY <1>2, TimesMonotone
  <2>2. l * 0 = 0 /\ l * (h - 1) = h * l - l /\ l * y = y * l
    BY <1>2, SMT
  <2>3. h * l \in Int /\ y * l \in Int
    BY <1>2, SMT
  <2>4. QED BY <1>2, <1>3, <2>1, <2>2, <2>3, SMT
<1>9. PICK size \in Int : size = h * l
  BY SMT
<1>10. k * 4 + 4 <= size * 4 /\ k * 4 \in Nat
  BY <1>8, <1>9, SMT
<1>11. QED BY <1>1, <1>4, <1>7, <1>9, <1>10 DEF BYTES_PER_PIXEL

(* A rectangle whose corners pass the tests of fill_rect, as far as the    *)
(* build computes them, has not overflowed, or nothing is drawn; either    *)
(* way what is drawn is the visible part of what was asked for.            *)
LEMMA RectAsked ==
  ASSUME screen \in Screens, NEW c,
         c.px \in Int, c.py \in Int, c.w \in I64, c.h \in I64, CornersInRange(c)
  PROVE  Rect(c) = Asked(c)
<1> USE DEF BYTES_PER_PIXEL
<1>1. PICK w \in Nat, h \in Nat, l \in Nat, m \in Nat \ {0} :
        /\ w = screen.width /\ h = screen.height /\ l = screen.pixels_per_line
        /\ m = I64_LIMIT /\ w < m /\ h < m
  BY ScreenFields
<1>2. PICK px \in Int, py \in Int, cw \in I64, ch \in I64 :
        px = c.px /\ py = c.py /\ cw = c.w /\ ch = c.h
  OBVIOUS
<1>3. cw \in -m .. m - 1 /\ ch \in -m .. m - 1
  BY <1>1, <1>2 DEF I64
<1>4. /\ 0 <= px /\ px < w /\ px < l /\ 0 <= py /\ py < h
      /\ 0 <= Wrap(px + cw - 1) /\ Wrap(px + cw - 1) < w /\ Wrap(px + cw - 1) < l
      /\ 0 <= Wrap(py + ch - 1) /\ Wrap(py + ch - 1) < h
  BY <1>1, <1>2
     DEF CornersInRange, FirstCorner, InRange, is_in_x_range, is_in_y_range
<1>5. /\ Wrap(px + cw) = px + cw /\ px + cw <= w /\ px + cw <= l
      /\ Wrap(py + ch) = py + ch /\ py + ch <= h
  BY <1>1, <1>3, <1>4, SMT DEF Wrap
<1>6. PICK ex \in Int, ey \in Int :
        /\ ex = px + cw /\ ey = py + ch
        /\ Rect(c) = (px .. ex - 1) \X (py .. ey - 1)
  <2>1. PICK ex \in Int, ey \in Int : ex = Wrap(px + cw) /\ ey = Wrap(py + ch)
    BY <1>3, <1>5
  <2>2. Rect(c) = (px .. ex - 1) \X (py .. ey - 1)
    BY <1>2, <2>1 DEF Rect
  <2>3. ex = px + cw /\ ey = py + ch
    BY <1>5, <2>1
  <2>4. QED BY <2>2, <2>3
<1>7. Asked(c) = {p \in Visible : /\ px <= p[1] /\ p[1] < px + cw
                                  /\ py <= p[2] /\ p[2] < py + ch}
  BY <1>2 DEF Asked
<1>8. Visible = {p \in (0 .. w - 1) \X (0 .. h - 1) : p[1] < l}
  BY <1>1 DEF Visible
<1>9. ASSUME NEW p \in Rect(c) PROVE p \in Asked(c)
  <2>1. PICK x \in px .. ex - 1, y \in py .. ey - 1 : p = <<x, y>>
    BY <1>6, <1>9
  <2>2. x \in 0 .. w - 1 /\ y \in 0 .. h - 1 /\ x < l
    BY <2>1, <1>3, <1>4, <1>5, <1>6, <1>1, SMT
  <2>3. QED BY <2>1, <2>2, <1>6, <1>7, <1>8, <1>1, <1>3
<1>10. ASSUME NEW p \in Asked(c) PROVE p \in Rect(c)
  <2>1. PICK x \in 0 .. w - 1, y \in 0 .. h - 1 : p = <<x, y>>
    BY <1>7, <1>8, <1>10
  <2>2. px <= x /\ x < px + cw /\ py <= y /\ y < py + ch
    BY <1>7, <1>10, <2>1
  <2>3. x \in px .. ex - 1 /\ y \in py .. ey - 1
    BY <2>1, <2>2, <1>1, <1>3, <1>6, SMT
  <2>4. QED BY <2>1, <2>3, <1>6
<1>11. QED BY <1>9, <1>10

(* With an area, the tests pass exactly if both corners are visible.       *)
LEMMA WholeVisible ==
  ASSUME screen \in Screens, NEW c,
         c.px \in Int, c.py \in Int, c.w \in I64, c.h \in I64, c.w > 0, c.h > 0
  PROVE  CornersInRange(c) /\ ~FillPanics(c) <=>
           /\ <<c.px, c.py>> \in Visible
           /\ <<c.px + c.w - 1, c.py + c.h - 1>> \in Visible
<1>1. PICK w \in Nat, h \in Nat, l \in Nat, m \in Nat \ {0} :
        /\ w = screen.width /\ h = screen.height /\ l = screen.pixels_per_line
        /\ m = I64_LIMIT /\ w < m /\ h < m
  BY ScreenFields
<1>2. PICK px \in Int, py \in Int, cw \in I64, ch \in I64 :
        px = c.px /\ py = c.py /\ cw = c.w /\ ch = c.h /\ cw > 0 /\ ch > 0
  OBVIOUS
<1>3. /\ cw \in 1 .. m - 1 /\ ch \in 1 .. m - 1
      /\ I64 = -m .. m - 1
  BY <1>1, <1>2 DEF I64
<1> DEFINE first  == 0 <= px /\ px < w /\ px < l /\ 0 <= py /\ py < h
           second == /\ 0 <= px + cw - 1 /\ px + cw - 1 < w /\ px + cw - 1 < l
                     /\ 0 <= py + ch - 1 /\ py + ch - 1 < h
<1>4. <<px, py>> \in Visible <=> first
  BY <1>1, VisibleIff
<1>5. <<px + cw - 1, py + ch - 1>> \in Visible <=> second
  <2>1. PICK x \in Int, y \in Int : x = px + cw - 1 /\ y = py + ch - 1
    BY <1>3
  <2>2. <<x, y>> \in Visible <=> 0 <= x /\ x < w /\ x < l /\ 0 <= y /\ y < h
    BY <1>1, VisibleIff
  <2>3. QED BY <2>1, <2>2
<1>6. CornersInRange(c) <=>
        /\ first
        /\ 0 <= Wrap(px + cw - 1) /\ Wrap(px + cw - 1) < w /\ Wrap(px + cw - 1) < l
        /\ 0 <= Wrap(py + ch - 1) /\ Wrap(py + ch - 1) < h
  BY <1>1, <1>2 DEF CornersInRange, FirstCorner, InRange, is_in_x_range, is_in_y_range
<1>7. CornersInRange(c) <=> first /\ second
  BY <1>1, <1>3, <1>6, SMT DEF Wrap
<1>8. ASSUME first, second PROVE ~FillPanics(c)
  <2>1. ~Overflows(px, cw) /\ ~Overflows(py, ch)
    BY <1>1, <1>3, <1>8, SMT DEF Overflows
  <2>2. QED BY <1>2, <2>1 DEF FillPanics
<1>9. QED BY <1>2, <1>4, <1>5, <1>7, <1>8

(* calc_slope_point finds the one whole number nearest to the slope, and   *)
(* it is never beyond the end of the shorter side.                         *)
LEMMA SlopeNearest ==
  ASSUME NEW a \in Nat \ {0}, NEW b \in 0 .. a, NEW i \in 0 .. a
  PROVE  \E j \in 0 .. b :
           /\ calc_slope_point(a, b, i) = {j}
           /\ \A k \in Int : Nearest(a, b, i, k) <=> k = j
<1>1. PICK t \in Int : t = b * i
  OBVIOUS
<1>2. 0 <= t /\ t <= b * a
  <2>1. b * 0 <= b * i /\ b * i <= b * a
    BY TimesMonotone
  <2>2. b * 0 = 0
    BY SMT
  <2>3. QED BY <1>1, <2>1, <2>2
<1>3. PICK n \in Int : n = 2 * t + a /\ n = 2 * b * i + a
  <2>1. 2 * b * i = 2 * (b * i)
    BY SMT
  <2>2. QED BY <1>1, <2>1
<1>4. PICK q \in Int : q = n \div a
  BY SMT
<1>5. a * q <= n /\ n < a * (q + 1)
  BY <1>4, SMT
<1>6. PICK j \in Int : j = q \div 2
  BY SMT
<1>7. 2 * j <= q /\ q + 1 <= 2 * j + 2
  BY <1>6, SMT
<1>8. calc_slope_point(a, b, i) = {j}
  BY <1>3, <1>4, <1>6 DEF calc_slope_point
<1>9. PICK m \in Int : m = a * j
  OBVIOUS
<1>10. 2 * m <= n /\ n < 2 * m + 2 * a
  <2>1. a * (2 * j) <= a * q /\ a * (q + 1) <= a * (2 * j + 2)
    BY <1>7, TimesMonotone
  <2>2. a * (2 * j) = 2 * m /\ a * (2 * j + 2) = 2 * m + 2 * a
    BY <1>9, SMT
  <2>3. a * q \in Int /\ a * (q + 1) \in Int
    BY SMT
  <2>4. QED BY <1>5, <2>1, <2>2, <2>3
<1>11. ASSUME NEW k \in Int PROVE Nearest(a, b, i, k) <=> -a < 2 * (a * k - t) /\ 2 * (a * k - t) <= a
  BY <1>1 DEF Nearest
<1>12. Nearest(a, b, i, j)
  BY <1>3, <1>9, <1>10, <1>11
<1>13. ASSUME NEW k \in Int, k < j PROVE ~Nearest(a, b, i, k)
  <2>1. a * (k + 1) <= a * j
    BY <1>13, TimesMonotone
  <2>2. a * (k + 1) = a * k + a /\ a * k \in Int
    BY SMT
  <2>3. QED BY <1>3, <1>9, <1>10, <1>11, <2>1, <2>2
<1>14. ASSUME NEW k \in Int, k > j PROVE ~Nearest(a, b, i, k)
  <2>1. a * (j + 1) <= a * k
    BY <1>14, TimesMonotone
  <2>2. a * (j + 1) = a * j + a /\ a * k \in Int
    BY SMT
  <2>3. QED BY <1>3, <1>9, <1>10, <1>11, <2>1, <2>2
<1>15. j >= 0
  <2>1. SUFFICES ASSUME j <= -1 PROVE FALSE
    OBVIOUS
  <2>2. a * j <= a * (-1) /\ a * (-1) = -a
    BY <2>1, TimesMonotone
  <2>3. QED BY <1>2, <1>3, <1>9, <1>10, <2>2
<1>16. j <= b
  <2>1. SUFFICES ASSUME b + 1 <= j PROVE FALSE
    OBVIOUS
  <2>2. a * (b + 1) <= a * j
    BY <2>1, TimesMonotone
  <2>3. a * (b + 1) = b * a + a /\ b * a \in Int
    BY SMT
  <2>4. QED BY <1>2, <1>3, <1>9, <1>10, <2>2, <2>3
<1>17. \A k \in Int : Nearest(a, b, i, k) <=> k = j
  <2>1. ASSUME NEW k \in Int PROVE Nearest(a, b, i, k) <=> k = j
    <3>1. k < j \/ k = j \/ k > j
      OBVIOUS
    <3>2. QED BY <1>12, <1>13, <1>14, <3>1
  <2>2. QED BY <2>1
<1>18. j \in 0 .. b
  BY <1>15, <1>16
<1>19. QED BY <1>8, <1>17, <1>18

(* One coordinate of a line: k steps from u towards v.                     *)
LEMMA StepTowards ==
  ASSUME NEW u \in Int, NEW v \in Int, NEW k \in 0 .. Abs(v - u)
  PROVE  /\ u + k * Signum(v - u) \in Int
         /\ \/ u <= u + k * Signum(v - u) /\ u + k * Signum(v - u) <= v
            \/ v <= u + k * Signum(v - u) /\ u + k * Signum(v - u) <= u
         /\ \A x \in Int :
              (x - u) * (v - u) >= 0 /\ Abs(x - u) = k <=> x = u + k * Signum(v - u)
<1>1. PICK d \in Int : d = v - u
  OBVIOUS
<1>2. PICK s \in {-1, 0, 1} : s = Signum(v - u)
  BY <1>1 DEF Signum
<1>3. k \in Int /\ k >= 0
  BY <1>1 DEF Abs
<1>4. CASE d > 0
  <2>1. s = 1 /\ k <= d
    BY <1>1, <1>2, <1>3, <1>4 DEF Signum, Abs
  <2>2. ASSUME NEW x \in Int
        PROVE  (x - u) * (v - u) >= 0 /\ Abs(x - u) = k <=> x = u + k
    <3>1. PICK y \in Int : y = x - u
      OBVIOUS
    <3>2. y >= 0 => d * 0 <= d * y
      BY <1>4, TimesMonotone
    <3>3. y <= -1 => d * y <= d * (-1)
      BY <1>4, TimesMonotone
    <3>4. PICK z \in Int : z = y * d
      OBVIOUS
    <3>5. d * 0 = 0 /\ d * (-1) = -d /\ d * y = z
      BY <3>4, SMT
    <3>6. z >= 0 <=> y >= 0
      BY <1>4, <3>2, <3>3, <3>5, SMT
    <3>7. (x - u) * (v - u) = z
      BY <1>1, <3>1, <3>4
    <3>8. Abs(x - u) = IF y < 0 THEN -y ELSE y
      BY <3>1 DEF Abs
    <3>9. QED BY <1>3, <3>1, <3>6, <3>7, <3>8, SMT
  <2>3. k * Signum(v - u) = k
    BY <1>2, <1>3, <2>1
  <2>4. u + k \in Int /\ u <= u + k /\ u + k <= v
    BY <1>1, <1>3, <2>1
  <2>5. \A x \in Int : (x - u) * (v - u) >= 0 /\ Abs(x - u) = k <=> x = u + k
    BY <2>2
  <2>6. QED BY ONLY <2>3, <2>4, <2>5, Zenon
<1>5. CASE d < 0
  <2>1. s = -1 /\ k <= -d
    BY <1>1, <1>2, <1>3, <1>5 DEF Signum, Abs
  <2>2. ASSUME NEW x \in Int
        PROVE  (x - u) * (v - u) >= 0 /\ Abs(x - u) = k <=> x = u + k * (-1)
    <3>1. PICK y \in Int, e \in Nat : y = x - u /\ e = -d
      BY <1>5
    <3>2. y >= 1 => e * 1 <= e * y
      BY TimesMonotone
    <3>3. y <= 0 => e * y <= e * 0
      BY TimesMonotone
    <3>4. PICK z \in Int : z = y * d
      OBVIOUS
    <3>5. e * 0 = 0 /\ e * 1 = e /\ e * y = -z
      BY <3>1, <3>4, SMT
    <3>6. z >= 0 <=> y <= 0
      BY <1>5, <3>1, <3>2, <3>3, <3>5, SMT
    <3>7. (x - u) * (v - u) = z
      BY <1>1, <3>1, <3>4
    <3>8. Abs(x - u) = IF y < 0 THEN -y ELSE y
      BY <3>1 DEF Abs
    <3>9. QED BY <1>3, <3>1, <3>6, <3>7, <3>8, SMT
  <2>3. QED BY <1>1, <1>2, <1>3, <2>1, <2>2
<1>6. CASE d = 0
  <2>1. s = 0 /\ k = 0
    BY <1>1, <1>2, <1>6 DEF Signum, Abs
  <2>2. ASSUME NEW x \in Int
        PROVE  (x - u) * (v - u) >= 0 /\ Abs(x - u) = 0 <=> x = u
    <3>1. (x - u) * (v - u) = 0
      BY <1>1, <1>6, SMT
    <3>2. Abs(x - u) = 0 <=> x = u
      BY DEF Abs
    <3>3. QED BY <3>1, <3>2
  <2>3. QED BY <1>1, <1>2, <1>3, <1>6, <2>1, <2>2
<1>7. QED BY <1>4, <1>5, <1>6

LineType(c) == c.x0 \in Int /\ c.y0 \in Int /\ c.x1 \in Int /\ c.y1 \in Int

(* The extents of a line are numbers. *)
LEMMA LineSizes ==
  ASSUME NEW c, LineType(c)
  PROVE  /\ DX(c) \in Nat /\ DY(c) \in Nat /\ LineLength(c) \in Nat
         /\ DX(c) = Abs(c.x1 - c.x0) /\ DY(c) = Abs(c.y1 - c.y0)
         /\ c.x1 - c.x0 \in Int /\ c.y1 - c.y0 \in Int
BY DEF LineType, DX, DY, LineLength, Abs

(* What turn i of the loop draws, on a line that is wider than high ...    *)
LEMMA WidePoint ==
  ASSUME NEW c, LineType(c), DX(c) >= DY(c), NEW i \in 0 .. DX(c) - 1
  PROVE  \E j \in 0 .. DY(c) :
           /\ LinePoints(c, i) = {<<c.x0 + i * Signum(c.x1 - c.x0),
                                    c.y0 + j * Signum(c.y1 - c.y0)>>}
           /\ \A k \in Int : Nearest(DX(c), DY(c), i, k) <=> k = j
<1>1. DX(c) \in Nat \ {0} /\ DY(c) \in 0 .. DX(c) /\ i \in 0 .. DX(c)
  BY LineSizes
<1>2. PICK j \in 0 .. DY(c) :
        /\ calc_slope_point(DX(c), DY(c), i) = {j}
        /\ \A k \in Int : Nearest(DX(c), DY(c), i, k) <=> k = j
  BY <1>1, SlopeNearest
<1>3. LinePoints(c, i) = {<<c.x0 + i * Signum(c.x1 - c.x0),
                            c.y0 + j * Signum(c.y1 - c.y0)>>}
  BY <1>2 DEF LinePoints
<1>4. QED BY <1>2, <1>3

(* ... and on one that is higher than wide.                                *)
LEMMA TallPoint ==
  ASSUME NEW c, LineType(c), ~(DX(c) >= DY(c)), NEW j \in 0 .. DY(c) - 1
  PROVE  \E i \in 0 .. DX(c) :
           /\ LinePoints(c, j) = {<<c.x0 + i * Signum(c.x1 - c.x0),
                                    c.y0 + j * Signum(c.y1 - c.y0)>>}
           /\ \A k \in Int : Nearest(DY(c), DX(c), j, k) <=> k = i
<1>1. DY(c) \in Nat \ {0} /\ DX(c) \in 0 .. DY(c) /\ j \in 0 .. DY(c)
  BY LineSizes
<1>2. PICK i \in 0 .. DX(c) :
        /\ calc_slope_point(DY(c), DX(c), j) = {i}
        /\ \A k \in Int : Nearest(DY(c), DX(c), j, k) <=> k = i
  BY <1>1, SlopeNearest
<1>3. LinePoints(c, j) = {<<c.x0 + i * Signum(c.x1 - c.x0),
                            c.y0 + j * Signum(c.y1 - c.y0)>>}
  BY <1>2 DEF LinePoints
<1>4. QED BY <1>2, <1>3

(* The point i steps along and j steps across from the start. *)
PointAt(c, i, j) ==
  <<c.x0 + i * Signum(c.x1 - c.x0), c.y0 + j * Signum(c.y1 - c.y0)>>

(* The box around two visible ends is visible. *)
LEMMA PointVisible ==
  ASSUME screen \in Screens, NEW c, LineType(c), EndsInRange(c),
         NEW i \in 0 .. DX(c), NEW j \in 0 .. DY(c)
  PROVE  PointAt(c, i, j) \in Visible
<1>1. PICK x \in Int, y \in Int :
        x = c.x0 + i * Signum(c.x1 - c.x0) /\ y = c.y0 + j * Signum(c.y1 - c.y0)
  BY LineSizes, StepTowards DEF LineType
<1>2. \/ c.x0 <= x /\ x <= c.x1
      \/ c.x1 <= x /\ x <= c.x0
  BY <1>1, LineSizes, StepTowards DEF LineType
<1>3. \/ c.y0 <= y /\ y <= c.y1
      \/ c.y1 <= y /\ y <= c.y0
  BY <1>1, LineSizes, StepTowards DEF LineType
<1>4. InRange(<<x, y>>)
  BY <1>2, <1>3, ScreenFields
     DEF LineType, EndsInRange, InRange, is_in_x_range, is_in_y_range
<1>5. QED BY <1>1, <1>4, InRangeVisible DEF PointAt

(* A line between two ends in range is in range all along.                 *)
LEMMA LineVisible ==
  ASSUME screen \in Screens, NEW c, LineType(c), EndsInRange(c),
         NEW i \in 0 .. LineLength(c) - 1
  PROVE  LinePoints(c, i) \subseteq Visible
<1>1. CASE DX(c) >= DY(c)
  <2>1. i \in 0 .. DX(c) - 1 /\ i \in 0 .. DX(c)
    BY <1>1, LineSizes DEF LineLength
  <2>2. PICK j \in 0 .. DY(c) : LinePoints(c, i) = {PointAt(c, i, j)}
    BY <1>1, <2>1, WidePoint DEF PointAt
  <2>3. QED BY <2>1, <2>2, PointVisible
<1>2. CASE ~(DX(c) >= DY(c))
  <2>1. i \in 0 .. DY(c) - 1 /\ i \in 0 .. DY(c)
    BY <1>2, LineSizes DEF LineLength
  <2>2. PICK k \in 0 .. DX(c) : LinePoints(c, i) = {PointAt(c, k, i)}
    BY <1>2, <2>1, TallPoint DEF PointAt
  <2>3. QED BY <2>1, <2>2, PointVisible
<1>3. QED BY <1>1, <1>2

(* The pixels of a whole line. *)
WholeLine(c) == UNION {LinePoints(c, i) : i \in 0 .. LineLength(c) - 1}

(* PointAt is the one point i and j steps away from the start of a line. *)
LEMMA OnLineAt ==
  ASSUME NEW c, LineType(c), NEW p \in Int \X Int,
         NEW i \in 0 .. DX(c), NEW j \in 0 .. DY(c)
  PROVE  p = PointAt(c, i, j) <=>
           /\ (p[1] - c.x0) * (c.x1 - c.x0) >= 0 /\ Abs(p[1] - c.x0) = i
           /\ (p[2] - c.y0) * (c.y1 - c.y0) >= 0 /\ Abs(p[2] - c.y0) = j
<1>1. PICK x \in Int, y \in Int : p = <<x, y>> /\ x = p[1] /\ y = p[2]
  OBVIOUS
<1>2. (x - c.x0) * (c.x1 - c.x0) >= 0 /\ Abs(x - c.x0) = i
        <=> x = c.x0 + i * Signum(c.x1 - c.x0)
  BY LineSizes, StepTowards DEF LineType
<1>3. (y - c.y0) * (c.y1 - c.y0) >= 0 /\ Abs(y - c.y0) = j
        <=> y = c.y0 + j * Signum(c.y1 - c.y0)
  BY LineSizes, StepTowards DEF LineType
<1>4. QED BY <1>1, <1>2, <1>3 DEF PointAt

(* ... are the visible pixels on it.                                       *)
LEMMA LineExact ==
  ASSUME screen \in Screens, NEW c, LineType(c), EndsInRange(c)
  PROVE  WholeLine(c) = {p \in Visible : OnLine(c, p)}
<1>1. \A p \in Visible : p \in Int \X Int
  BY ScreenFields DEF Visible
<1>2. CASE DX(c) >= DY(c)
  <2>1. LineLength(c) = DX(c)
    BY <1>2 DEF LineLength
  <2>2. ASSUME NEW p \in WholeLine(c) PROVE p \in Visible /\ OnLine(c, p)
    <3>1. PICK i \in 0 .. DX(c) - 1 : p \in LinePoints(c, i)
      BY <2>1, <2>2 DEF WholeLine
    <3>2. p \in Visible /\ i \in 0 .. DX(c)
      BY <2>1, <3>1, LineVisible, LineSizes
    <3>3. PICK j \in 0 .. DY(c) :
            p = PointAt(c, i, j) /\ Nearest(DX(c), DY(c), i, j)
      BY <1>2, <3>1, WidePoint, LineSizes DEF PointAt
    <3>4. /\ (p[1] - c.x0) * (c.x1 - c.x0) >= 0 /\ Abs(p[1] - c.x0) = i
          /\ (p[2] - c.y0) * (c.y1 - c.y0) >= 0 /\ Abs(p[2] - c.y0) = j
      BY <1>1, <3>2, <3>3, OnLineAt
    <3>5. OnLine(c, p)
      BY <1>2, <3>1, <3>3, <3>4, LineSizes DEF OnLine
    <3>6. QED BY <3>2, <3>5
  <2>3. ASSUME NEW p \in Visible, OnLine(c, p) PROVE p \in WholeLine(c)
    <3>1. PICK i \in Int, k \in Int : i = Abs(p[1] - c.x0) /\ k = Abs(p[2] - c.y0)
      BY <1>1 DEF LineType, Abs
    <3>2. /\ (p[1] - c.x0) * (c.x1 - c.x0) >= 0 /\ (p[2] - c.y0) * (c.y1 - c.y0) >= 0
          /\ i < DX(c) /\ Nearest(DX(c), DY(c), i, k)
      BY <1>2, <2>3, <3>1 DEF OnLine
    <3>3. i >= 0
      BY <3>1, <1>1 DEF LineType, Abs
    <3>4. i \in 0 .. DX(c) - 1 /\ i \in 0 .. DX(c)
      BY <3>2, <3>3, LineSizes
    <3>5. PICK j \in 0 .. DY(c) : LinePoints(c, i) = {PointAt(c, i, j)} /\ k = j
      BY <1>2, <3>2, <3>4, WidePoint DEF PointAt
    <3>6. p = PointAt(c, i, j)
      BY <1>1, <3>1, <3>2, <3>4, <3>5, OnLineAt
    <3>7. QED BY <2>1, <3>4, <3>5, <3>6 DEF WholeLine
  <2>4. QED BY <2>2, <2>3
<1>3. CASE ~(DX(c) >= DY(c))
  <2>1. LineLength(c) = DY(c)
    BY <1>3 DEF LineLength
  <2>2. ASSUME NEW p \in WholeLine(c) PROVE p \in Visible /\ OnLine(c, p)
    <3>1. PICK j \in 0 .. DY(c) - 1 : p \in LinePoints(c, j)
      BY <2>1, <2>2 DEF WholeLine
    <3>2. p \in Visible /\ j \in 0 .. DY(c)
      BY <2>1, <3>1, LineVisible, LineSizes
    <3>3. PICK i \in 0 .. DX(c) :
            p = PointAt(c, i, j) /\ Nearest(DY(c), DX(c), j, i)
      BY <1>3, <3>1, TallPoint, LineSizes DEF PointAt
    <3>4. /\ (p[1] - c.x0) * (c.x1 - c.x0) >= 0 /\ Abs(p[1] - c.x0) = i
          /\ (p[2] - c.y0) * (c.y1 - c.y0) >= 0 /\ Abs(p[2] - c.y0) = j
      BY <1>1, <3>2, <3>3, OnLineAt
    <3>5. OnLine(c, p)
      BY <1>3, <3>1, <3>3, <3>4, LineSizes DEF OnLine
    <3>6. QED BY <3>2, <3>5
  <2>3. ASSUME NEW p \in Visible, OnLine(c, p) PROVE p \in WholeLine(c)
    <3>1. PICK k \in Int, j \in Int : k = Abs(p[1] - c.x0) /\ j = Abs(p[2] - c.y0)
      BY <1>1 DEF LineType, Abs
    <3>2. /\ (p[1] - c.x0) * (c.x1 - c.x0) >= 0 /\ (p[2] - c.y0) * (c.y1 - c.y0) >= 0
          /\ j < DY(c) /\ Nearest(DY(c), DX(c), j, k)
      BY <1>3, <2>3, <3>1 DEF OnLine
    <3>3. j >= 0
      BY <3>1, <1>1 DEF LineType, Abs
    <3>4. j \in 0 .. DY(c) - 1 /\ j \in 0 .. DY(c)
      BY <3>2, <3>3, LineSizes
    <3>5. PICK i \in 0 .. DX(c) : LinePoints(c, j) = {PointAt(c, i, j)} /\ k = i
      BY <1>3, <3>2, <3>4, TallPoint DEF PointAt
    <3>6. p = PointAt(c, i, j)
      BY <1>1, <3>1, <3>2, <3>4, <3>5, OnLineAt
    <3>7. QED BY <2>1, <3>4, <3>5, <3>6 DEF WholeLine
  <2>4. QED BY <2>2, <2>3
<1>4. QED BY <1>2, <1>3

-----------------------------------------------------------------------------
(* The invariant. *)

(* The points of a line that have been drawn before turn n. *)
Prefix(c, n) == UNION {LinePoints(c, i) : i \in 0 .. n - 1}

Addresses(pixels) == {PixelAt(p) : p \in pixels}

Filled(c) ==
  \/ /\ result = "ok" /\ CornersInRange(c) /\ ~FillPanics(c)
     /\ written = Addresses(Rect(c))
  \/ /\ result \in {"err", "panic"} /\ ~(CornersInRange(c) /\ ~FillPanics(c))
     /\ written = {}

Lined(c) ==
  \/ result = "err" /\ ~EndsInRange(c) /\ written = {}
  \/ /\ result \in {"drawing", "ok"} /\ EndsInRange(c)
     /\ point \in 0 .. LineLength(c)
     /\ result = "ok" => point = LineLength(c)
     /\ written = Addresses(Prefix(c, point))

CallInv ==
  \/ call = NoCall /\ result = "ok"
  \/ call.op = "fill_rect" /\ call.args \in Rectangles /\ Filled(call.args)
  \/ call.op = "draw_line" /\ call.args \in Lines /\ Lined(call.args)

ScreenInv ==
  /\ screen \in Screens
  /\ cursor_x \in Int /\ cursor_y \in Int
  /\ written \subseteq Addresses(Visible)
  /\ CallInv
  /\ client # "drawing" => call = NoCall

(* Nothing is drawn at first. *)
LEMMA ScreenInitHolds == Init => ScreenInv
BY DEF Init, BitmapInit, DrawingInit, PatternInit, TextInit, ScreenInv, CallInv, NoCall

(* The lines of the model have the type that the lemmas ask for. *)
LEMMA LinesTyped == \A c \in Lines : LineType(c)
BY DrawingAssumption, BitmapAssumption DEF LineType, I64

(* fill_rect draws visible pixels only. *)
LEMMA FillKeeps ==
  ASSUME ScreenInv, NEW c \in Rectangles, fill_rect(c)
  PROVE  screen' = screen /\ written' \subseteq Addresses(Visible) /\ CallInv'
<1>1. screen' = screen /\ overflow_checks' = overflow_checks /\ screen \in Screens
  BY DEF fill_rect, Answer, ScreenInv
<1>2. c.px \in Int /\ c.py \in Int /\ c.w \in I64 /\ c.h \in I64
  BY DrawingAssumption, BitmapAssumption DEF I64
<1>3. call'.op = "fill_rect" /\ call'.args = c
  BY DEF fill_rect
<1>4. /\ FillPanics(c)' <=> FillPanics(c)
      /\ CornersInRange(c)' <=> CornersInRange(c)
      /\ Rect(c)' = Rect(c)
      /\ \A p : PixelAt(p)' = PixelAt(p)
  BY <1>1 DEF FillPanics, CornersInRange, FirstCorner, InRange, is_in_x_range, is_in_y_range,
              Rect, PixelAt, Overflows
<1>5. CASE CornersInRange(c) /\ ~FillPanics(c)
  <2>1. result' = "ok" /\ written' = Addresses(Rect(c))
    BY <1>5 DEF fill_rect, Answer, Addresses
  <2>2. Rect(c) \subseteq Visible
    BY <1>1, <1>2, <1>5, RectAsked DEF Asked
  <2>3. written' \subseteq Addresses(Visible)
    BY <2>1, <2>2 DEF Addresses
  <2>4. Addresses(Rect(c))' = Addresses(Rect(c))
    BY <1>4 DEF Addresses
  <2>5. Filled(c)'
    BY <1>4, <1>5, <2>1, <2>4 DEF Filled
  <2>6. QED BY <1>1, <1>3, <2>3, <2>5 DEF CallInv, Filled
<1>6. CASE ~(CornersInRange(c) /\ ~FillPanics(c))
  <2>1. result' \in {"err", "panic"} /\ written' = {}
    BY <1>6 DEF fill_rect, Answer
  <2>2. Filled(c)'
    BY <1>4, <1>6, <2>1 DEF Filled
  <2>3. QED BY <1>1, <1>3, <2>1, <2>2 DEF CallInv, Filled
<1>7. QED BY <1>5, <1>6

(* What a line has drawn so far is visible. *)
LEMMA PrefixVisible ==
  ASSUME screen \in Screens, NEW c, LineType(c), EndsInRange(c),
         NEW n \in 0 .. LineLength(c)
  PROVE  Prefix(c, n) \subseteq Visible
<1>1. LineLength(c) \in Nat
  BY LineSizes
<1>2. ASSUME NEW i \in 0 .. n - 1 PROVE LinePoints(c, i) \subseteq Visible
  BY <1>1, LineVisible
<1>3. QED BY <1>2 DEF Prefix

(* draw_line starts with nothing, or fails at once. *)
LEMMA LineBegins ==
  ASSUME ScreenInv, NEW c \in Lines, draw_line(c)
  PROVE  screen' = screen /\ written' \subseteq Addresses(Visible) /\ CallInv'
<1>1. /\ screen' = screen /\ written' = {} /\ point' = 0
      /\ call'.op = "draw_line" /\ call'.args = c
      /\ result' = IF EndsInRange(c) THEN "drawing" ELSE "err"
  BY DEF draw_line
<1>2. EndsInRange(c)' <=> EndsInRange(c)
  BY <1>1 DEF EndsInRange, is_in_x_range, is_in_y_range
<1>3. LineLength(c) \in Nat
  BY LinesTyped, LineSizes
<1>4. Prefix(c, 0) = {}
  BY DEF Prefix
<1>5. Addresses(Prefix(c, 0))' = {}
  BY <1>4 DEF Addresses
<1>6. Lined(c)'
  <2>1. CASE EndsInRange(c)
    BY <1>1, <1>2, <1>3, <1>5, <2>1 DEF Lined
  <2>2. CASE ~EndsInRange(c)
    BY <1>1, <1>2, <2>2 DEF Lined
  <2>3. QED BY <2>1, <2>2
<1>7. QED BY <1>1, <1>6 DEF CallInv, Lined

(* Each pixel of a line lengthens the prefix that is drawn. *)
LEMMA LineGoesOn ==
  ASSUME ScreenInv, LinePoint \/ LineOk
  PROVE  screen' = screen /\ written' \subseteq Addresses(Visible) /\ CallInv'
<1>1. result = "drawing" /\ screen' = screen /\ call' = call
  BY DEF LinePoint, LineOk, Drawing
<1>2. PICK c \in Lines : c = call.args /\ call.op = "draw_line"
  BY <1>1 DEF ScreenInv, CallInv, Filled
<1>3. LineType(c) /\ LineLength(c) \in Nat /\ screen \in Screens
  BY LinesTyped, LineSizes DEF ScreenInv
<1>4. /\ EndsInRange(c) /\ point \in 0 .. LineLength(c)
      /\ written = Addresses(Prefix(c, point))
  BY <1>1, <1>2 DEF ScreenInv, CallInv, Lined, NoCall
<1>5. (EndsInRange(c)' <=> EndsInRange(c)) /\ \A p : PixelAt(p)' = PixelAt(p)
  BY <1>1 DEF EndsInRange, is_in_x_range, is_in_y_range, PixelAt
<1>6. \A S : Addresses(S)' = Addresses(S)
  BY <1>5 DEF Addresses
<1>7. CASE LinePoint
  <2>1. PICK n \in 0 .. LineLength(c) - 1 : n = point /\ point' = n + 1
    BY <1>2, <1>3, <1>4, <1>7 DEF LinePoint, Drawing
  <2>2. LinePoints(c, n) \subseteq Visible
    BY <1>3, <1>4, <2>1, LineVisible
  <2>3. \A p \in LinePoints(c, n) : InRange(p)
    <3>1. ASSUME NEW p \in Visible PROVE InRange(p)
      BY <1>3, VisibleFields, InRangeVisible, ScreenFields
    <3>2. QED BY <2>2, <3>1
  <2>4. written' = written \cup Addresses(LinePoints(c, n)) /\ result' = "drawing"
    BY <1>1, <1>2, <1>7, <2>1, <2>3 DEF LinePoint, Addresses
  <2>5. Prefix(c, n + 1) = Prefix(c, n) \cup LinePoints(c, n)
    <3>1. 0 .. (n + 1) - 1 = (0 .. n - 1) \cup {n}
      BY <2>1
    <3>2. QED BY <3>1 DEF Prefix
  <2>6. written' = Addresses(Prefix(c, n + 1))
    BY <1>4, <2>1, <2>4, <2>5 DEF Addresses
  <2>7. written' \subseteq Addresses(Visible)
    BY <2>2, <2>4 DEF ScreenInv, Addresses
  <2>8. n + 1 \in 0 .. LineLength(c)
    BY <1>3, <2>1
  <2>9. Lined(c)'
    BY <1>4, <1>5, <1>6, <2>1, <2>4, <2>6, <2>8 DEF Lined
  <2>10. QED BY <1>1, <1>2, <2>7, <2>9 DEF CallInv, Lined
<1>8. CASE LineOk
  <2>1. result' = "ok" /\ point' = point /\ written' = written /\ point = LineLength(c)
    BY <1>2, <1>3, <1>4, <1>8 DEF LineOk
  <2>2. Lined(c)'
    BY <1>4, <1>5, <1>6, <2>1 DEF Lined
  <2>3. QED BY <1>1, <1>2, <2>1, <2>2 DEF CallInv, Lined, ScreenInv
<1>9. QED BY <1>7, <1>8

(* Characters leave out what is not on the screen. *)
LEMMA GlyphVisible ==
  ASSUME screen \in Screens, NEW x \in Int, NEW y \in Int, NEW c
  PROVE  draw_font_fg(x, y, c) \subseteq Visible
<1>1. GLYPH_COLUMNS \in Nat /\ GLYPH_ROWS \in Nat
  BY FontAssumption
<1>2. ASSUME NEW d \in GlyphPixels(c) PROVE x + d[1] \in Int /\ y + d[2] \in Int
  BY <1>1 DEF GlyphPixels
<1>3. ASSUME NEW p \in draw_font_fg(x, y, c) PROVE p \in Visible
  <2>1. PICK d \in GlyphPixels(c) : p = <<x + d[1], y + d[2]>> /\ InRange(p)
    BY <1>3 DEF draw_font_fg
  <2>2. QED BY <1>2, <2>1, InRangeVisible
<1>4. QED BY <1>3

(* A character draws visible pixels only. *)
LEMMA TextKeeps ==
  ASSUME ScreenInv, TextNext
  PROVE  /\ screen' = screen /\ written' \subseteq Addresses(Visible)
         /\ cursor_x' \in Int /\ cursor_y' \in Int
<1>0. /\ screen \in Screens /\ cursor_x \in Int /\ cursor_y \in Int
      /\ written \subseteq Addresses(Visible)
      /\ GLYPH_COLUMNS \in Int /\ GLYPH_ROWS \in Int
  BY FontAssumption DEF ScreenInv
<1>1. CASE \E s \in Pieces : write_str(s)
  BY <1>0, <1>1 DEF write_str, bitmapVars
<1>2. CASE NewLine
  BY <1>0, <1>2 DEF NewLine, Turns
<1>3. CASE Character(Head(pending))
  <2>1. written' = written \cup Addresses(draw_font_fg(cursor_x, cursor_y, Head(pending)))
    BY <1>3 DEF Character, Addresses
  <2>2. draw_font_fg(cursor_x, cursor_y, Head(pending)) \subseteq Visible
    BY <1>0, GlyphVisible
  <2>3. written' \subseteq Addresses(Visible)
    BY <1>0, <2>1, <2>2 DEF Addresses
  <2>4. QED BY <1>0, <1>3, <2>3 DEF Character, Turns
<1>4. QED BY <1>1, <1>2, <1>3 DEF TextNext

(* A step of the pattern draws visible pixels, or it draws nothing.        *)
PatternStep ==
  \/ UNCHANGED <<bitmapVars, drawn>>
  \/ \E what : \E pixels \in SUBSET Visible : Draw(what, pixels)

(* A rectangle of the pattern is drawn as fill_rect draws it. *)
LEMMA FillOrPanicKeeps ==
  ASSUME ScreenInv, NEW what, NEW c, FillOrPanic(what, c),
         c.px \in Int, c.py \in Int, c.w \in I64, c.h \in I64
  PROVE  PatternStep
<1>1. screen \in Screens
  BY DEF ScreenInv
<1>2. CASE FillPanics(c) \/ ~CornersInRange(c)
  BY <1>2 DEF FillOrPanic, PatternStep
<1>3. CASE ~(FillPanics(c) \/ ~CornersInRange(c))
  <2>1. Rect(c) \subseteq Visible
    BY <1>1, <1>3, RectAsked DEF Asked
  <2>2. Draw(what, Rect(c))
    BY <1>3 DEF FillOrPanic
  <2>3. QED BY <2>1, <2>2 DEF PatternStep
<1>4. QED BY <1>2, <1>3

(* Each step of the test pattern draws visible pixels only. *)
LEMMA PatternDraws ==
  ASSUME ScreenInv, PatternNext
  PROVE  PatternStep
<1>0. /\ screen \in Screens
      /\ screen.width \in I64 /\ screen.height \in I64 /\ left \in Int
      /\ SIDE \in I64 /\ SIDE \in Nat /\ COLORS \in Nat /\ GLYPH_ROWS \in Int
      /\ GLYPH_COLUMNS \in Int
  BY ScreenFields, TestPatternAssumption, FontAssumption DEF ScreenInv, I64, left, Width
<1>1. CASE Clear
  <2>1. FillOrPanic("screen", Whole)
    BY <1>1 DEF Clear
  <2>2. Whole.px \in Int /\ Whole.py \in Int /\ Whole.w \in I64 /\ Whole.h \in I64
    BY <1>0 DEF Whole
  <2>3. QED BY <2>1, <2>2, FillOrPanicKeeps
<1>2. CASE FillSquare
  <2>1. PICK k \in Nat : k = Turn - 1
    BY <1>0, <1>2 DEF FillSquare
  <2>2. FillOrPanic("square", Square(k))
    BY <1>2, <2>1 DEF FillSquare
  <2>3. k % 2 \in Int /\ k \div 2 \in Int
    BY SMT
  <2>4. PICK a \in Int, b \in Int : a = (k % 2) * SIDE /\ b = (k \div 2) * SIDE
    BY <1>0, <2>3, SMT
  <2>5. /\ Square(k).px \in Int /\ Square(k).py \in Int
        /\ Square(k).w \in I64 /\ Square(k).h \in I64
    BY <1>0, <2>4 DEF Square
  <2>6. QED BY <2>2, <2>5, FillOrPanicKeeps
<1>3. CASE DrawLines
  <2> DEFINE segments == {Segment(p, q) : p \in Points, q \in Points}
  <2>2. ASSUME NEW c \in segments PROVE LinePixels(c) \subseteq Visible
    <3>1. PICK p \in Points, q \in Points : c = Segment(p, q)
      BY <2>2
    <3>2. p[1] \in Int /\ p[2] \in Int /\ q[1] \in Int /\ q[2] \in Int
      BY <1>0 DEF Points, Width
    <3>3. LineType(c)
      BY <1>0, <3>1, <3>2 DEF Segment, LineType
    <3>4. QED BY <1>0, <3>3, LineVisible DEF LinePixels
  <2>3. UNION {LinePixels(c) : c \in segments} \subseteq Visible
    BY <2>2
  <2>4. Draw("lines", UNION {LinePixels(c) : c \in segments})
    BY <1>3 DEF DrawLines
  <2>5. QED BY <2>3, <2>4 DEF PatternStep
<1>4. CASE DrawLabel
  <2>1. PICK i \in {1, 2} : i = Turn - 2 * COLORS - 1
    BY <1>0, <1>4 DEF DrawLabel
  <2>2. PICK x \in Int, y \in Int : x = left /\ y = SIDE * COLORS + (i - 1) * GLYPH_ROWS
    <3>1. SIDE * COLORS \in Int /\ (i - 1) * GLYPH_ROWS \in Int
      BY <1>0, SMT
    <3>2. QED BY <1>0, <3>1
  <2>3. Labels[i] \in Seq(Nat)
    <3>1. Labels \in Seq(Seq(Nat)) /\ Len(Labels) = 2
      BY TestPatternAssumption
    <3>2. DOMAIN Labels = 1 .. 2 /\ i \in 1 .. 2
      BY <2>1, <3>1
    <3>3. \A k \in DOMAIN Labels : Labels[k] \in Seq(Nat)
      BY <3>1
    <3>4. QED BY <3>2, <3>3
  <2>4. ASSUME NEW j \in DOMAIN Labels[i]
        PROVE  draw_font_fg(x + (j - 1) * GLYPH_COLUMNS, y, Labels[i][j]) \subseteq Visible
    <3>1. j \in Int
      BY <2>3
    <3>2. PICK z \in Int : z = x + (j - 1) * GLYPH_COLUMNS
      BY <1>0, <3>1
    <3>3. QED BY <1>0, <3>2, GlyphVisible
  <2>5. draw_str_fg(x, y, Labels[i]) \subseteq Visible
    BY <2>4 DEF draw_str_fg
  <2>6. Draw("label", draw_str_fg(x, y, Labels[i]))
    BY <1>4, <2>1, <2>2 DEF DrawLabel
  <2>7. QED BY <2>5, <2>6 DEF PatternStep
<1>5. QED BY <1>1, <1>2, <1>3, <1>4 DEF PatternNext

(* What it draws is in the buffer. *)
LEMMA PatternKeeps ==
  ASSUME ScreenInv, PatternNext
  PROVE  screen' = screen /\ written' \subseteq Addresses(Visible)
<1>1. written \subseteq Addresses(Visible) /\ PatternStep
  BY PatternDraws DEF ScreenInv
<1>2. CASE UNCHANGED <<bitmapVars, drawn>>
  BY <1>1, <1>2 DEF bitmapVars
<1>3. ASSUME NEW what, NEW pixels \in SUBSET Visible, Draw(what, pixels)
      PROVE  screen' = screen /\ written' \subseteq Addresses(Visible)
  BY <1>1, <1>3 DEF Draw, Addresses
<1>4. QED BY <1>1, <1>2, <1>3 DEF PatternStep

(* The buffer stays where it is. *)
LEMMA AddressesKeep == screen' = screen => Addresses(Visible)' = Addresses(Visible)
BY DEF Addresses, Visible, PixelAt

(* Every step keeps the invariant. *)
LEMMA ScreenNextHolds == ScreenInv /\ [Next]_vars => ScreenInv'
<1> SUFFICES ASSUME ScreenInv, [Next]_vars PROVE ScreenInv'
  OBVIOUS
<1>1. CASE client = "drawing" /\ DrawingNext /\ UNCHANGED <<patternVars, textVars, client>>
  <2>1. screen' = screen /\ written' \subseteq Addresses(Visible) /\ CallInv'
    BY <1>1, FillKeeps, LineBegins, LineGoesOn DEF DrawingNext
  <2>2. cursor_x' \in Int /\ cursor_y' \in Int /\ client' = "drawing"
    BY <1>1 DEF ScreenInv, textVars
  <2>3. QED BY <2>1, <2>2, AddressesKeep DEF ScreenInv
<1>2. CASE client = "pattern" /\ PatternNext /\ UNCHANGED <<drawingVars, textVars, client>>
  <2>1. screen' = screen /\ written' \subseteq Addresses(Visible)
    BY <1>2, PatternKeeps
  <2>2. call = NoCall /\ UNCHANGED <<call, point, result, cursor_x, cursor_y, client>>
    BY <1>2 DEF ScreenInv, drawingVars, textVars
  <2>3. CallInv'
    BY <2>2 DEF ScreenInv, CallInv, NoCall
  <2>4. QED BY <2>1, <2>2, <2>3, AddressesKeep DEF ScreenInv, NoCall
<1>3. CASE client = "text" /\ TextNext /\ UNCHANGED <<drawingVars, patternVars, client>>
  <2>1. /\ screen' = screen /\ written' \subseteq Addresses(Visible)
        /\ cursor_x' \in Int /\ cursor_y' \in Int
    BY <1>3, TextKeeps
  <2>2. call = NoCall /\ UNCHANGED <<call, point, result, client>>
    BY <1>3 DEF ScreenInv, drawingVars
  <2>3. CallInv'
    BY <2>2 DEF ScreenInv, CallInv, NoCall
  <2>4. QED BY <2>1, <2>2, <2>3, AddressesKeep DEF ScreenInv, NoCall
<1>4. CASE UNCHANGED vars
  <2>1. /\ UNCHANGED <<screen, overflow_checks, written, call, point, result,
                       cursor_x, cursor_y, client>>
    BY <1>4 DEF vars, bitmapVars, drawingVars, textVars
  <2>2. CallInv'
    BY <2>1 DEF ScreenInv, CallInv, Filled, Lined, Addresses, Prefix, PixelAt, Rect,
                FillPanics, CornersInRange, FirstCorner, InRange, is_in_x_range,
                is_in_y_range, EndsInRange
  <2>3. QED BY <2>1, <2>2, AddressesKeep DEF ScreenInv
<1>5. QED BY <1>1, <1>2, <1>3, <1>4 DEF Next

-----------------------------------------------------------------------------
(* The theorems. *)

(* What is drawn is always made of visible pixels, and what a call of      *)
(* fill_rect or draw_line has drawn so far is known exactly.               *)
THEOREM ScreenInvHolds == Spec => []ScreenInv
BY ScreenInitHolds, ScreenNextHolds, PTL DEF Spec

(* The unchecked writes of fill_rect, and all others, stay in the frame    *)
(* buffer.                                                                 *)
THEOREM InsideBufferHolds == Spec => []InsideBuffer
<1>1. ASSUME ScreenInv, NEW a \in written
      PROVE  /\ 0 <= a
             /\ a + BYTES_PER_PIXEL <=
                  screen.height * screen.pixels_per_line * BYTES_PER_PIXEL
  <2>1. PICK p \in Visible : a = PixelAt(p)
    BY <1>1 DEF ScreenInv, Addresses
  <2>2. QED BY <1>1, <2>1, PixelAddress DEF ScreenInv
<1>2. ScreenInv => InsideBuffer
  BY <1>1 DEF InsideBuffer
<1>3. QED BY <1>2, ScreenInvHolds, PTL

(* Pixels and their addresses correspond. *)
LEMMA PixelsOf ==
  ASSUME screen \in Screens, NEW S \in SUBSET Visible
  PROVE  {PixelOf(a) : a \in Addresses(S)} = S
<1>1. \A p \in S : PixelOf(PixelAt(p)) = p
  BY PixelAddress
<1>2. QED BY <1>1 DEF Addresses

(* fill_rect fills the visible pixels of its rectangle, or none.           *)
THEOREM FillsExactlyHolds == Spec => []FillsExactly
<1>1. ASSUME ScreenInv, call.op = "fill_rect" PROVE FillsExactly
  <2>1. PICK c \in Rectangles : c = call.args /\ Filled(c)
    BY <1>1 DEF ScreenInv, CallInv, NoCall
  <2>2. /\ screen \in Screens
        /\ c.px \in I64 /\ c.py \in I64 /\ c.w \in I64 /\ c.h \in I64
        /\ c.px \in Int /\ c.py \in Int
    BY <1>1, DrawingAssumption, BitmapAssumption DEF ScreenInv, I64
  <2>3. result = "ok" <=> CornersInRange(c) /\ ~FillPanics(c)
    BY <2>1 DEF Filled
  <2>4. {PixelOf(a) : a \in written} = IF result = "ok" THEN Asked(c) ELSE {}
    <3>1. CASE result = "ok"
      <4>1. Asked(c) \subseteq Visible /\ written = Addresses(Asked(c))
        BY <2>1, <2>2, <2>3, <3>1, RectAsked DEF Filled, Asked
      <4>2. QED BY <2>2, <3>1, <4>1, PixelsOf
    <3>2. CASE result # "ok"
      BY <2>1, <3>2 DEF Filled
    <3>3. QED BY <3>1, <3>2
  <2>5. c.w > 0 /\ c.h > 0 =>
          (result = "ok" <=> /\ <<c.px, c.py>> \in Visible
                             /\ <<c.px + c.w - 1, c.py + c.h - 1>> \in Visible)
    BY <2>2, <2>3, WholeVisible
  <2>6. QED BY <2>1, <2>4, <2>5 DEF FillsExactly
<1>2. ScreenInv => FillsExactly
  BY <1>1 DEF FillsExactly
<1>3. QED BY <1>2, ScreenInvHolds, PTL

(* draw_line draws the whole line that it was asked for, pixel by pixel    *)
(* the nearest to the ideal one, or nothing.                               *)
THEOREM LineFollowsHolds == Spec => []LineFollows
<1>1. ASSUME ScreenInv, call.op = "draw_line" PROVE LineFollows
  <2>1. PICK c \in Lines : c = call.args /\ Lined(c)
    BY <1>1 DEF ScreenInv, CallInv, NoCall
  <2>2. LineWhole
    BY <2>1 DEF LineWhole, Lined
  <2>3. ASSUME result = "ok"
        PROVE  {PixelOf(a) : a \in written} = {p \in Visible : OnLine(c, p)}
    <3>1. /\ EndsInRange(c) /\ point = LineLength(c)
          /\ written = Addresses(Prefix(c, point))
      BY <2>1, <2>3 DEF Lined
    <3>2. Prefix(c, point) = WholeLine(c)
      BY <3>1 DEF Prefix, WholeLine
    <3>3. WholeLine(c) = {p \in Visible : OnLine(c, p)}
      BY <1>1, <3>1, LinesTyped, LineExact DEF ScreenInv
    <3>4. QED BY <1>1, <3>1, <3>2, <3>3, PixelsOf DEF ScreenInv
  <2>4. QED BY <2>1, <2>2, <2>3 DEF LineFollows
<1>2. ScreenInv => LineFollows
  BY <1>1 DEF LineFollows, LineWhole
<1>3. QED BY <1>2, ScreenInvHolds, PTL

-----------------------------------------------------------------------------
(* The test pattern. *)

(* What the calls that did not panic tell of the screen.                   *)
PatternInv ==
  /\ \E S : drawn \in Seq(S)
  /\ pattern = "panic" => ~Fits
  /\ pattern # "panic" =>
       /\ Turn >= 1 => screen.width > 0 /\ screen.pixels_per_line >= screen.width
       /\ Turn >= 2 => screen.width > Width
       /\ Turn > 2 * COLORS => screen.height >= COLORS * SIDE
  /\ pattern = "done" => Turn > 2 * COLORS
  /\ lost = 0

(* The pattern starts with its first turn. *)
LEMMA PatternInitHolds == Init => PatternInv
<1> SUFFICES ASSUME Init PROVE PatternInv
  OBVIOUS
<1>1. drawn = << >> /\ lost = 0 /\ pattern = "drawing"
  BY DEF Init, PatternInit
<1>2. Turn = 0 /\ drawn \in Seq({})
  BY <1>1 DEF Turn
<1>3. QED BY <1>1, <1>2, TestPatternAssumption DEF PatternInv

(* Each part of the pattern that is drawn adds one turn. *)
LEMMA Drawn ==
  ASSUME PatternInv, NEW what, NEW pixels, Draw(what, pixels)
  PROVE  (\E S : drawn' \in Seq(S)) /\ Turn \in Nat /\ Turn' = Turn + 1
<1>1. PICK S : drawn \in Seq(S)
  BY DEF PatternInv
<1>2. PICK r : r = [what |-> what, pixels |-> pixels] /\ drawn' = Append(drawn, r)
  BY DEF Draw
<1>3. drawn \in Seq(S \cup {r}) /\ drawn' \in Seq(S \cup {r})
  BY <1>1, <1>2
<1>4. Len(drawn) \in Nat /\ Len(drawn') = Len(drawn) + 1
  BY <1>2, <1>3
<1>5. QED BY <1>3, <1>4 DEF Turn

(* A rectangle of the pattern either proves that the screen is too small,  *)
(* or is drawn.                                                            *)
LEMMA PatternFill ==
  ASSUME ScreenInv, PatternInv, NEW what, NEW c, FillOrPanic(what, c),
         c.px \in Int, c.py \in Int, c.w \in I64, c.h \in I64, c.w >= 0, c.h >= 0,
         Fits => /\ <<c.px, c.py>> \in Visible /\ c.w > 0 /\ c.h > 0
                 /\ <<c.px + c.w - 1, c.py + c.h - 1>> \in Visible
  PROVE  /\ UNCHANGED <<screen, lost>> /\ pattern = "drawing"
         /\ \/ pattern' = "panic" /\ ~Fits /\ UNCHANGED drawn
            \/ /\ pattern' = "drawing" /\ Turn' = Turn + 1 /\ Turn \in Nat
               /\ \E S : drawn' \in Seq(S)
               /\ <<c.px, c.py>> \in Visible
               /\ <<c.px + c.w - 1, c.py + c.h - 1>> \in Visible \/ c.w = 0 \/ c.h = 0
<1>1. screen \in Screens /\ c.px \in Int /\ c.py \in Int
  BY ScreenFields DEF ScreenInv, I64
<1>2. CASE FillPanics(c) \/ ~CornersInRange(c)
  <2>1. ~Fits
    BY <1>1, <1>2, WholeVisible
  <2>2. QED BY <1>2, <2>1 DEF FillOrPanic, bitmapVars
<1>3. CASE ~(FillPanics(c) \/ ~CornersInRange(c))
  <2>1. Draw(what, Rect(c)) /\ UNCHANGED <<screen, lost, pattern>> /\ pattern = "drawing"
    BY <1>3 DEF FillOrPanic, Draw
  <2>2. <<c.px, c.py>> \in Visible
    BY <1>1, <1>3, InRangeVisible DEF CornersInRange, FirstCorner
  <2>3. c.w > 0 /\ c.h > 0 => <<c.px + c.w - 1, c.py + c.h - 1>> \in Visible
    BY <1>1, <1>3, WholeVisible
  <2>4. c.w \in Int /\ c.h \in Int
    BY ScreenFields, <1>1 DEF I64
  <2>5. QED BY <2>1, <2>2, <2>3, <2>4, Drawn
<1>4. QED BY <1>2, <1>3

(* Every step keeps what is known of the pattern. *)
LEMMA PatternNextHolds == ScreenInv /\ PatternInv /\ [Next]_vars => PatternInv'
<1> SUFFICES ASSUME ScreenInv, PatternInv, [Next]_vars PROVE PatternInv'
  OBVIOUS
<1>0. PICK w \in Nat, h \in Nat, l \in Nat, m \in Nat \ {0}, side \in Nat \ {0}, n \in Nat :
        /\ w = screen.width /\ h = screen.height /\ l = screen.pixels_per_line
        /\ m = I64_LIMIT /\ w < m /\ h < m /\ side = SIDE /\ side < m
        /\ n = COLORS /\ n >= 3
  BY ScreenFields, TestPatternAssumption DEF ScreenInv
<1>1. left = w - 2 * side - 1 /\ Width = 2 * side /\ I64 = -m .. m - 1
  BY <1>0 DEF left, Width, I64
<1>11. Fits <=> l >= w /\ w > 2 * side /\ h >= n * side
  BY <1>0, <1>1 DEF Fits
<1>2. \A x, y \in Int : <<x, y>> \in Visible <=>
        0 <= x /\ x < w /\ x < l /\ 0 <= y /\ y < h
  BY <1>0, VisibleIff DEF ScreenInv
<1>3. n * side >= 3 * side
  <2>1. side * 3 <= side * n
    BY <1>0, TimesMonotone
  <2>2. QED BY <1>0, <2>1, SMT
<1>4. CASE UNCHANGED <<screen, patternVars>>
  BY <1>4 DEF PatternInv, patternVars, Turn, Fits
<1>5. ASSUME Clear PROVE PatternInv'
  <2>1. FillOrPanic("screen", Whole) /\ Turn = 0
    BY <1>5, Zenon DEF Clear
  <2>2. Whole.px = 0 /\ Whole.py = 0 /\ Whole.w = w /\ Whole.h = h
    BY <1>0 DEF Whole
  <2>3. w \in I64 /\ h \in I64
    BY <1>0, <1>1
  <2>4. PICK x \in Int, y \in Int :
          /\ x = w - 1 /\ y = h - 1
          /\ x = Whole.px + Whole.w - 1 /\ y = Whole.py + Whole.h - 1
    BY <2>2
  <2>5. Fits => w > 0 /\ h > 0 /\ <<0, 0>> \in Visible /\ <<x, y>> \in Visible
    <3>1. PICK z \in Int :
            z >= 3 * side /\ (Fits <=> l >= w /\ w > 2 * side /\ h >= z)
      BY <1>3, <1>11
    <3>2. ASSUME Fits PROVE w > 0 /\ h > 0 /\ w - 1 < l
      BY <3>1, <3>2
    <3>3. QED BY <3>2, <1>2, <2>4
  <2>6. /\ UNCHANGED <<screen, lost>>
        /\ \/ pattern' = "panic" /\ ~Fits /\ UNCHANGED drawn
           \/ /\ pattern' = "drawing" /\ Turn' = Turn + 1
              /\ \E S : drawn' \in Seq(S)
              /\ <<0, 0>> \in Visible
              /\ <<x, y>> \in Visible \/ w = 0 \/ h = 0
    <3>1. /\ Whole.px \in Int /\ Whole.py \in Int /\ Whole.w \in I64 /\ Whole.h \in I64
          /\ Whole.w >= 0 /\ Whole.h >= 0
      BY <2>2, <2>3
    <3>2. Fits => /\ <<Whole.px, Whole.py>> \in Visible /\ Whole.w > 0 /\ Whole.h > 0
                  /\ <<Whole.px + Whole.w - 1, Whole.py + Whole.h - 1>> \in Visible
      BY <2>2, <2>4, <2>5
    <3>3. /\ UNCHANGED <<screen, lost>>
          /\ \/ pattern' = "panic" /\ ~Fits /\ UNCHANGED drawn
             \/ /\ pattern' = "drawing" /\ Turn' = Turn + 1
                /\ \E S : drawn' \in Seq(S)
                /\ <<Whole.px, Whole.py>> \in Visible
                /\ \/ <<Whole.px + Whole.w - 1, Whole.py + Whole.h - 1>> \in Visible
                   \/ Whole.w = 0 \/ Whole.h = 0
      BY <2>1, <3>1, <3>2, PatternFill
    <3>4. QED BY <2>2, <2>4, <3>3
  <2>7. (<<0, 0>> \in Visible => w > 0 /\ h > 0) /\ (<<x, y>> \in Visible => l >= w)
    BY <1>2, <2>4
  <2>8. Fits' <=> Fits
    BY <2>6 DEF Fits
  <2>9. QED BY <2>1, <2>6, <2>7, <2>8, <1>0 DEF PatternInv
<1>6. ASSUME FillSquare PROVE PatternInv'
  <2>1. PICK k \in 0 .. 2 * n - 1 : k = Turn - 1 /\ Turn = k + 1
    BY <1>0, <1>6 DEF FillSquare
  <2>2. PICK a \in {0, 1}, b \in 0 .. n - 1 :
          a = k % 2 /\ b = k \div 2 /\ k = 2 * b + a
    <3>1. k % 2 \in {0, 1} /\ k \div 2 \in 0 .. n - 1 /\ k = 2 * (k \div 2) + (k % 2)
      BY SMT
    <3>2. QED BY <3>1
  <2>3. PICK t \in Int : t = b * side
    OBVIOUS
  <2>4. 0 <= t /\ t + side <= n * side /\ n * side \in Int
    <3>1. side * 0 <= side * b /\ side * b <= side * (n - 1)
      BY TimesMonotone
    <3>2. side * 0 = 0 /\ side * (n - 1) = n * side - side /\ side * b = t /\ n * side \in Int
      BY <2>3, SMT
    <3>3. QED BY <3>1, <3>2
  <2>5. PICK x \in Int : x = left + a * side /\ x = w - 2 * side - 1 + a * side
    BY <1>1, <2>2
  <2>6. Square(k) = [px |-> x, py |-> t, w |-> side, h |-> side]
    BY <1>0, <2>2, <2>3, <2>5 DEF Square
  <2>7. Turn >= 1 => w > 0 /\ l >= w
    BY <1>0, <1>6 DEF PatternInv, FillSquare, FillOrPanic
  <2>8. Fits => /\ side > 0 /\ <<x, t>> \in Visible
                /\ <<x + side - 1, t + side - 1>> \in Visible
    <3>1. ASSUME Fits
          PROVE  /\ 0 <= x /\ x < w /\ x < l /\ 0 <= x + side - 1
                 /\ x + side - 1 < w /\ x + side - 1 < l
                 /\ t < h /\ 0 <= t + side - 1 /\ t + side - 1 < h
      <4>1. PICK z \in Int : z = n * side
        BY <2>4
      <4>2. z <= h /\ l >= w /\ w > 2 * side
        BY <1>11, <3>1, <4>1
      <4>3. CASE a = 0
        BY <1>0, <2>4, <2>5, <4>1, <4>2, <4>3
      <4>4. CASE a = 1
        BY <1>0, <2>4, <2>5, <4>1, <4>2, <4>4
      <4>5. QED BY <4>3, <4>4
    <3>2. x + side - 1 \in Int /\ t + side - 1 \in Int
      OBVIOUS
    <3>3. QED BY <3>1, <3>2, <1>2, <2>4
  <2>9. /\ UNCHANGED <<screen, lost>>
        /\ \/ pattern' = "panic" /\ ~Fits /\ UNCHANGED drawn
           \/ /\ pattern' = "drawing" /\ Turn' = Turn + 1
              /\ \E S : drawn' \in Seq(S)
              /\ <<x, t>> \in Visible
              /\ <<x + side - 1, t + side - 1>> \in Visible
    <3>1. FillOrPanic("square", Square(k))
      BY <1>6, <2>1 DEF FillSquare
    <3>2. side \in I64
      BY <1>0, <1>1
    <3>3. /\ Square(k).px = x /\ Square(k).py = t /\ Square(k).w = side /\ Square(k).h = side
      BY <2>6
    <3>4. /\ Square(k).px \in Int /\ Square(k).py \in Int
          /\ Square(k).w \in I64 /\ Square(k).h \in I64
          /\ Square(k).w > 0 /\ Square(k).h > 0
      BY <1>0, <3>2, <3>3
    <3>5. Fits => /\ <<Square(k).px, Square(k).py>> \in Visible
                  /\ <<Square(k).px + Square(k).w - 1, Square(k).py + Square(k).h - 1>> \in Visible
      BY <2>8, <3>3
    <3>6. /\ UNCHANGED <<screen, lost>>
          /\ \/ pattern' = "panic" /\ ~Fits /\ UNCHANGED drawn
             \/ /\ pattern' = "drawing" /\ Turn' = Turn + 1
                /\ \E S : drawn' \in Seq(S)
                /\ <<Square(k).px, Square(k).py>> \in Visible
                /\ <<Square(k).px + Square(k).w - 1, Square(k).py + Square(k).h - 1>> \in Visible
      <4>1. Square(k).w >= 0 /\ Square(k).h >= 0 /\ Square(k).w # 0 /\ Square(k).h # 0
        BY <3>3, <1>0
      <4>2. QED BY <3>1, <3>4, <3>5, <4>1, PatternFill
    <3>7. QED BY <3>3, <3>6
  <2>10. <<x, t>> \in Visible => x >= 0
    BY <1>2
  <2>11. <<x + side - 1, t + side - 1>> \in Visible => t + side - 1 < h
    <3>1. x + side - 1 \in Int /\ t + side - 1 \in Int
      OBVIOUS
    <3>2. QED BY <3>1, <1>2
  <2>12. x >= 0 /\ (Turn >= 2 => w > 2 * side) => w > 2 * side
    <3>1. CASE k = 0
      BY <2>2, <2>5, <3>1
    <3>2. CASE k # 0
      BY <2>1, <3>2
    <3>3. QED BY <3>1, <3>2
  <2>13. Turn' = Turn + 1 /\ Turn' > 2 * n /\ t + side - 1 < h => h >= n * side
    <3>1. SUFFICES ASSUME Turn' = Turn + 1, Turn' > 2 * n, t + side - 1 < h
                   PROVE  h >= n * side
      OBVIOUS
    <3>2. Turn = k + 1
      BY <1>0, <1>6, <2>1 DEF FillSquare
    <3>3. b = n - 1
      BY <2>1, <2>2, <3>1, <3>2
    <3>4. t = n * side - side
      BY <2>3, <3>3, SMT
    <3>5. QED BY <2>4, <3>1, <3>4
  <2>14. Fits' <=> Fits
    BY <2>9 DEF Fits
  <2>15. pattern = "drawing"
    BY <1>6 DEF FillSquare, FillOrPanic
  <2>16. CASE pattern' = "panic"
    BY <2>9, <2>14, <2>16 DEF PatternInv
  <2>17. CASE pattern' # "panic"
    <3>1. /\ pattern' = "drawing" /\ Turn' = Turn + 1 /\ x >= 0 /\ t + side - 1 < h
          /\ \E S : drawn' \in Seq(S)
      BY <2>9, <2>10, <2>11, <2>17
    <3>2. Turn >= 2 => w > 2 * side
      BY <1>0, <1>1, <1>11, <2>15 DEF PatternInv
    <3>3. w > 2 * side /\ w > 0 /\ l >= w
      BY <3>1, <3>2, <2>7, <2>12, <2>1, <1>6, <1>0 DEF FillSquare
    <3>4. Turn' > 2 * n => h >= n * side
      BY <3>1, <2>13
    <3>5. QED BY <3>1, <3>3, <3>4, <2>9, <1>0, <1>1, <1>11 DEF PatternInv, Width
  <2>18. QED BY <2>16, <2>17
<1>7. ASSUME DrawLines PROVE PatternInv'
  <2>1. Turn = 2 * n + 1 /\ pattern = "drawing" /\ UNCHANGED <<screen, pattern>>
    BY <1>0, <1>7 DEF DrawLines, Draw
  <2>2. w > 0 /\ l >= w /\ w > 2 * side /\ h >= n * side /\ h > 2 * side
    <3>1. w > 0 /\ l >= w /\ w > 2 * side /\ h >= n * side
      BY <1>0, <1>1, <1>11, <2>1 DEF PatternInv
    <3>2. n * side \in Int
      BY SMT
    <3>3. QED BY <3>1, <3>2, <1>0, <1>3
  <2> DEFINE segments == {Segment(p, q) : p \in Points, q \in Points}
  <2>3. ASSUME NEW c \in segments PROVE EndsInRange(c)
    <3>1. PICK p \in Points, q \in Points : c = Segment(p, q)
      BY <2>3
    <3>2. /\ p[1] \in {0, 2 * side} /\ p[2] \in {0, 2 * side}
          /\ q[1] \in {0, 2 * side} /\ q[2] \in {0, 2 * side}
      BY <1>1 DEF Points
    <3>3. c = [x0 |-> left + p[1], y0 |-> p[2], x1 |-> left + q[1], y1 |-> q[2]]
      BY <3>1 DEF Segment
    <3>4. c.x0 = left + p[1] /\ c.y0 = p[2] /\ c.x1 = left + q[1] /\ c.y1 = q[2]
      BY <3>3
    <3>5. ASSUME NEW d \in {0, 2 * side}
          PROVE  is_in_x_range(left + d) /\ is_in_y_range(d)
      <4>1. PICK z \in Int : z = left + d /\ 0 <= z /\ z < w /\ z < l
        <5>1. PICK z \in Int : z = w - 2 * side - 1 + d
          OBVIOUS
        <5>2. z = left + d
          BY <1>1, <5>1
        <5>3. 0 <= z /\ z < w /\ z < l
          <6>1. CASE d = 0
            BY <1>0, <2>2, <5>1, <6>1
          <6>2. CASE d = 2 * side
            BY <1>0, <2>2, <5>1, <6>2
          <6>3. QED BY <6>1, <6>2
        <5>4. QED BY <5>2, <5>3
      <4>2. is_in_x_range(z)
        BY <1>0, <4>1 DEF is_in_x_range
      <4>3. d \in Int /\ 0 <= d /\ d < h
        BY <2>2
      <4>4. QED BY <1>0, <4>1, <4>2, <4>3 DEF is_in_y_range
    <3>6. QED BY <3>2, <3>4, <3>5 DEF EndsInRange
  <2>4. {c \in segments : ~EndsInRange(c)} = {}
    BY <2>3
  <2>5. lost' = Cardinality({})
    BY <1>7, <2>4 DEF DrawLines
  <2>6. lost' = 0
    BY <2>5, FS_EmptySet
  <2>7. PICK pixels : Draw("lines", pixels)
    BY <1>7 DEF DrawLines
  <2>8. (\E S : drawn' \in Seq(S)) /\ Turn' = 2 * n + 2
    BY <2>1, <2>7, Drawn
  <2>9. QED BY <1>0, <1>1, <1>11, <2>1, <2>2, <2>6, <2>8 DEF PatternInv, Width
<1>8. ASSUME DrawLabel PROVE PatternInv'
  <2>1. /\ Turn \in {2 * n + 2, 2 * n + 3} /\ pattern = "drawing"
        /\ UNCHANGED <<screen, lost>> /\ pattern' \in {"drawing", "done"}
    BY <1>0, <1>8 DEF DrawLabel, Draw
  <2>2. w > 0 /\ l >= w /\ w > 2 * side /\ h >= n * side
    BY <1>0, <1>1, <1>11, <2>1 DEF PatternInv
  <2>3. PICK pixels : Draw("label", pixels)
    BY <1>8 DEF DrawLabel
  <2>4. (\E S : drawn' \in Seq(S)) /\ Turn' > 2 * n
    BY <2>1, <2>3, Drawn
  <2>5. QED BY <1>0, <1>1, <1>11, <2>1, <2>2, <2>4 DEF PatternInv, Width
<1>9. UNCHANGED <<screen, patternVars>> \/ Clear \/ FillSquare \/ DrawLines \/ DrawLabel
  <2>1. CASE client = "drawing" /\ DrawingNext /\ UNCHANGED <<patternVars, textVars, client>>
    BY <2>1, FillKeeps, LineBegins, LineGoesOn DEF DrawingNext
  <2>2. CASE client = "pattern" /\ PatternNext /\ UNCHANGED <<drawingVars, textVars, client>>
    BY <2>2 DEF PatternNext
  <2>3. CASE client = "text" /\ TextNext /\ UNCHANGED <<drawingVars, patternVars, client>>
    BY <2>3, TextKeeps
  <2>4. CASE UNCHANGED vars
    BY <2>4 DEF vars, bitmapVars
  <2>5. QED BY <2>1, <2>2, <2>3, <2>4 DEF Next
<1>10. QED BY <1>4, <1>5, <1>6, <1>7, <1>8, <1>9

(* The boot passes draw_test_pattern exactly on screens that are large     *)
(* enough, and there none of the Errs that it drops ever occurs.           *)
THEOREM PatternFitsHolds == Spec => []PatternFits
<1>1. PatternInv => PatternFits
  <2>1. SUFFICES ASSUME PatternInv, pattern = "done" PROVE Fits /\ lost = 0
    BY DEF PatternInv, PatternFits
  <2>2. Turn > 2 * COLORS /\ lost = 0
    BY <2>1 DEF PatternInv
  <2>3. PICK S : drawn \in Seq(S)
    BY <2>1 DEF PatternInv
  <2>4. Turn \in Nat
    BY <2>3 DEF Turn
  <2>5. Turn >= 2
    BY <2>2, <2>4, TestPatternAssumption
  <2>6. QED BY <2>1, <2>2, <2>4, <2>5 DEF PatternInv, Fits
<1>2. QED BY <1>1, PatternInitHolds, PatternNextHolds, ScreenInvHolds, PTL DEF Spec

-----------------------------------------------------------------------------
(* The text. *)

(* The line and the column of the character behind the first n of a text.  *)
LinesIn(s, n) == Cardinality({j \in 1 .. n : s[j] = NEWLINE})

InLine(s, n) == {j \in 1 .. n : LinesIn(s, j) = LinesIn(s, n) /\ s[j] # NEWLINE}

ColumnsIn(s, n) == Cardinality(InLine(s, n))

(* They are small numbers. *)
LEMMA CellType ==
  ASSUME NEW s, NEW n \in Nat
  PROVE  LinesIn(s, n) \in 0 .. n /\ ColumnsIn(s, n) \in 0 .. n
<1>1. IsFiniteSet(1 .. n) /\ Cardinality(1 .. n) = n
  BY FS_Interval
<1>2. ASSUME NEW T \in SUBSET (1 .. n) PROVE Cardinality(T) \in 0 .. n
  <2>1. IsFiniteSet(T) /\ Cardinality(T) <= n
    BY <1>1, FS_Subset
  <2>2. Cardinality(T) \in Nat
    BY <2>1, FS_CardinalityType
  <2>3. QED BY <2>1, <2>2
<1>3. {j \in 1 .. n : s[j] = NEWLINE} \in SUBSET (1 .. n) /\ InLine(s, n) \in SUBSET (1 .. n)
  BY DEF InLine
<1>4. QED BY <1>2, <1>3 DEF LinesIn, ColumnsIn

(* Text that is appended moves no character before it. *)
LEMMA CellsStay ==
  ASSUME NEW s, NEW t, NEW n \in Nat, \A j \in 1 .. n : t[j] = s[j], NEW k \in 0 .. n
  PROVE  LinesIn(t, k) = LinesIn(s, k) /\ ColumnsIn(t, k) = ColumnsIn(s, k)
<1>1. ASSUME NEW i \in 0 .. n PROVE LinesIn(t, i) = LinesIn(s, i)
  <2>1. {j \in 1 .. i : t[j] = NEWLINE} = {j \in 1 .. i : s[j] = NEWLINE}
    OBVIOUS
  <2>2. QED BY <2>1 DEF LinesIn
<1>2. InLine(t, k) = InLine(s, k)
  <2>1. ASSUME NEW j \in 1 .. k PROVE t[j] = s[j] /\ LinesIn(t, j) = LinesIn(s, j)
    BY <1>1
  <2>2. LinesIn(t, k) = LinesIn(s, k)
    BY <1>1
  <2>3. QED BY <2>1, <2>2 DEF InLine
<1>3. QED BY <1>1, <1>2 DEF ColumnsIn

(* A new line begins the next line; any other character takes the next     *)
(* column.                                                                 *)
LEMMA CellNext ==
  ASSUME NEW s, NEW n \in Nat
  PROVE  /\ s[n + 1] = NEWLINE =>
              LinesIn(s, n + 1) = LinesIn(s, n) + 1 /\ ColumnsIn(s, n + 1) = 0
         /\ s[n + 1] # NEWLINE =>
              LinesIn(s, n + 1) = LinesIn(s, n) /\ ColumnsIn(s, n + 1) = ColumnsIn(s, n) + 1
<1> DEFINE L(i) == {j \in 1 .. i : s[j] = NEWLINE}
<1>0. PICK m \in Nat : m = n + 1
  OBVIOUS
<1>1. ASSUME NEW i \in Nat PROVE IsFiniteSet(L(i)) /\ LinesIn(s, i) = Cardinality(L(i))
  <2>1. IsFiniteSet(1 .. i) /\ L(i) \subseteq 1 .. i
    BY FS_Interval
  <2>2. QED BY <2>1, FS_Subset DEF LinesIn
<1>2. 1 .. m = (1 .. n) \cup {m} /\ m \notin 1 .. n
  BY <1>0
<1>3. ASSUME NEW i \in 1 .. n PROVE LinesIn(s, i) \in Nat /\ LinesIn(s, i) <= LinesIn(s, n)
  <2>1. L(i) \subseteq L(n)
    OBVIOUS
  <2>2. Cardinality(L(i)) <= Cardinality(L(n))
    BY <1>1, <2>1, FS_Subset
  <2>3. QED BY <1>1, <2>2, CellType
<1>4. LinesIn(s, n) \in Nat
  BY CellType
<1>5. CASE s[m] = NEWLINE
  <2>1. L(m) = L(n) \cup {m} /\ m \notin L(n)
    BY <1>2, <1>5
  <2>2. LinesIn(s, m) = LinesIn(s, n) + 1
    <3>1. /\ IsFiniteSet(L(n)) /\ LinesIn(s, n) = Cardinality(L(n))
          /\ LinesIn(s, m) = Cardinality(L(m))
      BY <1>1
    <3> HIDE DEF L
    <3>2. Cardinality(L(n) \cup {m}) = Cardinality(L(n)) + 1
      BY <2>1, <3>1, FS_AddElement
    <3>3. QED BY <2>1, <3>1, <3>2
  <2>3. InLine(s, m) = {}
    <3>1. ASSUME NEW j \in InLine(s, m) PROVE FALSE
      <4>1. j \in 1 .. m /\ LinesIn(s, j) = LinesIn(s, m) /\ s[j] # NEWLINE
        BY <3>1 DEF InLine
      <4>2. j \in 1 .. n
        BY <4>1, <1>2, <1>5
      <4>3. QED BY <1>3, <1>4, <2>2, <4>1, <4>2
    <3>2. QED BY <3>1
  <2>4. QED BY <1>0, <1>5, <2>2, <2>3, FS_EmptySet DEF ColumnsIn
<1>6. CASE s[m] # NEWLINE
  <2>1. L(m) = L(n)
    BY <1>2, <1>6
  <2>2. LinesIn(s, m) = LinesIn(s, n)
    BY <1>0, <1>1, <2>1
  <2>3. InLine(s, m) = InLine(s, n) \cup {m} /\ m \notin InLine(s, n)
    BY <1>2, <1>6, <2>2 DEF InLine
  <2>4. IsFiniteSet(InLine(s, n))
    <3>1. IsFiniteSet(1 .. n) /\ InLine(s, n) \subseteq 1 .. n
      BY FS_Interval DEF InLine
    <3>2. QED BY <3>1, FS_Subset
  <2>5. ColumnsIn(s, m) = ColumnsIn(s, n) + 1
    BY <2>3, <2>4, FS_AddElement DEF ColumnsIn
  <2>6. QED BY <1>0, <1>6, <2>2, <2>5
<1>7. QED BY <1>5, <1>6

(* The cell of a character, and what the screen has of a text's cells.     *)
CellOf(s, i) ==
  {<<ColumnsIn(s, i - 1) * GLYPH_COLUMNS + d[1], LinesIn(s, i - 1) * GLYPH_ROWS + d[2]>> :
     d \in GlyphPixels(s[i])}

Written(s) == {j \in DOMAIN s : s[j] # NEWLINE}

Shown(s) == Visible \cap UNION {CellOf(s, i) : i \in Written(s)}

(* These are the cells of which the property speaks. *)
LEMMA CellsAre ==
  ASSUME text \in Seq(Nat)
  PROVE  \A i \in DOMAIN text : CellPixels(i) = CellOf(text, i)
<1>1. ASSUME NEW i \in Nat PROVE LineOf(i + 1) = LinesIn(text, i)
  <2>1. (i + 1) - 1 = i
    OBVIOUS
  <2>2. QED BY <2>1 DEF LineOf, LinesIn
<1>2. ASSUME NEW i \in Nat PROVE ColumnOf(i + 1) = ColumnsIn(text, i)
  <2>1. (i + 1) - 1 = i
    OBVIOUS
  <2>2. \A j \in 1 .. i : LineOf(j + 1) = LinesIn(text, j)
    BY <1>1
  <2>3. LineOf(i + 1) = LinesIn(text, i)
    BY <1>1
  <2>4. {j \in 1 .. (i + 1) - 1 : LineOf(j + 1) = LineOf(i + 1) /\ text[j] # NEWLINE}
          = InLine(text, i)
    BY <2>1, <2>2, <2>3 DEF InLine
  <2>5. QED BY <2>4 DEF ColumnOf, ColumnsIn
<1>3. ASSUME NEW i \in DOMAIN text PROVE CellPixels(i) = CellOf(text, i)
  <2>1. PICK k \in Nat : k = i - 1 /\ i = k + 1
    <3>1. i \in 1 .. Len(text)
      OBVIOUS
    <3>2. i - 1 \in Nat /\ i = (i - 1) + 1
      BY <3>1
    <3>3. QED BY <3>2
  <2>2. LineOf(i) = LinesIn(text, k) /\ ColumnOf(i) = ColumnsIn(text, k)
    BY <1>1, <1>2, <2>1
  <2>3. QED BY <2>1, <2>2 DEF CellPixels, CellOf
<1>4. QED BY <1>3

(* The cursor stands behind the text, and the screen shows it.             *)
TextInv ==
  /\ text \in Seq(Nat) /\ pending \in Seq(Nat)
  /\ Len(text) + Len(pending) <= MaxText
  /\ cursor_x = ColumnsIn(text, Len(text)) * GLYPH_COLUMNS
  /\ cursor_y = LinesIn(text, Len(text)) * GLYPH_ROWS
  /\ client = "text" => written = Addresses(Shown(text))
  /\ client # "text" => text = << >>

(* No text is shown at first. *)
LEMMA TextInitHolds == Init => TextInv
<1> SUFFICES ASSUME Init PROVE TextInv
  OBVIOUS
<1>1. /\ text = << >> /\ pending = << >> /\ written = {}
      /\ cursor_x = 0 /\ cursor_y = 0
  BY DEF Init, TextInit, BitmapInit
<1>2. ColumnsIn(text, 0) = 0 /\ LinesIn(text, 0) = 0
  BY CellType
<1>3. Shown(text) = {}
  BY <1>1 DEF Shown, Written
<1>4. Addresses(Shown(text)) = {}
  BY <1>3 DEF Addresses
<1>5. GLYPH_COLUMNS \in Nat /\ GLYPH_ROWS \in Nat /\ MaxText \in Nat
  BY FontAssumption, TextWriterAssumption
<1>6. 0 * GLYPH_COLUMNS = 0 /\ 0 * GLYPH_ROWS = 0
  BY <1>5
<1>7. text \in Seq(Nat) /\ pending \in Seq(Nat) /\ Len(text) = 0 /\ Len(pending) = 0
  BY <1>1
<1>8. QED BY <1>1, <1>2, <1>4, <1>5, <1>6, <1>7 DEF TextInv

(* t is s and the character c, which stands where the cursor was.          *)
Longer(s, c, n, t) ==
  /\ t \in Seq(Nat) /\ Len(t) = n + 1
  /\ c = NEWLINE =>
       /\ LinesIn(t, n + 1) = LinesIn(s, n) + 1 /\ ColumnsIn(t, n + 1) = 0
       /\ UNION {CellOf(t, i) : i \in Written(t)}
            = UNION {CellOf(s, i) : i \in Written(s)}
  /\ c # NEWLINE =>
       /\ LinesIn(t, n + 1) = LinesIn(s, n)
       /\ ColumnsIn(t, n + 1) = ColumnsIn(s, n) + 1
       /\ UNION {CellOf(t, i) : i \in Written(t)}
            = (UNION {CellOf(s, i) : i \in Written(s)})
              \cup {<<ColumnsIn(s, n) * GLYPH_COLUMNS + d[1],
                      LinesIn(s, n) * GLYPH_ROWS + d[2]>> : d \in GlyphPixels(c)}

(* A character more: the cells before it stay, and its own is at the       *)
(* cursor.                                                                 *)
LEMMA TextGrows ==
  ASSUME NEW s \in Seq(Nat), NEW c \in Nat, NEW n, n = Len(s), NEW t, t = Append(s, c)
  PROVE  Longer(s, c, n, t)
<1>2. /\ n \in Nat /\ t \in Seq(Nat) /\ Len(t) = n + 1
      /\ t[n + 1] = c /\ \A j \in 1 .. n : t[j] = s[j]
      /\ DOMAIN s = 1 .. n /\ DOMAIN t = 1 .. n + 1
  <2>1. n \in Nat /\ DOMAIN s = 1 .. n
    OBVIOUS
  <2>2. t \in Seq(Nat) /\ Len(t) = n + 1
    OBVIOUS
  <2>3. t[n + 1] = c
    OBVIOUS
  <2>4. \A j \in 1 .. n : t[j] = s[j]
    OBVIOUS
  <2>5. DOMAIN t = 1 .. n + 1
    BY <2>1, <2>2
  <2>6. QED BY <2>1, <2>2, <2>3, <2>4, <2>5, Zenon
<1>3. \A k \in 0 .. n : LinesIn(t, k) = LinesIn(s, k) /\ ColumnsIn(t, k) = ColumnsIn(s, k)
  BY <1>2, CellsStay
<1>4. /\ c = NEWLINE =>
           LinesIn(t, n + 1) = LinesIn(t, n) + 1 /\ ColumnsIn(t, n + 1) = 0
      /\ c # NEWLINE =>
           LinesIn(t, n + 1) = LinesIn(t, n) /\ ColumnsIn(t, n + 1) = ColumnsIn(t, n) + 1
  <2>1. /\ t[n + 1] = NEWLINE =>
             LinesIn(t, n + 1) = LinesIn(t, n) + 1 /\ ColumnsIn(t, n + 1) = 0
        /\ t[n + 1] # NEWLINE =>
             LinesIn(t, n + 1) = LinesIn(t, n) /\ ColumnsIn(t, n + 1) = ColumnsIn(t, n) + 1
    BY <1>2, CellNext, Zenon
  <2>2. t[n + 1] = c
    BY <1>2
  <2>3. QED BY ONLY <2>1, <2>2, Zenon
<1>5. LinesIn(t, n) = LinesIn(s, n) /\ ColumnsIn(t, n) = ColumnsIn(s, n)
  BY <1>2, <1>3
<1>6. \A i \in 1 .. n : CellOf(t, i) = CellOf(s, i)
  <2>1. ASSUME NEW i \in 1 .. n PROVE CellOf(t, i) = CellOf(s, i)
    <3>1. i - 1 \in 0 .. n /\ t[i] = s[i]
      BY <1>2
    <3>2. LinesIn(t, i - 1) = LinesIn(s, i - 1) /\ ColumnsIn(t, i - 1) = ColumnsIn(s, i - 1)
      BY <1>3, <3>1
    <3>3. QED BY <3>1, <3>2 DEF CellOf
  <2>2. QED BY <2>1
<1>7. 1 .. n + 1 = (1 .. n) \cup {n + 1} /\ n + 1 \notin 1 .. n
  BY <1>2
<1>8. Written(t) = IF c = NEWLINE THEN Written(s) ELSE Written(s) \cup {n + 1}
  BY <1>2, <1>7 DEF Written
<1>9. \A i \in Written(s) : CellOf(t, i) = CellOf(s, i)
  BY <1>2, <1>6 DEF Written
<1>10. CellOf(t, n + 1) = {<<ColumnsIn(s, n) * GLYPH_COLUMNS + d[1],
                             LinesIn(s, n) * GLYPH_ROWS + d[2]>> : d \in GlyphPixels(c)}
  <2>1. (n + 1) - 1 = n
    BY <1>2
  <2>2. QED BY <1>2, <1>5, <2>1 DEF CellOf
<1>11. c = NEWLINE => UNION {CellOf(t, i) : i \in Written(t)}
                        = UNION {CellOf(s, i) : i \in Written(s)}
  BY <1>8, <1>9
<1>12. c # NEWLINE => UNION {CellOf(t, i) : i \in Written(t)}
                        = (UNION {CellOf(s, i) : i \in Written(s)}) \cup CellOf(t, n + 1)
  BY <1>8, <1>9
<1>13. QED BY <1>2, <1>4, <1>5, <1>10, <1>11, <1>12 DEF Longer

(* A turn of the loop adds one character to the text. *)
LEMMA TurnAdds ==
  ASSUME TextInv, NEW c, Turns(c)
  PROVE  /\ c \in Nat /\ c = Head(pending)
         /\ text' = Append(text, c) /\ screen' = screen
         /\ pending' \in Seq(Nat) /\ Len(text') + Len(pending') <= MaxText
<1>1. /\ pending \in Seq(Nat) /\ pending # << >> /\ c = Head(pending)
      /\ pending' = Tail(pending) /\ text' = Append(text, c) /\ text \in Seq(Nat)
      /\ screen' = screen /\ Len(text) + Len(pending) <= MaxText
  BY DEF TextInv, Turns
<1>2. c \in Nat /\ Tail(pending) \in Seq(Nat) /\ Len(Tail(pending)) = Len(pending) - 1
  BY <1>1
<1>3. Len(Append(text, c)) = Len(text) + 1
  BY <1>1, <1>2
<1>4. Len(text) \in Nat /\ Len(pending) \in Nat /\ MaxText \in Nat
  BY <1>1, TextWriterAssumption
<1>5. Len(text') + Len(pending') <= MaxText
  BY <1>1, <1>2, <1>3, <1>4
<1>6. QED BY <1>1, <1>2, <1>5

(* What is shown is a matter of the screen. *)
LEMMA ShownKeeps ==
  ASSUME screen' = screen, text' = text, written' = written
  PROVE  Addresses(Shown(text))' = Addresses(Shown(text))
BY DEF Addresses, PixelAt, Shown, Visible, CellOf, Written

(* A new line lights nothing. *)
LEMMA NewLineHolds ==
  ASSUME TextInv, client = "text", client' = client, NewLine
  PROVE  TextInv'
<1>1. /\ NEWLINE \in Nat /\ text' = Append(text, NEWLINE) /\ screen' = screen
      /\ pending' \in Seq(Nat) /\ Len(text') + Len(pending') <= MaxText
  BY TurnAdds DEF NewLine
<1>2. /\ cursor_y' = cursor_y + GLYPH_ROWS /\ cursor_x' = 0 /\ written' = written
  BY DEF NewLine
<1>3. PICK n, t : n = Len(text) /\ n \in Nat /\ t = text' /\ text \in Seq(Nat)
  <2>1. text \in Seq(Nat)
    BY DEF TextInv
  <2>2. Len(text) \in Nat
    BY <2>1
  <2>3. QED BY <2>1, <2>2, Zenon
<1>4. /\ t \in Seq(Nat) /\ Len(t) = n + 1
      /\ LinesIn(t, n + 1) = LinesIn(text, n) + 1 /\ ColumnsIn(t, n + 1) = 0
      /\ UNION {CellOf(t, i) : i \in Written(t)} = UNION {CellOf(text, i) : i \in Written(text)}
  <2>1. t = Append(text, NEWLINE)
    BY <1>1, <1>3
  <2>2. Longer(text, NEWLINE, n, t)
    BY <1>1, <1>3, <2>1, TextGrows, Zenon
  <2>3. QED BY <2>2 DEF Longer
<1>5. Shown(t) = Shown(text)
  BY <1>4 DEF Shown
<1>6. Addresses(Shown(text))' = Addresses(Shown(t))
  BY <1>1, <1>3 DEF Addresses, PixelAt, Shown, Visible, CellOf, Written
<1>7. PICK l \in Nat : l = LinesIn(text, n)
  BY <1>3, CellType
<1>8. cursor_y = l * GLYPH_ROWS /\ GLYPH_ROWS \in Nat /\ GLYPH_COLUMNS \in Nat
  BY <1>3, <1>7, FontAssumption DEF TextInv
<1>9. cursor_y' = (l + 1) * GLYPH_ROWS /\ cursor_x' = 0 * GLYPH_COLUMNS
  BY <1>2, <1>8, SMT
<1>10. /\ cursor_x' = ColumnsIn(t, Len(t)) * GLYPH_COLUMNS
       /\ cursor_y' = LinesIn(t, Len(t)) * GLYPH_ROWS
  BY <1>4, <1>7, <1>9
<1>11. written' = Addresses(Shown(text))'
  BY <1>2, <1>5, <1>6 DEF TextInv
<1>12. /\ ColumnsIn(t, Len(t)) = ColumnsIn(text, Len(text))'
       /\ LinesIn(t, Len(t)) = LinesIn(text, Len(text))'
  BY <1>3 DEF ColumnsIn, LinesIn, InLine
<1>13. QED BY <1>1, <1>3, <1>4, <1>10, <1>11, <1>12 DEF TextInv

(* A character lights what the screen has of its glyph. *)
LEMMA CharacterHolds ==
  ASSUME ScreenInv, TextInv, client = "text", client' = client, NEW c, Character(c)
  PROVE  TextInv'
<1>1. /\ c \in Nat /\ text' = Append(text, c) /\ screen' = screen
      /\ pending' \in Seq(Nat) /\ Len(text') + Len(pending') <= MaxText
  BY TurnAdds DEF Character
<1>2. /\ cursor_x' = cursor_x + GLYPH_COLUMNS /\ cursor_y' = cursor_y /\ c # NEWLINE
      /\ written' = written \cup Addresses(draw_font_fg(cursor_x, cursor_y, c))
  BY DEF Character, Addresses
<1>3. PICK n, t : n = Len(text) /\ n \in Nat /\ t = text' /\ text \in Seq(Nat)
  <2>1. text \in Seq(Nat)
    BY DEF TextInv
  <2>2. Len(text) \in Nat
    BY <2>1
  <2>3. QED BY <2>1, <2>2, Zenon
<1>4. PICK x \in Int, y \in Int :
        /\ x = cursor_x /\ y = cursor_y
        /\ x = ColumnsIn(text, n) * GLYPH_COLUMNS /\ y = LinesIn(text, n) * GLYPH_ROWS
  BY <1>3 DEF TextInv, ScreenInv
<1> DEFINE Old   == UNION {CellOf(text, i) : i \in Written(text)}
           Glyph == {<<x + d[1], y + d[2]>> : d \in GlyphPixels(c)}
<1>5. /\ t \in Seq(Nat) /\ Len(t) = n + 1
      /\ LinesIn(t, n + 1) = LinesIn(text, n)
      /\ ColumnsIn(t, n + 1) = ColumnsIn(text, n) + 1
      /\ UNION {CellOf(t, i) : i \in Written(t)} = Old \cup Glyph
  <2>1. t = Append(text, c)
    BY <1>1, <1>3
  <2>2. /\ t \in Seq(Nat) /\ Len(t) = n + 1
        /\ LinesIn(t, n + 1) = LinesIn(text, n)
        /\ ColumnsIn(t, n + 1) = ColumnsIn(text, n) + 1
        /\ UNION {CellOf(t, i) : i \in Written(t)}
             = (UNION {CellOf(text, i) : i \in Written(text)})
               \cup {<<ColumnsIn(text, n) * GLYPH_COLUMNS + d[1],
                       LinesIn(text, n) * GLYPH_ROWS + d[2]>> : d \in GlyphPixels(c)}
    <3>1. Longer(text, c, n, t)
      BY <1>1, <1>3, <2>1, TextGrows, Zenon
    <3>2. QED BY <1>2, <3>1 DEF Longer
  <2>3. QED BY <1>4, <2>2
<1>6. draw_font_fg(x, y, c) = Visible \cap Glyph
  <2>1. ASSUME NEW p \in Glyph PROVE InRange(p) <=> p \in Visible
    <3>1. PICK d \in GlyphPixels(c) : p = <<x + d[1], y + d[2]>>
      BY <2>1
    <3>2. x + d[1] \in Int /\ y + d[2] \in Int
      BY FontAssumption DEF GlyphPixels
    <3>3. QED BY <3>1, <3>2, InRangeVisible DEF ScreenInv
  <2>2. QED BY <2>1 DEF draw_font_fg
<1>7. Shown(t) = Shown(text) \cup draw_font_fg(x, y, c)
  BY <1>5, <1>6 DEF Shown
<1>8. Addresses(Shown(text))' = Addresses(Shown(t))
  BY <1>1, <1>3 DEF Addresses, PixelAt, Shown, Visible, CellOf, Written
<1>9. written' = Addresses(Shown(text))'
  <2>1. written = Addresses(Shown(text))
    BY DEF TextInv
  <2>2. Addresses(Shown(t)) = Addresses(Shown(text)) \cup Addresses(draw_font_fg(x, y, c))
    BY <1>7 DEF Addresses
  <2>3. QED BY <1>2, <1>4, <1>8, <2>1, <2>2
<1>10. PICK k \in Nat : k = ColumnsIn(text, n)
  BY <1>3, CellType
<1>11. GLYPH_ROWS \in Nat /\ GLYPH_COLUMNS \in Nat
  BY FontAssumption
<1>12. cursor_x' = (k + 1) * GLYPH_COLUMNS
  BY <1>2, <1>4, <1>10, <1>11, SMT
<1>13. /\ cursor_x' = ColumnsIn(t, Len(t)) * GLYPH_COLUMNS
       /\ cursor_y' = LinesIn(t, Len(t)) * GLYPH_ROWS
  BY <1>2, <1>4, <1>5, <1>10, <1>12
<1>14. /\ ColumnsIn(t, Len(t)) = ColumnsIn(text, Len(text))'
       /\ LinesIn(t, Len(t)) = LinesIn(text, Len(text))'
  BY <1>3 DEF ColumnsIn, LinesIn, InLine
<1>15. QED BY <1>1, <1>3, <1>5, <1>9, <1>13, <1>14 DEF TextInv

(* The cursor, the text and the screen stay together when nothing is       *)
(* written.                                                                *)
LEMMA TextStays ==
  ASSUME TextInv, UNCHANGED <<screen, written, text, cursor_x, cursor_y, client>>,
         pending' \in Seq(Nat), Len(text) + Len(pending') <= MaxText
  PROVE  TextInv'
<1>1. Addresses(Shown(text))' = Addresses(Shown(text))
  BY ShownKeeps
<1>2. /\ ColumnsIn(text, Len(text))' = ColumnsIn(text, Len(text))
      /\ LinesIn(text, Len(text))' = LinesIn(text, Len(text))
  BY DEF ColumnsIn, LinesIn, InLine
<1>3. QED BY <1>1, <1>2 DEF TextInv

(* Every step keeps what is known of the text. *)
LEMMA TextNextHolds == ScreenInv /\ TextInv /\ [Next]_vars => TextInv'
<1> SUFFICES ASSUME ScreenInv, TextInv, [Next]_vars PROVE TextInv'
  OBVIOUS
<1>1. CASE client = "text" /\ TextNext /\ UNCHANGED client
  <2>1. CASE \E s \in Pieces : write_str(s)
    <3>1. PICK s \in Pieces : write_str(s)
      BY <2>1
    <3>2. s \in Seq(Nat)
      BY TextWriterAssumption
    <3>3. QED BY <1>1, <3>1, <3>2, TextStays DEF write_str, bitmapVars
  <2>2. CASE NewLine
    BY <1>1, <2>2, NewLineHolds
  <2>3. CASE Character(Head(pending))
    BY <1>1, <2>3, CharacterHolds
  <2>4. QED BY <1>1, <2>1, <2>2, <2>3 DEF TextNext
<1>2. CASE client # "text" /\ UNCHANGED <<textVars, client>>
  <2>1. /\ ColumnsIn(text, Len(text))' = ColumnsIn(text, Len(text))
        /\ LinesIn(text, Len(text))' = LinesIn(text, Len(text))
    BY <1>2 DEF ColumnsIn, LinesIn, InLine, textVars
  <2>2. QED BY <1>2, <2>1 DEF TextInv, textVars
<1>3. CASE UNCHANGED vars
  <2>1. UNCHANGED <<screen, written, text, cursor_x, cursor_y, client>> /\ pending' = pending
    BY <1>3 DEF vars, bitmapVars, textVars
  <2>2. QED BY <2>1, TextStays DEF TextInv
<1>4. QED BY <1>1, <1>2, <1>3 DEF Next

(* However a text was cut into calls, the screen shows it, each character  *)
(* in its cell.                                                            *)
THEOREM ScreenShowsTextHolds == Spec => []ScreenShowsText
<1>1. ScreenInv /\ TextInv => ScreenShowsText
  <2>1. SUFFICES ASSUME ScreenInv, TextInv, text # << >> PROVE ScreenShowsText
    BY DEF ScreenShowsText
  <2>2. written = Addresses(Shown(text)) /\ Shown(text) \in SUBSET Visible
    BY <2>1 DEF TextInv, Shown
  <2>3. {PixelOf(a) : a \in written} = Shown(text)
    BY <2>1, <2>2, PixelsOf DEF ScreenInv
  <2>4. \A i \in DOMAIN text : CellPixels(i) = CellOf(text, i)
    BY <2>1, CellsAre DEF TextInv
  <2>5. QED BY <2>3, <2>4 DEF ScreenShowsText, Shown, Written
<1>2. QED BY <1>1, TextInitHolds, TextNextHolds, ScreenInvHolds, PTL DEF Spec

-----------------------------------------------------------------------------
(* The types. *)

(* What the other invariants leave open of the types: the parts of the     *)
(* pattern together are what has been written.                             *)
TypesInv ==
  /\ overflow_checks \in OverflowChecks
  /\ point \in Nat
  /\ pattern \in {"drawing", "done", "panic"}
  /\ Turn <= 2 * COLORS + 4
  /\ \A i \in DOMAIN drawn : drawn[i].pixels \subseteq Visible
  /\ client = "pattern" =>
       written = UNION {Addresses(drawn[i].pixels) : i \in DOMAIN drawn}
  /\ client # "pattern" => drawn = << >>

(* They hold before anything is drawn. *)
LEMMA TypesInitHolds == Init => TypesInv
<1> SUFFICES ASSUME Init PROVE TypesInv
  OBVIOUS
<1>1. /\ overflow_checks \in OverflowChecks /\ point = 0 /\ pattern = "drawing"
      /\ drawn = << >> /\ written = {}
  BY DEF Init, BitmapInit, DrawingInit, PatternInit
<1>2. Turn = 0 /\ DOMAIN drawn = {}
  BY <1>1 DEF Turn
<1>3. UNION {Addresses(drawn[i].pixels) : i \in DOMAIN drawn} = {}
  BY <1>2
<1>4. COLORS \in Nat
  BY TestPatternAssumption
<1>5. QED BY <1>1, <1>2, <1>3, <1>4 DEF TypesInv

(* A part that is drawn is added to what has been written. *)
LEMMA DrawnAdds ==
  ASSUME PatternInv, TypesInv, client = "pattern", client' = client,
         NEW what, NEW pixels \in SUBSET Visible, Draw(what, pixels)
  PROVE  /\ \A i \in DOMAIN drawn' : drawn'[i].pixels \subseteq Visible'
         /\ written' = UNION {Addresses(drawn[i].pixels) : i \in DOMAIN drawn}'
<1>1. PICK S : drawn \in Seq(S)
  BY DEF PatternInv
<1>2. PICK r : r = [what |-> what, pixels |-> pixels] /\ drawn' = Append(drawn, r)
  BY DEF Draw
<1>3. PICK d, e : d = drawn /\ e = drawn'
  OBVIOUS
<1>4. PICK n \in Nat : n = Len(d) /\ DOMAIN d = 1 .. n
  BY <1>1, <1>3
<1>5. d \in Seq(S \cup {r}) /\ e = Append(d, r) /\ r \in S \cup {r}
  BY <1>1, <1>2, <1>3
<1>6. /\ DOMAIN e = (1 .. n) \cup {n + 1} /\ n + 1 \notin 1 .. n
      /\ \A i \in 1 .. n : e[i] = d[i]
      /\ e[n + 1] = r /\ r.pixels = pixels
  BY <1>2, <1>4, <1>5
<1>7. /\ \A i \in 1 .. n : d[i].pixels \subseteq Visible
      /\ written = UNION {Addresses(d[i].pixels) : i \in 1 .. n}
  BY <1>3, <1>4 DEF TypesInv
<1>8. Visible' = Visible /\ (\A T : Addresses(T)' = Addresses(T))
  BY DEF Draw, Visible, Addresses, PixelAt
<1>9. written' = written \cup Addresses(pixels)
  BY DEF Draw, Addresses
<1>10. \A i \in DOMAIN e : e[i].pixels \subseteq Visible
  BY <1>6, <1>7
<1>11. written' = UNION {Addresses(e[i].pixels) : i \in DOMAIN e}
  <2>1. {Addresses(e[i].pixels) : i \in DOMAIN e}
          = {Addresses(d[i].pixels) : i \in 1 .. n} \cup {Addresses(pixels)}
    BY <1>6
  <2>2. QED BY <1>7, <1>9, <2>1
<1>12. UNION {Addresses(drawn[i].pixels) : i \in DOMAIN drawn}'
         = UNION {Addresses(e[i].pixels) : i \in DOMAIN e}
  BY <1>3, <1>8 DEF Addresses
<1>13. QED BY <1>3, <1>8, <1>10, <1>11, <1>12

(* A step of the pattern takes the next turn, or it is a panic. *)
LEMMA PatternTypes ==
  ASSUME ScreenInv, PatternInv, TypesInv, client = "pattern", client' = client,
         PatternNext, UNCHANGED <<drawingVars, textVars>>
  PROVE  TypesInv'
<1>1. PatternStep
  BY PatternDraws
<1>2. overflow_checks' = overflow_checks /\ point' = point
  BY <1>1 DEF PatternStep, Draw, bitmapVars, drawingVars
<1>3. pattern' \in {"drawing", "done", "panic"}
  BY DEF PatternNext, Clear, FillSquare, FillOrPanic, DrawLines, DrawLabel
<1>4. PICK n \in Nat, m \in Nat : n = COLORS /\ m = Turn
  <2>1. PICK S : drawn \in Seq(S)
    BY DEF PatternInv
  <2>2. Len(drawn) \in Nat
    BY <2>1
  <2>3. QED BY <2>2, TestPatternAssumption DEF Turn
<1>5. m <= 2 * n + 3
  BY <1>4 DEF PatternNext, Clear, FillSquare, DrawLines, DrawLabel
<1>6. CASE UNCHANGED <<bitmapVars, drawn>>
  <2>1. UNCHANGED <<screen, written, drawn>>
    BY <1>6 DEF bitmapVars
  <2>2. Turn' = Turn /\ Visible' = Visible
    BY <2>1 DEF Turn, Visible
  <2>3. UNION {Addresses(drawn[i].pixels) : i \in DOMAIN drawn}'
          = UNION {Addresses(drawn[i].pixels) : i \in DOMAIN drawn}
    BY <2>1 DEF Addresses, PixelAt
  <2>4. QED BY <1>2, <1>3, <2>1, <2>2, <2>3 DEF TypesInv
<1>7. ASSUME NEW what, NEW pixels \in SUBSET Visible, Draw(what, pixels) PROVE TypesInv'
  <2>1. /\ \A i \in DOMAIN drawn' : drawn'[i].pixels \subseteq Visible'
        /\ written' = UNION {Addresses(drawn[i].pixels) : i \in DOMAIN drawn}'
    BY <1>7, DrawnAdds
  <2>2. Turn' = m + 1
    BY <1>4, <1>7, Drawn
  <2>3. Turn' <= 2 * COLORS' + 4
    BY <1>4, <1>5, <2>2
  <2>4. QED BY <1>2, <1>3, <2>1, <2>3 DEF TypesInv
<1>8. QED BY <1>1, <1>6, <1>7 DEF PatternStep

(* Every step keeps the types. *)
LEMMA TypesNextHolds == ScreenInv /\ PatternInv /\ TypesInv /\ [Next]_vars => TypesInv'
<1> SUFFICES ASSUME ScreenInv, PatternInv, TypesInv, [Next]_vars PROVE TypesInv'
  OBVIOUS
<1>1. CASE client = "pattern" /\ PatternNext /\ UNCHANGED <<drawingVars, textVars, client>>
  BY <1>1, PatternTypes
<1>2. ASSUME UNCHANGED <<patternVars, client, overflow_checks, screen>>, point' \in Nat,
             client = "pattern" => written' = written
      PROVE  TypesInv'
  <2>1. UNCHANGED <<drawn, lost, pattern>> /\ Turn' = Turn /\ Visible' = Visible
    BY <1>2 DEF patternVars, Turn, Visible
  <2>2. UNION {Addresses(drawn[i].pixels) : i \in DOMAIN drawn}'
          = UNION {Addresses(drawn[i].pixels) : i \in DOMAIN drawn}
    BY <1>2, <2>1 DEF Addresses, PixelAt
  <2>3. QED BY <1>2, <2>1, <2>2 DEF TypesInv
<1>3. CASE client = "drawing" /\ DrawingNext /\ UNCHANGED <<patternVars, textVars, client>>
  <2>1. overflow_checks' = overflow_checks /\ screen' = screen /\ point' \in Nat
    BY <1>3 DEF TypesInv, DrawingNext, fill_rect, Answer, draw_line, LinePoint, LineOk
  <2>2. QED BY <1>2, <1>3, <2>1
<1>4. CASE client = "text" /\ TextNext /\ UNCHANGED <<drawingVars, patternVars, client>>
  <2>1. overflow_checks' = overflow_checks /\ screen' = screen /\ point' \in Nat
    BY <1>4 DEF TypesInv, TextNext, write_str, NewLine, Character, Turns, bitmapVars,
                drawingVars
  <2>2. QED BY <1>2, <1>4, <2>1
<1>5. CASE UNCHANGED vars
  BY <1>2, <1>5 DEF TypesInv, vars, bitmapVars, drawingVars
<1>6. QED BY <1>1, <1>3, <1>4, <1>5 DEF Next

(* The types of Screen and of its three clients: the cursor stays on the   *)
(* grid of cells, a line that is being drawn has both ends in range, and   *)
(* the parts of the pattern add up to what is on the screen.               *)
THEOREM ScreenTypeOK == Spec => []TypeOK
<1>1. ASSUME ScreenInv, PatternInv, TextInv, TypesInv PROVE TypeOK
  <2>1. written \subseteq Int
    <3>1. ASSUME NEW a \in written PROVE a \in Int
      <4>1. PICK p \in Visible : a = PixelAt(p)
        BY <1>1 DEF ScreenInv, Addresses
      <4>2. QED BY <1>1, <4>1, PixelAddress DEF ScreenInv
    <3>2. QED BY <3>1
  <2>2. DrawingTypeOK
    <3>1. point \in Nat
      BY <1>1 DEF TypesInv
    <3>2. CallInv
      BY <1>1 DEF ScreenInv
    <3>3. CASE call = NoCall /\ result = "ok"
      BY <3>1, <3>3 DEF DrawingTypeOK
    <3>4. CASE call.op = "fill_rect" /\ call.args \in Rectangles /\ Filled(call.args)
      BY <3>1, <3>4 DEF DrawingTypeOK, Filled
    <3>5. CASE call.op = "draw_line" /\ call.args \in Lines /\ Lined(call.args)
      BY <3>1, <3>5 DEF DrawingTypeOK, Lined
    <3>6. QED BY <3>2, <3>3, <3>4, <3>5 DEF CallInv
  <2>3. PatternTypeOK
    <3>1. lost \in Nat
      BY <1>1 DEF PatternInv
    <3>2. /\ pattern \in {"drawing", "done", "panic"} /\ Len(drawn) <= 2 * COLORS + 4
          /\ \A i \in DOMAIN drawn : drawn[i].pixels \subseteq Visible
      BY <1>1 DEF TypesInv, Turn
    <3>3. drawn # << >> =>
            written = UNION {{PixelAt(p) : p \in drawn[i].pixels} : i \in DOMAIN drawn}
      BY <1>1 DEF TypesInv, Addresses
    <3>4. QED BY <3>1, <3>2, <3>3 DEF PatternTypeOK
  <2>4. TextTypeOK
    <3>1. PICK n \in Nat, k \in Nat, m \in Nat :
            /\ n = Len(text) /\ k = Len(pending) /\ m = MaxText /\ n + k <= m
      BY <1>1, TextWriterAssumption DEF TextInv
    <3>2. PICK x \in 0 .. n, y \in 0 .. n : x = ColumnsIn(text, n) /\ y = LinesIn(text, n)
      BY CellType
    <3>3. cursor_x = x * GLYPH_COLUMNS /\ cursor_y = y * GLYPH_ROWS
      BY <1>1, <3>1, <3>2 DEF TextInv
    <3>4. x \in 0 .. m /\ y \in 0 .. m
      BY <3>1
    <3>5. x * GLYPH_COLUMNS = GLYPH_COLUMNS * x /\ y * GLYPH_ROWS = GLYPH_ROWS * y
      BY FontAssumption, SMT
    <3>6. QED BY <1>1, <3>1, <3>3, <3>4, <3>5 DEF TextTypeOK, TextInv
  <2>5. QED BY <1>1, <2>1, <2>2, <2>3, <2>4 DEF TypeOK, ScreenInv, TypesInv
<1>2. QED BY <1>1, PatternInitHolds, PatternNextHolds, TextInitHolds, TextNextHolds,
             TypesInitHolds, TypesNextHolds, ScreenInvHolds, PTL DEF Spec

=============================================================================
