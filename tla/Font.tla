---------------------------------- MODULE Font ----------------------------------
(***************************************************************************)
(* The font and the characters drawn with it (lookup_font, draw_font_fg    *)
(* and draw_str_fg of src/wasabi/src/graphics.rs).                         *)
(*                                                                         *)
(* A line of font.txt is [idx, chars]: the code that a line "0x.." names,  *)
(* NoCode for every other line, and the characters, of which only '*'      *)
(* counts.  The cache of glyphs is left out: a pure function of the file.  *)
(***************************************************************************)
EXTENDS Bitmap, FiniteSetsExt, SequencesExt

CONSTANTS
  FontSource,       \* the lines of font.txt
  CODES,            \* a u8 lies in 0 .. CODES - 1
  GLYPH_COLUMNS,    \* 8
  GLYPH_ROWS        \* 16

NoCode == -1

ASSUME FontAssumption ==
  /\ CODES \in Nat \ {0} /\ GLYPH_COLUMNS \in Nat \ {0} /\ GLYPH_ROWS \in Nat \ {0}
  /\ FontSource \in Seq([idx : {NoCode} \cup 0 .. CODES - 1, chars : Seq({"*", "."})])

-----------------------------------------------------------------------------
(* A later definition of a code replaces an earlier one. *)
GlyphLine(c) == Max({i \in DOMAIN FontSource : FontSource[i].idx = c})

Defined(c) == \E i \in DOMAIN FontSource : FontSource[i].idx = c

(* Whether pixel (dx, dy) of a glyph is '*': as it is everywhere before    *)
(* the lines after the code are copied into it, as far as there are any.   *)
Lit(c, dx, dy) ==
  LET line == GlyphLine(c) + dy + 1
  IN  (/\ Defined(c)
       /\ line \in DOMAIN FontSource
       /\ dx + 1 \in DOMAIN FontSource[line].chars)
        => FontSource[line].chars[dx + 1] = "*"

(* The pixels of the glyph that lookup_font returns: none for a character  *)
(* beyond a u8.  (Its comment says: beyond ASCII; u8::try_from, which it   *)
(* asks, takes the characters up to U+00FF, and font.txt has them all.)    *)
GlyphPixels(c) ==
  {d \in (0 .. GLYPH_COLUMNS - 1) \X (0 .. GLYPH_ROWS - 1) :
     c < CODES /\ Lit(c, d[1], d[2])}

(* draw_font_fg: draw_point's Err is dropped, for each pixel on its own. *)
draw_font_fg(x, y, c) ==
  {p \in {<<x + d[1], y + d[2]>> : d \in GlyphPixels(c)} : InRange(p)}

draw_str_fg(x, y, s) ==
  UNION {draw_font_fg(x + (i - 1) * GLYPH_COLUMNS, y, s[i]) : i \in DOMAIN s}

=============================================================================
