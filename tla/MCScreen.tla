-------------------------------- MODULE MCScreen --------------------------------
(* Drawing on small screens: one without padding, one with padding after   *)
(* each line, and one whose lines are shorter than it is wide; the test    *)
(* pattern, with squares of 3 x 3 pixels, on every small screen; and text  *)
(* in glyphs of 2 x 2 pixels on screens of which the last column of        *)
(* characters, or the last line, is cut in two.                            *)
EXTENDS Screen

Size(w, h, l) == [width |-> w, height |-> h, pixels_per_line |-> l]

DrawingScreens == {Size(5, 4, 5), Size(3, 4, 5), Size(6, 3, 4)}

PatternScreens == {Size(w, h, l) : w \in 1 .. 9, h \in 1 .. 16, l \in 6 .. 9}

TextScreens == {Size(5, 5, 6), Size(5, 4, 3)}

MCScreens == DrawingScreens \cup PatternScreens \cup TextScreens

MCClients ==
  [client : {"drawing"}, screen : DrawingScreens]
  \cup [client : {"pattern"}, screen : {s \in PatternScreens : s.pixels_per_line >= s.width - 1}]
  \cup [client : {"text"}, screen : TextScreens]

(* Corners and sizes: around the edges of the screens and of an i64.       *)
Corners == {-I64_LIMIT, -1, 0, 1, 3, 4, I64_LIMIT - 1}
Sizes   == {-I64_LIMIT, -3, -1, 0, 1, 2, 4, 5, I64_LIMIT - 2, I64_LIMIT - 1}

MCRectangles == [px : Corners, py : Corners, w : Sizes, h : Sizes]

MCLines == [x0 : -1 .. 5, y0 : -1 .. 4, x1 : -1 .. 5, y1 : -1 .. 4]

CodeLine(code) == [idx |-> code, chars |-> <<".", ".", ".", ".">>]
DotLine(chars) == [idx |-> NoCode, chars |-> chars]

(* Code 0 is defined twice, code 4 by one short row before the next code,  *)
(* code 3 by a row too long and then the end of the file; 2 is not defined *)
(* and 1 is the new line.  Of these 3 and 4 are not ASCII.                 *)
MCFont ==
  << CodeLine(0), DotLine(<<"*", "*">>), DotLine(<<"*", "*">>), DotLine(<< >>),
     CodeLine(0), DotLine(<<"*", ".">>), DotLine(<<".", "*">>), DotLine(<< >>),
     CodeLine(4), DotLine(<<".">>),
     CodeLine(3), DotLine(<<".", "*", "*">>) >>

(* Codes up to 5 fit a u8 of this size; 6 does not. *)
MCPieces == UNION {[1 .. n -> {0, 1, 2, 3, 6}] : n \in 1 .. 2} \cup {<<4>>, <<2, 0, 1>>}

MCLabels == << <<0, 3, 0>>, <<3, 0>> >>

=============================================================================
