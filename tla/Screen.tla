--------------------------------- MODULE Screen ---------------------------------
(***************************************************************************)
(* Who draws on the frame buffer, and on which screen: single calls of     *)
(* fill_rect and draw_line (Drawing), the test pattern of the boot         *)
(* (TestPattern), or a VramTextWriter (TextWriter).  A behaviour has one   *)
(* client: clients share nothing but the pixels, which none of them reads. *)
(***************************************************************************)
EXTENDS Drawing, TestPattern, TextWriter

CONSTANT Clients    \* who draws where: [client, screen]

ASSUME ScreenAssumption ==
  Clients \subseteq [client : {"drawing", "pattern", "text"}, screen : Screens]

VARIABLE client

vars == <<bitmapVars, drawingVars, patternVars, textVars, client>>

Init ==
  /\ \E c \in Clients : client = c.client /\ screen = c.screen
  /\ BitmapInit /\ DrawingInit /\ PatternInit /\ TextInit

Next ==
  \/ client = "drawing" /\ DrawingNext /\ UNCHANGED <<patternVars, textVars, client>>
  \/ client = "pattern" /\ PatternNext /\ UNCHANGED <<drawingVars, textVars, client>>
  \/ client = "text" /\ TextNext /\ UNCHANGED <<drawingVars, patternVars, client>>

Spec == Init /\ [][Next]_vars

-----------------------------------------------------------------------------
TypeOK ==
  /\ screen \in Screens
  /\ overflow_checks \in OverflowChecks
  /\ written \subseteq Int
  /\ DrawingTypeOK /\ PatternTypeOK /\ TextTypeOK

(***************************************************************************)
(* InsideBuffer: whoever draws, and whatever the coordinates, also where   *)
(* px + w leaves an i64, every pixel written lies within the frame buffer, *)
(* although fill_rect looks only at two corners before it writes           *)
(* unchecked.                                                              *)
(***************************************************************************)
InsideBuffer ==
  \A a \in written :
    /\ 0 <= a
    /\ a + BYTES_PER_PIXEL <=
         screen.height * screen.pixels_per_line * BYTES_PER_PIXEL

=============================================================================
