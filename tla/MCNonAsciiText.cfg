SPECIFICATION Spec
CHECK_DEADLOCK FALSE
CONSTANTS
  Screens <- MCScreens
  Clients <- MCClients
  I64_LIMIT = 1024
  OverflowChecks = {TRUE, FALSE}
  Rectangles <- MCRectangles
  Lines <- MCLines
  FontSource <- MCFont
  CODES = 6
  GLYPH_COLUMNS = 2
  GLYPH_ROWS = 2
  SIDE = 3
  COLORS = 4
  Labels <- MCLabels
  Pieces <- MCPieces
  NEWLINE = 1
  MaxText = 5
INVARIANT OnlyAsciiLit
