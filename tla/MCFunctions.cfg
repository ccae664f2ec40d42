SPECIFICATION FunctionsSpec
CHECK_DEADLOCK FALSE
CONSTANTS
  USIZE_BITS = 10
  Pow2 <- MCPow2
  Inputs <- MCInputs
  WIDTH = 2
  SPACE = 32
  DEL = 127
  Screens <- MCScreens
  Clients <- MCClients
  I64_LIMIT = 1024
  OverflowChecks = {TRUE, FALSE}
  Rectangles <- MCRectangles
  Lines <- MCLines
  FontSource <- MCFont
  CODES = 6
  GLYPH_COLUMNS = 2
  GLYPH_ROWS = 2
  SIDE = 3
  COLORS = 4
  Labels <- MCLabels
  Pieces <- MCPieces
  NEWLINE = 1
  MaxText = 5
INVARIANTS
  RoundsUpToLeast
  SpaceNeverWraps
  DumpShowsData
  TypeOK
  InsideBuffer
  FillsExactly
  LineFollows
  PatternFits
  ScreenShowsText
