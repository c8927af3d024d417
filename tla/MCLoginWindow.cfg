CONSTANTS
  FW = 6
  FH = 5
  STRIDE = 7
  PAD = 5
  Rects <- MCRects
  Colors <- MCColors
  SRC <- MCSrc
  KEY = 0
  Glyph <- MCGlyph
  Scales <- MCScales
  W = 4
  H = 3
  SHADOW = 1
  S = 1
  CELL = 1
  Font <- MCFont
  Bar = 1
  Edge = 1
  Buttons <- MCButtons
  Title <- MCTitle
  Label <- MCLabel
  Box <- MCBox
  NameX = 2
  NameY = 2
  MaxName = 4
  MaxCalls = 2
SPECIFICATION WinSpec
INVARIANTS
  OnlyVisiblePainted
  FillExact
  BlitExact
  LoginShown
