CONSTANTS
  MaxDocumentSize = 12
  MaxIpcMessage = 40000000
  MinIpcMessage = 3
  MaxPageWidth = 1800
  MaxPageHeight = 1800
  MaxPageCount = 3
  MinSniffed = 3
  MaxZipEntries = 4
  One = 256
  MaxEntry = 6
  MaxRatio = 2
  RatioSlack = 1
  MaxImages = 2
  MaxMediaBytes = 8
  MaxText = 5
  MaxLines = 3
  MaxRows = 4
  MaxCols = 6
  MaxCell = 3
  PageWidth = 1240
  PageHeight = 1754
  UsizeSpan = 65536
  Utf8 <- InUtf8
  Blanks = {" "}
  Digits <- DigitValues
  BaseFont = 16
  Em <- Widths
  MediaGap = 14
  MaxDrawnRows = 3
  Documents <- DocumentsOfAllKinds
  Engines = {"hayro", "mupdf"}
  Targets <- TargetsAtTheEdges
  MaxPages = 3
SPECIFICATION Spec
CHECK_DEADLOCK FALSE
INVARIANTS
  TypeOK
  PagesInOrder
  LaidOut
