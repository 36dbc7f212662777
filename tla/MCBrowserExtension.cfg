CONSTANTS
  a1 = a1
  other = other
  b1 = b1
  c1 = c1
  c2 = c2
  NoUrl = NoUrl
  Urls = {a1, other}
  Allowed = {a1}
  Buttons = {b1}
  Links = {a1, other}
  UrlOf <- ButtonUrls
  MaxPending = 1
  MaxRetries = 1
  Slots = {c1, c2}
  MaxDownloads = 2
SPECIFICATION Spec
SYMMETRY Alike
CHECK_DEADLOCK FALSE
INVARIANTS
  TypeOK
  ActiveHasTransfer
PROPERTIES
  OnlyAfterOpening
