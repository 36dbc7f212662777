CONSTANTS
  one = one
  two = two
  big = big
  empty = empty
  Contents = {one, two, big}
  Oversized = {big}
  NoBytes = empty
  PageCount <- PageCountOf
  Targets = {"fit"}
  BadTarget = "huge"
  Capacity = 2
  MaxOpenDocuments = 2
  MaxSessions = 3
  MaxPage = 2
SPECIFICATION Spec
CHECK_DEADLOCK FALSE
INVARIANTS
  TypeOK
  OneSessionPerDocument
  NoStraySandbox
  CachedPagesAreCurrent
  NothingOutlivesTheManager
PROPERTIES
  OthersUndisturbed
  ImplementsShelf
