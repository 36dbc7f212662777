CONSTANTS
  one = one
  two = two
  big = big
  empty = empty
  Contents = {one}
  Oversized = {}
  NoBytes = empty
  PageCount <- PageCountOfOne
  Targets = {"fit"}
  BadTarget = "huge"
  Capacity = 1
  MaxOpenDocuments = 1
  MaxSessions = 1
  MaxPage = 0
SPECIFICATION Spec
CHECK_DEADLOCK FALSE
INVARIANT FailedSessionIsDeleted
