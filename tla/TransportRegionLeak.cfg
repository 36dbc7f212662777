CONSTANTS
  small = small
  resized = resized
  large = large
  bad = bad
  Requests = {small, resized, large, bad}
  Echo <- EchoMap
  Large = {large}
  Invalid = {bad}
  Settings <- OneRequestShared
SPECIFICATION Spec
CHECK_DEADLOCK FALSE
INVARIANT RegionRemovedWithWorker
