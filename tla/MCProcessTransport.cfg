CONSTANTS
  small = small
  resized = resized
  large = large
  bad = bad
  Requests = {small, resized, large, bad}
  Echo <- EchoMap
  Large = {large}
  Invalid = {bad}
  Settings <- HonestOrRogue
SPECIFICATION FairSpec
CHECK_DEADLOCK FALSE
INVARIANT TypeOK
PROPERTIES
  QuietAroundCalls
  ClosedLeavesNothing
  ImplementsRpc
  EveryCallReturns
