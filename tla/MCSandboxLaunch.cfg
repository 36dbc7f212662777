CONSTANTS
  NoLimit = NoLimit
  Unlimited = NoLimit
  TmpfsTmpSize = 268435456
  CfsPeriod = 100000
  Environments <- ManyEnvironments
  Configs <- SomeConfigs
  MaxSessions = 2
SPECIFICATION Spec
CHECK_DEADLOCK FALSE
INVARIANTS
  TypeOK
  NothingLeftBehind
  LaunchesOnlyWhatWasChecked
PROPERTIES
  BundleOutlivesSandbox
  CallsReturn
