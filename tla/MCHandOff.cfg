CONSTANTS
  h1 = h1
  h2 = h2
  f1 = f1
  NoFile = NoFile
  HandOffs = {h1, h2}
  Locals = {f1}
  Messages <- SomeMessages
  Looks <- SomeLooks
  MaxDocumentSize = 67108864
  MaxNativeMessageSize = 65536
  QueueLimit = 2
  MaxFailures = 2
SPECIFICATION Spec
CHECK_DEADLOCK FALSE
INVARIANTS
  TypeOK
  OkMeansOpened
  OnlyDropsLeak
PROPERTIES
  NoFileForgotten
  EveryHandOffAnswered
