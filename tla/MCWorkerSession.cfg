CONSTANTS
  MaxDocumentSize = 4
  MaxIpcMessage = 12
  MinIpcMessage = 3
  MaxPageWidth = 2
  MaxPageHeight = 1
  MaxPageCount = 2
  MinSniffed = 3
  MaxZipEntries = 2
  Hellos <- HellosAtTheEdges
  Documents <- DocumentsOfAllKinds
  Targets <- TargetsAtTheEdges
  MaxIds = 2
  AnyIds = {0, 1}
SPECIFICATION Spec
CHECK_DEADLOCK FALSE
INVARIANTS
  TypeOK
  NeverOversteps
  SessionMirrorsWorker
  PageIsTheOneAskedFor
PROPERTIES
  RefusalChangesNothing
  WorkerEndsWithItsHost
