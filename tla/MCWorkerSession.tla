---------------------------- MODULE MCWorkerSession ----------------------------
(* Model-checking instance of the worker and its session: pages of 2 by 1    *)
(* pixels, documents at, under and over the limit, one of each outcome.      *)
EXTENDS WorkerSession

Document(size, magic, entries, decode, pages) ==
  [size |-> size, magic |-> magic, entries |-> entries, decode |-> decode,
   info |-> [pages |-> pages, width |-> 1, height |-> 1]]

DocumentsOfAllKinds ==
  { Document(MaxDocumentSize, "Pdf", << >>, "ok", 2),
    Document(MinSniffed, "Zip", << "other", "types" >>, "ok", 1),
    Document(MinSniffed, "Zip", << "container", "broken" >>, "ok", 1),
    Document(MinSniffed, "Gif", << >>, "ok", 1),
    Document(MinSniffed - 1, "Png", << >>, "ok", 1),
    Document(MinSniffed, "Pdf", << >>, "PasswordProtected", 1),
    Document(MinSniffed, "Zip", << "other", "types" >>, "ResourceLimitExceeded", 1),
    Document(MinSniffed, "Png", << >>, "ok", 0),
    Document(MaxDocumentSize + 1, "Pdf", << >>, "ok", 1) }

HelloOf(version, document, ipc, shm) ==
  [type |-> "Hello", version |-> version, document |-> document, ipc |-> ipc,
   shm |-> shm]

HellosAtTheEdges ==
  { HelloOf(FALSE, MaxDocumentSize, MaxIpcMessage, TRUE),
    HelloOf(TRUE, 0, MaxIpcMessage, TRUE),
    HelloOf(TRUE, MaxDocumentSize, MinIpcMessage - 1, FALSE),
    HelloOf(TRUE, MaxDocumentSize, MaxIpcMessage + 1, FALSE),
    HelloOf(TRUE, MaxDocumentSize + 3, MaxIpcMessage, TRUE),
    HelloOf(TRUE, 1, MinIpcMessage, FALSE) }

TargetsAtTheEdges == { << 2, 1 >>, << 1, 1 >>, << 0, 1 >>, << 3, 1 >> }
=============================================================================
