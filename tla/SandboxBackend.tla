---------------------------- MODULE SandboxBackend ----------------------------
(***************************************************************************)
(* The SandboxBackend trait (crates/sandbox/src/backend.rs) as its process *)
(* backends implement it: SubprocessBackend, RunscBackend and QemuVmBackend*)
(* keep the same session table and differ in the command they spawn.       *)
(*                                                                         *)
(* A backend is a value                                                    *)
(*   [sessions     : session id -> (document id -> bytes sent under it),   *)
(*    sandboxes    : the sessions whose sandbox process exists,            *)
(*    nextSession, nextDocument : the counters ids are drawn from]         *)
(* and each trait method is the set of outcomes one call can have.  What a *)
(* request can return is what ProcessTransport promises (module            *)
(* RpcChannel): an answer or an error from the worker, or a failure after  *)
(* which the worker is gone and every later request fails too.             *)
(***************************************************************************)
EXTENDS Naturals, Functions

CONSTANTS Contents,      \* the byte strings a document can consist of
          Oversized,     \* those longer than config.max_document_size
          PageCount      \* the number of pages the worker finds in each

ASSUME ContentAssumption == /\ Oversized \subseteq Contents
                            /\ PageCount \in [Contents -> Nat \ {0}]

NoSessions == [s \in {} |-> s]

InitBackend == [sessions |-> NoSessions, sandboxes |-> {},
                nextSession |-> 0, nextDocument |-> 0]

Error(code) == [error |-> code]
Raster(bytes, page, target) ==
  [content |-> bytes, page |-> page, target |-> target]

Outcome(backend, ok, result) ==
  [backend |-> backend, ok |-> ok, result |-> result]

-----------------------------------------------------------------------------
(* One request to the worker of session s.                                 *)

\* A kill that hits every worker.
KillAll(be, s) == [be EXCEPT !.sandboxes = {}]

Kill(be, s) == [be EXCEPT !.sandboxes = @ \ {s}]

\* A failed request leaves no worker behind, whether it had crashed before or
\* was terminated now; only a live worker can run into the deadline.
FailedRequest(be, s) ==
  { Outcome(Kill(be, s), FALSE, Error(code)) :
      code \in {"SandboxCrashed", "InternalError"}
               \cup IF s \in be.sandboxes THEN {"Timeout"} ELSE {} }

\* What a live worker can report, as its callers see it: the code is passed on
\* to them (from_worker_code), a resource limit like any other.
WorkerErrors == {"RenderingFailed", "ResourceLimitExceeded"}

Refusals(be) == { Outcome(be, FALSE, Error(code)) : code \in WorkerErrors }

Request(be, s, answer) ==
  FailedRequest(be, s)
  \cup IF s \in be.sandboxes
       THEN { Outcome(be, TRUE, answer) } \cup Refusals(be)
       ELSE {}

-----------------------------------------------------------------------------
(* The trait methods.                                                      *)

\* The id is taken before the worker is spawned; a worker that cannot be
\* spawned or whose handshake fails is killed again and no session is made.
StartSession(be) ==
  LET id      == be.nextSession + 1
      counted == [be EXCEPT !.nextSession = id]
  IN  { Outcome(counted, FALSE, Error(code)) :
          code \in {"SandboxStartupFailed", "Timeout", "InternalError"} }
      \cup { Outcome([counted EXCEPT
                       !.sessions  = [s \in DOMAIN @ \cup {id} |->
                                        IF s = id THEN NoSessions ELSE @[s]],
                       !.sandboxes = @ \cup {id}],
                     TRUE, [session |-> id]) }

\* A counter of its own in every session: ids repeat across sessions.
SendDocumentPerSession(be, s, bytes) ==
  LET id   == 1
      sent == [be EXCEPT !.sessions[s] = [d \in DOMAIN @ \cup {id} |->
                                            IF d = id THEN bytes ELSE @[d]]]
  IN  Refusals(be) \cup { Outcome(sent, TRUE, [document |-> id]) }

\* Document ids are drawn from one counter for all sessions, and a request
\* that fails has used its id up.
SendDocument(be, s, bytes) ==
  LET id      == be.nextDocument + 1
      counted == [be EXCEPT !.nextDocument = id]
      stored(o) == IF o.ok
                   THEN [o EXCEPT !.backend.sessions[s] =
                           [d \in DOMAIN @ \cup {id} |->
                              IF d = id THEN bytes ELSE @[d]]]
                   ELSE o
  IN  IF s \notin DOMAIN be.sessions
      THEN { Outcome(be, FALSE, Error("InternalError")) }
      ELSE IF bytes \in Oversized
      THEN { Outcome(be, FALSE, Error("DocumentTooLarge")) }
      ELSE { stored(o) : o \in Request(counted, s, [document |-> id]) }

GetDocumentInfo(be, s, document) ==
  IF s \notin DOMAIN be.sessions
  THEN { Outcome(be, FALSE, Error("InternalError")) }
  ELSE IF document \notin DOMAIN be.sessions[s]
  THEN { Outcome(be, FALSE, Error("NoDocumentOpen")) }
  ELSE Request(be, s, [pages |-> PageCount[be.sessions[s][document]]])

\* The worker renders the document it was sent under this id, or refuses an
\* id it does not know.
RenderPage(be, s, document, page, target) ==
  IF s \notin DOMAIN be.sessions
  THEN { Outcome(be, FALSE, Error("InternalError")) }
  ELSE IF document \in DOMAIN be.sessions[s]
  THEN Request(be, s, Raster(be.sessions[s][document], page, target))
  ELSE { o \in Request(be, s, Error("none")) : ~o.ok }

\* A close that leaves the worker to its deadline.
CloseSessionLingering(be, s) ==
  { Outcome([be EXCEPT !.sessions = Restrict(@, DOMAIN @ \ {s})],
            TRUE, [closed |-> s]) }

\* The table entry goes first; closing the worker's documents, the graceful
\* shutdown and the kill behind it end with no process whatever fails.  The
\* process backends then report success; the mock backend hands a failed
\* CloseDocument on to its caller.
CloseSession(be, s) ==
  LET closed == [Kill(be, s) EXCEPT !.sessions = Restrict(@, DOMAIN @ \ {s})]
  IN  IF s \notin DOMAIN be.sessions
      THEN { Outcome(be, FALSE, Error("InternalError")) }
      ELSE { Outcome(closed, TRUE, [closed |-> s]),
             Outcome(closed, FALSE, Error("InternalError")) }

\* A drop that frees the table and leaves the workers running.
DropBackendLeaks(be) == [be EXCEPT !.sessions = NoSessions]

\* Dropping the backend terminates the worker of every session left.
DropBackend(be) ==
  [be EXCEPT !.sessions  = NoSessions,
             !.sandboxes = @ \ DOMAIN be.sessions]
=============================================================================
