---------------------------- MODULE DocumentManager ----------------------------
(***************************************************************************)
(* DocumentManager (crates/core/src/manager.rs): the owner of one sandbox  *)
(* backend, of the table of open documents and of the page cache.  Every   *)
(* operation holds the manager's mutex from its first look at the table to *)
(* its return, so one operation is one action, made of all the backend and *)
(* cache calls it makes in their order, with every outcome they can have.  *)
(* Between operations a worker can crash on its own.                       *)
(***************************************************************************)
EXTENDS PageCache, SandboxBackend, FiniteSets

CONSTANTS NoBytes,            \* the empty file
          Targets,            \* render targets within the limits
          BadTarget,          \* a render target outside them
          MaxOpenDocuments,   \* MAX_OPEN_DOCUMENTS, 4 in the code
          MaxSessions,        \* bound: backend sessions ever started
          MaxPage             \* bound: the largest page number asked for

ASSUME ManagerAssumption == /\ NoBytes \notin Contents
                            /\ BadTarget \notin Targets
                            /\ MaxOpenDocuments \in Nat \ {0}
                            /\ MaxSessions \in Nat
                            /\ MaxPage \in Nat

VARIABLES backend,    \* the sandbox backend
          sessions,   \* handle session id -> [session, document, pages]
          cache,      \* the page cache
          nextId,     \* the last handle session id given out
          poisoned,   \* a panic happened under the lock
          dropped,    \* the manager has been dropped
          opened,     \* history: the bytes opened under each id given out
          reply       \* history: the last call and its result

vars == << backend, sessions, cache, nextId, poisoned, dropped, opened, reply >>

table == << sessions, nextId, opened >>

Init == /\ backend = InitBackend
        /\ sessions = NoSessions
        /\ cache = EmptyCache
        /\ nextId = 0
        /\ poisoned = FALSE
        /\ dropped = FALSE
        /\ opened = NoSessions
        /\ reply = [op |-> "none"]

\* Handles name a session and a document; callers can ask for any pair.
Handles == [session : 1 .. MaxSessions, document : 1 .. MaxSessions]

Handle(i) == [session |-> i, document |-> sessions[i].document]

IsOpen(h) == /\ h.session \in DOMAIN sessions
             /\ sessions[h.session].document = h.document

-----------------------------------------------------------------------------
(* open                                                                    *)

OpenReply(bytes, result) ==
  reply' = [op |-> "open", bytes |-> bytes, result |-> result]

\* The checks before any sandbox is started.
OpenRejected(bytes) ==
  /\ \/ /\ bytes = NoBytes
        /\ OpenReply(bytes, Error("InvalidDocument"))
     \/ /\ bytes # NoBytes /\ poisoned
        /\ OpenReply(bytes, Error("InternalError"))
     \/ /\ bytes # NoBytes /\ ~poisoned
        /\ Cardinality(DOMAIN sessions) >= MaxOpenDocuments
        /\ OpenReply(bytes, Error("ResourceLimitExceeded"))
  /\ UNCHANGED << backend, cache, poisoned, table >>

MayStart(bytes) == /\ bytes # NoBytes /\ ~poisoned
                   /\ Cardinality(DOMAIN sessions) < MaxOpenDocuments
                   /\ backend.nextSession < MaxSessions

OpenFailed(be, bytes, result) ==
  /\ backend' = be
  /\ OpenReply(bytes, result)
  /\ UNCHANGED << cache, poisoned, table >>

\* The half-open session is forgotten instead.
HalfOpenLeft(failed, s, bytes) ==
  OpenFailed(failed.backend, bytes, failed.result)

\* A half-open session is closed and the first error reported.
HalfOpenClosed(failed, s, bytes) ==
  \E closed \in CloseSession(failed.backend, s) :
    OpenFailed(closed.backend, bytes, failed.result)

Registered(info, s, document, bytes) ==
  LET id == nextId + 1
  IN  /\ backend' = info.backend
      /\ nextId' = id
      /\ sessions' = [i \in DOMAIN sessions \cup {id} |->
                        IF i = id THEN [session  |-> s,
                                        document |-> document,
                                        pages    |-> info.result.pages]
                                  ELSE sessions[i]]
      /\ opened' = [i \in DOMAIN opened \cup {id} |->
                      IF i = id THEN bytes ELSE opened[i]]
      /\ OpenReply(bytes, [session |-> id, document |-> document])
      /\ UNCHANGED << cache, poisoned >>

\* A session is started, the bytes sent into it and its metadata read back.
OpenDocument(bytes) ==
  /\ MayStart(bytes)
  /\ \E start \in StartSession(backend) :
       \/ ~start.ok /\ OpenFailed(start.backend, bytes, start.result)
       \/ /\ start.ok
          /\ LET s == start.result.session
             IN  \E sent \in SendDocument(start.backend, s, bytes) :
                   \/ ~sent.ok /\ HalfOpenClosed(sent, s, bytes)
                   \/ /\ sent.ok
                      /\ LET d == sent.result.document
                         IN  \E info \in GetDocumentInfo(sent.backend, s, d) :
                               \/ ~info.ok /\ HalfOpenClosed(info, s, bytes)
                               \/ info.ok /\ Registered(info, s, d, bytes)

\* The pipe threads of a new worker cannot be spawned: the backend panics with
\* the lock held, the worker sees its pipes close and exits.  Release builds
\* abort instead; this is a build that unwinds.
OpenPanics(bytes) ==
  /\ MayStart(bytes)
  /\ backend' = [backend EXCEPT !.nextSession = @ + 1]
  /\ poisoned' = TRUE
  /\ OpenReply(bytes, Error("InternalError"))
  /\ UNCHANGED << cache, table >>

Open(bytes) == \/ OpenRejected(bytes)
               \/ OpenDocument(bytes)
               \/ OpenPanics(bytes)

-----------------------------------------------------------------------------
(* get_document_info                                                       *)

Info(h) ==
  LET result == IF poisoned THEN Error("InternalError")
                ELSE IF IsOpen(h) THEN [pages |-> sessions[h.session].pages]
                ELSE Error("NoDocumentOpen")
  IN  /\ reply' = [op |-> "info", handle |-> h, result |-> result]
      /\ UNCHANGED << backend, cache, poisoned, table >>

-----------------------------------------------------------------------------
(* render_page                                                             *)

RenderReply(h, page, target, result) ==
  reply' = [op |-> "render", handle |-> h, page |-> page, target |-> target,
            result |-> result]

RenderRejected(h, page, target) ==
  /\ \/ /\ target = BadTarget
        /\ RenderReply(h, page, target, Error("ResourceLimitExceeded"))
     \/ /\ target # BadTarget /\ poisoned
        /\ RenderReply(h, page, target, Error("InternalError"))
     \/ /\ target # BadTarget /\ ~poisoned /\ ~IsOpen(h)
        /\ RenderReply(h, page, target, Error("NoDocumentOpen"))
     \/ /\ target # BadTarget /\ ~poisoned /\ IsOpen(h)
        /\ page >= sessions[h.session].pages
        /\ RenderReply(h, page, target, Error("InvalidPage"))
  /\ UNCHANGED << backend, cache, poisoned, table >>

MayRender(h, page, target) == /\ target # BadTarget /\ ~poisoned /\ IsOpen(h)
                              /\ page < sessions[h.session].pages

RenderHit(h, page, target) ==
  LET key == CacheKey(h.document, page, target)
  IN  /\ MayRender(h, page, target)
      /\ CacheHas(cache, key)
      /\ cache' = CacheGet(cache, key)
      /\ RenderReply(h, page, target, cache.entries[key])
      /\ UNCHANGED << backend, poisoned, table >>

\* Whatever the sandbox said goes into the cache.
RenderMissCachesErrors(h, page, target) ==
  LET key == CacheKey(h.document, page, target)
      s   == sessions[h.session].session
  IN  /\ MayRender(h, page, target)
      /\ ~CacheHas(cache, key)
      /\ \E o \in RenderPage(backend, s, h.document, page, target) :
           /\ backend' = o.backend
           /\ cache' = CachePut(cache, key, o.result)
           /\ RenderReply(h, page, target, o.result)
      /\ UNCHANGED << poisoned, table >>

\* The sandbox is asked only on a miss, and only a page goes into the cache.
RenderMiss(h, page, target) ==
  LET key == CacheKey(h.document, page, target)
      s   == sessions[h.session].session
  IN  /\ MayRender(h, page, target)
      /\ ~CacheHas(cache, key)
      /\ \E o \in RenderPage(backend, s, h.document, page, target) :
           /\ backend' = o.backend
           /\ cache' = IF o.ok THEN CachePut(cache, key, o.result) ELSE cache
           /\ RenderReply(h, page, target, o.result)
      /\ UNCHANGED << poisoned, table >>

Render(h, page, target) == \/ RenderRejected(h, page, target)
                           \/ RenderHit(h, page, target)
                           \/ RenderMiss(h, page, target)

-----------------------------------------------------------------------------
(* close                                                                   *)

CloseReply(h, result) ==
  reply' = [op |-> "close", handle |-> h, result |-> result]

CloseRejected(h) ==
  /\ \/ poisoned /\ CloseReply(h, Error("InternalError"))
     \/ ~poisoned /\ ~IsOpen(h) /\ CloseReply(h, Error("NoDocumentOpen"))
  /\ UNCHANGED << backend, cache, poisoned, table >>

\* Nothing is taken off the table unless the backend closed its session.
CloseDocumentIfOk(h) ==
  LET s == sessions[h.session].session
  IN  /\ ~poisoned /\ IsOpen(h)
      /\ \E o \in CloseSession(backend, s) :
           /\ backend' = o.backend
           /\ CloseReply(h, o.result)
           /\ IF o.ok
              THEN /\ sessions' = Restrict(sessions, DOMAIN sessions \ {h.session})
                   /\ cache' = CacheRemoveDocument(cache, h.document)
              ELSE UNCHANGED << sessions, cache >>
      /\ UNCHANGED << poisoned, nextId, opened >>

\* The document is off the table and out of the cache before the backend is
\* asked, so an error of the backend cannot leave it half closed.
CloseDocument(h) ==
  LET s == sessions[h.session].session
  IN  /\ ~poisoned /\ IsOpen(h)
      /\ sessions' = Restrict(sessions, DOMAIN sessions \ {h.session})
      /\ cache' = CacheRemoveDocument(cache, h.document)
      /\ \E o \in CloseSession(backend, s) : /\ backend' = o.backend
                                             /\ CloseReply(h, o.result)
      /\ UNCHANGED << poisoned, nextId, opened >>

Close(h) == CloseRejected(h) \/ CloseDocument(h)

-----------------------------------------------------------------------------
(* The end of the manager, and the world outside.                          *)

\* Unless the lock is poisoned the manager closes every session it knows; then
\* the backend is dropped, and the cache with it.
Drop ==
  LET owned == { sessions[i].session : i \in DOMAIN sessions }
      closed == IF poisoned THEN backend
                ELSE [backend EXCEPT !.sessions  = Restrict(@, DOMAIN @ \ owned),
                                     !.sandboxes = @ \ owned]
  IN  /\ dropped' = TRUE
      /\ backend' = DropBackend(closed)
      /\ sessions' = NoSessions
      /\ cache' = EmptyCache
      /\ UNCHANGED << nextId, poisoned, opened, reply >>

\* A worker process dies on its own: a panic, the memory limit, a signal.
WorkerCrash(s) == /\ s \in backend.sandboxes
                  /\ backend' = Kill(backend, s)
                  /\ UNCHANGED << cache, poisoned, reply, table >>

Call == \/ \E bytes \in Contents \cup {NoBytes} : Open(bytes)
        \/ \E h \in Handles :
             \/ Info(h)
             \/ \E page \in 0 .. MaxPage, target \in Targets \cup {BadTarget} :
                  Render(h, page, target)
             \/ Close(h)

Next == /\ ~dropped
        /\ \/ (Call \/ \E s \in backend.sandboxes : WorkerCrash(s))
              /\ UNCHANGED dropped
           \/ Drop

Spec == Init /\ [][Next]_vars

-----------------------------------------------------------------------------
(* Properties.                                                             *)

Rasters == [content : Contents, page : Nat, target : Targets]
Keys == [document : Nat, page : Nat, target : Targets]

\* The manager's and the backend's tables have their types (the order of the
\* cache is typed where it is modelled, in PageCacheMachine).
TypeOK ==
  /\ backend.nextSession \in Nat /\ backend.nextDocument \in Nat
  /\ DOMAIN backend.sessions \subseteq Nat
  /\ \A s \in DOMAIN backend.sessions :
       /\ DOMAIN backend.sessions[s] \subseteq Nat
       /\ \A d \in DOMAIN backend.sessions[s] : backend.sessions[s][d] \in Contents
  /\ backend.sandboxes \subseteq Nat
  /\ nextId \in Nat
  /\ DOMAIN sessions \subseteq Nat
  /\ \A i \in DOMAIN sessions :
       sessions[i] \in [session : Nat, document : Nat, pages : Nat]
  /\ DOMAIN cache.entries \subseteq Keys
  /\ \A k \in DOMAIN cache.entries : cache.entries[k] \in Rasters
  /\ poisoned \in BOOLEAN /\ dropped \in BOOLEAN
  /\ DOMAIN opened \subseteq Nat
  /\ \A i \in DOMAIN opened : opened[i] \in Contents

\* Every session of the backend belongs to exactly one open document: no
\* failed open, failed close or crash leaves a session that no handle can
\* close, and no document shares its sandbox (the cleanup paths of
\* DocumentManager::open and close).
OneSessionPerDocument ==
  /\ { sessions[i].session : i \in DOMAIN sessions } = DOMAIN backend.sessions
  /\ \A i, j \in DOMAIN sessions :
       sessions[i].session = sessions[j].session => i = j

\* A sandbox process exists only for a session of the backend's table, where
\* a close or the drop will find it; so there are never more of them than
\* MAX_OPEN_DOCUMENTS.
NoStraySandbox ==
  /\ backend.sandboxes \subseteq DOMAIN backend.sessions
  /\ Cardinality(backend.sandboxes) <= MaxOpenDocuments

\* Every cached page belongs to a document that is open now, and shows the
\* bytes of every open document it would be served for, at the page and size
\* of its key.  The key holds no
\* session, so this rests on document ids being unique across sessions and
\* on close emptying the cache of the document.
CachedPagesAreCurrent ==
  \A k \in DOMAIN cache.entries :
    /\ \E i \in DOMAIN sessions : sessions[i].document = k.document
    /\ \A i \in DOMAIN sessions :
         sessions[i].document = k.document =>
           cache.entries[k] = Raster(opened[i], k.page, k.target)

\* "No session can outlive the manager" (manager.rs:199), even when a panic
\* has poisoned the lock and the manager closes nothing itself.
NothingOutlivesTheManager ==
  dropped => /\ backend.sandboxes = {}
             /\ DOMAIN backend.sessions = {}
             /\ DOMAIN cache.entries = {}

\* An operation on one document never takes down another one: sandboxes die by
\* their own crash, by the drop, or by a call on their own handle.
OthersUndisturbed ==
  [][ \A i \in DOMAIN sessions :
        /\ sessions[i].session \in backend.sandboxes \ backend'.sandboxes
        /\ reply' # reply
        => "handle" \in DOMAIN reply' /\ reply'.handle = Handle(i) ]_vars

\* The manager behaves as a shelf of documents: sandboxes, sessions, cache
\* hits, crashes and failed cleanups never show to its callers except as
\* errors, a handle means the bytes it was given for until it is closed and
\* nothing after, and a close takes it off even when it reports an error.
Shelf == INSTANCE DocumentShelf WITH
           shelf  <- [h \in { Handle(i) : i \in DOMAIN sessions } |->
                        opened[h.session]],
           issued <- DOMAIN opened,
           broken <- poisoned

ImplementsShelf == Shelf!Spec

\* A session whose request failed is deleted with its sandbox.
FailedSessionIsDeleted ==
  /\ reply.op = "render"
  /\ "error" \in DOMAIN reply.result
  /\ reply.result.error \in {"Timeout", "SandboxCrashed"}
  => ~IsOpen(reply.handle)
     \/ sessions[reply.handle.session].session \notin DOMAIN backend.sessions
=============================================================================
