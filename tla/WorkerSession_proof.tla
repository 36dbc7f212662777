-------------------------- MODULE WorkerSession_proof --------------------------
(***************************************************************************)
(* A session and its worker agree, for any documents, handshakes, targets   *)
(* and limits and any number of documents.  First what one turn of the      *)
(* worker's loop does to each request, then the invariant that ties the      *)
(* host's call, the frame in the pipe, the answer on its way back and the    *)
(* worker's state together, one lemma per action.                           *)
(***************************************************************************)
EXTENDS WorkerSession, TLAPS

Ids == 1..MaxIds

\* A request as its handler reads it, and a payload that is none.
IsRequest(req) ==
  /\ req.type \in { "Hello", "Ping", "OpenDocument", "GetDocumentInfo", "RenderPage",
                    "CloseDocument", "Junk" }
  /\ req.type = "Hello" => req.version \in BOOLEAN /\ req.document \in Nat /\ req.ipc \in Nat
                           /\ req.shm \in BOOLEAN
  /\ req.type = "OpenDocument" => req.id \in 0..MaxIds /\ req.data \in Documents
  /\ req.type = "RenderPage" => req.width \in Nat /\ req.height \in Nat

DocsOK(docs) ==
  /\ docs = [d \in DOMAIN docs |-> docs[d]] /\ DOMAIN docs \subseteq Ids
  /\ \A d \in DOMAIN docs : docs[d] \in Documents /\ ValidInfo(docs[d].info)

IsWorker(w) ==
  /\ w \in [ready : BOOLEAN, limits : Limits, docs : { w.docs }, factory : BOOLEAN,
            store : BOOLEAN, region : { w.region }]
  /\ DocsOK(w.docs)

\* What the host has to check for its request not to be refused as a fault of its.
Proper(w, req) ==
  /\ req.type = "Hello" => ValidHelloRequest(req)
  /\ req.type # "Hello" => w.ready
  /\ req.type = "OpenDocument" => ValidOpen(w.limits, req.id, req.data.size)
  /\ req.type = "RenderPage" => ValidRender(w.limits, req.id, req.width, req.height)
  /\ req.type # "Junk"

\* A turn of the loop that refuses `req`.
Refused(w, req, v, response) ==
  /\ response.type = "Error" /\ IsWorker(v)
  /\ v.docs = w.docs /\ v.limits = w.limits /\ v.store = w.store
  /\ v.ready => w.ready
  /\ Proper(w, req) => v.ready = w.ready /\ ~Oversteps(req, response.code)
  /\ Proper(w, req) /\ req.type = "CloseDocument" => req.id \notin DOMAIN w.docs

\* One that does what `req` asks for.
Granted(w, req, v, response) ==
  /\ IsWorker(v) /\ v.ready
  /\ \/ /\ req.type = "Hello" /\ response.type = "HelloOk"
        /\ v.docs = w.docs /\ ClientNegotiate(response) = v.limits
     \/ /\ req.type # "Hello" /\ w.ready /\ v.limits = w.limits
        /\ \/ req.type = "Ping" /\ response.type = "Pong" /\ v.docs = w.docs
           \/ /\ req.type = "OpenDocument" /\ response.type = "DocumentOpened"
              /\ v.docs = With(w.docs, req.id, req.data)
              /\ response.info = req.data.info
           \/ /\ req.type = "GetDocumentInfo" /\ response.type = "DocumentInfo"
              /\ v.docs = w.docs /\ req.id \in DOMAIN w.docs
              /\ response.info = w.docs[req.id].info
           \/ /\ req.type = "RenderPage" /\ response.type = "PageRendered"
              /\ v.docs = w.docs
              /\ response \in [type : { "PageRendered" }, id : { response.id },
                               page : { response.page }, raster : { response.raster },
                               shm : { response.shm }, content : { response.content }]
              /\ \/ response.shm = -1 /\ response.content = Pixels(req)
                 \/ response.shm # -1 /\ v.region = Pixels(req)
           \/ /\ req.type = "CloseDocument" /\ response.type = "Closed"
              /\ v.docs = [d \in DOMAIN w.docs \ { req.id } |-> w.docs[d]]

-----------------------------------------------------------------------------
(* One turn of the worker's loop.                                          *)

LEMMA RefuseRefuses ==
  ASSUME NEW w, IsWorker(w), NEW req, NEW code, NEW r \in Refuse(w, code),
         Oversteps(req, code) => ~Proper(w, req),
         Proper(w, req) /\ req.type = "CloseDocument" => req.id \notin DOMAIN w.docs
  PROVE  Refused(w, req, r.worker, r.response)
<1>1. r.worker = w /\ r.response = [type |-> "Error", code |-> code]
  BY DEF Refuse, Reply, Error
<1> QED BY <1>1 DEF Refused

LEMMA NegotiateAgrees ==
  ASSUME NEW hello, hello.ipc \in Nat, hello.document \in Nat, ValidHelloRequest(hello),
         NEW region
  PROVE  /\ ClientNegotiate(HelloOkOf(ServerNegotiate(hello), region)) = ServerNegotiate(hello)
         /\ ServerNegotiate(hello) \in Limits
<1>1. MaxPixelBuffer \in Nat
  BY LimitsAssumption DEF MaxPixelBuffer, PixelBufferSize, BytesPerPixel
<1>2. /\ Least(hello.document, MaxDocumentSize) \in Nat /\ Least(hello.ipc, MaxIpcMessage) \in Nat
      /\ Least(Least(hello.document, MaxDocumentSize), MaxDocumentSize)
           = Least(hello.document, MaxDocumentSize)
      /\ Least(Least(hello.ipc, MaxIpcMessage), MaxIpcMessage) = Least(hello.ipc, MaxIpcMessage)
  BY LimitsAssumption DEF Least
<1>3. /\ Least(MaxPageWidth, MaxPageWidth) = MaxPageWidth
      /\ Least(MaxPageHeight, MaxPageHeight) = MaxPageHeight
      /\ Least(MaxPixelBuffer, MaxPixelBuffer) = MaxPixelBuffer
  BY DEF Least
<1>4. ServerNegotiate(hello) \in Limits
  BY <1>1, <1>2, LimitsAssumption DEF ServerNegotiate, Limits
<1> QED BY <1>2, <1>3, <1>4 DEF ServerNegotiate, ClientNegotiate, HelloOkOf

LEMMA OnHelloAnswers ==
  ASSUME NEW w, IsWorker(w), NEW req, IsRequest(req), req.type = "Hello",
         NEW r \in OnHello(w, req)
  PROVE  Refused(w, req, r.worker, r.response) \/ Granted(w, req, r.worker, r.response)
<1>1. CASE ~ValidHelloRequest(req)
  <2> DEFINE v == [w EXCEPT !.ready = FALSE]
  <2>1. r.worker = v /\ r.response = [type |-> "Error", code |-> "ProtocolViolation"]
    BY <1>1 DEF OnHello, Refuse, Reply, Error
  <2>2. /\ v \in [ready : BOOLEAN, limits : Limits, docs : { w.docs }, factory : BOOLEAN,
                  store : BOOLEAN, region : { w.region }]
        /\ ~v.ready /\ v.docs = w.docs /\ v.limits = w.limits /\ v.store = w.store
        /\ v.region = w.region
    BY DEF IsWorker
  <2> HIDE DEF v
  <2>3. IsWorker(v)
    BY <2>2 DEF IsWorker
  <2>4. ~Proper(w, req)
    BY <1>1 DEF Proper
  <2>5. r.response.type = "Error"
    BY <2>1
  <2> QED BY <2>1, <2>2, <2>3, <2>4, <2>5 DEF Refused
<1>2. CASE ValidHelloRequest(req)
  <2> DEFINE agreed == ServerNegotiate(req)
  <2>1. agreed \in Limits
        /\ \A region : ClientNegotiate(HelloOkOf(agreed, region)) = agreed
    BY <1>2, NegotiateAgrees DEF IsRequest
  <2> HIDE DEF agreed
  <2> DEFINE ready == [w EXCEPT !.limits = agreed, !.ready = TRUE]
  <2>3. /\ ready \in [ready : BOOLEAN, limits : Limits, docs : { w.docs }, factory : BOOLEAN,
                      store : BOOLEAN, region : { w.region }]
        /\ ready.ready /\ ready.docs = w.docs /\ ready.limits = agreed
    BY <2>1 DEF IsWorker
  <2> HIDE DEF ready
  <2>4. PICK made \in BOOLEAN, region \in { 0, MaxPixelBuffer } :
          /\ r.worker \in { ready, [ready EXCEPT !.factory = FALSE, !.store = made] }
          /\ r.response = HelloOkOf(agreed, region)
    <3>1. CASE req.shm /\ w.factory
      <4>1. PICK made \in BOOLEAN :
              r = Reply([ready EXCEPT !.factory = FALSE, !.store = made],
                        HelloOkOf(agreed, IF made THEN MaxPixelBuffer ELSE 0))
        BY <1>2, <3>1 DEF OnHello, agreed, ready
      <4> QED BY <4>1 DEF Reply
    <3>2. CASE ~(req.shm /\ w.factory)
      <4>1. r = Reply(ready, HelloOkOf(agreed, 0))
        BY <1>2, <3>2 DEF OnHello, agreed, ready
      <4> QED BY <4>1 DEF Reply
    <3> QED BY <3>1, <3>2
  <2>5. /\ r.worker \in [ready : BOOLEAN, limits : Limits, docs : { w.docs },
                         factory : BOOLEAN, store : BOOLEAN, region : { w.region }]
        /\ r.worker.ready /\ r.worker.docs = w.docs /\ r.worker.limits = agreed
    BY <2>3, <2>4
  <2>6. r.response.type = "HelloOk"
    BY <2>4 DEF HelloOkOf
  <2>7. IsWorker(r.worker)
    BY <2>5 DEF IsWorker
  <2> QED BY <2>1, <2>4, <2>5, <2>6, <2>7 DEF Granted
<1> QED BY <1>1, <1>2

\* A worker that has other documents.
LEMMA WithDocs ==
  ASSUME NEW w, IsWorker(w), NEW docs, DocsOK(docs)
  PROVE  /\ IsWorker([w EXCEPT !.docs = docs])
         /\ [w EXCEPT !.docs = docs].docs = docs
         /\ [w EXCEPT !.docs = docs].limits = w.limits
         /\ [w EXCEPT !.docs = docs].ready = w.ready
<1> DEFINE v == [w EXCEPT !.docs = docs]
<1>1. /\ v \in [ready : BOOLEAN, limits : Limits, docs : { docs }, factory : BOOLEAN,
                store : BOOLEAN, region : { w.region }]
      /\ v.docs = docs /\ v.limits = w.limits /\ v.ready = w.ready /\ v.region = w.region
  BY DEF IsWorker
<1> HIDE DEF v
<1>2. IsWorker(v)
  BY <1>1 DEF IsWorker
<1> QED BY <1>1, <1>2 DEF v

LEMMA OnOpenDocumentAnswers ==
  ASSUME NEW w, IsWorker(w), w.ready, NEW req, IsRequest(req), req.type = "OpenDocument",
         NEW r \in OnOpenDocument(w, req)
  PROVE  Refused(w, req, r.worker, r.response) \/ Granted(w, req, r.worker, r.response)
<1>1. CASE ~ValidOpen(w.limits, req.id, req.data.size)
  <2>1. r \in Refuse(w, "DocumentTooLarge") /\ ~Proper(w, req)
    BY <1>1 DEF OnOpenDocument, Proper
  <2> QED BY <2>1, RefuseRefuses
<1>2. CASE r \in Refuse(w, "InvalidDocument")
  BY <1>2, RefuseRefuses DEF Oversteps
<1>3. CASE Create(req.data) # "ok" /\ r \in Refuse(w, Create(req.data))
  <2>1. ~Oversteps(req, Create(req.data))
    BY DocumentsAssumption DEF Create, IsRequest, Oversteps
  <2> QED BY <1>3, <2>1, RefuseRefuses
<1>4. CASE /\ ValidOpen(w.limits, req.id, req.data.size) /\ req.id \notin DOMAIN w.docs
           /\ ValidInfo(req.data.info) /\ r \in Opened(w, req)
  <2> DEFINE docs == With(w.docs, req.id, req.data)
             v == [w EXCEPT !.docs = docs]
  <2>1. req.id \in Ids /\ req.data \in Documents
    BY <1>4, SessionAssumption DEF IsRequest, ValidOpen, Ids
  <2>2. DocsOK(docs)
    BY <1>4, <2>1 DEF IsWorker, DocsOK, With
  <2>3. r = Reply(v, [type |-> "DocumentOpened", id |-> req.id, info |-> req.data.info])
    BY <1>4 DEF Opened
  <2> HIDE DEF docs
  <2>4. IsWorker(v) /\ v.docs = docs /\ v.limits = w.limits /\ v.ready = w.ready
    BY <2>2, WithDocs
  <2> HIDE DEF v
  <2>5. r.worker = v /\ r.response.type = "DocumentOpened"
        /\ r.response.info = req.data.info
    BY <2>3 DEF Reply
  <2> QED BY <2>4, <2>5 DEF Granted, docs
<1> QED BY <1>1, <1>2, <1>3, <1>4 DEF OnOpenDocument

LEMMA OnGetDocumentInfoAnswers ==
  ASSUME NEW w, IsWorker(w), w.ready, NEW req, req.type = "GetDocumentInfo",
         NEW r \in OnGetDocumentInfo(w, req)
  PROVE  Refused(w, req, r.worker, r.response) \/ Granted(w, req, r.worker, r.response)
<1>1. CASE req.id \notin DOMAIN w.docs
  <2>1. r \in Refuse(w, "InvalidDocument")
    BY <1>1 DEF OnGetDocumentInfo
  <2> QED BY <2>1, RefuseRefuses DEF Oversteps
<1>2. CASE req.id \in DOMAIN w.docs
  <2>1. /\ r.worker = w /\ r.response.type = "DocumentInfo"
        /\ r.response.info = w.docs[req.id].info
    BY <1>2 DEF OnGetDocumentInfo, Reply
  <2> QED BY <1>2, <2>1 DEF Granted
<1> QED BY <1>1, <1>2

\* A page that is valid has bytes, so that the frame can tell a reference to the
\* region from none.
LEMMA PublishedAnswers ==
  ASSUME NEW w, IsWorker(w), w.ready, NEW req, req.type = "RenderPage", NEW raster,
         raster.length \in Nat, NEW r \in Published(w, req, raster)
  PROVE  Granted(w, req, r.worker, r.response)
<1> DEFINE Within(v) ==
      /\ v \in [ready : BOOLEAN, limits : Limits, docs : { w.docs }, factory : BOOLEAN,
                store : BOOLEAN, region : { v.region }]
      /\ v.ready /\ v.docs = w.docs /\ v.limits = w.limits
<1>1. \A held : Within([w EXCEPT !.region = held])
                /\ [w EXCEPT !.region = held].region = held
  BY DEF IsWorker
<1>2. Within(w)
  BY DEF IsWorker
<1>3. CASE /\ w.store
           /\ r = Reply([w EXCEPT !.region = Pixels(req)],
                        PageRendered(req, [raster EXCEPT !.length = 0], raster.length, Cleared))
  <2>1. /\ r.worker = [w EXCEPT !.region = Pixels(req)]
        /\ r.response.type = "PageRendered" /\ r.response.shm = raster.length
    BY <1>3 DEF Reply, PageRendered
  <2>2. Within(r.worker) /\ r.worker.region = Pixels(req)
    BY <1>1, <2>1
  <2>6. r.response \in [type : { "PageRendered" }, id : { r.response.id },
                        page : { r.response.page }, raster : { r.response.raster },
                        shm : { r.response.shm }, content : { r.response.content }]
    BY <1>3 DEF Reply, PageRendered
  <2>3. IsWorker(r.worker)
    BY <2>2 DEF IsWorker
  <2> HIDE DEF Within
  <2>4. r.worker.ready /\ r.worker.docs = w.docs /\ r.worker.limits = w.limits
    BY <2>2 DEF Within
  <2>5. r.response.shm # -1
    BY <2>1
  <2> QED BY <2>1, <2>2, <2>3, <2>4, <2>5, <2>6 DEF Granted
<1>4. ASSUME NEW v, v = w \/ \E held : v = [w EXCEPT !.region = held],
             r = Reply(v, PageRendered(req, raster, -1, Pixels(req)))
      PROVE  Granted(w, req, r.worker, r.response)
  <2>1. /\ r.worker = v /\ r.response.type = "PageRendered" /\ r.response.shm = -1
        /\ r.response.content = Pixels(req)
        /\ r.response \in [type : { "PageRendered" }, id : { r.response.id },
                           page : { r.response.page }, raster : { r.response.raster },
                           shm : { r.response.shm }, content : { r.response.content }]
    BY <1>4 DEF Reply, PageRendered
  <2>2. Within(v)
    BY <1>1, <1>2, <1>4
  <2>3. IsWorker(v)
    BY <2>2 DEF IsWorker
  <2>4. v.ready /\ v.docs = w.docs /\ v.limits = w.limits
    BY <2>2
  <2> QED BY <2>1, <2>3, <2>4 DEF Granted
<1> QED BY <1>3, <1>4 DEF Published

LEMMA OnRenderPageAnswers ==
  ASSUME NEW w, IsWorker(w), w.ready, NEW req, IsRequest(req), req.type = "RenderPage",
         NEW r \in OnRenderPage(w, req)
  PROVE  Refused(w, req, r.worker, r.response) \/ Granted(w, req, r.worker, r.response)
<1>1. CASE ~ValidRender(w.limits, req.id, req.width, req.height)
  <2>1. r \in Refuse(w, "ResourceLimitExceeded") /\ ~Proper(w, req)
    BY <1>1 DEF OnRenderPage, Proper
  <2> QED BY <2>1, RefuseRefuses
<1>2. CASE r \in Refuse(w, "InvalidDocument") \/ r \in Refuse(w, "RenderingFailed")
  BY <1>2, RefuseRefuses DEF Oversteps
<1>3. ASSUME NEW raster \in Rasters(req.width, req.height), ValidPage(raster),
             r \in Published(w, req, raster)
      PROVE  Granted(w, req, r.worker, r.response)
  <2>1. /\ raster.width = req.width /\ raster.height = req.height
        /\ raster.stride = req.width * 4
    BY DEF Rasters, BytesPerPixel
  <2>2. req.width \in Nat /\ req.height \in Nat
    BY DEF IsRequest
  <2>3. raster.length = (req.width * 4) * req.height
    BY <1>3, <2>1 DEF ValidPage
  <2>4. raster.length \in Nat
    BY <2>2, <2>3
  <2> QED BY <1>3, <2>4, PublishedAnswers
<1> QED BY <1>1, <1>2, <1>3 DEF OnRenderPage

LEMMA OnCloseDocumentAnswers ==
  ASSUME NEW w, IsWorker(w), w.ready, NEW req, req.type = "CloseDocument",
         NEW r \in OnCloseDocument(w, req)
  PROVE  Refused(w, req, r.worker, r.response) \/ Granted(w, req, r.worker, r.response)
<1>1. CASE req.id \notin DOMAIN w.docs
  <2>1. r \in Refuse(w, "InvalidDocument")
    BY <1>1 DEF OnCloseDocument
  <2> QED BY <1>1, <2>1, RefuseRefuses DEF Oversteps
<1>2. CASE req.id \in DOMAIN w.docs
  <2> DEFINE docs == [d \in DOMAIN w.docs \ { req.id } |-> w.docs[d]]
             v == [w EXCEPT !.docs = docs]
  <2>1. r.worker = v /\ r.response.type = "Closed"
    BY <1>2 DEF OnCloseDocument, Reply, Restrict
  <2>2. DocsOK(docs)
    BY DEF IsWorker, DocsOK
  <2> HIDE DEF docs
  <2>3. IsWorker(v) /\ v.docs = docs /\ v.limits = w.limits /\ v.ready = w.ready
    BY <2>2, WithDocs
  <2> HIDE DEF v
  <2> QED BY <2>1, <2>3 DEF Granted, docs
<1> QED BY <1>1, <1>2

\* Whatever a worker is asked, it does or refuses, and what is proper it does not
\* refuse as a fault of the host.
LEMMA HandleAnswers ==
  ASSUME NEW w, IsWorker(w), NEW req, IsRequest(req), req.type # "Junk",
         NEW r \in Handle(w, req)
  PROVE  Refused(w, req, r.worker, r.response) \/ Granted(w, req, r.worker, r.response)
<1>1. CASE req.type = "Hello"
  BY <1>1, OnHelloAnswers DEF Handle
<1>2. CASE req.type # "Hello" /\ ~w.ready
  <2>1. r \in Refuse(w, "ProtocolViolation") /\ ~Proper(w, req)
    BY <1>2 DEF Handle, Proper
  <2> QED BY <2>1, RefuseRefuses
<1>3. CASE w.ready /\ req.type = "Ping"
  <2>1. r.worker = w /\ r.response.type = "Pong"
    BY <1>3 DEF Handle, OnPing, Reply
  <2> QED BY <1>3, <2>1 DEF Granted
<1>4. CASE w.ready /\ req.type = "OpenDocument"
  BY <1>4, OnOpenDocumentAnswers DEF Handle
<1>5. CASE w.ready /\ req.type = "GetDocumentInfo"
  BY <1>5, OnGetDocumentInfoAnswers DEF Handle
<1>6. CASE w.ready /\ req.type = "RenderPage"
  BY <1>6, OnRenderPageAnswers DEF Handle
<1>7. CASE w.ready /\ req.type = "CloseDocument"
  BY <1>7, OnCloseDocumentAnswers DEF Handle
<1> QED BY <1>1, <1>2, <1>3, <1>4, <1>5, <1>6, <1>7 DEF IsRequest

-----------------------------------------------------------------------------
(* The invariant.                                                          *)

Phases == { "new", "up", "closing", "closed", "down" }

IsHost(h) ==
  /\ h \in [kind : { "session", "any" }, phase : Phases, call : { h.call }, limits : Limits,
            docs : { h.docs }, region : { h.region }, next : Nat, page : { h.page }]
  /\ DOMAIN h.docs \subseteq Ids /\ h.page.have = h.page.want
  /\ h.call = NoCall \/ IsRequest(h.call)

\* The pipe: what is in it was asked for by a call that waits, and while it is
\* there no answer is under way.  A frame whose length is legal holds a request.
PipeOK ==
  /\ process \in { "running", "exit0", "exit1", "killed" } /\ stdin \in { "open", "closed" }
  /\ reader \in [header : 0..HeaderSize, body : Nat]
  /\ reader.header < HeaderSize => reader.body = 0
  /\ frame \in [request : { frame.request }, announced : Nat, length : Nat,
                written : 0 .. HeaderSize + PayloadLength]
  /\ LegalLength(frame.announced) => IsRequest(frame.request)
  /\ frame # NoFrame => reply = NoReply
  /\ stdin = "open" <=> host.phase \in { "new", "up", "closing" }
  /\ stdin = "open" /\ Idle => frame = NoFrame /\ reply = NoReply
  /\ stdin = "closed" => Idle /\ reply = NoReply
  /\ host.phase = "closed" => frame = NoFrame

\* The limits of the two sides are the same but while an answer that changes them
\* is under way, or was lost with a worker that died.
LimitsOK ==
  /\ worker.ready /\ stdin = "open" /\ reply = NoReply /\ (process = "running" \/ Idle) =>
       host.limits = worker.limits
  /\ worker.ready /\ reply # NoReply /\ reply.type # "HelloOk" => host.limits = worker.limits
  /\ reply.type = "HelloOk" => worker.ready /\ ClientNegotiate(reply) = worker.limits

\* A session's call fits the phase it is in; the ids it draws are new.
CallOK ==
  /\ host.phase = "new" =>
       /\ Idle \/ host.call.type = "Hello"
       /\ host.docs = [d \in {} |-> d] /\ DOMAIN worker.docs = {} /\ host.next = 1
  /\ host.phase = "up" =>
       /\ Idle \/ host.call.type \in { "OpenDocument", "GetDocumentInfo", "RenderPage" }
       /\ DOMAIN worker.docs \cup DOMAIN host.docs \subseteq 1 .. host.next - 1
       /\ host.call.type = "OpenDocument" =>
            /\ host.call.id = host.next - 1 /\ host.call.id \in Ids \ DOMAIN host.docs
            /\ frame # NoFrame => host.call.id \notin DOMAIN worker.docs
       /\ host.call.type = "GetDocumentInfo" => host.call.id \in Ids
  /\ host.phase = "closing" => Idle \/ host.call.type = "CloseDocument"
  /\ host.phase \in { "up", "closing" } => worker.ready

\* What is in the pipe is the call, and the worker will not find fault with it.
InFlight ==
  stdin = "open" /\ frame # NoFrame => frame = Frame(host.call) /\ Proper(worker, host.call)

\* What is on its way back answers the call.
Answered ==
  reply # NoReply =>
    \/ reply.type = "Error" /\ ~Oversteps(host.call, reply.code)
       /\ (host.call.type = "OpenDocument" => host.call.id \notin DOMAIN worker.docs)
    \/ host.call.type = "Hello" /\ reply.type = "HelloOk"
    \/ /\ \/ host.call.type = "OpenDocument" /\ reply.type = "DocumentOpened"
          \/ host.call.type = "GetDocumentInfo" /\ reply.type = "DocumentInfo"
       /\ host.call.id \in DOMAIN worker.docs
       /\ reply.info = worker.docs[host.call.id].info
    \/ /\ host.call.type = "RenderPage" /\ reply.type = "PageRendered"
       /\ reply \in [type : { "PageRendered" }, id : { reply.id }, page : { reply.page },
                     raster : { reply.raster }, shm : { reply.shm },
                     content : { reply.content }]
       /\ \/ reply.shm = -1 /\ reply.content = Pixels(host.call)
          \/ reply.shm # -1 /\ worker.region = Pixels(host.call)
    \/ host.call.type = "CloseDocument" /\ reply.type = "Closed"

\* Both sides have the same documents, but for the one a call opens; while the
\* session closes them, the worker has those that are not asked for yet.
Mirror ==
  /\ host.phase = "up" =>
       \A d \in DOMAIN worker.docs \cup DOMAIN host.docs :
         \/ host.call.type = "OpenDocument" /\ host.call.id = d
         \/ /\ d \in DOMAIN worker.docs \cap DOMAIN host.docs
            /\ host.docs[d] = worker.docs[d].info
  /\ host.phase = "closing" =>
       \A d \in DOMAIN worker.docs :
         /\ d \in DOMAIN host.docs
         /\ d > host.next \/ (d = host.next /\ host.call.type = "CloseDocument"
                               /\ host.call.id = d /\ reply = NoReply)
  /\ host.phase = "closed" => DOMAIN worker.docs = {}

SessionOK == CallOK /\ InFlight /\ Answered /\ Mirror

IInv ==
  /\ IsWorker(worker) /\ IsHost(host) /\ PipeOK /\ LimitsOK
  /\ host.kind = "session" => SessionOK
  /\ host.kind = "any" => host.phase \notin { "closing", "closed" } /\ DOMAIN host.docs = {}

LEMMA NoLimitsType == NoLimits \in Limits
  BY DEF NoLimits, Limits

LEMMA InitHolds == Init => IInv
<1> SUFFICES ASSUME Init PROVE IInv
  OBVIOUS
<1>1. IsWorker(worker) /\ DOMAIN worker.docs = {} /\ ~worker.ready
  <2> DEFINE none == [d \in {} |-> d]
  <2>1. DocsOK(none) /\ DOMAIN none = {}
    BY DEF DocsOK
  <2> HIDE DEF none
  <2>2. worker = [ready |-> FALSE, limits |-> NoLimits, docs |-> none, factory |-> TRUE,
                  store |-> FALSE, region |-> Torn]
    BY DEF Init, NewWorker, none
  <2>3. /\ worker \in [ready : BOOLEAN, limits : Limits, docs : { none }, factory : BOOLEAN,
                       store : BOOLEAN, region : { Torn }]
        /\ ~worker.ready /\ worker.docs = none
    BY <2>2, NoLimitsType
  <2> QED BY <2>1, <2>3 DEF IsWorker
<1>2. /\ IsHost(host) /\ Idle /\ host.phase = "new" /\ host.next = 1
      /\ host.docs = [d \in {} |-> d] /\ DOMAIN host.docs = {}
  <2> DEFINE none == [d \in {} |-> d]
  <2>1. DOMAIN none = {}
    OBVIOUS
  <2> HIDE DEF none
  <2>2. PICK kind \in { "session", "any" } :
          host = [kind |-> kind, phase |-> "new", call |-> NoCall, limits |-> NoLimits,
                  docs |-> none, region |-> 0, next |-> 1, page |-> NoPage]
    BY DEF Init, none
  <2>3. NoPage.have = NoPage.want
    BY DEF NoPage
  <2>4. /\ host \in [kind : { "session", "any" }, phase : Phases, call : { host.call },
                     limits : Limits, docs : { host.docs }, region : { host.region },
                     next : Nat, page : { host.page }]
        /\ host.call = NoCall /\ host.phase = "new" /\ host.next = 1 /\ host.docs = none
        /\ host.page = NoPage
    BY <2>2, NoLimitsType DEF Phases
  <2> QED BY <2>1, <2>3, <2>4 DEF IsHost, Idle, none
<1>3. PipeOK
  BY <1>2 DEF Init, PipeOK, NoFrame, LegalLength, HeaderSize, PayloadLength
<1>4. LimitsOK /\ Answered
  BY <1>1 DEF Init, LimitsOK, Answered, NoReply
<1>5. CallOK /\ InFlight /\ Mirror
  BY <1>1, <1>2 DEF Init, CallOK, InFlight, Mirror
<1> QED BY <1>1, <1>2, <1>3, <1>4, <1>5 DEF IInv, SessionOK

-----------------------------------------------------------------------------
(* The host calls.                                                         *)

LEMMA CallingHost ==
  ASSUME IsHost(host), NEW req, IsRequest(req)
  PROVE  /\ IsHost(Calling(req)) /\ Calling(req).call = req
         /\ Calling(req).kind = host.kind /\ Calling(req).phase = host.phase
         /\ Calling(req).limits = host.limits /\ Calling(req).docs = host.docs
         /\ Calling(req).next = host.next
<1> DEFINE h == Calling(req)
<1>1. /\ h \in [kind : { "session", "any" }, phase : Phases, call : { req }, limits : Limits,
                docs : { host.docs }, region : { host.region }, next : Nat,
                page : { NoPage }]
      /\ h.call = req /\ h.page = NoPage /\ h.kind = host.kind /\ h.phase = host.phase
      /\ h.limits = host.limits /\ h.docs = host.docs /\ h.next = host.next
      /\ h.region = host.region
  BY DEF Calling, IsHost
<1>2. NoPage.have = NoPage.want
  BY DEF NoPage
<1>3. DOMAIN host.docs \subseteq Ids
  BY DEF IsHost
<1> HIDE DEF h
<1>4. IsHost(h)
  BY <1>1, <1>2, <1>3 DEF IsHost
<1> QED BY <1>1, <1>4 DEF h

LEMMA HostNext ==
  ASSUME NEW h, IsHost(h), NEW n \in Nat
  PROVE  LET g == [h EXCEPT !.next = n]
         IN  /\ IsHost(g) /\ g.next = n /\ g.call = h.call /\ g.kind = h.kind
             /\ g.phase = h.phase /\ g.limits = h.limits /\ g.docs = h.docs
<1> DEFINE g == [h EXCEPT !.next = n]
<1>1. /\ g \in [kind : { "session", "any" }, phase : Phases, call : { h.call }, limits : Limits,
                docs : { h.docs }, region : { h.region }, next : Nat, page : { h.page }]
      /\ g.next = n /\ g.call = h.call /\ g.kind = h.kind /\ g.phase = h.phase
      /\ g.limits = h.limits /\ g.docs = h.docs /\ g.region = h.region /\ g.page = h.page
  BY DEF IsHost
<1> HIDE DEF g
<1>2. IsHost(g)
  BY <1>1 DEF IsHost
<1> QED BY <1>1, <1>2 DEF g

LEMMA HostPhase ==
  ASSUME NEW h, IsHost(h), NEW phase \in Phases
  PROVE  LET g == [h EXCEPT !.phase = phase]
         IN  /\ IsHost(g) /\ g.phase = phase /\ g.call = h.call /\ g.kind = h.kind
             /\ g.next = h.next /\ g.limits = h.limits /\ g.docs = h.docs
<1> DEFINE g == [h EXCEPT !.phase = phase]
<1>1. /\ g \in [kind : { "session", "any" }, phase : Phases, call : { h.call }, limits : Limits,
                docs : { h.docs }, region : { h.region }, next : Nat, page : { h.page }]
      /\ g.phase = phase /\ g.call = h.call /\ g.kind = h.kind /\ g.next = h.next
      /\ g.limits = h.limits /\ g.docs = h.docs /\ g.region = h.region /\ g.page = h.page
  BY DEF IsHost
<1> HIDE DEF g
<1>2. IsHost(g)
  BY <1>1 DEF IsHost
<1> QED BY <1>1, <1>2 DEF g

\* The request is in the pipe, of a host that goes on.
LEMMA CallPipe ==
  ASSUME IInv, NEW req, IsRequest(req), Call(req), stdin = "open",
         host'.call = req, host'.limits = host.limits, host'.phase \in { "new", "up", "closing" }
  PROVE  IsWorker(worker)' /\ PipeOK' /\ LimitsOK' /\ Answered'
<1>1. /\ host.call = NoCall /\ frame = NoFrame /\ reply = NoReply /\ frame' = Frame(req)
      /\ UNCHANGED << worker, process, stdin, reader, reply >>
  BY DEF Call, Idle
<1>2. ~Idle'
  BY DEF Idle, NoCall, IsRequest
<1>3. frame' \in [request : { frame'.request }, announced : Nat, length : Nat,
                  written : 0 .. HeaderSize + PayloadLength]
      /\ frame'.request = req
  BY <1>1 DEF Frame, HeaderSize, PayloadLength
<1>4. PipeOK'
  BY <1>1, <1>2, <1>3 DEF IInv, PipeOK
<1>5. LimitsOK'
  BY <1>1 DEF IInv, LimitsOK, Idle, NoReply
<1>6. Answered'
  BY <1>1 DEF Answered
<1> QED BY <1>1, <1>4, <1>5, <1>6 DEF IInv

LEMMA CodeHelloProper ==
  ASSUME NEW shm \in BOOLEAN
  PROVE  /\ IsRequest(CodeHello(shm)) /\ CodeHello(shm).type = "Hello"
         /\ Proper(worker, CodeHello(shm))
<1>1. MaxDocumentSize \in Nat \ {0} /\ MaxIpcMessage \in Nat /\ MinIpcMessage \in Nat
      /\ MinIpcMessage <= MaxIpcMessage
  BY LimitsAssumption
<1> QED BY <1>1 DEF CodeHello, IsRequest, Proper, ValidHelloRequest

LEMMA ConnectKeeps ==
  ASSUME IInv, Connect
  PROVE  IInv'
<1>1. PICK shm \in BOOLEAN : Call(CodeHello(shm)) /\ host' = Calling(CodeHello(shm))
  BY DEF Connect
<1> DEFINE req == CodeHello(shm)
<1>2. IsRequest(req) /\ req.type = "Hello" /\ Proper(worker, req)
  BY CodeHelloProper
<1> HIDE DEF req
<1>3. /\ IsHost(host') /\ host'.call = req /\ host'.kind = "session" /\ host'.phase = "new"
      /\ host'.limits = host.limits /\ host'.docs = host.docs /\ host'.next = host.next
  BY <1>1, <1>2, CallingHost DEF IInv, req, Connect
<1>4. /\ stdin = "open" /\ frame' = Frame(req) /\ Call(req)
      /\ UNCHANGED << worker, reply, stdin >>
  BY <1>1 DEF Connect, IInv, PipeOK, Call, req
<1>5. IsWorker(worker)' /\ PipeOK' /\ LimitsOK' /\ Answered'
  BY <1>2, <1>3, <1>4, CallPipe
<1>6. CallOK' /\ InFlight' /\ Mirror'
  BY <1>2, <1>3, <1>4 DEF Connect, IInv, SessionOK, CallOK, InFlight, Mirror
<1> QED BY <1>3, <1>5, <1>6 DEF IInv, SessionOK

\* A session that may call has the limits of its worker.
LEMMA IdleAgrees ==
  ASSUME IInv, Idle, host.kind = "session", host.phase \in { "up", "closing" }
  PROVE  /\ stdin = "open" /\ worker.ready /\ host.limits = worker.limits
         /\ frame = NoFrame /\ reply = NoReply
<1>1. stdin = "open"
  BY DEF IInv, PipeOK
<1>2. frame = NoFrame /\ reply = NoReply
  BY <1>1 DEF IInv, PipeOK
<1>3. worker.ready
  BY DEF IInv, SessionOK, CallOK
<1> QED BY <1>1, <1>2, <1>3 DEF IInv, LimitsOK

LEMMA SendDocumentKeeps ==
  ASSUME IInv, SendDocument
  PROVE  IInv'
<1>1. PICK data \in Documents :
        /\ ValidOpen(host.limits, host.next, data.size) /\ Call(OpenReq(host.next, data))
        /\ host' = [Calling(OpenReq(host.next, data)) EXCEPT !.next = @ + 1]
  BY DEF SendDocument
<1> DEFINE req == OpenReq(host.next, data)
<1>2. /\ host.next \in Ids /\ host.next \in Nat /\ host.next + 1 \in Nat
      /\ host.phase = "up" /\ host.kind = "session"
  BY SessionAssumption DEF SendDocument, Ids
<1>3. /\ IsRequest(req) /\ req.type = "OpenDocument" /\ req.id = host.next
      /\ req.data = data
  BY <1>2, SessionAssumption DEF OpenReq, IsRequest, Ids
<1>4. Call(req) /\ Idle
  BY <1>1 DEF Call
<1>5. Proper(worker, req)
  BY <1>1, <1>2, <1>3, <1>4, IdleAgrees DEF Proper
<1>6. /\ IsHost(Calling(req)) /\ Calling(req).call = req /\ Calling(req).kind = "session"
      /\ Calling(req).phase = "up" /\ Calling(req).limits = host.limits
      /\ Calling(req).docs = host.docs /\ Calling(req).next = host.next
  BY <1>2, <1>3, CallingHost DEF IInv
<1>7. host' = [Calling(req) EXCEPT !.next = host.next + 1]
  BY <1>1, <1>6
<1> HIDE DEF req
<1>8. /\ IsHost(host') /\ host'.call = req /\ host'.kind = "session" /\ host'.phase = "up"
      /\ host'.limits = host.limits /\ host'.docs = host.docs /\ host'.next = host.next + 1
  BY <1>2, <1>6, <1>7, HostNext
<1>9. stdin = "open" /\ frame' = Frame(req) /\ UNCHANGED << worker, reply, stdin >>
  BY <1>2, <1>4, IdleAgrees DEF Call
<1>10. IsWorker(worker)' /\ PipeOK' /\ LimitsOK' /\ Answered'
  BY <1>3, <1>4, <1>8, <1>9, CallPipe
<1>11. /\ DOMAIN worker.docs \cup DOMAIN host.docs \subseteq 1 .. host.next - 1
       /\ host.next \notin DOMAIN worker.docs \cup DOMAIN host.docs
       /\ DOMAIN worker.docs \cup DOMAIN host.docs \subseteq 1 .. host.next
       /\ host.next + 1 - 1 = host.next
  BY <1>2 DEF IInv, SessionOK, CallOK
<1>12. CallOK'
  BY <1>2, <1>3, <1>8, <1>9, <1>11 DEF CallOK, IInv, SessionOK
<1>13. InFlight'
  BY <1>5, <1>8, <1>9 DEF InFlight
<1>14. Mirror'
  <2>1. host.call.type # "OpenDocument"
    BY <1>4 DEF Idle, NoCall
  <2> QED BY <1>2, <1>8, <1>9, <2>1 DEF Mirror, IInv, SessionOK
<1> QED BY <1>8, <1>10, <1>12, <1>13, <1>14 DEF IInv, SessionOK

\* A call that draws no id.
LEMMA AskKeeps ==
  ASSUME IInv, host.kind = "session", host.phase = "up", NEW req, IsRequest(req),
         req.type \in { "GetDocumentInfo", "RenderPage" }, Proper(worker, req), Call(req),
         req.type = "GetDocumentInfo" => req.id \in Ids, host' = Calling(req)
  PROVE  IInv'
<1>1. /\ IsHost(host') /\ host'.call = req /\ host'.kind = "session" /\ host'.phase = "up"
      /\ host'.limits = host.limits /\ host'.docs = host.docs /\ host'.next = host.next
  BY CallingHost DEF IInv
<1>2. Idle /\ stdin = "open" /\ frame' = Frame(req) /\ UNCHANGED << worker, reply, stdin >>
  BY IdleAgrees DEF Call
<1>3. IsWorker(worker)' /\ PipeOK' /\ LimitsOK' /\ Answered'
  BY <1>1, <1>2, CallPipe
<1>4. CallOK' /\ InFlight'
  BY <1>1, <1>2 DEF CallOK, InFlight, IInv, SessionOK
<1>5. Mirror'
  <2>1. host.call.type # "OpenDocument"
    BY <1>2 DEF Idle, NoCall
  <2> QED BY <1>1, <1>2, <2>1 DEF Mirror, IInv, SessionOK
<1> QED BY <1>1, <1>3, <1>4, <1>5 DEF IInv, SessionOK

LEMMA GetDocumentInfoKeeps ==
  ASSUME IInv, GetDocumentInfo
  PROVE  IInv'
<1>1. PICK id \in DOMAIN host.docs : Call(InfoReq(id)) /\ host' = Calling(InfoReq(id))
  BY DEF GetDocumentInfo
<1> DEFINE req == InfoReq(id)
<1>2. IsRequest(req) /\ req.type = "GetDocumentInfo" /\ req.id = id
  BY DEF InfoReq, IsRequest
<1>3. /\ host.kind = "session" /\ host.phase = "up" /\ Call(req) /\ Idle /\ host' = Calling(req)
      /\ id \in Ids
  BY <1>1 DEF GetDocumentInfo, IInv, IsHost, Call
<1> HIDE DEF req
<1>4. Proper(worker, req)
  BY <1>2, <1>3, IdleAgrees DEF Proper
<1> QED BY <1>2, <1>3, <1>4, AskKeeps

LEMMA RenderPageKeeps ==
  ASSUME IInv, RenderPage
  PROVE  IInv'
<1>1. PICK id \in 1..MaxIds, page \in 0..1, target \in Targets :
        LET req == RenderReq(id, page, target)
        IN  /\ ValidRender(host.limits, id, req.width, req.height)
            /\ Call(req) /\ host' = Calling(req)
  BY DEF RenderPage
<1> DEFINE req == RenderReq(id, page, target)
<1>2. IsRequest(req) /\ req.type = "RenderPage" /\ req.id = id
  BY SessionAssumption DEF RenderReq, IsRequest
<1>3. /\ host.kind = "session" /\ host.phase = "up" /\ Call(req) /\ Idle /\ host' = Calling(req)
      /\ ValidRender(host.limits, id, req.width, req.height)
  BY <1>1 DEF RenderPage, Call
<1> HIDE DEF req
<1>4. Proper(worker, req)
  BY <1>2, <1>3, IdleAgrees DEF Proper
<1> QED BY <1>2, <1>3, <1>4, AskKeeps

LEMMA CloseSessionKeeps ==
  ASSUME IInv, CloseSession
  PROVE  IInv'
<1>1. /\ host.kind = "session" /\ host.phase = "up" /\ Idle
      /\ UNCHANGED << worker, process, stdin, frame, reader, reply >>
  BY DEF CloseSession
<1>2. /\ IsHost(host') /\ host'.call = host.call /\ host'.kind = "session"
      /\ host'.phase = "closing" /\ host'.limits = host.limits /\ host'.docs = host.docs
      /\ host'.next = 0
  <2> DEFINE h == [host EXCEPT !.phase = "closing"]
  <2>1. /\ IsHost(h) /\ h.call = host.call /\ h.kind = "session" /\ h.phase = "closing"
        /\ h.limits = host.limits /\ h.docs = host.docs
    BY <1>1, HostPhase DEF IInv, Phases
  <2>2. host' = [h EXCEPT !.next = 0]
    BY DEF CloseSession
  <2> HIDE DEF h
  <2> QED BY <2>1, <2>2, HostNext
<1>3. PipeOK' /\ LimitsOK'
  BY <1>1, <1>2 DEF IInv, PipeOK, LimitsOK, Idle
<1>4. CallOK'
  BY <1>1, <1>2 DEF CallOK, IInv, SessionOK, Idle
<1>5. InFlight' /\ Answered'
  BY <1>1, <1>2 DEF InFlight, Answered, IInv, SessionOK
<1>6. Mirror'
  <2>1. host.call.type # "OpenDocument"
    BY <1>1 DEF Idle, NoCall
  <2>2. \A d \in DOMAIN worker.docs : d > 0
    BY DEF IInv, IsWorker, DocsOK, Ids
  <2> QED BY <1>1, <1>2, <2>1, <2>2 DEF Mirror, IInv, SessionOK
<1> QED BY <1>1, <1>2, <1>3, <1>4, <1>5, <1>6 DEF IInv, SessionOK

LEMMA CloseNextKeeps ==
  ASSUME IInv, CloseNext
  PROVE  IInv'
<1>1. PICK id \in DOMAIN host.docs :
        /\ id > host.next /\ \A d \in DOMAIN host.docs : d > host.next => id <= d
        /\ Call(CloseReq(id)) /\ host' = [Calling(CloseReq(id)) EXCEPT !.next = id]
  BY DEF CloseNext
<1> DEFINE req == CloseReq(id)
<1>2. /\ IsRequest(req) /\ req.type = "CloseDocument" /\ req.id = id
  BY DEF CloseReq, IsRequest
<1>3. /\ host.kind = "session" /\ host.phase = "closing" /\ Call(req) /\ Idle
      /\ id \in Ids /\ id \in Nat
  BY <1>1 DEF CloseNext, IInv, IsHost, Ids, Call
<1>4. Proper(worker, req)
  BY <1>2, <1>3, IdleAgrees DEF Proper
<1>5. /\ IsHost(Calling(req)) /\ Calling(req).call = req /\ Calling(req).kind = "session"
      /\ Calling(req).phase = "closing" /\ Calling(req).limits = host.limits
      /\ Calling(req).docs = host.docs
  BY <1>2, <1>3, CallingHost DEF IInv
<1>6. host' = [Calling(req) EXCEPT !.next = id]
  BY <1>1
<1> HIDE DEF req
<1>7. /\ IsHost(host') /\ host'.call = req /\ host'.kind = "session"
      /\ host'.phase = "closing" /\ host'.limits = host.limits /\ host'.docs = host.docs
      /\ host'.next = id
  BY <1>3, <1>5, <1>6, HostNext
<1>8. /\ stdin = "open" /\ frame' = Frame(req) /\ reply = NoReply
      /\ UNCHANGED << worker, reply, stdin >>
  BY <1>3, IdleAgrees DEF Call
<1>9. IsWorker(worker)' /\ PipeOK' /\ LimitsOK' /\ Answered'
  BY <1>2, <1>3, <1>7, <1>8, CallPipe
<1>10. CallOK' /\ InFlight'
  BY <1>2, <1>3, <1>4, <1>7, <1>8 DEF CallOK, InFlight, IInv, SessionOK
<1>11. Mirror'
  <2> SUFFICES ASSUME NEW d \in DOMAIN worker.docs
               PROVE  d \in DOMAIN host.docs /\ (d > id \/ d = id)
    BY <1>2, <1>7, <1>8 DEF Mirror
  <2>1. host.call.type # "CloseDocument"
    BY <1>3 DEF Idle, NoCall
  <2>2. d \in DOMAIN host.docs /\ d > host.next
    BY <1>3, <2>1 DEF Mirror, IInv, SessionOK
  <2>3. d \in Nat
    BY DEF IInv, IsWorker, DocsOK, Ids
  <2> QED BY <1>1, <1>3, <2>2, <2>3
<1> QED BY <1>7, <1>9, <1>10, <1>11 DEF IInv, SessionOK

LEMMA ClosedAllKeeps ==
  ASSUME IInv, ClosedAll
  PROVE  IInv'
<1> DEFINE none == [d \in {} |-> d]
           h == [host EXCEPT !.phase = "closed", !.docs = none]
<1>1. /\ host.phase = "closing" /\ host.kind = "session" /\ Idle /\ host' = h
      /\ stdin' = "closed" /\ UNCHANGED << worker, process, frame, reader, reply >>
      /\ \A id \in DOMAIN host.docs : id <= host.next
  BY DEF ClosedAll, IInv, IsHost
<1>2. DOMAIN none = {}
  OBVIOUS
<1> HIDE DEF none
<1>3. /\ h \in [kind : { "session", "any" }, phase : Phases, call : { host.call },
                limits : Limits, docs : { none }, region : { host.region }, next : Nat,
                page : { host.page }]
      /\ h.phase = "closed" /\ h.call = host.call /\ h.kind = host.kind /\ h.docs = none
      /\ h.limits = host.limits /\ h.next = host.next /\ h.page = host.page
      /\ h.region = host.region
  BY DEF IInv, IsHost, Phases
<1> HIDE DEF h
<1>4. IsHost(h)
  BY <1>2, <1>3 DEF IInv, IsHost
<1>5. frame = NoFrame /\ reply = NoReply
  BY <1>1, IdleAgrees
<1>6. DOMAIN worker.docs = {}
  <2> SUFFICES ASSUME NEW d \in DOMAIN worker.docs PROVE FALSE
    OBVIOUS
  <2>1. host.call.type # "CloseDocument"
    BY <1>1 DEF Idle, NoCall
  <2>2. d \in DOMAIN host.docs /\ d > host.next
    BY <1>1, <2>1 DEF Mirror, IInv, SessionOK
  <2>3. d \in Nat /\ host.next \in Nat
    BY DEF IInv, IsWorker, DocsOK, IsHost, Ids
  <2> QED BY <1>1, <2>2, <2>3
<1>7. PipeOK'
  BY <1>1, <1>3, <1>5 DEF IInv, PipeOK, Idle
<1>8. LimitsOK'
  BY <1>1, <1>5 DEF IInv, LimitsOK
<1>9. CallOK' /\ InFlight' /\ Answered' /\ Mirror'
  BY <1>1, <1>3, <1>5, <1>6 DEF CallOK, InFlight, Answered, Mirror
<1> QED BY <1>1, <1>3, <1>4, <1>7, <1>8, <1>9 DEF IInv, SessionOK

LEMMA AnyRequestIs ==
  ASSUME NEW req \in AnyRequest
  PROVE  IsRequest(req)
<1>1. CASE req \in Hellos
  <2>1. req.type = "Hello" /\ req.version \in BOOLEAN /\ req.document \in Nat
        /\ req.ipc \in Nat /\ req.shm \in BOOLEAN
    BY <1>1, SessionAssumption
  <2> QED BY <2>1 DEF IsRequest
<1>2. CASE req = [type |-> "Ping", nonce |-> 7]
  BY <1>2 DEF IsRequest
<1>3. CASE \E id \in AnyIds, data \in Documents : req = OpenReq(id, data)
  BY <1>3, SessionAssumption DEF OpenReq, IsRequest
<1>4. CASE \E id \in AnyIds : req \in { InfoReq(id), CloseReq(id) }
  BY <1>4 DEF InfoReq, CloseReq, IsRequest
<1>5. CASE \E id \in AnyIds, page \in 0..1, target \in Targets : req = RenderReq(id, page, target)
  BY <1>5, SessionAssumption DEF RenderReq, IsRequest
<1> QED BY <1>1, <1>2, <1>3, <1>4, <1>5 DEF AnyRequest

LEMMA SpeakKeeps ==
  ASSUME IInv, Speak
  PROVE  IInv'
<1>1. PICK req \in AnyRequest : Call(req) /\ host' = [Calling(req) EXCEPT !.phase = "up"]
  BY DEF Speak
<1>2. IsRequest(req) /\ host.kind = "any" /\ stdin = "open"
  BY AnyRequestIs DEF Speak
<1>3. /\ IsHost(Calling(req)) /\ Calling(req).call = req /\ Calling(req).kind = "any"
      /\ Calling(req).limits = host.limits /\ Calling(req).docs = host.docs
  BY <1>2, CallingHost DEF IInv
<1>4. /\ IsHost(host') /\ host'.call = req /\ host'.kind = "any" /\ host'.phase = "up"
      /\ host'.limits = host.limits /\ host'.docs = host.docs
  BY <1>1, <1>3, HostPhase DEF Phases
<1>5. IsWorker(worker)' /\ PipeOK' /\ LimitsOK'
  BY <1>1, <1>2, <1>4, CallPipe
<1> QED BY <1>2, <1>4, <1>5 DEF IInv

LEMMA BabbleKeeps ==
  ASSUME IInv, Babble
  PROVE  IInv'
<1> DEFINE junk == [type |-> "Junk"]
<1>1. PICK announced \in { 0, 1, PayloadLength, PayloadLength + 1, MaxIpcMessage + 1 } :
        frame' = [request |-> junk, announced |-> announced,
                  length |-> PayloadLength, written |-> HeaderSize + PayloadLength]
  BY DEF Babble
<1>2. /\ host.kind = "any" /\ stdin = "open" /\ Idle /\ host' = Calling(junk)
      /\ UNCHANGED << worker, process, stdin, reader, reply >>
  BY DEF Babble
<1>3. IsRequest(junk) /\ junk.type = "Junk"
  BY DEF IsRequest
<1> HIDE DEF junk
<1>4. /\ IsHost(host') /\ host'.call = junk /\ host'.kind = "any" /\ host'.phase = host.phase
      /\ host'.limits = host.limits /\ host'.docs = host.docs
  BY <1>2, <1>3, CallingHost DEF IInv
<1>5. announced \in Nat
  BY LimitsAssumption DEF PayloadLength
<1>6. /\ frame' \in [request : { frame'.request }, announced : Nat, length : Nat,
                     written : 0 .. HeaderSize + PayloadLength]
      /\ frame'.request = junk
  BY <1>1, <1>5 DEF HeaderSize, PayloadLength
<1>7. ~Idle' /\ reply = NoReply
  BY <1>2, <1>3, <1>4 DEF Idle, NoCall, IInv, PipeOK
<1>8. PipeOK'
  BY <1>2, <1>3, <1>4, <1>6, <1>7 DEF IInv, PipeOK
<1>9. LimitsOK'
  BY <1>2, <1>4, <1>7 DEF IInv, LimitsOK, Idle
<1> QED BY <1>2, <1>4, <1>8, <1>9 DEF IInv

-----------------------------------------------------------------------------
(* The worker reads, answers and ends.                                     *)

\* Steps that leave the worker's state, the host and the answer alone, and the
\* frame or take it away.
LEMMA WorkerEnds ==
  ASSUME IInv, UNCHANGED << worker, stdin, reply, host >>, frame' \in { frame, NoFrame },
         process' \in { process, "exit0", "exit1", "killed" },
         reader' \in [header : 0..HeaderSize, body : Nat],
         reader'.header < HeaderSize => reader'.body = 0
  PROVE  IInv'
<1>1. NoFrame \in [request : { NoFrame.request }, announced : Nat, length : Nat,
                   written : 0 .. HeaderSize + PayloadLength]
      /\ ~LegalLength(NoFrame.announced)
  BY DEF NoFrame, LegalLength, HeaderSize, PayloadLength
<1>2. PipeOK'
  BY <1>1 DEF IInv, PipeOK, Idle
<1>3. LimitsOK'
  BY DEF IInv, LimitsOK, Idle
<1>4. host.kind = "session" => SessionOK'
  BY DEF IInv, SessionOK, CallOK, InFlight, Answered, Mirror, Idle
<1> QED BY <1>2, <1>3, <1>4 DEF IInv

LEMMA ReadKeeps ==
  ASSUME IInv, ReadHeader \/ ReadBody \/ RefuseLength \/ ReadEof
  PROVE  IInv'
<1>1. reader \in [header : 0..HeaderSize, body : Nat] /\ HeaderSize = 4
      /\ frame.announced \in Nat /\ frame.written \in Nat
      /\ (reader.header < HeaderSize => reader.body = 0)
  BY DEF IInv, PipeOK, HeaderSize, PayloadLength
<1>2. CASE ReadHeader
  <2>1. PICK n \in 1 .. Least(Available, HeaderSize - reader.header) :
          reader' = [reader EXCEPT !.header = @ + n]
    BY <1>2 DEF ReadHeader
  <2>2. n \in 1 .. HeaderSize - reader.header
    BY <1>1, <2>1 DEF Least, Available, Taken
  <2>3. reader.header + n \in 0..HeaderSize /\ reader.body = 0
    BY <1>1, <1>2, <2>2 DEF ReadHeader, HeaderDone
  <2>4. reader' \in [header : 0..HeaderSize, body : Nat] /\ reader'.body = 0
    BY <1>1, <2>1, <2>3
  <2> QED BY <1>2, <2>4, WorkerEnds DEF ReadHeader
<1>3. CASE ReadBody
  <2>1. PICK n \in 1 .. Least(Available, frame.announced - reader.body) :
          reader' = [reader EXCEPT !.body = @ + n]
    BY <1>3 DEF ReadBody
  <2>2. reader.body + n \in Nat /\ reader.header = HeaderSize
    BY <1>1, <1>3, <2>1 DEF ReadBody, HeaderDone
  <2>3. reader' \in [header : 0..HeaderSize, body : Nat] /\ reader'.header = HeaderSize
    BY <1>1, <2>1, <2>2
  <2>4. ~(reader'.header < HeaderSize)
    BY <1>1, <2>3
  <2> QED BY <1>3, <2>3, <2>4, WorkerEnds DEF ReadBody
<1>4. CASE RefuseLength \/ ReadEof
  <2>1. /\ process' \in { "exit0", "exit1" } /\ frame' = NoFrame
        /\ UNCHANGED << worker, stdin, reader, reply, host >>
    BY <1>4 DEF RefuseLength, ReadEof, Exit
  <2> QED BY <1>1, <2>1, WorkerEnds
<1> QED BY <1>2, <1>3, <1>4

LEMMA WorkerCrashKeeps ==
  ASSUME IInv, WorkerCrash
  PROVE  IInv'
<1>1. /\ process' = "killed" /\ frame' = NoFrame /\ reply' = NoReply
      /\ UNCHANGED << worker, stdin, reader, host >>
  BY DEF WorkerCrash
<1>2. NoFrame \in [request : { NoFrame.request }, announced : Nat, length : Nat,
                   written : 0 .. HeaderSize + PayloadLength]
      /\ ~LegalLength(NoFrame.announced)
  BY DEF NoFrame, LegalLength, HeaderSize, PayloadLength
<1>3. PipeOK'
  BY <1>1, <1>2 DEF IInv, PipeOK, Idle
<1>4. LimitsOK'
  BY <1>1 DEF IInv, LimitsOK, PipeOK, Idle, NoReply
<1>5. host.kind = "session" => SessionOK'
  BY <1>1 DEF IInv, SessionOK, CallOK, InFlight, Answered, Mirror, Idle
<1> QED BY <1>1, <1>3, <1>4, <1>5 DEF IInv

\* What the worker reads is a request or none, and it does it or refuses it.
LEMMA AnswerAnswers ==
  ASSUME IInv, Answer
  PROVE  \E response :
           /\ \/ Refused(worker, Decoded, worker', response)
              \/ Granted(worker, Decoded, worker', response)
           /\ IF stdin = "closed" THEN process' = "exit1" /\ UNCHANGED reply
              ELSE reply' = response /\ UNCHANGED process
<1>1. IsRequest(Decoded)
  BY DEF Answer, IInv, PipeOK, Decoded, IsRequest
<1>2. PICK r \in IF Decoded.type = "Junk" THEN Refuse(worker, "ProtocolViolation")
                ELSE Handle(worker, Decoded) :
        /\ worker' = r.worker
        /\ IF stdin = "closed" THEN process' = "exit1" /\ UNCHANGED reply
           ELSE reply' = r.response /\ UNCHANGED process
  BY DEF Answer
<1>3. \/ Refused(worker, Decoded, r.worker, r.response)
      \/ Granted(worker, Decoded, r.worker, r.response)
  <2>1. IsWorker(worker)
    BY DEF IInv
  <2>2. CASE Decoded.type = "Junk"
    BY <1>2, <2>1, <2>2, RefuseRefuses DEF Proper
  <2>3. CASE Decoded.type # "Junk"
    BY <1>1, <1>2, <2>1, <2>3, HandleAnswers
  <2> QED BY <2>2, <2>3
<1> QED BY <1>2, <1>3

LEMMA AnswerKeeps ==
  ASSUME IInv, Answer
  PROVE  IInv'
<1>1. /\ process = "running" /\ LegalLength(frame.announced) /\ frame' = NoFrame
      /\ reader.header = HeaderSize
      /\ reader' = [header |-> 0, body |-> 0] /\ UNCHANGED << stdin, host >>
  BY DEF Answer, HeaderDone
<1>2. PICK response :
        /\ \/ Refused(worker, Decoded, worker', response)
           \/ Granted(worker, Decoded, worker', response)
        /\ IF stdin = "closed" THEN process' = "exit1" /\ UNCHANGED reply
           ELSE reply' = response /\ UNCHANGED process
  BY AnswerAnswers
<1>3. IsWorker(worker)'
  BY <1>2 DEF Refused, Granted
<1>4. /\ NoFrame \in [request : { NoFrame.request }, announced : Nat, length : Nat,
                      written : 0 .. HeaderSize + PayloadLength]
      /\ ~LegalLength(NoFrame.announced)
  BY DEF NoFrame, LegalLength, HeaderSize, PayloadLength
<1>5. frame # NoFrame /\ reply = NoReply
  BY <1>1, <1>4 DEF IInv, PipeOK
<1>6. /\ reader' \in [header : 0..HeaderSize, body : Nat] /\ reader'.body = 0
  BY <1>1 DEF HeaderSize
<1>7. CASE stdin = "closed"
  <2>1. host.phase = "down" /\ reply' = NoReply /\ process' = "exit1"
    BY <1>2, <1>5, <1>7 DEF IInv, PipeOK, IsHost, Phases
  <2>2. PipeOK' /\ LimitsOK'
    BY <1>1, <1>4, <1>6, <1>7, <2>1 DEF IInv, PipeOK, LimitsOK, Idle, NoReply
  <2>3. CallOK' /\ InFlight' /\ Answered' /\ Mirror'
    BY <1>1, <2>1 DEF CallOK, InFlight, Answered, Mirror
  <2> QED BY <1>1, <1>3, <2>2, <2>3 DEF IInv, SessionOK
<1>8. CASE stdin = "open"
  <2>1. reply' = response /\ process' = "running" /\ ~Idle /\ response.type # "none"
    BY <1>1, <1>2, <1>5, <1>8 DEF IInv, PipeOK, Refused, Granted
  <2>2. reply' # NoReply
    BY <2>1 DEF NoReply
  <2>3. PipeOK'
    BY <1>1, <1>4, <1>6, <1>8, <2>1 DEF IInv, PipeOK, Idle
  <2>4. LimitsOK'
    <3>1. worker.ready => host.limits = worker.limits
      BY <1>1, <1>5, <1>8 DEF IInv, LimitsOK
    <3>2. CASE Refused(worker, Decoded, worker', response)
      BY <1>1, <2>1, <2>2, <3>1, <3>2 DEF Refused, LimitsOK
    <3>3. CASE Granted(worker, Decoded, worker', response)
      BY <1>1, <2>1, <2>2, <3>1, <3>3 DEF Granted, LimitsOK
    <3> QED BY <1>2, <3>2, <3>3
  <2>5. ASSUME host.kind = "session" PROVE SessionOK'
    <3> DEFINE req == host.call
    <3>1. frame = Frame(req) /\ Proper(worker, req)
      BY <1>5, <1>8, <2>5 DEF IInv, SessionOK, InFlight
    <3>2. Decoded = req
      BY <1>1, <3>1 DEF Decoded, Frame
    <3>3. CallOK /\ Mirror /\ req' = req /\ host' = host
      BY <1>1, <2>5 DEF IInv, SessionOK
    <3>4. Refused(worker, req, worker', response) \/ Granted(worker, req, worker', response)
      BY <1>2, <3>2
    <3>5. IsRequest(req)
      BY <2>1 DEF IInv, IsHost, Idle
    <3>6. CallOK'
      <4>1. worker'.docs = worker.docs
            \/ (req.type = "OpenDocument" /\ worker'.docs = With(worker.docs, req.id, req.data))
            \/ (req.type = "CloseDocument" /\ DOMAIN worker'.docs \subseteq DOMAIN worker.docs)
        BY <3>4 DEF Refused, Granted
      <4>2. host.phase = "up" => DOMAIN worker'.docs \subseteq 1 .. host.next - 1
        BY <2>1, <3>3, <4>1 DEF CallOK, With, Ids
      <4>3. host.phase = "new" => DOMAIN worker'.docs = {}
        BY <2>1, <3>3, <4>1 DEF CallOK
      <4>4. worker.ready => worker'.ready
        BY <3>1, <3>4 DEF Refused, Granted
      <4> QED BY <1>1, <3>3, <4>2, <4>3, <4>4 DEF CallOK, Idle
    <3>7. InFlight'
      BY <1>1 DEF InFlight
    <3>8. Answered'
      <4>1. CASE Refused(worker, req, worker', response)
        <5>1. req.type = "OpenDocument" => req.id \notin DOMAIN worker.docs
          BY <1>5, <1>8, <2>1, <3>3 DEF CallOK, IInv, PipeOK, Idle
        <5> QED BY <1>1, <2>1, <3>1, <4>1, <5>1 DEF Refused, Answered
      <4>2. CASE Granted(worker, req, worker', response)
        <5>1. req.type # "Ping"
          BY <1>8, <2>1, <3>3 DEF CallOK, IInv, PipeOK
        <5>2. CASE req.type = "OpenDocument"
          <6>1. /\ response.type = "DocumentOpened" /\ response.info = req.data.info
                /\ worker'.docs = With(worker.docs, req.id, req.data)
            BY <4>2, <5>2 DEF Granted
          <6>2. req.id \in DOMAIN worker'.docs /\ worker'.docs[req.id] = req.data
            BY <6>1 DEF With
          <6> QED BY <1>1, <2>1, <5>2, <6>1, <6>2 DEF Answered
        <5>3. CASE req.type # "OpenDocument"
          BY <1>1, <2>1, <4>2, <5>1, <5>3 DEF Granted, Answered
        <5> QED BY <5>2, <5>3
      <4> QED BY <3>4, <4>1, <4>2
    <3>9. Mirror'
      <4>1. CASE host.phase = "up"
        <5>1. req.type \in { "OpenDocument", "GetDocumentInfo", "RenderPage" }
          BY <2>1, <3>3, <4>1 DEF CallOK
        <5>2. \/ worker'.docs = worker.docs
              \/ /\ req.type = "OpenDocument"
                 /\ worker'.docs = With(worker.docs, req.id, req.data)
          BY <3>4, <5>1 DEF Refused, Granted
        <5>3. CASE worker'.docs = worker.docs
          BY <1>1, <3>3, <4>1, <5>3 DEF Mirror
        <5>4. CASE /\ req.type = "OpenDocument"
                   /\ worker'.docs = With(worker.docs, req.id, req.data)
          BY <1>1, <3>3, <4>1, <5>4 DEF Mirror, With
        <5> QED BY <5>2, <5>3, <5>4
      <4>2. CASE host.phase = "closing"
        <5>1. req.type = "CloseDocument"
          BY <2>1, <3>3, <4>2 DEF CallOK
        <5>2. /\ DOMAIN worker'.docs \subseteq DOMAIN worker.docs
              /\ req.id \notin DOMAIN worker'.docs
          BY <3>1, <3>4, <5>1 DEF Refused, Granted
        <5> QED BY <1>1, <3>3, <4>2, <5>2 DEF Mirror
      <4>3. CASE host.phase \notin { "up", "closing" }
        <5>1. host.phase = "new"
          BY <1>8, <4>3 DEF IInv, PipeOK
        <5> QED BY <1>1, <5>1 DEF Mirror
      <4> QED BY <4>1, <4>2, <4>3
    <3> QED BY <3>6, <3>7, <3>8, <3>9 DEF SessionOK
  <2> QED BY <1>1, <1>3, <2>3, <2>4, <2>5 DEF IInv
<1> QED BY <1>7, <1>8 DEF IInv, PipeOK

-----------------------------------------------------------------------------
(* The host gives up, or takes the answer.                                 *)

LEMMA DownHost ==
  ASSUME IsHost(host)
  PROVE  /\ IsHost(Down(host)) /\ Down(host).phase = "down" /\ Down(host).call = NoCall
         /\ Down(host).kind = host.kind /\ Down(host).docs = host.docs
<1> DEFINE h == Down(host)
<1>1. /\ h \in [kind : { "session", "any" }, phase : Phases, call : { NoCall },
                limits : Limits, docs : { host.docs }, region : { host.region },
                next : Nat, page : { host.page }]
      /\ h.phase = "down" /\ h.call = NoCall /\ h.kind = host.kind /\ h.docs = host.docs
      /\ h.page = host.page /\ h.region = host.region
  BY DEF Down, IsHost, Phases
<1> HIDE DEF h
<1>2. IsHost(h)
  BY <1>1 DEF IsHost
<1> QED BY <1>1, <1>2 DEF h

\* A host that is down, whatever became of the worker and of its frame.
LEMMA DownKeeps ==
  ASSUME IInv, host' = Down(host), stdin' = "closed", reply' = NoReply,
         UNCHANGED << worker, reader >>, process' \in { process, "killed" },
         frame' = NoFrame \/ \E n \in Taken .. frame.written : frame' = [frame EXCEPT !.written = n]
  PROVE  IInv'
<1>1. /\ IsHost(host') /\ host'.phase = "down" /\ host'.call = NoCall
      /\ host'.kind = host.kind /\ host'.docs = host.docs
  BY DownHost DEF IInv
<1>2. /\ frame' \in [request : { frame'.request }, announced : Nat, length : Nat,
                     written : 0 .. HeaderSize + PayloadLength]
      /\ LegalLength(frame'.announced) => IsRequest(frame'.request)
  <2>1. CASE frame' = NoFrame
    BY <2>1 DEF NoFrame, LegalLength, HeaderSize, PayloadLength
  <2>2. ASSUME NEW n \in Taken .. frame.written, frame' = [frame EXCEPT !.written = n]
        PROVE  /\ frame' \in [request : { frame'.request }, announced : Nat, length : Nat,
                              written : 0 .. HeaderSize + PayloadLength]
               /\ frame'.announced = frame.announced /\ frame'.request = frame.request
    <3>1. Taken \in Nat /\ frame.written \in 0 .. HeaderSize + PayloadLength
      BY DEF IInv, PipeOK, Taken, HeaderSize
    <3>2. n \in 0 .. HeaderSize + PayloadLength
      BY <3>1 DEF HeaderSize, PayloadLength
    <3> QED BY <2>2, <3>2 DEF IInv, PipeOK
  <2> QED BY <2>1, <2>2 DEF IInv, PipeOK
<1>3. PipeOK'
  BY <1>1, <1>2 DEF IInv, PipeOK, Idle
<1>4. LimitsOK'
  BY DEF LimitsOK, NoReply
<1>5. CallOK' /\ InFlight' /\ Answered' /\ Mirror'
  BY <1>1 DEF CallOK, InFlight, Answered, Mirror
<1> QED BY <1>1, <1>3, <1>4, <1>5 DEF IInv, SessionOK

LEMMA TerminateKeeps ==
  ASSUME IInv, Terminate
  PROVE  IInv'
  BY DownKeeps DEF Terminate

LEMMA HostGoneKeeps ==
  ASSUME IInv, HostGone
  PROVE  IInv'
  BY DownKeeps DEF HostGone

\* The answer is taken by a host that goes on, with what it learns from it.
LEMMA ReceivedPipe ==
  ASSUME IInv, reply # NoReply, reply' = NoReply, IsHost(host'), host'.call = NoCall,
         host'.phase \in { "new", "up", "closing" },
         host'.limits = IF reply.type = "HelloOk" THEN ClientNegotiate(reply) ELSE host.limits,
         UNCHANGED << worker, process, stdin, frame, reader >>
  PROVE  PipeOK' /\ LimitsOK' /\ InFlight' /\ Answered'
<1>1. frame = NoFrame /\ stdin = "open"
  BY DEF IInv, PipeOK
<1>2. PipeOK'
  BY <1>1 DEF IInv, PipeOK, Idle
<1>3. LimitsOK'
  BY DEF IInv, LimitsOK, NoReply
<1>4. InFlight' /\ Answered'
  BY <1>1 DEF InFlight, Answered
<1> QED BY <1>2, <1>3, <1>4

LEMMA ReceiveAnyKeeps ==
  ASSUME IInv, ReceiveAny
  PROVE  IInv'
<1> DEFINE limits == IF reply.type = "HelloOk" THEN ClientNegotiate(reply) ELSE host.limits
           h == [Returned(host) EXCEPT !.limits = limits]
<1>1. /\ host.kind = "any" /\ reply # NoReply /\ reply' = NoReply
      /\ UNCHANGED << worker, process, stdin, frame, reader >>
      /\ host' = [Returned(host) EXCEPT !.limits = IF reply.type = "HelloOk"
                                                    THEN ClientNegotiate(reply) ELSE @]
  BY DEF ReceiveAny
<1>2. limits \in Limits
  BY DEF IInv, LimitsOK, IsWorker, IsHost
<1>3. host' = h
  BY <1>1 DEF Returned, IInv, IsHost
<1> HIDE DEF limits
<1>4. /\ h \in [kind : { "session", "any" }, phase : Phases, call : { NoCall },
                limits : Limits, docs : { host.docs }, region : { host.region },
                next : Nat, page : { host.page }]
      /\ h.phase = host.phase /\ h.call = NoCall /\ h.kind = host.kind /\ h.docs = host.docs
      /\ h.page = host.page /\ h.region = host.region /\ h.limits = limits
  BY <1>2 DEF Returned, IInv, IsHost
<1> HIDE DEF h
<1>5. IsHost(h)
  BY <1>4 DEF IInv, IsHost
<1>6. host.phase \in { "new", "up", "closing" }
  BY <1>1 DEF IInv, PipeOK
<1>7. PipeOK' /\ LimitsOK'
  BY <1>1, <1>3, <1>4, <1>5, <1>6, ReceivedPipe DEF limits
<1> QED BY <1>1, <1>3, <1>4, <1>5, <1>7 DEF IInv

LEMMA ReturnedHost ==
  ASSUME IsHost(host)
  PROVE  /\ IsHost(Returned(host)) /\ Returned(host).call = NoCall
         /\ Returned(host).kind = host.kind /\ Returned(host).phase = host.phase
         /\ Returned(host).limits = host.limits /\ Returned(host).docs = host.docs
         /\ Returned(host).next = host.next
<1> DEFINE h == Returned(host)
<1>1. /\ h \in [kind : { "session", "any" }, phase : Phases, call : { NoCall },
                limits : Limits, docs : { host.docs }, region : { host.region },
                next : Nat, page : { host.page }]
      /\ h.phase = host.phase /\ h.call = NoCall /\ h.kind = host.kind /\ h.docs = host.docs
      /\ h.page = host.page /\ h.region = host.region /\ h.limits = host.limits
      /\ h.next = host.next
  BY DEF Returned, IsHost
<1> HIDE DEF h
<1>2. IsHost(h)
  BY <1>1 DEF IsHost
<1> QED BY <1>1, <1>2 DEF h

\* The page that is copied out of the region is what the region holds.
LEMMA NormalizedContent ==
  ASSUME NEW rendered,
         rendered \in [type : { "PageRendered" }, id : { rendered.id },
                       page : { rendered.page }, raster : { rendered.raster },
                       shm : { rendered.shm }, content : { rendered.content }]
  PROVE  Normalized(rendered).content =
           IF rendered.shm = -1 THEN rendered.content ELSE worker.region
  BY DEF Normalized

\* What a session makes of each answer it takes.
LEMMA TakesHelloOk ==
  ASSUME IInv, host.kind = "session", reply # NoReply, host.call.type = "Hello",
         reply.type = "HelloOk", NEW usable \in BOOLEAN,
         host' = Taking(host.call, reply, usable), host'.phase # "down"
  PROVE  /\ IsHost(host') /\ host'.kind = "session" /\ host'.phase = "up"
         /\ host'.call = NoCall /\ host'.limits = ClientNegotiate(reply)
         /\ host'.docs = host.docs /\ host'.next = host.next
<1> DEFINE limits == ClientNegotiate(reply)
           h == [Returned(host) EXCEPT !.phase = "up", !.region = reply.region,
                                       !.limits = limits]
<1>1. host' = h
  BY DownHost DEF Taking, IInv
<1>2. limits \in Limits
  BY DEF IInv, LimitsOK, IsWorker
<1> HIDE DEF limits
<1>3. /\ h \in [kind : { "session", "any" }, phase : Phases, call : { NoCall },
                limits : Limits, docs : { host.docs }, region : { h.region },
                next : Nat, page : { host.page }]
      /\ h.phase = "up" /\ h.call = NoCall /\ h.kind = host.kind /\ h.docs = host.docs
      /\ h.page = host.page /\ h.limits = limits /\ h.next = host.next
  BY <1>2 DEF Returned, IInv, IsHost, Phases
<1> HIDE DEF h
<1>4. IsHost(h)
  BY <1>3 DEF IInv, IsHost
<1> QED BY <1>1, <1>3, <1>4 DEF limits

LEMMA TakesDocument ==
  ASSUME IInv, reply.type \in { "DocumentOpened", "DocumentInfo" }, host.call.id \in Ids,
         NEW usable \in BOOLEAN, host' = Taking(host.call, reply, usable)
  PROVE  /\ IsHost(host') /\ host'.kind = host.kind /\ host'.phase = host.phase
         /\ host'.call = NoCall /\ host'.limits = host.limits /\ host'.next = host.next
         /\ host'.docs = With(host.docs, host.call.id, reply.info)
<1> DEFINE docs == With(host.docs, host.call.id, reply.info)
           h == [Returned(host) EXCEPT !.docs = docs]
<1>1. host' = h
  BY ReturnedHost DEF Taking, Returned, IInv, IsHost
<1>2. DOMAIN docs \subseteq Ids
  BY DEF With, IInv, IsHost
<1> HIDE DEF docs
<1>3. /\ h \in [kind : { "session", "any" }, phase : Phases, call : { NoCall },
                limits : Limits, docs : { docs }, region : { host.region },
                next : Nat, page : { host.page }]
      /\ h.phase = host.phase /\ h.call = NoCall /\ h.kind = host.kind /\ h.docs = docs
      /\ h.page = host.page /\ h.limits = host.limits /\ h.next = host.next
      /\ h.region = host.region
  BY DEF Returned, IInv, IsHost
<1> HIDE DEF h
<1>4. IsHost(h)
  BY <1>2, <1>3 DEF IInv, IsHost
<1> QED BY <1>1, <1>3, <1>4 DEF docs

LEMMA TakesPage ==
  ASSUME IInv, reply.type = "PageRendered", Normalized(reply).content = Pixels(host.call),
         NEW usable \in BOOLEAN, host' = Taking(host.call, reply, usable)
  PROVE  /\ IsHost(host') /\ host'.kind = host.kind /\ host'.phase = host.phase
         /\ host'.call = NoCall /\ host'.limits = host.limits /\ host'.next = host.next
         /\ host'.docs = host.docs
<1> DEFINE page == [want |-> Pixels(host.call), have |-> Normalized(reply).content]
           h == [Returned(host) EXCEPT !.page = page]
<1>1. host' = h
  BY DEF Taking
<1>2. page.want = page.have
  OBVIOUS
<1> HIDE DEF page
<1>3. /\ h \in [kind : { "session", "any" }, phase : Phases, call : { NoCall },
                limits : Limits, docs : { host.docs }, region : { host.region },
                next : Nat, page : { page }]
      /\ h.phase = host.phase /\ h.call = NoCall /\ h.kind = host.kind /\ h.docs = host.docs
      /\ h.page = page /\ h.limits = host.limits /\ h.next = host.next
      /\ h.region = host.region
  BY DEF Returned, IInv, IsHost
<1> HIDE DEF h
<1>4. IsHost(h)
  BY <1>2, <1>3 DEF IInv, IsHost
<1> QED BY <1>1, <1>3, <1>4

\* An answer from which the session learns nothing.
LEMMA TakesNothing ==
  ASSUME IInv, reply.type = "Closed" \/ (reply.type = "Error" /\ host.call.type # "Hello"),
         NEW usable \in BOOLEAN, host' = Taking(host.call, reply, usable)
  PROVE  /\ IsHost(host') /\ host'.kind = host.kind /\ host'.phase = host.phase
         /\ host'.call = NoCall /\ host'.limits = host.limits /\ host'.next = host.next
         /\ host'.docs = host.docs
<1>1. host' = Returned(host)
  BY DEF Taking
<1> QED BY <1>1, ReturnedHost DEF IInv

LEMMA ReceiveSessionKeeps ==
  ASSUME IInv, ReceiveSession
  PROVE  IInv'
<1>1. host.kind = "session" /\ reply # NoReply /\ host.call # NoCall /\ stdin = "open"
  BY DEF ReceiveSession, IInv, PipeOK, Idle
<1>2. CASE Terminate
  BY <1>2, TerminateKeeps
<1>3. ASSUME NEW usable \in BOOLEAN, host' = Taking(host.call, reply, usable),
             host'.phase # "down", reply' = NoReply,
             UNCHANGED << worker, process, stdin, frame, reader >>
      PROVE  IInv'
  <2> DEFINE req == host.call
  <2>1. CallOK /\ Answered /\ Mirror /\ frame = NoFrame /\ host.phase \in { "new", "up", "closing" }
    BY <1>1 DEF IInv, SessionOK, PipeOK
  <2>2. NoCall.type = "none"
    BY DEF NoCall
  <2>3. req.type # "Hello" <=> host.phase \in { "up", "closing" }
    BY <1>1, <2>1 DEF CallOK, Idle
  <2>4. CASE req.type = "Hello" /\ reply.type = "HelloOk"
    <3>1. /\ IsHost(host') /\ host'.kind = "session" /\ host'.phase = "up"
          /\ host'.call = NoCall /\ host'.limits = ClientNegotiate(reply)
          /\ host'.docs = host.docs /\ host'.next = host.next
      BY <1>1, <1>3, <2>4, TakesHelloOk
    <3>2. PipeOK' /\ LimitsOK' /\ InFlight' /\ Answered'
      BY <1>1, <1>3, <2>4, <3>1, ReceivedPipe
    <3>3. /\ host.phase = "new" /\ worker.ready /\ DOMAIN worker.docs = {}
          /\ DOMAIN host.docs = {} /\ host.next = 1
      <4>1. host.phase = "new" /\ DOMAIN worker.docs = {} /\ host.next = 1
            /\ host.docs = [d \in {} |-> d]
        BY <2>1, <2>3, <2>4 DEF CallOK
      <4>2. worker.ready
        BY <2>4 DEF IInv, LimitsOK
      <4> QED BY <4>1, <4>2
    <3>4. CallOK' /\ Mirror'
      BY <1>3, <2>2, <3>1, <3>3 DEF CallOK, Mirror, Idle
    <3> QED BY <1>3, <3>1, <3>2, <3>4 DEF IInv, SessionOK
  <2>5. CASE /\ \/ req.type = "OpenDocument" /\ reply.type = "DocumentOpened"
                \/ req.type = "GetDocumentInfo" /\ reply.type = "DocumentInfo"
             /\ req.id \in DOMAIN worker.docs /\ reply.info = worker.docs[req.id].info
    <3>1. host.phase = "up" /\ req.id \in Ids /\ DOMAIN worker.docs \subseteq Ids
      BY <1>1, <2>1, <2>3, <2>5 DEF CallOK, IInv, IsWorker, DocsOK, Idle
    <3>2. /\ IsHost(host') /\ host'.kind = "session" /\ host'.phase = "up"
          /\ host'.call = NoCall /\ host'.limits = host.limits /\ host'.next = host.next
          /\ host'.docs = With(host.docs, req.id, reply.info)
      BY <1>1, <1>3, <2>5, <3>1, TakesDocument
    <3>3. PipeOK' /\ LimitsOK' /\ InFlight' /\ Answered'
      BY <1>1, <1>3, <2>5, <3>2, ReceivedPipe
    <3>4. CallOK'
      BY <1>3, <2>1, <2>2, <2>5, <3>1, <3>2 DEF CallOK, With, Idle
    <3>5. Mirror'
      <4> SUFFICES ASSUME NEW d \in DOMAIN worker.docs \cup DOMAIN host'.docs
                   PROVE  /\ d \in DOMAIN worker.docs \cap DOMAIN host'.docs
                          /\ host'.docs[d] = worker.docs[d].info
        BY <1>3, <3>2 DEF Mirror
      <4> QED BY <2>1, <2>5, <3>1, <3>2 DEF Mirror, With
    <3> QED BY <1>3, <3>2, <3>3, <3>4, <3>5 DEF IInv, SessionOK
  <2>6. CASE \/ reply.type = "Error"
             \/ req.type = "CloseDocument" /\ reply.type = "Closed"
             \/ req.type = "RenderPage" /\ reply.type = "PageRendered"
    <3>1. req.type # "Hello"
      <4> SUFFICES ASSUME req.type = "Hello" PROVE FALSE
        OBVIOUS
      <4>1. host' = Down(host)
        BY <1>3, <2>6 DEF Taking
      <4> QED BY <1>3, <4>1, DownHost DEF IInv
    <3>2. /\ IsHost(host') /\ host'.kind = "session" /\ host'.phase = host.phase
          /\ host'.call = NoCall /\ host'.limits = host.limits /\ host'.next = host.next
          /\ host'.docs = host.docs
      <4>1. CASE req.type = "RenderPage" /\ reply.type = "PageRendered"
        <5>1. Normalized(reply).content = Pixels(req)
          BY <1>1, <2>1, <4>1, NormalizedContent DEF Answered
        <5> QED BY <1>1, <1>3, <4>1, <5>1, TakesPage
      <4>2. CASE reply.type \in { "Error", "Closed" }
        BY <1>1, <1>3, <3>1, <4>2, TakesNothing
      <4> QED BY <2>6, <4>1, <4>2
    <3>3. PipeOK' /\ LimitsOK' /\ InFlight' /\ Answered'
      BY <1>1, <1>3, <2>1, <2>6, <3>2, ReceivedPipe
    <3>4. CallOK'
      BY <1>3, <2>1, <2>2, <2>3, <3>1, <3>2 DEF CallOK, Idle
    <3>5. req.type = "OpenDocument" =>
            /\ req.id \notin DOMAIN worker.docs
            /\ host.phase = "up" => req.id \notin DOMAIN host.docs
      BY <1>1, <2>1, <2>6 DEF Answered, CallOK
    <3>6. Mirror'
      BY <1>1, <1>3, <2>1, <2>2, <2>3, <3>1, <3>2, <3>5 DEF Mirror
    <3> QED BY <1>3, <3>2, <3>3, <3>4, <3>6 DEF IInv, SessionOK
  <2> QED BY <1>1, <2>1, <2>4, <2>5, <2>6 DEF Answered
<1> QED BY <1>2, <1>3 DEF ReceiveSession

LEMMA StepKeeps ==
  ASSUME IInv, [Next]_vars
  PROVE  IInv'
<1>1. CASE Request
  BY <1>1, ConnectKeeps, SendDocumentKeeps, GetDocumentInfoKeeps, RenderPageKeeps,
     CloseSessionKeeps, CloseNextKeeps, ClosedAllKeeps, SpeakKeeps, BabbleKeeps DEF Request
<1>2. CASE WorkerStep \/ WorkerCrash
  BY <1>2, ReadKeeps, AnswerKeeps, WorkerCrashKeeps DEF WorkerStep
<1>3. CASE HostStep
  BY <1>3, ReceiveSessionKeeps, ReceiveAnyKeeps, TerminateKeeps, HostGoneKeeps
     DEF HostStep, GiveUp
<1>4. CASE UNCHANGED vars
  <2>1. PipeOK' /\ LimitsOK'
    BY <1>4 DEF vars, IInv, PipeOK, LimitsOK, Idle
  <2>2. SessionOK => SessionOK'
    BY <1>4 DEF vars, SessionOK, CallOK, InFlight, Answered, Mirror, Idle
  <2> QED BY <1>4, <2>1, <2>2 DEF IInv, vars
<1> QED BY <1>1, <1>2, <1>3, <1>4 DEF Next

-----------------------------------------------------------------------------
(* The theorems.                                                           *)

\* The call of a host, the frame in the pipe, the answer on its way back and the
\* worker's state stay tied together, whatever either side does or leaves undone
\* (process.rs, renderer-worker main.rs and worker.rs).
THEOREM SessionInvariance == Spec => []IInv
<1> QED BY InitHolds, StepKeeps, PTL DEF Spec

\* The types: a worker holds only valid documents under ids in range, a frame is
\* never read beyond its header's four bytes, and the limits are numbers, for any
\* documents and any host (worker.rs:225, framing.rs).
THEOREM SessionTypes == Spec => []TypeOK
<1>1. ASSUME IInv PROVE TypeOK
  <2>1. /\ worker.ready \in BOOLEAN /\ worker.factory \in BOOLEAN
        /\ worker.store \in BOOLEAN /\ worker.limits \in Limits
        /\ DOMAIN worker.docs \subseteq 1..MaxIds
        /\ \A d \in DOMAIN worker.docs :
             worker.docs[d] \in Documents /\ ValidInfo(worker.docs[d].info)
    BY <1>1 DEF IInv, IsWorker, DocsOK, Ids
  <2>2. /\ host.phase \in Phases /\ host.limits \in Limits
        /\ DOMAIN host.docs \subseteq 1..MaxIds
    BY <1>1 DEF IInv, IsHost, Ids
  <2>3. /\ process \in { "running", "exit0", "exit1", "killed" }
        /\ stdin \in { "open", "closed" }
        /\ reader.header \in 0..HeaderSize /\ reader.body \in Nat
        /\ frame.written \in 0 .. HeaderSize + PayloadLength
    BY <1>1 DEF IInv, PipeOK
  <2> QED BY <2>1, <2>2, <2>3 DEF TypeOK, Phases
<1> QED BY <1>1, SessionInvariance, PTL

\* What a session sends, its worker never refuses as out of order, malformed or
\* over a limit: what the host checks before it sends is what the worker checks,
\* for any limits the two agree on (process.rs, validate.rs:28, worker.rs:225).
THEOREM SessionNeverOversteps == Spec => []NeverOversteps
<1>1. ASSUME IInv PROVE NeverOversteps
  <2> SUFFICES ASSUME host.kind = "session", reply.type = "Error" PROVE ~Oversteps(host.call, reply.code)
    BY DEF NeverOversteps
  <2>1. reply # NoReply
    BY DEF NoReply
  <2> QED BY <1>1, <2>1 DEF IInv, SessionOK, Answered
<1> QED BY <1>1, SessionInvariance, PTL

\* The host knows what its worker has: the same limits, the same documents but for
\* the one that is being opened, and none after an orderly close, for any number
\* of documents (process.rs, worker.rs:249, 328).
THEOREM SessionMirrors == Spec => []SessionMirrorsWorker
<1>1. ASSUME IInv PROVE SessionMirrorsWorker
  <2>1. LimitsAgree
    <3> SUFFICES ASSUME worker.ready, host.phase = "up", Idle PROVE host.limits = worker.limits
      BY DEF LimitsAgree
    <3>1. stdin = "open" /\ reply = NoReply
      BY <1>1 DEF IInv, PipeOK
    <3> QED BY <1>1, <3>1 DEF IInv, LimitsOK
  <2>2. ASSUME host.kind = "session", host.phase = "up",
               NEW d \in DOMAIN worker.docs \cup DOMAIN host.docs
        PROVE  \/ ~Idle /\ host.call.type = "OpenDocument" /\ host.call.id = d
               \/ /\ d \in DOMAIN worker.docs \cap DOMAIN host.docs
                  /\ host.docs[d] = worker.docs[d].info
    <3>1. Idle => host.call.type # "OpenDocument"
      BY DEF Idle, NoCall
    <3> QED BY <1>1, <2>2, <3>1 DEF IInv, SessionOK, Mirror
  <2>3. ASSUME host.phase = "closed" PROVE worker.docs = [d \in {} |-> d]
    <3>1. DOMAIN worker.docs = {}
      BY <1>1, <2>3 DEF IInv, IsHost, SessionOK, Mirror
    <3>2. worker.docs = [d \in DOMAIN worker.docs |-> worker.docs[d]]
      BY <1>1 DEF IInv, IsWorker, DocsOK
    <3> QED BY <3>1, <3>2
  <2> QED BY <2>1, <2>2, <2>3 DEF SessionMirrorsWorker
<1> QED BY <1>1, SessionInvariance, PTL

\* A page that a session returns shows what was asked for, whether its raster came
\* in the frame or through the shared region (worker.rs:317, normalize_shm).
THEOREM PagesAreThoseAskedFor == Spec => []PageIsTheOneAskedFor
<1>1. IInv => PageIsTheOneAskedFor
  BY DEF IInv, IsHost, PageIsTheOneAskedFor
<1> QED BY <1>1, SessionInvariance, PTL

\* A request that is refused changes nothing, whatever the request and the state
\* it finds, a handshake in the middle of a session included (worker.rs:191).
THEOREM RefusalsChangeNothing == Spec => RefusalChangesNothing
<1> DEFINE Kept ==
      reply # reply' /\ reply'.type = "Error" =>
        /\ worker'.docs = worker.docs
        /\ worker'.limits = worker.limits
        /\ worker'.store = worker.store
<1>1. ASSUME IInv, [Next]_vars PROVE [Kept]_vars
  <2> SUFFICES ASSUME reply # reply', reply'.type = "Error"
               PROVE  /\ worker'.docs = worker.docs
                      /\ worker'.limits = worker.limits
                      /\ worker'.store = worker.store
    OBVIOUS
  <2>1. reply' # NoReply
    BY DEF NoReply
  <2>2. ~Request
    BY DEF Request, Connect, SendDocument, GetDocumentInfo, RenderPage, CloseSession,
           CloseNext, ClosedAll, Speak, Babble, Call
  <2>3. ~WorkerCrash /\ ~HostStep
    BY <2>1 DEF WorkerCrash, HostStep, ReceiveSession, ReceiveAny, GiveUp, Terminate, HostGone
  <2>4. Answer
    BY <1>1, <2>2, <2>3 DEF Next, WorkerStep, ReadHeader, RefuseLength, ReadBody, ReadEof,
                            Exit, vars
  <2>5. PICK response :
          /\ \/ Refused(worker, Decoded, worker', response)
             \/ Granted(worker, Decoded, worker', response)
          /\ reply' = response
    BY <1>1, <2>4, AnswerAnswers
  <2>6. ~Granted(worker, Decoded, worker', response)
    BY <2>5 DEF Granted
  <2> QED BY <2>5, <2>6 DEF Refused
<1>2. IInv /\ [Next]_vars => [Kept]_vars
  BY <1>1
<1> QED BY <1>2, SessionInvariance, PTL DEF Spec, RefusalChangesNothing

\* A worker that reports a clean end had read no part of a frame that it did not
\* answer (the second half of WorkerEndsWithItsHost; renderer-worker main.rs).
THEOREM CleanEndsBetweenFrames ==
  Spec => [][process' # process /\ process' = "exit0" => frame.written = 0]_vars
<1> DEFINE Clean == process' # process /\ process' = "exit0" => frame.written = 0
<1>1. ASSUME IInv, [Next]_vars PROVE [Clean]_vars
  <2> SUFFICES ASSUME process' # process, process' = "exit0" PROVE frame.written = 0
    OBVIOUS
  <2>1. ~Request /\ ~WorkerCrash
    BY DEF Request, Connect, SendDocument, GetDocumentInfo, RenderPage, CloseSession,
           CloseNext, ClosedAll, Speak, Babble, Call, WorkerCrash
  <2>2. ~HostStep
    BY DEF HostStep, ReceiveSession, ReceiveAny, GiveUp, Terminate, HostGone
  <2>3. ReadEof
    BY <1>1, <2>1, <2>2 DEF Next, WorkerStep, ReadHeader, RefuseLength, ReadBody, Answer,
                            Exit, vars
  <2>4. reader.header = 0 /\ Available = 0
    BY <2>3 DEF ReadEof, Exit, CleanEnd
  <2>5. reader.body = 0 /\ frame.written \in Nat
    BY <1>1, <2>4 DEF IInv, PipeOK, HeaderSize, PayloadLength
  <2> QED BY <2>4, <2>5 DEF Available, Taken
<1>2. IInv /\ [Next]_vars => [Clean]_vars
  BY <1>1
<1> QED BY <1>2, SessionInvariance, PTL DEF Spec
=============================================================================
