----------------------------- MODULE WorkerSession -----------------------------
(***************************************************************************)
(* A host, the pipe to its worker, and the worker's main loop.             *)
(*                                                                         *)
(* The worker (RendererWorker) reads frames from its standard input        *)
(* (crates/protocol/src/framing.rs), byte by byte as far as the pipe has   *)
(* them, and answers each (crates/renderer-worker/src/main.rs).  The host  *)
(* is either the code's own session (WorkerSession over ProcessTransport,  *)
(* crates/sandbox/src/process.rs; InProcessTransport and MockBackend make  *)
(* the same calls) or any program that speaks the protocol, as the tests   *)
(* of the worker do: it sends any request, and frames that are none.       *)
(*                                                                         *)
(* One request is in flight at a time; the threads, queues and deadlines   *)
(* between host and worker are the subject of module ProcessTransport and  *)
(* appear here as a host that gives up at any point.                       *)
(***************************************************************************)
EXTENDS RendererWorker

CONSTANTS Hellos,       \* handshakes that any host may try
          Documents,    \* the documents that are opened
          Targets,      \* pairs of width and height
          MaxIds,       \* bound: document ids a session draws
          AnyIds        \* bound: document ids any other host uses

ASSUME SessionAssumption ==
  /\ MaxIds \in Nat /\ AnyIds \subseteq 0..MaxIds /\ Targets \subseteq Nat \X Nat
  /\ Hellos \subseteq [type : {"Hello"}, version : BOOLEAN, document : Nat, ipc : Nat,
                       shm : BOOLEAN]

\* A decoder reports any error of RenderError but one: it compares the size with a
\* maximum that no negotiated limit exceeds, and that the worker has checked before
\* (validate_document_size, limits.rs:55).
ASSUME DocumentsAssumption ==
  \A data \in Documents :
    data.decode \in {"ok", "UnsupportedFormat", "InvalidDocument", "PasswordProtected",
                     "RenderingFailed", "Timeout", "ResourceLimitExceeded", "Internal"}

VARIABLES
  worker,     \* the dispatch core
  process,    \* "running", "exit0", "exit1" or "killed"
  stdin,      \* "open", or "closed" when the host's end is gone
  frame,      \* the frame in the pipe: [request, announced, length, written];
              \* `written` falls short of the whole when the host is gone
  reader,     \* bytes FrameReader has taken: [header, body]
  reply,      \* the worker's answer on its way back
  host        \* the host's side of the session

vars == << worker, process, stdin, frame, reader, reply, host >>

HeaderSize == 4
NoFrame == [request |-> [type |-> "none"], announced |-> 0, length |-> 0, written |-> 0]
NoReply == [type |-> "none"]
NoCall  == [type |-> "none"]
NoPage  == [want |-> Cleared, have |-> Cleared]

\* phase: "new" before the handshake, "up", "closing" in close_all_documents,
\* "closed" after it, "down" when the transport was terminated or never came up.
Init ==
  /\ worker = NewWorker /\ process = "running" /\ stdin = "open"
  /\ frame = NoFrame /\ reader = [header |-> 0, body |-> 0] /\ reply = NoReply
  /\ \E kind \in {"session", "any"} :
       host = [kind |-> kind, phase |-> "new", call |-> NoCall, limits |-> NoLimits,
               docs |-> [d \in {} |-> d], region |-> 0, next |-> 1, page |-> NoPage]

Idle == host.call = NoCall

-----------------------------------------------------------------------------
(* Requests.                                                               *)

OpenReq(id, data) == [type |-> "OpenDocument", id |-> id, data |-> data]
InfoReq(id)  == [type |-> "GetDocumentInfo", id |-> id]
CloseReq(id) == [type |-> "CloseDocument", id |-> id]
RenderReq(id, page, target) ==
  [type |-> "RenderPage", id |-> id, page |-> page,
   width |-> target[1], height |-> target[2]]
CodeHello(shm) == [type |-> "Hello", version |-> TRUE, document |-> MaxDocumentSize,
                   ipc |-> MaxIpcMessage, shm |-> shm]

\* A payload is the version byte, the discriminator and the body; a body of any
\* length behaves alike, so the shortest stands for all.
PayloadLength == 2

Frame(req) == [request |-> req, announced |-> PayloadLength,
               length |-> PayloadLength, written |-> HeaderSize + PayloadLength]

Call(req) == /\ Idle /\ frame = NoFrame /\ reply = NoReply
             /\ frame' = Frame(req)
             /\ UNCHANGED << worker, process, stdin, reader, reply >>

\* `page` is the page the last call returned.
Calling(req) == [host EXCEPT !.call = req, !.page = NoPage]

\* ProcessTransport::from_child_io and InProcessTransport::connect.
Connect ==
  /\ host.phase = "new" /\ host.kind = "session"
  /\ \E shm \in BOOLEAN :
       /\ Call(CodeHello(shm))
       /\ host' = Calling(CodeHello(shm))

\* WorkerSession::send_document with the id the backend drew; the transport
\* refuses a document over the limit before it is sent.
SendDocument ==
  /\ host.phase = "up" /\ host.kind = "session" /\ host.next \in 1..MaxIds
  /\ \E data \in Documents :
       /\ ValidOpen(host.limits, host.next, data.size)
       /\ Call(OpenReq(host.next, data))
       /\ host' = [Calling(OpenReq(host.next, data)) EXCEPT !.next = @ + 1]

GetDocumentInfo ==
  /\ host.phase = "up" /\ host.kind = "session"
  /\ \E id \in DOMAIN host.docs :
       Call(InfoReq(id)) /\ host' = Calling(InfoReq(id))

RenderPage ==
  /\ host.phase = "up" /\ host.kind = "session"
  /\ \E id \in 1..MaxIds, page \in 0..1, target \in Targets :
       LET req == RenderReq(id, page, target)
       IN  /\ ValidRender(host.limits, id, req.width, req.height)
           /\ Call(req) /\ host' = Calling(req)

\* close_session: close_all_documents, one request after the other, then
\* shutdown, which lets the worker see the end of its input.
CloseSession ==
  /\ host.phase = "up" /\ host.kind = "session" /\ Idle
  /\ host' = [host EXCEPT !.phase = "closing", !.next = 0]
  /\ UNCHANGED << worker, process, stdin, frame, reader, reply >>

\* `next` holds the last id asked for; a map has no order, so any order will do.
CloseNext ==
  /\ host.phase = "closing"
  /\ \E id \in DOMAIN host.docs :
       /\ id > host.next /\ \A d \in DOMAIN host.docs : d > host.next => id <= d
       /\ Call(CloseReq(id))
       /\ host' = [Calling(CloseReq(id)) EXCEPT !.next = id]

ClosedAll ==
  /\ host.phase = "closing" /\ Idle
  /\ \A id \in DOMAIN host.docs : id <= host.next
  /\ host' = [host EXCEPT !.phase = "closed", !.docs = [d \in {} |-> d]]
  /\ stdin' = "closed"
  /\ UNCHANGED << worker, process, frame, reader, reply >>

\* Any other program: any request in any order, and frames that hold none or
\* lie about their length.
AnyRequest ==
  Hellos \cup { [type |-> "Ping", nonce |-> 7] }
  \cup { OpenReq(id, data) : id \in AnyIds, data \in Documents }
  \cup { InfoReq(id) : id \in AnyIds } \cup { CloseReq(id) : id \in AnyIds }
  \cup { RenderReq(id, page, target) :
           id \in AnyIds, page \in 0..1, target \in Targets }

Speak ==
  /\ host.kind = "any" /\ stdin = "open"
  /\ \E req \in AnyRequest :
       Call(req) /\ host' = [Calling(req) EXCEPT !.phase = "up"]

Babble ==
  /\ host.kind = "any" /\ stdin = "open" /\ Idle /\ frame = NoFrame
  /\ \E announced \in {0, 1, PayloadLength, PayloadLength + 1, MaxIpcMessage + 1} :
       frame' = [request |-> [type |-> "Junk"], announced |-> announced,
                 length |-> PayloadLength, written |-> HeaderSize + PayloadLength]
  /\ host' = Calling([type |-> "Junk"])
  /\ UNCHANGED << worker, process, stdin, reader, reply >>

-----------------------------------------------------------------------------
(* The pipe, and the worker's main loop.                                   *)
(* Reads return any portion of what the pipe has.                          *)

Taken == reader.header + reader.body
Available == frame.written - Taken

\* A reader that is content with one read.
HeaderDoneAtOnce(taken) == taken > 0

HeaderDone(taken) == taken = HeaderSize

LegalLength(length) == length >= 2 /\ length <= MaxIpcMessage

Exit(code) == /\ process' = code
              /\ frame' = NoFrame
              /\ UNCHANGED << worker, stdin, reader, reply, host >>

\* FrameReader::next_frame, the loop over the header.
ReadHeader ==
  /\ process = "running" /\ ~HeaderDone(reader.header)
  /\ Available > 0
  /\ \E n \in 1 .. Least(Available, HeaderSize - reader.header) :
       reader' = [reader EXCEPT !.header = @ + n]
  /\ UNCHANGED << worker, process, stdin, frame, reply, host >>

RefuseLength ==
  /\ process = "running" /\ HeaderDone(reader.header)
  /\ ~LegalLength(frame.announced)
  /\ Exit("exit1")

\* read_exact of the announced length.
ReadBody ==
  /\ process = "running" /\ HeaderDone(reader.header)
  /\ LegalLength(frame.announced) /\ reader.body < frame.announced
  /\ Available > 0
  /\ \E n \in 1 .. Least(Available, frame.announced - reader.body) :
       reader' = [reader EXCEPT !.body = @ + n]
  /\ UNCHANGED << worker, process, stdin, frame, reply, host >>

CleanEnd(header) == header = 0

\* The end of the input is seen at a frame boundary only.
ReadEofBetweenFrames ==
  /\ process = "running" /\ stdin = "closed" /\ Available = 0 /\ reader.header = 0
  /\ Exit("exit0")

\* The end of the input: clean at a frame boundary, an error inside a frame.
ReadEof ==
  /\ process = "running" /\ stdin = "closed" /\ Available = 0
  /\ ~(HeaderDone(reader.header) /\ reader.body = frame.announced)
  /\ Exit(IF CleanEnd(reader.header) THEN "exit0" ELSE "exit1")

\* What the payload decodes to: the request, when its bytes are the frame's.
Decoded ==
  IF reader.header = HeaderSize /\ frame.announced = frame.length
  THEN frame.request ELSE [type |-> "Junk"]

\* One turn of the loop: a payload that is no request is answered and the loop
\* goes on.  An answer that cannot be written ends the worker.
Answer ==
  /\ process = "running" /\ HeaderDone(reader.header)
  /\ LegalLength(frame.announced) /\ reader.body = frame.announced
  /\ \E r \in IF Decoded.type = "Junk" THEN Refuse(worker, "ProtocolViolation")
              ELSE Handle(worker, Decoded) :
       /\ worker' = r.worker
       /\ IF stdin = "closed"
          THEN process' = "exit1" /\ UNCHANGED reply
          ELSE reply' = r.response /\ UNCHANGED process
  /\ frame' = NoFrame
  /\ reader' = [header |-> 0, body |-> 0]
  /\ UNCHANGED << stdin, host >>

\* A worker that dies on its own: a panic, or its sandbox's limits.
WorkerCrash ==
  /\ process = "running"
  /\ process' = "killed" /\ frame' = NoFrame /\ reply' = NoReply
  /\ UNCHANGED << worker, stdin, reader, host >>

-----------------------------------------------------------------------------
(* The host's side of an answer.                                           *)

Down(h) == [h EXCEPT !.phase = "down", !.call = NoCall]
Returned(h) == [h EXCEPT !.call = NoCall]

\* terminate: the child is killed and the pipe with it.
Terminate ==
  /\ host' = Down(host)
  /\ process' = IF process = "running" THEN "killed" ELSE process
  /\ stdin' = "closed" /\ frame' = NoFrame /\ reply' = NoReply
  /\ UNCHANGED << worker, reader >>

\* A deadline, a failed write or read, or the drop of the session.
GiveUp == host.kind = "session" /\ host.phase # "down" /\ Terminate

\* A host that is gone without having killed its worker, perhaps before it had
\* written all of a frame.
HostGone ==
  /\ stdin = "open"
  /\ stdin' = "closed" /\ host' = Down(host) /\ reply' = NoReply
  /\ \E n \in Taken .. frame.written : frame' = [frame EXCEPT !.written = n]
  /\ UNCHANGED << worker, process, reader >>

\* normalize_shm: the raster is copied out of the region into the answer.
NormalizableShm(rendered) ==
  \/ rendered.shm = -1
  \/ /\ host.region > 0
     /\ rendered.shm <= host.region /\ rendered.shm <= host.limits.pixels

Normalized(rendered) ==
  IF rendered.shm = -1 THEN rendered
  ELSE [rendered EXCEPT !.raster.length = rendered.shm,
                        !.shm = -1, !.content = worker.region]

\* validate_response: does the answer belong to the call, and is it sound?
Sound(call, response) ==
  CASE response.type = "Error" -> TRUE
    [] response.type = "HelloOk" ->
         call.type = "Hello" /\ ValidHelloOk(response)
    [] response.type = "DocumentOpened" ->
         /\ call.type = "OpenDocument"
         /\ ValidInfo(response.info) /\ response.id = call.id
    [] response.type = "DocumentInfo" ->
         /\ call.type = "GetDocumentInfo"
         /\ ValidInfo(response.info) /\ response.id = call.id
    [] response.type = "PageRendered" ->
         /\ call.type = "RenderPage" /\ NormalizableShm(response)
         /\ ValidRenderedPage(host.limits, Normalized(response).raster)
         /\ << response.id, response.page >> = << call.id, call.page >>
    [] response.type = "Closed" ->
         call.type = "CloseDocument" /\ response.id = call.id
    [] response.type = "Pong" -> call.type = "Ping" /\ response.nonce = call.nonce

\* What the caller makes of a sound answer.  A region that cannot be opened or
\* is too small ends the session, and so does a refused handshake.
Taking(call, response, usable) ==
  CASE response.type = "HelloOk" ->
         IF response.region > 0 /\ ~usable THEN Down(host)
         ELSE [Returned(host) EXCEPT !.phase = "up", !.region = response.region,
                                     !.limits = ClientNegotiate(response)]
    [] response.type = "Error" /\ call.type = "Hello" -> Down(host)
    [] response.type \in {"DocumentOpened", "DocumentInfo"} ->
         [Returned(host) EXCEPT !.docs = With(@, call.id, response.info)]
    [] response.type = "PageRendered" ->
         [Returned(host) EXCEPT !.page = [want |-> Pixels(call),
                                          have |-> Normalized(response).content]]
    [] OTHER -> Returned(host)

ReceiveSession ==
  /\ host.kind = "session" /\ reply # NoReply
  /\ IF ~Sound(host.call, reply) THEN Terminate
     ELSE \E usable \in BOOLEAN :
            LET after == Taking(host.call, reply, usable)
            IN  IF after.phase = "down" THEN Terminate
                ELSE /\ host' = after /\ reply' = NoReply
                     /\ UNCHANGED << worker, process, stdin, frame, reader >>

\* Any other host keeps the limits it negotiated and nothing else.
ReceiveAny ==
  /\ host.kind = "any" /\ reply # NoReply
  /\ host' = [Returned(host) EXCEPT
                !.limits = IF reply.type = "HelloOk" THEN ClientNegotiate(reply)
                           ELSE @]
  /\ reply' = NoReply
  /\ UNCHANGED << worker, process, stdin, frame, reader >>

Request == Connect \/ SendDocument \/ GetDocumentInfo \/ RenderPage
           \/ CloseSession \/ CloseNext \/ ClosedAll \/ Speak \/ Babble
WorkerStep == ReadHeader \/ RefuseLength \/ ReadBody \/ ReadEof \/ Answer
HostStep == ReceiveSession \/ ReceiveAny \/ GiveUp \/ HostGone

Next == Request \/ WorkerStep \/ WorkerCrash \/ HostStep

\* The worker process is scheduled; what the host does is its own affair.
Spec == Init /\ [][Next]_vars /\ WF_vars(WorkerStep)

-----------------------------------------------------------------------------
(* Properties.                                                             *)

TypeOK ==
  /\ worker.ready \in BOOLEAN /\ worker.factory \in BOOLEAN
  /\ worker.store \in BOOLEAN /\ worker.limits \in Limits
  /\ DOMAIN worker.docs \subseteq 1..MaxIds
  /\ \A d \in DOMAIN worker.docs :
       worker.docs[d] \in Documents /\ ValidInfo(worker.docs[d].info)
  /\ process \in {"running", "exit0", "exit1", "killed"}
  /\ stdin \in {"open", "closed"}
  /\ reader.header \in 0..HeaderSize /\ reader.body \in Nat
  /\ frame.written \in 0 .. HeaderSize + PayloadLength
  /\ host.phase \in {"new", "up", "closing", "closed", "down"}
  /\ host.limits \in Limits
  /\ DOMAIN host.docs \subseteq 1..MaxIds

\* An error that blames the request.  A document that is opened can be over a limit
\* of its decoder, which the host cannot know.
Oversteps(req, code) ==
  \/ code \in {"ProtocolViolation", "DocumentTooLarge"}
  \/ code = "ResourceLimitExceeded" /\ req.type # "OpenDocument"

\* What a session sends, the worker never refuses as out of order, malformed or
\* over a limit: the host's own checks are as strict as the worker's.
NeverOversteps ==
  host.kind = "session" /\ reply.type = "Error" => ~Oversteps(host.call, reply.code)

\* Between two calls both sides check with the same limits, whatever the host had
\* asked for and however each clamped the other's numbers (validate.rs:28, 46).
LimitsAgree ==
  worker.ready /\ host.phase = "up" /\ Idle => host.limits = worker.limits

\* The host's picture of its worker is true.  They check with the same limits;
\* the documents a session believes open are those its worker has open, with the
\* same metadata, but for the one a call in progress opens; and a session that
\* was closed in order leaves its worker without documents.
SessionMirrorsWorker ==
  /\ LimitsAgree
  /\ host.kind = "session" /\ host.phase = "up" =>
       \A d \in DOMAIN worker.docs \cup DOMAIN host.docs :
         \/ ~Idle /\ host.call.type = "OpenDocument" /\ host.call.id = d
         \/ /\ d \in DOMAIN worker.docs \cap DOMAIN host.docs
            /\ host.docs[d] = worker.docs[d].info
  /\ host.phase = "closed" => worker.docs = [d \in {} |-> d]

\* The page a session returns shows the document, page and size asked for: never
\* what the shared region held before, nor a region written in part.
PageIsTheOneAskedFor == host.page.have = host.page.want

\* A request that is answered with an error opens and closes nothing and moves
\* no limit, also when it is a handshake in the middle of a session.
RefusalChangesNothing ==
  [][reply # reply' /\ reply'.type = "Error" =>
       /\ worker'.docs = worker.docs
       /\ worker'.limits = worker.limits
       /\ worker'.store = worker.store]_vars

\* A worker whose host is gone ends, wherever in a frame the input broke off, and
\* reports a clean end only when no frame had been begun.
WorkerEndsWithItsHost ==
  /\ stdin = "closed" ~> process # "running"
  /\ [][process' # process /\ process' = "exit0" => frame.written = 0]_vars
=============================================================================
