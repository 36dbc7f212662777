---------------------------- MODULE RendererWorker ----------------------------
(***************************************************************************)
(* The dispatch core of the renderer worker                                *)
(* (crates/renderer-worker/src/worker.rs) with its shared page buffer      *)
(* (shm.rs).                                                               *)
(*                                                                         *)
(* A worker is a value                                                     *)
(*   [ready   : handshake_done,           limits : the negotiated limits,  *)
(*    docs    : document id -> the document opened under it,               *)
(*    factory : shm_factory is still there, store : shm_store is set,      *)
(*    region  : what the shared file holds]                                *)
(* and Handle(worker, request) is the set of [worker, response] a request  *)
(* can lead to.  A document is a record                                    *)
(*   [size, magic, entries, decode, info]                                  *)
(* of what DocumentFormats looks at, what its decoder says and the metadata*)
(* that decoder reports; Preview has the decoders themselves.              *)
(***************************************************************************)
EXTENDS DocumentFormats, Functions

-----------------------------------------------------------------------------
(* Renderers.                                                              *)

\* The renderer that is created, or the error it cannot be created with.
Create(data) ==
  IF Detect(data) \in RenderedFormats THEN data.decode ELSE "UnsupportedFormat"

\* What a renderer can return for a page: the raster asked for, or one whose
\* bytes do not fill its lines.
Rasters(width, height) ==
  { [width |-> width, height |-> height, stride |-> width * BytesPerPixel,
     length |-> PixelBufferSize(width, height) - missing] : missing \in {0, 1} }

-----------------------------------------------------------------------------
(* The worker.                                                             *)

\* A region written in part, and the byte vector of a page that is in the region.
Torn    == << "torn" >>
Cleared == << "cleared" >>

NewWorker ==
  [ready |-> FALSE, limits |-> NoLimits, docs |-> [d \in {} |-> d],
   factory |-> TRUE, store |-> FALSE, region |-> Torn]

Error(code) == [type |-> "Error", code |-> code]
Reply(w, response) == [worker |-> w, response |-> response]
Refuse(w, code) == { Reply(w, Error(code)) }

\* A failed second handshake forgets the documents as well.
OnHelloResetting(w, hello) ==
  IF ~ValidHelloRequest(hello)
  THEN Refuse([w EXCEPT !.ready = FALSE, !.docs = [d \in {} |-> d]],
              "ProtocolViolation")
  ELSE { Reply([w EXCEPT !.limits = ServerNegotiate(hello), !.ready = TRUE],
               HelloOkOf(ServerNegotiate(hello), 0)) }

\* The region is made at most once, by the first handshake that asks for it;
\* its creation may fail.  A later handshake does not advertise it again.
OnHello(w, hello) ==
  IF ~ValidHelloRequest(hello)
  THEN Refuse([w EXCEPT !.ready = FALSE], "ProtocolViolation")
  ELSE LET agreed == ServerNegotiate(hello)
           ready  == [w EXCEPT !.limits = agreed, !.ready = TRUE]
       IN  IF hello.shm /\ w.factory
           THEN { Reply([ready EXCEPT !.factory = FALSE, !.store = made],
                        HelloOkOf(agreed, IF made THEN MaxPixelBuffer ELSE 0)) :
                    made \in BOOLEAN }
           ELSE { Reply(ready, HelloOkOf(agreed, 0)) }

OnPing(w, req) == { Reply(w, [type |-> "Pong", nonce |-> req.nonce]) }

With(docs, id, data) ==
  [d \in DOMAIN docs \cup {id} |-> IF d = id THEN data ELSE docs[d]]

Opened(w, req) ==
  { Reply([w EXCEPT !.docs = With(@, req.id, req.data)],
          [type |-> "DocumentOpened", id |-> req.id, info |-> req.data.info]) }

\* The document is entered before its metadata is checked.
OnOpenDocumentEarly(w, req) ==
  LET entered == [w EXCEPT !.docs = With(@, req.id, req.data)]
  IN  IF ~ValidOpen(w.limits, req.id, req.data.size)
      THEN Refuse(w, "DocumentTooLarge")
      ELSE IF req.id \in DOMAIN w.docs THEN Refuse(w, "InvalidDocument")
      ELSE IF Create(req.data) # "ok" THEN Refuse(w, Create(req.data))
      ELSE IF ~ValidInfo(req.data.info) THEN Refuse(entered, "InvalidDocument")
      ELSE Opened(w, req)

OnOpenDocument(w, req) ==
  IF ~ValidOpen(w.limits, req.id, req.data.size)
  THEN Refuse(w, "DocumentTooLarge")
  ELSE IF req.id \in DOMAIN w.docs THEN Refuse(w, "InvalidDocument")
  ELSE IF Create(req.data) # "ok" THEN Refuse(w, Create(req.data))
  ELSE IF ~ValidInfo(req.data.info) THEN Refuse(w, "InvalidDocument")
  ELSE Opened(w, req)

OnGetDocumentInfo(w, req) ==
  IF req.id \notin DOMAIN w.docs THEN Refuse(w, "InvalidDocument")
  ELSE { Reply(w, [type |-> "DocumentInfo", id |-> req.id,
                   info |-> w.docs[req.id].info]) }

\* The pixels of a page: which document, page and size they show.
Pixels(req) == << req.id, req.page, req.width, req.height >>

PageRendered(req, raster, shm, content) ==
  [type |-> "PageRendered", id |-> req.id, page |-> req.page,
   raster |-> raster, shm |-> shm, content |-> content]

\* The frame refers to the region also when the page could not be stored.
PublishedUnchecked(w, req, raster) ==
  IF w.store
  THEN { Reply([w EXCEPT !.region = held],
               PageRendered(req, [raster EXCEPT !.length = 0], raster.length, Cleared)) :
           held \in {w.region, Torn, Pixels(req)} }
  ELSE { Reply(w, PageRendered(req, raster, -1, Pixels(req))) }

\* The raster rides in the region, and the frame has only its length; when it
\* cannot be stored, whole or in part, it goes in the frame.
Published(w, req, raster) ==
  LET inFrame == PageRendered(req, raster, -1, Pixels(req))
  IN  IF w.store
      THEN { Reply([w EXCEPT !.region = Pixels(req)],
                   PageRendered(req, [raster EXCEPT !.length = 0],
                                raster.length, Cleared)) }
           \cup { Reply([w EXCEPT !.region = held], inFrame) :
                    held \in {w.region, Torn} }
      ELSE { Reply(w, inFrame) }

OnRenderPage(w, req) ==
  IF ~ValidRender(w.limits, req.id, req.width, req.height)
  THEN Refuse(w, "ResourceLimitExceeded")
  ELSE IF req.id \notin DOMAIN w.docs \/ req.page >= w.docs[req.id].info.pages
  THEN Refuse(w, "InvalidDocument")
  ELSE Refuse(w, "RenderingFailed")
       \cup UNION { Published(w, req, raster) :
                      raster \in { r \in Rasters(req.width, req.height) :
                                     ValidPage(r) } }

OnCloseDocument(w, req) ==
  IF req.id \notin DOMAIN w.docs THEN Refuse(w, "InvalidDocument")
  ELSE { Reply([w EXCEPT !.docs = Restrict(@, DOMAIN @ \ {req.id})],
               [type |-> "Closed", id |-> req.id]) }

\* A worker that answers before its handshake.
HandleUnready(w, req) ==
  CASE req.type = "Hello"           -> OnHello(w, req)
    [] req.type = "Ping"            -> OnPing(w, req)
    [] req.type = "OpenDocument"    -> OnOpenDocument(w, req)
    [] req.type = "GetDocumentInfo" -> OnGetDocumentInfo(w, req)
    [] req.type = "RenderPage"      -> OnRenderPage(w, req)
    [] req.type = "CloseDocument"   -> OnCloseDocument(w, req)

\* Every handler but Hello's begins with the test of handshake_done.
Handle(w, req) ==
  IF req.type = "Hello" THEN OnHello(w, req)
  ELSE IF ~w.ready THEN Refuse(w, "ProtocolViolation")
  ELSE CASE req.type = "Ping"            -> OnPing(w, req)
         [] req.type = "OpenDocument"    -> OnOpenDocument(w, req)
         [] req.type = "GetDocumentInfo" -> OnGetDocumentInfo(w, req)
         [] req.type = "RenderPage"      -> OnRenderPage(w, req)
         [] req.type = "CloseDocument"   -> OnCloseDocument(w, req)
=============================================================================
