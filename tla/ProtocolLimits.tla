---------------------------- MODULE ProtocolLimits ----------------------------
(***************************************************************************)
(* The limits host and worker agree on in their handshake, and the checks  *)
(* both make of each message against them (crates/protocol/src/validate.rs,*)
(* limits.rs and crates/renderer-api/src/limits.rs, types.rs).             *)
(*                                                                         *)
(* Sizes are natural numbers; the code's conversions to usize lose nothing *)
(* on its 64-bit targets and its products cannot overflow there once the   *)
(* two dimensions are known to be in range.                                *)
(***************************************************************************)
EXTENDS Integers

CONSTANTS MaxDocumentSize, MaxIpcMessage, MinIpcMessage,
          MaxPageWidth, MaxPageHeight, MaxPageCount

BytesPerPixel == 4
PixelBufferSize(width, height) == width * height * BytesPerPixel
MaxPixelBuffer == PixelBufferSize(MaxPageWidth, MaxPageHeight)

\* The invariants the code has the compiler check, and that no limit is zero.
ASSUME LimitsAssumption ==
  /\ {MaxDocumentSize, MaxPageWidth, MaxPageHeight, MaxPageCount,
      MinIpcMessage, MaxIpcMessage} \subseteq Nat \ {0}
  /\ MinIpcMessage <= MaxIpcMessage
  /\ MaxPixelBuffer < MaxIpcMessage
  /\ MaxDocumentSize < MaxIpcMessage

Least(a, b) == IF a <= b THEN a ELSE b

Limits == [document : Nat, ipc : Nat, width : Nat, height : Nat, pixels : Nat]

\* A worker before its first handshake accepts nothing.
NoLimits == [document |-> 0, ipc |-> 0, width |-> 0, height |-> 0, pixels |-> 0]

-----------------------------------------------------------------------------
(* The handshake.                                                          *)

\* `version` says whether the peer speaks PROTOCOL_VERSION.
ValidHelloRequest(hello) ==
  /\ hello.version
  /\ hello.document # 0
  /\ hello.ipc \in MinIpcMessage .. MaxIpcMessage

\* The worker takes the host's document limit without its own.
ServerNegotiateTrusting(hello) ==
  [document |-> hello.document,
   ipc      |-> Least(hello.ipc, MaxIpcMessage),
   width    |-> MaxPageWidth,
   height   |-> MaxPageHeight,
   pixels   |-> MaxPixelBuffer]

ServerNegotiate(hello) ==
  [document |-> Least(hello.document, MaxDocumentSize),
   ipc      |-> Least(hello.ipc, MaxIpcMessage),
   width    |-> MaxPageWidth,
   height   |-> MaxPageHeight,
   pixels   |-> MaxPixelBuffer]

\* What the worker advertises; `region` is the capacity of its shared page
\* buffer, 0 when it names none.
HelloOkOf(limits, region) ==
  [type |-> "HelloOk", version |-> TRUE, limits |-> limits, region |-> region]

ValidHelloOk(ok) ==
  /\ ok.version
  /\ ok.limits.document \in 1 .. MaxDocumentSize
  /\ ok.limits.width \in 1 .. MaxPageWidth
  /\ ok.limits.height \in 1 .. MaxPageHeight
  /\ ok.limits.ipc \in MinIpcMessage .. MaxIpcMessage
  /\ ok.limits.pixels \in 1 .. MaxPixelBuffer
  /\ ok.region \in 0 .. MaxPixelBuffer

ClientNegotiate(ok) ==
  [document |-> Least(ok.limits.document, MaxDocumentSize),
   ipc      |-> Least(ok.limits.ipc, MaxIpcMessage),
   width    |-> Least(ok.limits.width, MaxPageWidth),
   height   |-> Least(ok.limits.height, MaxPageHeight),
   pixels   |-> Least(ok.limits.pixels, MaxPixelBuffer)]

-----------------------------------------------------------------------------
(* The checks of requests and responses.                                   *)

ValidOpen(limits, id, size) == id # 0 /\ size <= limits.document

ValidTarget(limits, width, height) ==
  /\ width \in 1 .. limits.width
  /\ height \in 1 .. limits.height
  /\ PixelBufferSize(width, height) <= limits.pixels

ValidRender(limits, id, width, height) ==
  id # 0 /\ ValidTarget(limits, width, height)

ValidInfo(info) ==
  /\ info.pages \in 1 .. MaxPageCount
  /\ info.width <= MaxPageWidth
  /\ info.height <= MaxPageHeight

\* RenderedPage::validate, `length` the number of bytes that came with it.
ValidPage(page) ==
  /\ page.width \in 1 .. MaxPageWidth
  /\ page.height \in 1 .. MaxPageHeight
  /\ page.stride >= page.width * BytesPerPixel
  /\ page.stride * page.height <= MaxPixelBuffer
  /\ page.length = page.stride * page.height

ValidRenderedPage(limits, page) ==
  ValidPage(page) /\ page.length <= limits.pixels
=============================================================================
