----------------------------- MODULE DocumentChecks -----------------------------
(***************************************************************************)
(* What each of the doors into the application asks of a file:             *)
(* the broker (crates/native-broker/src/lib.rs), the command line, the     *)
(* deep link, the drop and, for all of them, the bounded read (src-tauri,  *)
(* crates/core/src/io.rs).  Pure definitions.                              *)
(* A look at a file finds [local, regular, extension, magic, length, size, *)
(* within]: the path is local, it names a regular file, its extension, the *)
(* signature it starts with and how many bytes could be read of it, its    *)
(* size, and whether it lies in the allowed directory.  The file may       *)
(* change between two looks.                                               *)
(***************************************************************************)
EXTENDS Integers, Sequences

CONSTANTS MaxDocumentSize,      \* bytes, of a document
          MaxNativeMessageSize  \* bytes, of a message of the browser

ASSUME ChecksAssumption ==
  MaxDocumentSize \in Nat /\ MaxNativeMessageSize \in Nat

SupportedExtensions ==
  { "pdf", "png", "jpg", "jpeg", "webp", "docx", "pptx", "xlsx", "gif", "tif",
    "tiff", "bmp", "epub", "rtf" }

\* The viewer's own list, for what is dropped on its window.
DroppableExtensions ==
  { "pdf", "png", "jpg", "jpeg", "webp", "docx", "pptx", "xlsx" }

SignatureLength ==
  [pdf |-> 5, png |-> 8, jpeg |-> 3, webp |-> 12, zip |-> 4, gif |-> 6,
   tiff |-> 4, bmp |-> 2, rtf |-> 5]

\* A signature counts only when all of its bytes are there.
HasSupportedSignature(look) ==
  /\ look.magic \in DOMAIN SignatureLength
  /\ look.length >= SignatureLength[look.magic]

IsSupportedDocument(look) == look.extension \in SupportedExtensions

-----------------------------------------------------------------------------

\* validate_document_path, in its order.
BrokerAccepts(look) ==
  /\ look.local /\ IsSupportedDocument(look)
  /\ HasSupportedSignature(look)
  /\ look.regular /\ look.size <= MaxDocumentSize
  /\ look.within

\* A message is [terminal, declared, arrives, decodes, action].
Decide(m, look) ==
  IF m.terminal THEN "failed"
  ELSE IF m.declared = 0 \/ m.declared > MaxNativeMessageSize THEN "refused"
  ELSE IF ~m.arrives \/ ~m.decodes THEN "failed"
  ELSE IF m.action # "open_file" THEN "refused"
  ELSE IF BrokerAccepts(look) THEN "launch"
  ELSE "refused"

\* Of a file on the command line more is asked when it was handed over.
ArgumentAccepted(look, handedOver) ==
  /\ look.local /\ look.regular /\ IsSupportedDocument(look)
  /\ handedOver => HasSupportedSignature(look) /\ look.within

LinkAccepted(look) ==
  /\ look.local /\ IsSupportedDocument(look) /\ look.regular
  /\ HasSupportedSignature(look)

DropAccepted(look) ==
  /\ look.extension \in DroppableExtensions
  /\ look.local /\ look.regular /\ IsSupportedDocument(look)
  /\ HasSupportedSignature(look)

\* The read is bounded, and the signature is looked at once more in what was
\* read.
ReadAccepted(look) ==
  /\ look.regular /\ look.size <= MaxDocumentSize
  /\ HasSupportedSignature(look)
=============================================================================
