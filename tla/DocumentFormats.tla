---------------------------- MODULE DocumentFormats ----------------------------
(***************************************************************************)
(* How a document's format is recognised, by its content alone             *)
(* (crates/renderer-api/src/format.rs), and which formats are rendered     *)
(* (AnyRenderer in crates/renderer-worker/src/worker.rs).                  *)
(*                                                                         *)
(* A document has a `size`, a `magic`, which is the format whose signature *)
(* it starts with ("Zip" for any ZIP file), and the names of the `entries` *)
(* of a ZIP file, as far as a renderer tells names apart; an entry that    *)
(* cannot be read has the name "broken".                                   *)
(***************************************************************************)
EXTENDS ProtocolLimits, Sequences

CONSTANTS MinSniffed,      \* bytes below which nothing is recognised
          MaxZipEntries    \* entries above which a ZIP file is not looked at

\* The entries are looked at in order; the look ends at the first one that
\* cannot be read, and early once both marks were seen.
ZipKind(data) ==
  LET Seen(n) == { data.entries[i] : i \in 1..n }
      all     == Seen(Len(data.entries))
  IN  IF \/ data.size > MaxDocumentSize
         \/ Len(data.entries) \notin 1..MaxZipEntries
      THEN "Unknown"
      ELSE IF \E n \in 1..Len(data.entries) :
                /\ {"types", "container"} \subseteq Seen(n)
                /\ "broken" \notin Seen(n)
           THEN "Ooxml"
           ELSE IF "broken" \in all THEN "Unknown"
           ELSE IF "types" \in all THEN "Ooxml"
           ELSE IF "container" \in all THEN "Epub" ELSE "Unknown"

Detect(data) ==
  IF data.size < MinSniffed THEN "Unknown"
  ELSE IF data.magic = "Zip" THEN ZipKind(data) ELSE data.magic

\* AnyRenderer::open knows these; the other formats are recognised and refused.
RenderedFormats == {"Pdf", "Png", "Jpeg", "WebP", "Ooxml"}
=============================================================================
