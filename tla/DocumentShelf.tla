----------------------------- MODULE DocumentShelf -----------------------------
(***************************************************************************)
(* What the document manager promises its callers, without sandboxes,      *)
(* sessions or a cache: a shelf of open documents.  Opening puts the bytes *)
(* on the shelf under a handle no document had before; rendering shows a   *)
(* page of the bytes under that very handle; closing takes the handle off  *)
(* for good, even when it reports an error.  Any other call may fail and   *)
(* then leaves the shelf alone, but what it blames is true.  A call that   *)
(* panics can break the shelf: from then on every call fails.              *)
(***************************************************************************)
EXTENDS Naturals, FiniteSets, Functions

CONSTANTS PageCount, MaxOpenDocuments

VARIABLES shelf,        \* open handle -> bytes
          issued,       \* the session number of every handle there has been
          broken,       \* no call succeeds any more
          reply         \* the last call and its result

vars == << shelf, issued, broken, reply >>

Failed(result) == "error" \in DOMAIN result

Init == /\ shelf = [h \in {} |-> h]
        /\ issued = {}
        /\ broken = FALSE
        /\ reply = [op |-> "none"]

Open ==
  LET h == reply'.result
  IN  /\ ~broken
      /\ reply'.op = "open" /\ ~Failed(h)
      /\ h.session \notin issued
      /\ Cardinality(DOMAIN shelf) < MaxOpenDocuments
      /\ shelf' = [g \in DOMAIN shelf \cup {h} |->
                     IF g = h THEN reply'.bytes ELSE shelf[g]]
      /\ issued' = issued \cup {h.session}
      /\ UNCHANGED broken

\* A caller told that the handle is not open or that the page does not exist
\* is told the truth.  (A full shelf is reported with the code a worker uses
\* for its own limits, so that one says nothing about the shelf.)
Fail ==
  LET code == reply'.result.error
  IN  /\ reply'.op \in {"open", "info", "render", "close"}
      /\ Failed(reply'.result)
      /\ reply'.op = "close" /\ ~broken => reply'.handle \notin DOMAIN shelf
      /\ code = "NoDocumentOpen" => reply'.handle \notin DOMAIN shelf
      /\ code = "InvalidPage" =>
           /\ reply'.handle \in DOMAIN shelf
           /\ reply'.page >= PageCount[shelf[reply'.handle]]
      /\ broken => broken'
      /\ broken' => broken \/ reply'.op = "open"
      /\ UNCHANGED << shelf, issued >>

Info == /\ ~broken
        /\ reply'.op = "info"
        /\ reply'.handle \in DOMAIN shelf
        /\ reply'.result = [pages |-> PageCount[shelf[reply'.handle]]]
        /\ UNCHANGED << shelf, issued, broken >>

Render == /\ ~broken
          /\ reply'.op = "render"
          /\ reply'.handle \in DOMAIN shelf
          /\ reply'.page \in 0 .. PageCount[shelf[reply'.handle]] - 1
          /\ reply'.result = [content |-> shelf[reply'.handle],
                              page    |-> reply'.page,
                              target  |-> reply'.target]
          /\ UNCHANGED << shelf, issued, broken >>

Close == /\ ~broken
         /\ reply'.op = "close"
         /\ reply'.handle \in DOMAIN shelf
         /\ shelf' = Restrict(shelf, DOMAIN shelf \ {reply'.handle})
         /\ UNCHANGED << issued, broken >>

Clear == /\ shelf' = [h \in {} |-> h]
         /\ UNCHANGED << issued, broken, reply >>

Next == Open \/ Fail \/ Info \/ Render \/ Close \/ Clear

Spec == Init /\ [][Next]_vars
=============================================================================
