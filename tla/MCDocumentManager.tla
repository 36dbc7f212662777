--------------------------- MODULE MCDocumentManager ---------------------------
(* Model-checking instance of the document manager: two documents can be     *)
(* open at a time and three sessions are ever started, so that slots are     *)
(* refused, freed and reused; the cache holds two pages of up to four.       *)
EXTENDS DocumentManager, TLC

CONSTANTS one, two, big, empty

PageCountOf == one :> 1 @@ two :> 2 @@ big :> 1
PageCountOfOne == one :> 1
=============================================================================
