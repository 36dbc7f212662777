--------------------------- MODULE MCProcessTransport ---------------------------
(* Model-checking instance of the process transport.  `small` and `resized`   *)
(* ask for the same page at two sizes, so a reply to one passes for a reply   *)
(* to the other; `large` does not fit into a pipe buffer.  A rogue worker      *)
(* garbles its replies and sends frames that nobody asked for.                *)
EXTENDS ProcessTransport, TLC

CONSTANTS small, resized, large, bad

EchoMap == small :> "page" @@ resized :> "page" @@ large :> "document"
             @@ bad :> "none"

Setting(is, offered, asked, bound, unasked) ==
  [honest |-> is, shm |-> offered, requests |-> asked, calls |-> bound,
   extras |-> unasked]

HonestOrRogue == { Setting(TRUE, TRUE, Requests, 4, 0),
                   Setting(FALSE, FALSE, {small}, 3, 2) }
OneRequest == { Setting(TRUE, FALSE, {small}, 2, 0) }
OneRequestShared == { Setting(TRUE, TRUE, {small}, 2, 0) }
=============================================================================
