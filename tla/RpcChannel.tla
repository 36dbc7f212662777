------------------------------- MODULE RpcChannel -------------------------------
(***************************************************************************)
(* What a worker transport promises its session: calls are made one at a   *)
(* time, an honest worker's answer is the answer to that very call, and    *)
(* the first call the transport fails is the last one that could have been *)
(* answered.                                                               *)
(***************************************************************************)
EXTENDS Naturals

VARIABLES honest,     \* the worker sends nothing wrong and nothing unasked
          up,         \* calls can still be answered
          calls,      \* the number of calls made
          calling,    \* the last of them has not returned
          result      \* what the last returned call returned

vars == << honest, up, calls, calling, result >>

Failures == {"Timeout", "SandboxCrashed", "InternalError", "ProtocolViolation"}

Init == /\ honest \in BOOLEAN
        /\ up = TRUE /\ calls = 1 /\ calling = TRUE
        /\ result = [call |-> 0, code |-> "none", of |-> 0]

Call == /\ ~calling
        /\ calling' = TRUE /\ calls' = calls + 1
        /\ UNCHANGED << honest, up, result >>

\* Answered by the worker, with what it was asked for or with an error.
Answered == /\ calling /\ up
            /\ calling' = FALSE
            /\ \E code \in {"ok", "WorkerError"},
                  of \in IF honest THEN {calls} ELSE 0..calls :
                 result' = [call |-> calls, code |-> code, of |-> of]
            /\ UNCHANGED << honest, up, calls >>

\* The call that fails takes the channel down, if it was not down before.  A
\* worker that refuses the handshake is a failure too.
Failed == /\ calling
          /\ calling' = FALSE /\ up' = FALSE
          /\ \E code \in Failures \cup {"WorkerError"} :
               result' = [call |-> calls, code |-> code, of |-> 0]
          /\ UNCHANGED << honest, calls >>

\* The owner closes the channel between two calls.
Closed == /\ ~calling /\ up /\ up' = FALSE
          /\ UNCHANGED << honest, calls, calling, result >>

\* A request outside the negotiated limits never reaches the worker.
Rejected == /\ ~calling
            /\ calls' = calls + 1
            /\ result' = [call |-> calls', code |-> "Rejected", of |-> 0]
            /\ UNCHANGED << honest, up, calling >>

Next == Call \/ Answered \/ Failed \/ Closed \/ Rejected

Spec == Init /\ [][Next]_vars
=============================================================================
