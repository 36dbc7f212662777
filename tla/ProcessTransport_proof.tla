------------------------ MODULE ProcessTransport_proof ------------------------
(***************************************************************************)
(* The process transport is quiet around its calls, leaves nothing behind  *)
(* and is a channel of calls (RpcChannel), for any workers, requests and   *)
(* numbers of calls and of unsolicited frames.  A reply carries no number, *)
(* so nothing of this can be seen from a reply: the invariant follows the  *)
(* one frame that an honest worker's call has on its way, from the channel *)
(* of the writer through the pipes and the worker to the channel of the    *)
(* reader, and says where the host thread is while there is none.          *)
(***************************************************************************)
EXTENDS ProcessTransport, SequenceTheorems, TLAPS

Asked == Requests \cup {Hello}

\* The commands and frames there can be after n calls.
Made(n) == [call : 1..n, request : Asked]

Frames(n) ==
  [kind : {"answer"}, echo : { EchoOf(r) : r \in Asked }, of : 0..n]
    \cup [kind : {"error"}, of : 0..n]
    \cup [kind : {"garbage", "torn"}]

Items(n) == Frames(n) \cup [kind : {"eof", "ioerror"}]

\* Where the host thread is while it sends and waits, and while it looks at a reply.
AwaitPcs == {"awaitWrite", "awaitReply"}
ReplyPcs == {"extraOverflow", "extraQueue", "negotiate"}

Types ==
  /\ setting \in Settings
  /\ pc \in SendPcs \cup {"idle", "grace", "reap", "gone"}
  /\ calls \in 1..setting.calls /\ request \in Asked
  /\ result.call \in 0..calls /\ result.of \in 0..calls
  /\ expired \in BOOLEAN /\ leaving \in BOOLEAN /\ shm \in BOOLEAN
  /\ writerTx \in BOOLEAN /\ reaped \in BOOLEAN /\ crashed \in BOOLEAN
  /\ overflow \in BOOLEAN /\ region \in BOOLEAN /\ inherited \in BOOLEAN
  /\ writer \in {"idle", "writing", "done"}
  /\ written \in {"none", "ok", "error"}
  /\ worker \in {"reading", "busy", "dead"}
  /\ reader \in {"run", "full", "done"} /\ lost \in 0..calls
  /\ extra \in 0..setting.extras

\* What is on its way.
PipesOK ==
  /\ commands \in Seq(Made(calls)) /\ Len(commands) <= 1
  /\ stdin \in Seq(Made(calls))
  /\ job \in Made(calls) \cup {NoJob}
  /\ worker = "busy" => job # NoJob
  /\ stdout \in Seq(Frames(calls))
  /\ rx \in Seq(Items(calls)) /\ Len(rx) <= 1

\* The writer has the command of a call while the host waits for its report, and
\* at no other time.
WriterOK ==
  writerTx =>
    /\ pc # "awaitWrite" => writer = "idle" /\ commands = << >>
    /\ pc = "awaitWrite" =>
         \/ written = "none" /\ writer = "idle" /\ commands # << >>
         \/ written = "none" /\ writer = "writing" /\ commands = << >>
         \/ written = "ok" /\ writer = "idle" /\ commands = << >>
         \/ written = "error" /\ writer = "done" /\ commands = << >>

\* Without the channel to the writer a call gets no further than to find it gone.
DownOK ==
  /\ pc \in {"grace", "reap", "gone"} => ~writerTx
  /\ ~writerTx =>
       /\ pc \notin AwaitPcs \cup ReplyPcs
       /\ pc # "grace" => worker = "dead"
       /\ pc \notin {"grace", "reap"} => reaped /\ ~shm

\* The reply looked at.
ReplyOK ==
  /\ pc \in ReplyPcs =>
       /\ reply \in Frames(calls) /\ reply.kind \in {"answer", "error"}
       /\ setting.honest => reply.of = calls

\* A reader that found the channel full delivers nothing any more.  What it left
\* in the channel is taken in the same call, or found before the next request.
LostOK ==
  /\ lost # 0 => reader # "run"
  /\ lost # 0 /\ result.code \in {"ok", "WorkerError"} => result.call <= lost
  /\ lost # 0 /\ lost < calls =>
       /\ pc \notin ReplyPcs
       /\ pc \in {"enqueue", "awaitWrite", "awaitReply"} => rx = << >>

\* The handshake is the first call and the only one that says hello.
HandshakeOK ==
  /\ pc \in SendPcs /\ request = Hello => calls = 1
  /\ calls = 1 =>
       /\ pc \in SendPcs => request = Hello /\ result.code = "none"
       /\ pc \in {"idle", "grace"} => result.code = "ok"
       /\ pc = "reap" => leaving \/ result.code = "ok"

\* The command of the current call, and a frame that would pass for a reply.
Command == [call |-> calls, request |-> request]
IsReply(frame) == frame.kind \in {"answer", "error"}
NoReplyWaits == rx # << >> => ~IsReply(rx[1])

Quiet == commands = << >> /\ stdin = << >> /\ worker # "busy" /\ stdout = << >>
         /\ NoReplyWaits

\* The one frame of the current call is in one place at most.
OneFrame ==
  /\ commands # << >> =>
       /\ commands = << Command >>
       /\ stdin = << >> /\ worker # "busy" /\ stdout = << >> /\ NoReplyWaits
  /\ stdin # << >> => /\ stdin = << Command >>
                      /\ worker # "busy" /\ stdout = << >> /\ NoReplyWaits
  /\ worker = "busy" => job = Command /\ stdout = << >> /\ NoReplyWaits
  /\ stdout # << >> => /\ Len(stdout) = 1 /\ NoReplyWaits
                       /\ IsReply(stdout[1]) => stdout[1].of = calls
  /\ rx # << >> /\ IsReply(rx[1]) => rx[1].of = calls

\* With an honest worker that can still be heard, or heard of, there is that
\* frame while the host waits, and none when it does not.
FlowOK ==
  setting.honest /\ (writerTx \/ worker # "dead") =>
    /\ pc \in AwaitPcs => OneFrame
    /\ pc \notin AwaitPcs => Quiet

\* The shared page buffer that outlived the handshake is known to the host.
RegionOK == setting.honest /\ (calls > 1 \/ result.code = "ok") /\ region => shm

IInv == /\ Types /\ PipesOK /\ WriterOK /\ DownOK /\ ReplyOK /\ LostOK /\ HandshakeOK
        /\ FlowOK /\ RegionOK

-----------------------------------------------------------------------------
(* Frames and commands as calls go on.                                     *)

\* A command or a frame of n calls is one of n + 1 calls.
LEMMA OneCallMore ==
  ASSUME NEW n \in Nat
  PROVE  /\ Made(n) \subseteq Made(n + 1)
         /\ Frames(n) \subseteq Frames(n + 1)
         /\ Items(n) \subseteq Items(n + 1)
<1>1. 1..n \subseteq 1..(n + 1) /\ 0..n \subseteq 0..(n + 1)
  OBVIOUS
<1>2. Made(n) \subseteq Made(n + 1)
  BY <1>1 DEF Made
<1>3. Frames(n) \subseteq Frames(n + 1)
  BY <1>1 DEF Frames
<1> QED BY <1>2, <1>3 DEF Items

LEMMA SeqWidens ==
  ASSUME NEW S, NEW T, S \subseteq T, NEW s \in Seq(S)
  PROVE  s \in Seq(T)
  OBVIOUS

LEMMA AppendKeeps ==
  ASSUME NEW S, NEW s \in Seq(S), NEW e \in S
  PROVE  Append(s, e) \in Seq(S)
  OBVIOUS

-----------------------------------------------------------------------------
(* The host thread.                                                        *)

HostSame == UNCHANGED << setting, writer, stdin, stdout, job, crashed, reader,
                         overflow, lost, extra, inherited >>

CallSame == HostSame /\ UNCHANGED << commands, written, reaped, region >>

\* The transport starts with the handshake under way and nothing sent.
LEMMA InitKeeps ==
  ASSUME TransportAssumption, Init
  PROVE  IInv
<1> USE DEF Init
<1>1. Types
  <2>1. setting.calls \in Nat \ {0} /\ setting.extras \in Nat
    BY DEF TransportAssumption
  <2>2. calls \in 1..setting.calls /\ extra \in 0..setting.extras
    BY <2>1
  <2>3. result.call \in 0..calls /\ result.of \in 0..calls
    OBVIOUS
  <2> QED BY <2>2, <2>3 DEF Types, SendPcs, Asked
<1>2. PipesOK
  BY DEF PipesOK
<1>3. WriterOK /\ DownOK /\ ReplyOK /\ LostOK
  BY DEF WriterOK, DownOK, ReplyOK, LostOK, AwaitPcs, ReplyPcs
<1>4. HandshakeOK /\ RegionOK
  BY DEF HandshakeOK, RegionOK
<1>5. FlowOK
  BY DEF FlowOK, AwaitPcs, Quiet, NoReplyWaits
<1> QED BY <1>1, <1>2, <1>3, <1>4, <1>5 DEF IInv

\* What the calls that end the worker return.  The last is its own answer.
Breaking == {"Timeout", "SandboxCrashed", "InternalError", "ProtocolViolation"}
Failing == Breaking \cup {"WorkerError"}

\* Nothing is lost before the current call that is still being looked at.
LEMMA NotLostBefore ==
  ASSUME IInv, pc \in ReplyPcs \/ (pc = "awaitReply" /\ rx # << >>)
  PROVE  lost \in {0, calls} /\ calls \in Nat
  BY DEF IInv, Types, LostOK

\* A call that ends the worker: the channel of the writer is gone with it.
LEMMA TerminateKeeps ==
  ASSUME IInv, pc \in SendPcs, NEW code \in Failing, Terminate(code), CallSame,
         rx' \in { rx, << >> }, code \in Breaking \/ pc \in ReplyPcs
  PROVE  IInv'
<1> USE DEF Terminate, CallSame, HostSame
<1>1. Types'
  <2>1. result'.call = calls /\ result'.of = 0
    BY DEF Returned
  <2>2. calls \in 0..calls /\ 0 \in 0..calls
    BY DEF IInv, Types
  <2>3. calls' = calls /\ request' = request /\ setting' = setting
    OBVIOUS
  <2>4. result'.call \in 0..calls' /\ result'.of \in 0..calls'
    BY <2>1, <2>2, <2>3
  <2>5. /\ pc' = "reap" /\ worker' = "dead" /\ UNCHANGED << expired, shm >>
        /\ writerTx' \in BOOLEAN /\ leaving' \in BOOLEAN
    BY DEF IInv, Types, Handshake
  <2>6. HostSame /\ UNCHANGED << written, reaped, region >>
    OBVIOUS
  <2> HIDE DEF Terminate, CallSame
  <2> QED BY <2>3, <2>4, <2>5, <2>6 DEF IInv, Types
<1>2. PipesOK'
  <2>1. rx' \in Seq(Items(calls)) /\ Len(rx') <= 1
    <3>1. CASE rx' = rx
      BY <3>1 DEF IInv, PipesOK
    <3>2. CASE rx' = << >>
      BY <3>2
    <3> QED BY <3>1, <3>2
  <2> QED BY <2>1 DEF IInv, PipesOK
<1>3. WriterOK' /\ DownOK' /\ ReplyOK'
  BY DEF WriterOK, DownOK, ReplyOK, AwaitPcs, ReplyPcs
<1>7. LostOK'
  <2>1. /\ result'.call = calls /\ result'.code = code
        /\ pc' = "reap" /\ UNCHANGED << lost, reader, calls >>
    BY DEF Returned
  <2>2. lost # 0 => reader # "run"
    BY DEF IInv, LostOK
  <2>3. lost # 0 /\ result'.code \in {"ok", "WorkerError"} => result'.call <= lost
    <3>1. CASE code \in Breaking
      BY <2>1, <3>1 DEF Breaking
    <3>2. CASE pc \in ReplyPcs
      BY <2>1, <3>2, NotLostBefore
    <3> QED BY <3>1, <3>2
  <2> QED BY <2>1, <2>2, <2>3 DEF LostOK, ReplyPcs
<1>4. HandshakeOK'
  BY DEF HandshakeOK, SendPcs, Handshake
<1>5. FlowOK'
  BY DEF FlowOK
<1>6. RegionOK'
  <2>1. result'.code # "ok"
    BY DEF Returned, Breaking, Failing
  <2> QED BY <2>1 DEF IInv, RegionOK
<1> QED BY <1>1, <1>2, <1>3, <1>4, <1>5, <1>6, <1>7 DEF IInv

LEMMA CheckOverflowKeeps ==
  ASSUME IInv, CheckOverflow, CallSame
  PROVE  IInv'
<1>1. CASE overflow
  <2>1. Terminate("InternalError") /\ rx' = rx
    BY <1>1 DEF CheckOverflow
  <2> QED BY <2>1, TerminateKeeps DEF CheckOverflow, SendPcs, Breaking, Failing
<1>2. CASE ~overflow
  <2> USE <1>2 DEF CheckOverflow, GoTo, CallSame, HostSame
  <2>1. Types' /\ PipesOK'
    BY DEF IInv, Types, PipesOK, SendPcs
  <2>2. WriterOK' /\ DownOK' /\ ReplyOK' /\ LostOK'
    BY DEF IInv, WriterOK, DownOK, ReplyOK, LostOK, AwaitPcs, ReplyPcs
  <2>3. HandshakeOK' /\ RegionOK'
    BY DEF IInv, HandshakeOK, RegionOK, SendPcs
  <2>4. FlowOK'
    BY DEF IInv, FlowOK, AwaitPcs, Quiet, NoReplyWaits
  <2> QED BY <2>1, <2>2, <2>3, <2>4 DEF IInv
<1> QED BY <1>1, <1>2

LEMMA CheckQueueKeeps ==
  ASSUME IInv, CheckQueue, CallSame
  PROVE  IInv'
<1>1. CASE rx # << >> \/ reader = "done"
  <2>1. \E code \in Breaking : Terminate(code)
    BY <1>1 DEF CheckQueue, Breaking, Failing
  <2> QED BY <2>1, TerminateKeeps DEF CheckQueue, SendPcs, Failing
<1>2. CASE rx = << >> /\ reader # "done"
  <2>0. /\ pc = "checkQueue" /\ pc' = "enqueue" /\ expired' \in BOOLEAN /\ rx' = rx
        /\ UNCHANGED << calls, request, reply, result, leaving, shm, writerTx, worker >>
    BY <1>2 DEF CheckQueue
  <2> USE <2>0 DEF CallSame, HostSame
  <2>1. Types' /\ PipesOK'
    BY DEF IInv, Types, PipesOK, SendPcs
  <2>2. WriterOK' /\ DownOK' /\ ReplyOK' /\ LostOK'
    BY <1>2 DEF IInv, WriterOK, DownOK, ReplyOK, LostOK, AwaitPcs, ReplyPcs
  <2>3. HandshakeOK' /\ RegionOK'
    BY DEF IInv, HandshakeOK, RegionOK, SendPcs
  <2>4. FlowOK'
    BY DEF IInv, FlowOK, AwaitPcs, Quiet, NoReplyWaits
  <2> QED BY <2>1, <2>2, <2>3, <2>4 DEF IInv
<1> QED BY <1>1, <1>2

\* The command goes into an empty channel, and nothing else is under way.
LEMMA EnqueueKeeps ==
  ASSUME IInv, Enqueue, UNCHANGED << reaped, region >>, HostSame
  PROVE  IInv'
<1>1. CASE ~writerTx \/ writer = "done" \/ commands # << >>
  <2>1. (\E code \in Breaking : Terminate(code)) /\ CallSame /\ rx' = rx
    BY <1>1 DEF Enqueue, CallSame, Breaking, Failing
  <2> QED BY <2>1, TerminateKeeps DEF Enqueue, SendPcs, Failing
<1>2. CASE writerTx /\ writer # "done" /\ commands = << >>
  <2> USE <1>2 DEF Enqueue, GoTo, HostSame
  <2>1. Types'
    BY DEF IInv, Types, SendPcs
  <2>2. /\ commands' = << Command >>
        /\ Command \in Made(calls)
    BY DEF IInv, Types, Command, Made
  <2>3. PipesOK'
    BY <2>2 DEF IInv, PipesOK
  <2>4. WriterOK' /\ DownOK' /\ ReplyOK' /\ LostOK'
    BY <2>2 DEF IInv, WriterOK, DownOK, ReplyOK, LostOK, AwaitPcs, ReplyPcs
  <2>5. HandshakeOK' /\ RegionOK'
    BY DEF IInv, HandshakeOK, RegionOK, SendPcs
  <2>6. FlowOK'
    BY <2>2 DEF IInv, FlowOK, AwaitPcs, Quiet, NoReplyWaits, OneFrame, Command
  <2> QED BY <2>1, <2>3, <2>4, <2>5, <2>6 DEF IInv
<1> QED BY <1>1, <1>2

LEMMA AwaitWriteKeeps ==
  ASSUME IInv, AwaitWrite, CallSame
  PROVE  IInv'
<1>1. CASE \E code \in Breaking : Terminate(code)
  BY <1>1, TerminateKeeps DEF AwaitWrite, SendPcs, Failing
<1>2. CASE written = "ok" /\ GoTo("awaitReply")
  <2> USE <1>2 DEF AwaitWrite, GoTo, CallSame, HostSame
  <2>1. Types' /\ PipesOK'
    BY DEF IInv, Types, PipesOK, SendPcs
  <2>2. WriterOK' /\ DownOK' /\ ReplyOK' /\ LostOK'
    BY DEF IInv, WriterOK, DownOK, ReplyOK, LostOK, AwaitPcs, ReplyPcs
  <2>3. HandshakeOK' /\ RegionOK'
    BY DEF IInv, HandshakeOK, RegionOK, SendPcs
  <2>4. FlowOK'
    BY DEF IInv, FlowOK, AwaitPcs, OneFrame, NoReplyWaits, Command
  <2> QED BY <2>1, <2>2, <2>3, <2>4 DEF IInv
<1> QED BY <1>1, <1>2 DEF AwaitWrite, Breaking, Failing

\* An accepted frame is the only one of its call: behind it there is none.
LEMMA AwaitReplyKeeps ==
  ASSUME IInv, AwaitReply, CallSame
  PROVE  IInv'
<1>1. CASE (\E code \in Breaking : Terminate(code)) /\ rx' \in { rx, << >> }
  BY <1>1, TerminateKeeps DEF AwaitReply, SendPcs, Failing
<1>2. CASE /\ rx # << >> /\ rx' = << >>
           /\ Acceptable(Head(rx)) /\ reply' = Head(rx) /\ pc' = "extraOverflow"
           /\ UNCHANGED << calls, request, expired, result, leaving, shm, writerTx,
                           worker >>
  <2> USE <1>2 DEF AwaitReply, CallSame, HostSame
  <2>1. Types' /\ PipesOK'
    BY DEF IInv, Types, PipesOK, SendPcs
  <2>2. /\ reply' = rx[1] /\ reply' \in Items(calls)
        /\ reply'.kind \in {"answer", "error"}
    BY DEF IInv, PipesOK, Acceptable
  <2>3. reply' \in Frames(calls)
    BY <2>2 DEF Items
  <2>4. WriterOK' /\ DownOK'
    BY DEF IInv, WriterOK, DownOK, AwaitPcs, ReplyPcs
  <2>5. setting.honest => OneFrame
    BY DEF IInv, FlowOK, DownOK, AwaitPcs
  <2>6. ReplyOK'
    BY <2>2, <2>3, <2>5 DEF OneFrame, IsReply, ReplyOK, ReplyPcs
  <2>10. LostOK'
    <3>1. lost \in {0, calls} /\ calls \in Nat
      BY NotLostBefore
    <3> QED BY <3>1 DEF IInv, LostOK
  <2>7. HandshakeOK' /\ RegionOK'
    BY DEF IInv, HandshakeOK, RegionOK, SendPcs
  <2>8. commands = << >>
    BY DEF IInv, WriterOK, DownOK, AwaitPcs
  <2>9. FlowOK'
    BY <2>2, <2>5, <2>8 DEF FlowOK, AwaitPcs, OneFrame, NoReplyWaits, IsReply, Quiet
  <2> QED BY <2>1, <2>3, <2>4, <2>6, <2>7, <2>9, <2>10 DEF IInv
<1> QED BY <1>1, <1>2 DEF AwaitReply, Receive, Breaking, Failing
\* Looking at what came behind the reply changes nothing.
LEMMA ExtraOverflowKeeps ==
  ASSUME IInv, ExtraOverflow, CallSame
  PROVE  IInv'
<1>1. CASE overflow
  <2>1. Terminate("InternalError") /\ rx' = rx
    BY <1>1 DEF ExtraOverflow
  <2> QED BY <2>1, TerminateKeeps DEF ExtraOverflow, SendPcs, Breaking, Failing
<1>2. CASE ~overflow
  <2> USE <1>2 DEF ExtraOverflow, GoTo, CallSame, HostSame
  <2>1. Types' /\ PipesOK'
    BY DEF IInv, Types, PipesOK, SendPcs
  <2>2. WriterOK' /\ DownOK' /\ ReplyOK' /\ LostOK'
    BY DEF IInv, WriterOK, DownOK, ReplyOK, LostOK, AwaitPcs, ReplyPcs
  <2>3. HandshakeOK' /\ RegionOK'
    BY DEF IInv, HandshakeOK, RegionOK, SendPcs
  <2>4. FlowOK'
    BY DEF IInv, FlowOK, AwaitPcs, Quiet, NoReplyWaits
  <2> QED BY <2>1, <2>2, <2>3, <2>4 DEF IInv
<1> QED BY <1>1, <1>2

LEMMA ExtraQueueKeeps ==
  ASSUME IInv, ExtraQueue, CallSame
  PROVE  IInv'
<1>1. CASE rx # << >>
  <2>1. Terminate("InternalError") /\ rx' = << >>
    BY <1>1 DEF ExtraQueue
  <2> QED BY <2>1, TerminateKeeps DEF ExtraQueue, SendPcs, Breaking, Failing
<1>2. CASE rx = << >> /\ Handshake
  <2>1. pc = "extraQueue" /\ GoTo("negotiate") /\ rx' = rx
    BY <1>2 DEF ExtraQueue
  <2> USE <2>1 DEF GoTo, CallSame, HostSame
  <2>2. Types' /\ PipesOK'
    BY DEF IInv, Types, PipesOK, SendPcs
  <2>3. WriterOK' /\ DownOK' /\ ReplyOK' /\ LostOK'
    BY DEF IInv, WriterOK, DownOK, ReplyOK, LostOK, AwaitPcs, ReplyPcs
  <2>4. HandshakeOK' /\ RegionOK'
    BY DEF IInv, HandshakeOK, RegionOK, SendPcs
  <2>5. FlowOK'
    BY DEF IInv, FlowOK, AwaitPcs, Quiet, NoReplyWaits
  <2> QED BY <2>2, <2>3, <2>4, <2>5 DEF IInv
<1>3. CASE rx = << >> /\ ~Handshake
  <2>1. /\ pc = "extraQueue" /\ pc' = "idle" /\ rx' = rx
        /\ result'.call = calls /\ result'.of = reply.of
        /\ UNCHANGED << calls, request, expired, reply, leaving, shm, writerTx, worker >>
    BY <1>3 DEF ExtraQueue, Returned
  <2> USE <2>1 DEF CallSame, HostSame
  <2>2. reply.of \in 0..calls /\ calls \in 0..calls
    BY DEF IInv, Types, ReplyOK, LostOK, ReplyPcs, Frames
  <2>3. Types' /\ PipesOK'
    BY <2>2 DEF IInv, Types, PipesOK, SendPcs
  <2>0. lost \in {0, calls} /\ calls \in Nat
    BY <2>1, NotLostBefore DEF ReplyPcs
  <2>4. WriterOK' /\ DownOK' /\ ReplyOK' /\ LostOK'
    BY <2>0 DEF IInv, WriterOK, DownOK, ReplyOK, LostOK, AwaitPcs, ReplyPcs
  <2>5. calls # 1 /\ calls > 1
    BY <1>3 DEF Handshake, IInv, Types
  <2>6. HandshakeOK' /\ RegionOK'
    BY <2>5 DEF IInv, HandshakeOK, RegionOK, SendPcs
  <2>7. FlowOK'
    BY DEF IInv, FlowOK, AwaitPcs, Quiet, NoReplyWaits
  <2> QED BY <2>3, <2>4, <2>6, <2>7 DEF IInv
<1> QED BY <1>1, <1>2, <1>3

\* The handshake ends with a page buffer that the host knows, or with none.
LEMMA NegotiateKeeps ==
  ASSUME IInv, Negotiate, CallSame
  PROVE  IInv'
<1>1. CASE \E code \in Failing : Terminate(code)
  <2>1. pc \in SendPcs /\ pc \in ReplyPcs /\ rx' = rx
    BY DEF Negotiate, SendPcs, ReplyPcs
  <2> QED BY <1>1, <2>1, TerminateKeeps
<1>2. CASE /\ pc' = "idle" /\ shm' = region /\ result' = Returned("ok", reply.of)
           /\ UNCHANGED << calls, request, expired, reply, leaving, writerTx, worker >>
  <2>1. /\ pc = "negotiate" /\ rx' = rx
        /\ result'.call = calls /\ result'.code = "ok" /\ result'.of = reply.of
        /\ shm' \in BOOLEAN
    BY <1>2 DEF Negotiate, Returned, IInv, Types
  <2> USE <1>2, <2>1 DEF CallSame, HostSame
  <2>2. reply.of \in 0..calls /\ calls \in 0..calls
    BY DEF IInv, Types, ReplyOK, LostOK, ReplyPcs, Frames
  <2>3. Types' /\ PipesOK'
    BY <2>2 DEF IInv, Types, PipesOK, SendPcs
  <2>0. lost \in {0, calls} /\ calls \in Nat
    BY <2>1, NotLostBefore DEF ReplyPcs
  <2>4. WriterOK' /\ DownOK' /\ ReplyOK' /\ LostOK'
    BY <2>0 DEF IInv, WriterOK, DownOK, ReplyOK, LostOK, AwaitPcs, ReplyPcs
  <2>5. HandshakeOK' /\ RegionOK'
    BY DEF IInv, HandshakeOK, RegionOK, SendPcs
  <2>6. FlowOK'
    BY DEF IInv, FlowOK, AwaitPcs, Quiet, NoReplyWaits
  <2> QED BY <2>3, <2>4, <2>5, <2>6 DEF IInv
<1> QED BY <1>1, <1>2 DEF Negotiate, Breaking, Failing

\* Commands and frames stay what they are when a call is counted.
LEMMA CountingKeepsPipes ==
  ASSUME IInv, calls' = calls + 1,
         UNCHANGED << commands, stdin, worker, job, stdout, rx >>
  PROVE  PipesOK'
<1>1. calls \in Nat
  BY DEF IInv, Types
<1>2. /\ commands \in Seq(Made(calls + 1)) /\ stdin \in Seq(Made(calls + 1))
      /\ job \in Made(calls + 1) \cup { NoJob }
  <2> DEFINE old == Made(calls)
             new == Made(calls + 1)
  <2>1. commands \in Seq(old) /\ stdin \in Seq(old) /\ job \in old \cup { NoJob }
    BY DEF IInv, PipesOK
  <2>2. old \subseteq new
    BY <1>1, OneCallMore
  <2> HIDE DEF old, new
  <2>3. commands \in Seq(new)
    BY <2>1, <2>2, SeqWidens
  <2>4. stdin \in Seq(new)
    BY <2>1, <2>2, SeqWidens
  <2>5. job \in new \cup { NoJob }
    BY <2>1, <2>2
  <2> QED BY <2>3, <2>4, <2>5 DEF new
<1>3. stdout \in Seq(Frames(calls + 1))
  BY <1>1, OneCallMore, SeqWidens DEF IInv, PipesOK
<1>4. rx \in Seq(Items(calls + 1))
  BY <1>1, OneCallMore, SeqWidens DEF IInv, PipesOK
<1> QED BY <1>2, <1>3, <1>4 DEF IInv, PipesOK

\* Between two calls there is nothing that a new one could take for its own.
LEMMA SendKeeps ==
  ASSUME TransportAssumption, IInv, NEW r \in setting.requests, Send(r), CallSame
  PROVE  IInv'
<1>1. calls \in Nat /\ calls >= 1 /\ calls' \in 1..setting.calls /\ calls' = calls + 1
  BY DEF IInv, Types, Send, TransportAssumption
<1>2. r \in Requests /\ r # Hello
  BY DEF IInv, Types, TransportAssumption
<1> USE DEF Send, CallSame, HostSame
<1>3. result'.call \in 0..calls' /\ result'.of \in 0..calls'
  BY <1>1 DEF IInv, Types
<1>4. Types'
  BY <1>1, <1>2, <1>3 DEF IInv, Types, SendPcs, Asked
<1>5. PipesOK'
  BY CountingKeepsPipes
<1>6. WriterOK' /\ DownOK' /\ ReplyOK' /\ LostOK'
  BY DEF IInv, WriterOK, DownOK, ReplyOK, LostOK, AwaitPcs, ReplyPcs
<1>7. HandshakeOK'
  BY <1>1, <1>2 DEF HandshakeOK, SendPcs
<1>8. RegionOK'
  BY <1>1 DEF IInv, Types, HandshakeOK, RegionOK
<1>9. FlowOK'
  BY DEF IInv, FlowOK, AwaitPcs, Quiet, NoReplyWaits
<1> QED BY <1>4, <1>5, <1>6, <1>7, <1>8, <1>9 DEF IInv

LEMMA SendRejectedKeeps ==
  ASSUME TransportAssumption, IInv, NEW r \in setting.requests, SendRejected(r), CallSame
  PROVE  IInv'
<1>1. calls \in Nat /\ calls >= 1 /\ calls' \in 1..setting.calls /\ calls' = calls + 1
  BY DEF IInv, Types, SendRejected, TransportAssumption
<1>2. result'.call = calls' /\ result'.of = 0
  BY DEF SendRejected
<1> USE DEF SendRejected, CallSame, HostSame
<1>3. result'.call \in 0..calls' /\ result'.of \in 0..calls'
  BY <1>1, <1>2
<1>4. Types'
  BY <1>1, <1>3 DEF IInv, Types, SendPcs, Asked
<1>5. PipesOK'
  BY CountingKeepsPipes
<1>6. WriterOK' /\ DownOK' /\ ReplyOK' /\ LostOK'
  BY DEF IInv, WriterOK, DownOK, ReplyOK, LostOK, AwaitPcs, ReplyPcs
<1>7. HandshakeOK'
  BY <1>1 DEF HandshakeOK, SendPcs
<1>8. RegionOK'
  BY <1>1 DEF IInv, Types, HandshakeOK, RegionOK
<1>9. FlowOK'
  BY DEF IInv, FlowOK, AwaitPcs, Quiet, NoReplyWaits
<1> QED BY <1>4, <1>5, <1>6, <1>7, <1>8, <1>9 DEF IInv

\* The worker is told to go between two calls, so nothing is left for it to do.
LEMMA ShutdownKeeps ==
  ASSUME IInv, Shutdown, CallSame
  PROVE  IInv'
<1> USE DEF Shutdown, CallSame, HostSame
<1>1. writerTx' \in BOOLEAN
  OBVIOUS
<1>2. Types' /\ PipesOK'
  BY <1>1 DEF IInv, Types, PipesOK, SendPcs
<1>3. WriterOK' /\ DownOK' /\ ReplyOK' /\ LostOK'
  BY DEF IInv, WriterOK, DownOK, ReplyOK, LostOK, AwaitPcs, ReplyPcs
<1>4. HandshakeOK' /\ RegionOK'
  BY DEF IInv, HandshakeOK, RegionOK, SendPcs
<1>5. FlowOK'
  BY DEF IInv, FlowOK, AwaitPcs, Quiet, NoReplyWaits
<1> QED BY <1>2, <1>3, <1>4, <1>5 DEF IInv

LEMMA GraceKeeps ==
  ASSUME IInv, Grace, CallSame
  PROVE  IInv'
<1> USE DEF Grace, CallSame, HostSame
<1>1. Types' /\ PipesOK'
  BY DEF IInv, Types, PipesOK, SendPcs
<1>2. WriterOK' /\ DownOK' /\ ReplyOK' /\ LostOK'
  BY DEF IInv, WriterOK, DownOK, ReplyOK, LostOK, AwaitPcs, ReplyPcs
<1>3. HandshakeOK' /\ RegionOK'
  BY DEF IInv, HandshakeOK, RegionOK, SendPcs
<1>4. FlowOK'
  BY DEF IInv, FlowOK, DownOK
<1> QED BY <1>1, <1>2, <1>3, <1>4 DEF IInv

LEMMA DropKeeps ==
  ASSUME IInv, Drop, CallSame
  PROVE  IInv'
<1> USE DEF Drop, CallSame, HostSame
<1>1. writerTx' \in BOOLEAN /\ leaving' \in BOOLEAN
  OBVIOUS
<1>2. Types' /\ PipesOK'
  BY <1>1 DEF IInv, Types, PipesOK, SendPcs
<1>3. WriterOK' /\ DownOK' /\ ReplyOK' /\ LostOK'
  BY DEF IInv, WriterOK, DownOK, ReplyOK, LostOK, AwaitPcs, ReplyPcs
<1>4. HandshakeOK' /\ RegionOK'
  BY DEF IInv, HandshakeOK, RegionOK, SendPcs
<1>5. FlowOK'
  BY DEF FlowOK
<1> QED BY <1>2, <1>3, <1>4, <1>5 DEF IInv

\* A page buffer that is known is removed.
LEMMA ReapKeeps ==
  ASSUME IInv, Reap, UNCHANGED << commands, written >>, HostSame
  PROVE  IInv'
<1>1. /\ pc = "reap" /\ pc' \in {"gone", "idle"} /\ worker = "dead"
      /\ pc' = "idle" => ~leaving
      /\ reaped' /\ ~shm'
      /\ region' => region /\ ~shm
      /\ reaped' \in BOOLEAN /\ shm' \in BOOLEAN /\ region' \in BOOLEAN
      /\ UNCHANGED << calls, request, expired, reply, result, leaving, writerTx,
                      worker, rx >>
  BY DEF Reap, IInv, Types
<1> USE <1>1 DEF HostSame
<1>2. Types' /\ PipesOK'
  BY DEF IInv, Types, PipesOK, SendPcs
<1>3. WriterOK' /\ DownOK' /\ ReplyOK' /\ LostOK'
  BY DEF IInv, WriterOK, DownOK, ReplyOK, LostOK, AwaitPcs, ReplyPcs
<1>4. HandshakeOK' /\ RegionOK'
  BY DEF IInv, HandshakeOK, RegionOK, SendPcs
<1>5. FlowOK'
  BY DEF IInv, DownOK, FlowOK
<1> QED BY <1>2, <1>3, <1>4, <1>5 DEF IInv

\* Time passes.
LEMMA DeadlineKeeps ==
  ASSUME IInv, Deadline
  PROVE  IInv'
<1> USE DEF Deadline, writerVars, workerVars, readerVars
<1>1. expired' \in BOOLEAN
  OBVIOUS
<1>2. Types' /\ PipesOK'
  BY <1>1 DEF IInv, Types, PipesOK
<1>3. WriterOK' /\ DownOK' /\ ReplyOK' /\ LostOK'
  BY DEF IInv, WriterOK, DownOK, ReplyOK, LostOK
<1>4. HandshakeOK' /\ RegionOK'
  BY DEF IInv, HandshakeOK, RegionOK
<1>5. FlowOK'
  BY DEF IInv, FlowOK, Quiet, OneFrame, NoReplyWaits, Command
<1> QED BY <1>2, <1>3, <1>4, <1>5 DEF IInv
-----------------------------------------------------------------------------
(* The writer thread.                                                      *)

WriterSame == UNCHANGED << setting, hostVars, workerVars, readerVars, writerTx, stdout,
                           reaped, region, inherited >>

\* The command goes from the channel to the pipe, or is lost with the worker.
LEMMA WriterStartKeeps ==
  ASSUME IInv, WriterStart, WriterSame
  PROVE  IInv'
<1> USE DEF WriterSame, hostVars, workerVars, readerVars
<1>1. /\ commands # << >> /\ commands' = << >>
      /\ \/ stdin' = stdin
         \/ stdin' = stdin \o commands /\ writer' = "writing" /\ written' = written
      /\ stdin' = stdin => Unread /\ writer' = "done" /\ written' = "error"
  <2>1. stdin \o commands # stdin
    BY DEF WriterStart, IInv, PipesOK
  <2> QED BY <2>1 DEF WriterStart
<1>2. stdin' \in Seq(Made(calls))
  <2> DEFINE made == Made(calls)
  <2>1. stdin \in Seq(made) /\ commands \in Seq(made)
    BY DEF IInv, PipesOK
  <2> HIDE DEF made
  <2>2. stdin \o commands \in Seq(made)
    BY <2>1
  <2>3. stdin' \in Seq(made)
    BY <1>1, <2>1, <2>2
  <2> QED BY <2>3 DEF made
<1>3. Types' /\ PipesOK'
  BY <1>1, <1>2 DEF IInv, Types, PipesOK
<1>4. WriterOK'
  BY <1>1 DEF WriterStart, IInv, WriterOK
<1>5. DownOK' /\ ReplyOK' /\ LostOK' /\ HandshakeOK' /\ RegionOK'
  BY DEF IInv, DownOK, ReplyOK, LostOK, HandshakeOK, RegionOK
<1>6. FlowOK'
  <2> SUFFICES ASSUME setting.honest, writerTx \/ worker # "dead"
               PROVE  pc \in AwaitPcs /\ OneFrame'
    BY DEF FlowOK
  <2>1. pc \in AwaitPcs /\ OneFrame
    BY <1>1 DEF IInv, FlowOK, Quiet
  <2>2. /\ commands = << Command >> /\ stdin = << >>
        /\ worker # "busy" /\ stdout = << >> /\ NoReplyWaits
    BY <1>1, <2>1 DEF OneFrame
  <2>3. stdin' = << >> \/ stdin' = << Command >>
    <3>1. << >> \o << Command >> = << Command >>
      OBVIOUS
    <3> QED BY <1>1, <2>2, <3>1
  <2> QED BY <1>1, <2>1, <2>2, <2>3 DEF OneFrame, NoReplyWaits, Command
<1> QED BY <1>3, <1>4, <1>5, <1>6 DEF IInv

LEMMA WriterFinishKeeps ==
  ASSUME IInv, WriterFinish, WriterSame
  PROVE  IInv'
<1> USE DEF WriterSame, WriterFinish, hostVars, workerVars, readerVars
<1>1. Types' /\ PipesOK'
  BY DEF IInv, Types, PipesOK
<1>2. WriterOK'
  BY DEF IInv, WriterOK
<1>3. DownOK' /\ ReplyOK' /\ LostOK' /\ HandshakeOK' /\ RegionOK'
  BY DEF IInv, DownOK, ReplyOK, LostOK, HandshakeOK, RegionOK
<1>4. FlowOK'
  BY DEF IInv, FlowOK, Quiet, OneFrame, NoReplyWaits, Command
<1> QED BY <1>1, <1>2, <1>3, <1>4 DEF IInv

LEMMA WriterExitKeeps ==
  ASSUME IInv, WriterExit, WriterSame
  PROVE  IInv'
<1> USE DEF WriterSame, WriterExit, hostVars, workerVars, readerVars
<1>1. Types' /\ PipesOK'
  BY DEF IInv, Types, PipesOK
<1>2. WriterOK'
  BY DEF IInv, WriterOK
<1>3. DownOK' /\ ReplyOK' /\ LostOK' /\ HandshakeOK' /\ RegionOK'
  BY DEF IInv, DownOK, ReplyOK, LostOK, HandshakeOK, RegionOK
<1>4. FlowOK'
  BY DEF IInv, FlowOK, Quiet, OneFrame, NoReplyWaits, Command
<1> QED BY <1>1, <1>2, <1>3, <1>4 DEF IInv

-----------------------------------------------------------------------------
(* The worker.                                                             *)

WorkerSame == UNCHANGED << setting, hostVars, writerVars, readerVars, writerTx, reaped,
                           inherited >>

\* Only the command of the handshake makes a page buffer.
LEMMA WorkerReadKeeps ==
  ASSUME TransportAssumption, IInv, WorkerRead, WorkerSame
  PROVE  IInv'
<1> USE DEF WorkerSame, hostVars, writerVars, readerVars
<1>1. /\ worker = "reading" /\ worker' = "busy" /\ stdin # << >>
      /\ job' = Head(stdin) /\ stdin' = Tail(stdin)
      /\ UNCHANGED << stdout, crashed, extra >>
      /\ region' \in BOOLEAN
      /\ region' # region => Head(stdin).request = Hello
  BY DEF WorkerRead, IInv, Types
<1>2. /\ Head(stdin) \in Made(calls) /\ Tail(stdin) \in Seq(Made(calls))
      /\ Head(stdin) # NoJob
  <2>1. /\ Head(stdin) = stdin[1] /\ stdin[1] \in Made(calls)
        /\ Tail(stdin) \in Seq(Made(calls))
    BY <1>1 DEF IInv, PipesOK
  <2>2. stdin[1].call # 0
    BY <2>1 DEF Made, IInv, Types
  <2> QED BY <2>1, <2>2 DEF NoJob
<1>3. Types'
  BY <1>1 DEF IInv, Types
<1>4. PipesOK'
  BY <1>1, <1>2 DEF IInv, PipesOK
<1>5. WriterOK' /\ DownOK' /\ ReplyOK' /\ LostOK' /\ HandshakeOK'
  BY <1>1 DEF IInv, WriterOK, DownOK, ReplyOK, LostOK, HandshakeOK
<1>6. setting.honest => /\ pc \in AwaitPcs /\ stdin = << Command >> /\ OneFrame
                        /\ stdout = << >> /\ NoReplyWaits /\ commands = << >>
  BY <1>1 DEF IInv, FlowOK, Quiet, OneFrame
<1>7. setting.honest => Head(stdin) = Command /\ Tail(stdin) = << >>
  <2>1. \A c : Head(<< c >>) = c /\ Tail(<< c >>) = << >>
    OBVIOUS
  <2> QED BY <1>6, <2>1
<1>8. FlowOK'
  BY <1>1, <1>6, <1>7 DEF FlowOK, OneFrame, NoReplyWaits, Command
<1>9. RegionOK'
  <2>1. setting.honest /\ region' # region => calls = 1 /\ result.code = "none"
    BY <1>1, <1>6, <1>7 DEF IInv, HandshakeOK, AwaitPcs, SendPcs, Command
  <2>2. CASE region' = region
    BY <2>2 DEF IInv, RegionOK
  <2>3. CASE region' # region
    BY <2>1, <2>3 DEF RegionOK
  <2> QED BY <2>2, <2>3
<1> QED BY <1>3, <1>4, <1>5, <1>8, <1>9 DEF IInv

LEMMA WorkerReplyKeeps ==
  ASSUME TransportAssumption, IInv, WorkerReply, WorkerSame
  PROVE  IInv'
<1> USE DEF WorkerSame, hostVars, writerVars, readerVars
<1>1. /\ worker = "busy" /\ worker' \in {"dead", "reading"} /\ job' = NoJob
      /\ UNCHANGED << stdin, region, crashed, extra >>
  BY DEF WorkerReply
<1>2. job.call \in 0..calls /\ job.request \in Asked
  BY <1>1 DEF IInv, PipesOK, Made
<1>3. PICK f \in Frames(calls) :
        /\ setting.honest => f \in { [kind |-> "answer", echo |-> EchoOf(job.request),
                                     of |-> job.call],
                                    [kind |-> "error", of |-> job.call] }
        /\ \/ worker' = "dead" /\ stdout' = stdout
           \/ worker' = "reading" /\ stdout' = Append(stdout, f)
  <2>1. Replies \subseteq Frames(calls)
    <3>1. 0 \in 0..calls
      BY DEF IInv, Types
    <3>2. Echoes \subseteq { EchoOf(r) : r \in Asked }
      BY DEF Echoes, Asked, IInv, Types, TransportAssumption
    <3> QED BY <1>2, <3>1, <3>2 DEF Replies, Frames
  <2>2. setting.honest =>
          Replies = { [kind |-> "answer", echo |-> EchoOf(job.request), of |-> job.call],
                      [kind |-> "error", of |-> job.call] }
    BY DEF Replies
  <2>3. [kind |-> "error", of |-> job.call] \in Replies
    BY DEF Replies
  <2>4. \E f \in Replies :
          \/ worker' = "dead" /\ stdout' = stdout
          \/ worker' = "reading" /\ stdout' = Append(stdout, f)
    <3>1. CASE reader = "done"
      <4>1. worker' = "dead" /\ stdout' = stdout
        BY <3>1 DEF WorkerReply
      <4> QED BY <2>3, <4>1
    <3>2. CASE reader # "done"
      BY <3>2 DEF WorkerReply
    <3> QED BY <3>1, <3>2
  <2> QED BY <2>1, <2>2, <2>4
<1>4. stdout' \in Seq(Frames(calls))
  <2>1. stdout \in Seq(Frames(calls))
    BY DEF IInv, PipesOK
  <2> QED BY <1>3, <2>1, AppendKeeps
<1>5. Types' /\ PipesOK'
  BY <1>1, <1>4 DEF IInv, Types, PipesOK
<1>6. WriterOK' /\ DownOK' /\ ReplyOK' /\ LostOK' /\ HandshakeOK' /\ RegionOK'
  BY <1>1 DEF IInv, WriterOK, DownOK, ReplyOK, LostOK, HandshakeOK, RegionOK
<1>7. FlowOK'
  <2> SUFFICES ASSUME setting.honest, writerTx \/ worker' # "dead"
               PROVE  pc \in AwaitPcs /\ OneFrame'
    BY DEF FlowOK
  <2>1. /\ pc \in AwaitPcs /\ OneFrame
        /\ job = Command /\ stdout = << >> /\ NoReplyWaits
        /\ commands = << >> /\ stdin = << >>
    BY <1>1 DEF IInv, FlowOK, Quiet, OneFrame
  <2>2. f.of = calls
    BY <1>3, <2>1 DEF Command
  <2>3. stdout' = << >> \/ stdout' = << f >>
    BY <1>3, <2>1
  <2> QED BY <1>1, <2>1, <2>2, <2>3 DEF OneFrame, NoReplyWaits, Command, IsReply
<1> QED BY <1>5, <1>6, <1>7 DEF IInv

LEMMA WorkerCrashKeeps ==
  ASSUME IInv, WorkerCrash, WorkerSame
  PROVE  IInv'
<1> USE DEF WorkerSame, hostVars, writerVars, readerVars
<1>1. /\ worker # "dead" /\ worker' = "dead" /\ crashed' \in BOOLEAN
      /\ UNCHANGED << stdin, job, region, extra >>
      /\ \/ stdout' = stdout
         \/ worker = "busy" /\ stdout' = Append(stdout, [kind |-> "torn"])
  BY DEF WorkerCrash
<1>2. stdout' \in Seq(Frames(calls))
  <2>1. [kind |-> "torn"] \in Frames(calls)
    BY DEF Frames
  <2>2. stdout \in Seq(Frames(calls))
    BY DEF IInv, PipesOK
  <2> QED BY <1>1, <2>1, <2>2, AppendKeeps
<1>3. Types' /\ PipesOK'
  BY <1>1, <1>2 DEF IInv, Types, PipesOK
<1>4. WriterOK' /\ DownOK' /\ ReplyOK' /\ LostOK' /\ HandshakeOK' /\ RegionOK'
  BY <1>1 DEF IInv, WriterOK, DownOK, ReplyOK, LostOK, HandshakeOK, RegionOK
<1>5. FlowOK'
  <2>1. CASE stdout' = stdout
    BY <1>1, <2>1 DEF IInv, FlowOK, Quiet, OneFrame, NoReplyWaits, Command
  <2>2. CASE worker = "busy" /\ stdout' = Append(stdout, [kind |-> "torn"])
    <3>1. setting.honest =>
            /\ pc \in AwaitPcs /\ OneFrame /\ stdout = << >> /\ NoReplyWaits
            /\ commands = << >> /\ stdin = << >>
      BY <1>1, <2>2 DEF IInv, FlowOK, Quiet, OneFrame
    <3>2. setting.honest => stdout' = << [kind |-> "torn"] >>
      BY <2>2, <3>1
    <3>3. setting.honest => Len(stdout') = 1 /\ stdout'[1].kind = "torn"
      BY <3>2
    <3> QED BY <1>1, <3>1, <3>3 DEF FlowOK, OneFrame, NoReplyWaits, Command, IsReply
  <2> QED BY <1>1, <2>1, <2>2
<1> QED BY <1>3, <1>4, <1>5 DEF IInv

LEMMA WorkerExitKeeps ==
  ASSUME IInv, WorkerExit, WorkerSame
  PROVE  IInv'
<1> USE DEF WorkerExit, WorkerSame, hostVars, writerVars, readerVars
<1>1. Types' /\ PipesOK'
  BY DEF IInv, Types, PipesOK
<1>2. WriterOK' /\ DownOK' /\ ReplyOK' /\ LostOK' /\ HandshakeOK' /\ RegionOK'
  BY DEF IInv, WriterOK, DownOK, ReplyOK, LostOK, HandshakeOK, RegionOK
<1>3. FlowOK'
  BY DEF IInv, FlowOK, Quiet, OneFrame, NoReplyWaits, Command
<1> QED BY <1>1, <1>2, <1>3 DEF IInv

\* An honest worker sends nothing unasked.
LEMMA WorkerChatterKeeps ==
  ASSUME TransportAssumption, IInv, WorkerChatter, WorkerSame
  PROVE  IInv'
<1> USE DEF WorkerSame, hostVars, writerVars, readerVars
<1>1. PICK e \in Echoes :
        stdout' = Append(stdout, [kind |-> "answer", echo |-> e, of |-> 0])
  BY DEF WorkerChatter
<1>2. [kind |-> "answer", echo |-> e, of |-> 0] \in Frames(calls)
  <2>1. 0 \in 0..calls
    BY DEF IInv, Types
  <2>2. e \in { EchoOf(r) : r \in Asked }
    BY DEF Echoes, Asked, IInv, Types, TransportAssumption
  <2> QED BY <2>1, <2>2 DEF Frames
<1>3. stdout' \in Seq(Frames(calls))
  <2>1. stdout \in Seq(Frames(calls))
    BY DEF IInv, PipesOK
  <2> QED BY <1>1, <1>2, <2>1, AppendKeeps
<1>4. setting.extras \in Nat /\ extra \in 0..setting.extras /\ extra < setting.extras
  BY DEF TransportAssumption, IInv, Types, WorkerChatter
<1>5. extra' \in 0..setting.extras /\ ~setting.honest
  BY <1>4 DEF TransportAssumption, IInv, Types, WorkerChatter
<1>6. UNCHANGED << worker, stdin, job, region, crashed >>
  BY DEF WorkerChatter
<1>7. Types' /\ PipesOK'
  BY <1>3, <1>5, <1>6 DEF IInv, Types, PipesOK
<1>8. WriterOK' /\ DownOK' /\ ReplyOK' /\ LostOK' /\ HandshakeOK' /\ RegionOK'
  BY <1>6 DEF IInv, WriterOK, DownOK, ReplyOK, LostOK, HandshakeOK, RegionOK
<1>9. FlowOK'
  BY <1>5 DEF FlowOK
<1> QED BY <1>7, <1>8, <1>9 DEF IInv
-----------------------------------------------------------------------------
(* The reader thread.                                                      *)

ReaderSame == UNCHANGED << setting, hostVars, writerVars, workerVars, writerTx, stdin,
                           reaped, region, inherited >>

\* What the reader delivers it puts into an empty channel; into a full one it puts
\* nothing, and gives up.
LEMMA DeliverKeeps ==
  ASSUME IInv, NEW item \in Items(calls), NEW last \in BOOLEAN, Deliver(item, last),
         reader = "run", overflow' = overflow,
         ReaderSame, stdout' \in Seq(Frames(calls)),
         setting.honest /\ (writerTx \/ worker # "dead") =>
           /\ stdout' = << >>
           /\ IsReply(item) => stdout # << >> /\ item = stdout[1]
  PROVE  IInv'
<1> USE DEF ReaderSame, hostVars, writerVars, workerVars
<1>1. /\ reader' \in {"run", "full", "done"}
      /\ \/ rx = << >> /\ rx' = << item >> /\ lost' = lost
         \/ rx # << >> /\ rx' = rx /\ reader' = "full" /\ lost' = calls
  BY DEF Deliver
<1>2. rx' \in Seq(Items(calls)) /\ Len(rx') <= 1
  <2>1. rx \in Seq(Items(calls)) /\ Len(rx) <= 1
    BY DEF IInv, PipesOK
  <2>2. << item >> \in Seq(Items(calls)) /\ Len(<< item >>) = 1
    OBVIOUS
  <2>3. CASE rx' = << item >>
    BY <2>2, <2>3
  <2>4. CASE rx' = rx
    BY <2>1, <2>4
  <2> QED BY <1>1, <2>3, <2>4
<1>3. Types' /\ PipesOK'
  BY <1>1, <1>2 DEF IInv, Types, PipesOK
<1>4. WriterOK' /\ DownOK' /\ HandshakeOK' /\ RegionOK'
  BY DEF IInv, WriterOK, DownOK, HandshakeOK, RegionOK
<1>5. ReplyOK' /\ LostOK'
  <2>1. lost = 0 /\ calls \in Nat /\ result.call \in 0..calls
    BY DEF IInv, LostOK, Types
  <2>2. lost' = 0 \/ (lost' = calls /\ reader' = "full")
    BY <1>1, <2>1
  <2> QED BY <2>1, <2>2 DEF IInv, ReplyOK, LostOK
<1>6. FlowOK'
  <2> SUFFICES ASSUME setting.honest, writerTx \/ worker # "dead"
               PROVE  /\ pc \in AwaitPcs => OneFrame'
                      /\ pc \notin AwaitPcs => Quiet'
    BY DEF FlowOK
  <2>1. /\ pc \in AwaitPcs => OneFrame
        /\ pc \notin AwaitPcs => Quiet
    BY DEF IInv, FlowOK
  <2>2. stdout' = << >>
    OBVIOUS
  <2>3. /\ rx' = << item >> => rx' # << >> /\ rx'[1] = item
        /\ rx' # rx => rx' = << item >>
    <3>1. << item >> # << >> /\ << item >>[1] = item
      OBVIOUS
    <3> QED BY <1>1, <3>1
  <2>4. ASSUME pc \notin AwaitPcs
        PROVE  Quiet'
    BY <2>1, <2>2, <2>3, <2>4 DEF Quiet, NoReplyWaits
  <2>5. ASSUME pc \in AwaitPcs
        PROVE  OneFrame'
    <3>1. CASE IsReply(item) /\ rx' # rx
      <4>1. /\ stdout # << >> /\ IsReply(stdout[1]) /\ item.of = calls
            /\ commands = << >> /\ stdin = << >> /\ worker # "busy"
        BY <2>1, <2>5, <3>1 DEF OneFrame
      <4> QED BY <2>2, <2>3, <3>1, <4>1 DEF OneFrame
    <3>2. CASE ~IsReply(item) \/ rx' = rx
      <4>1. NoReplyWaits => NoReplyWaits'
        BY <2>3, <3>2 DEF NoReplyWaits
      <4>2. rx' # << >> /\ IsReply(rx'[1]) => rx' = rx
        BY <2>3, <3>2
      <4> QED BY <2>1, <2>2, <2>5, <4>1, <4>2 DEF OneFrame, Command
    <3> QED BY <3>1, <3>2
  <2> QED BY <2>4, <2>5
<1> QED BY <1>3, <1>4, <1>5, <1>6 DEF IInv

LEMMA ReadFrameKeeps ==
  ASSUME IInv, ReadFrame, ReaderSame
  PROVE  IInv'
<1> USE DEF ReaderSame, hostVars, writerVars, workerVars
<1>1. stdout # << >> /\ stdout' = Tail(stdout)
  BY DEF ReadFrame
<1>2. /\ Head(stdout) \in Frames(calls) /\ Tail(stdout) \in Seq(Frames(calls))
      /\ Head(stdout) = stdout[1]
  <2> DEFINE frames == Frames(calls)
  <2>1. stdout \in Seq(frames)
    BY DEF IInv, PipesOK
  <2> HIDE DEF frames
  <2>2. /\ Head(stdout) \in frames /\ Tail(stdout) \in Seq(frames)
        /\ Head(stdout) = stdout[1]
    BY <1>1, <2>1
  <2> QED BY <2>2 DEF frames
<1>3. setting.honest /\ (writerTx \/ worker # "dead") => stdout' = << >>
  <2>1. setting.honest /\ (writerTx \/ worker # "dead") => Len(stdout) = 1
    BY <1>1 DEF IInv, FlowOK, Quiet, OneFrame
  <2>2. \A s \in Seq(Frames(calls)) : Len(s) = 1 => Tail(s) = << >>
    <3> DEFINE frames == Frames(calls)
    <3> HIDE DEF frames
    <3>1. ASSUME NEW s \in Seq(frames), Len(s) = 1
          PROVE  Tail(s) = << >>
      <4>0. Len(<< >>) = 0
        BY EmptySeq
      <4>1. s # << >>
        <5> SUFFICES ASSUME s = << >> PROVE FALSE
          OBVIOUS
        <5>1. Len(<< >>) = 1
          BY <3>1
        <5> QED BY <4>0, <5>1
      <4>2. Tail(s) \in Seq(frames) /\ Len(Tail(s)) = 0
        BY <3>1, <4>1, HeadTailProperties
      <4> QED BY <4>2, EmptySeq
    <3> QED BY <3>1 DEF frames
  <2> QED BY <1>1, <2>1, <2>2 DEF IInv, PipesOK
<1>4. CASE Head(stdout).kind = "torn"
  <2>1. [kind |-> "ioerror"] \in Items(calls) /\ ~IsReply([kind |-> "ioerror"])
    BY DEF Items, IsReply
  <2> QED BY <1>1, <1>2, <1>3, <1>4, <2>1, DeliverKeeps DEF ReadFrame
<1>5. CASE Head(stdout).kind # "torn"
  <2>1. Head(stdout) \in Items(calls)
    BY <1>2 DEF Items
  <2> QED BY <1>1, <1>2, <1>3, <1>5, <2>1, DeliverKeeps DEF ReadFrame
<1> QED BY <1>4, <1>5

LEMMA ReadEofKeeps ==
  ASSUME IInv, ReadEof, ReaderSame
  PROVE  IInv'
<1>1. [kind |-> "eof"] \in Items(calls) /\ ~IsReply([kind |-> "eof"])
  BY DEF Items, IsReply
<1>2. stdout = << >> /\ stdout' = stdout /\ stdout' \in Seq(Frames(calls))
  BY DEF ReadEof, IInv, PipesOK
<1> QED BY <1>1, <1>2, DeliverKeeps DEF ReadEof

\* The flag is set a step after the channel was full.
LEMMA OverflowKeeps ==
  ASSUME IInv, Overflow, ReaderSame
  PROVE  IInv'
<1> USE DEF Overflow, ReaderSame, hostVars, writerVars, workerVars
<1>1. Types' /\ PipesOK'
  BY DEF IInv, Types, PipesOK
<1>2. WriterOK' /\ DownOK' /\ ReplyOK' /\ LostOK' /\ HandshakeOK' /\ RegionOK'
  BY DEF IInv, WriterOK, DownOK, ReplyOK, LostOK, HandshakeOK, RegionOK
<1>3. FlowOK'
  BY DEF IInv, FlowOK, Quiet, OneFrame, NoReplyWaits, Command
<1> QED BY <1>1, <1>2, <1>3 DEF IInv

LEMMA ReadGoneKeeps ==
  ASSUME IInv, ReadGone, ReaderSame
  PROVE  IInv'
<1> USE DEF ReadGone, ReaderSame, hostVars, writerVars, workerVars
<1>1. Types' /\ PipesOK'
  BY DEF IInv, Types, PipesOK
<1>2. WriterOK' /\ DownOK' /\ ReplyOK' /\ LostOK' /\ HandshakeOK' /\ RegionOK'
  BY DEF IInv, WriterOK, DownOK, ReplyOK, LostOK, HandshakeOK, RegionOK
<1>3. FlowOK'
  BY DEF IInv, FlowOK, Quiet, OneFrame, NoReplyWaits, Command
<1> QED BY <1>1, <1>2, <1>3 DEF IInv
-----------------------------------------------------------------------------
(* The invariant.                                                          *)

\* A step of the host thread, the worker or a pipe thread.
LEMMA StepKeeps ==
  ASSUME TransportAssumption, IInv, [Next]_vars
  PROVE  IInv'
<1>1. CASE Host
  <2>1. CASE (\E r \in setting.requests : Send(r) \/ SendRejected(r)) /\ CallSame
    BY <2>1, SendKeeps, SendRejectedKeeps
  <2>2. CASE SendRaw /\ CallSame
    BY <2>2, CheckOverflowKeeps, CheckQueueKeeps, AwaitWriteKeeps, AwaitReplyKeeps,
       ExtraOverflowKeeps, ExtraQueueKeeps, NegotiateKeeps DEF SendRaw
  <2>3. CASE (Shutdown \/ Grace \/ Drop) /\ CallSame
    BY <2>3, ShutdownKeeps, GraceKeeps, DropKeeps
  <2>4. CASE Enqueue /\ UNCHANGED << reaped, region >> /\ HostSame
    BY <2>4, EnqueueKeeps
  <2>5. CASE Reap /\ UNCHANGED << commands, written >> /\ HostSame
    BY <2>5, ReapKeeps
  <2> QED BY <1>1, <2>1, <2>2, <2>3, <2>4, <2>5 DEF Host, CallSame, HostSame
<1>2. CASE Deadline
  BY <1>2, DeadlineKeeps
<1>3. CASE Writer
  BY <1>3, WriterStartKeeps, WriterFinishKeeps, WriterExitKeeps DEF Writer, WriterSame
<1>4. CASE Worker
  BY <1>4, WorkerReadKeeps, WorkerReplyKeeps, WorkerCrashKeeps, WorkerExitKeeps,
     WorkerChatterKeeps DEF Worker, WorkerSame
<1>5. CASE Reader
  BY <1>5, ReadFrameKeeps, ReadEofKeeps, OverflowKeeps, ReadGoneKeeps DEF Reader, ReaderSame
<1>6. CASE UNCHANGED vars
  <2> USE <1>6 DEF vars, hostVars, writerVars, workerVars, readerVars
  <2>1. Types' /\ PipesOK'
    BY DEF IInv, Types, PipesOK
  <2>2. WriterOK' /\ DownOK' /\ ReplyOK' /\ LostOK' /\ HandshakeOK' /\ RegionOK'
    BY DEF IInv, WriterOK, DownOK, ReplyOK, LostOK, HandshakeOK, RegionOK
  <2>3. FlowOK'
    BY DEF IInv, FlowOK, Quiet, OneFrame, NoReplyWaits, Command
  <2> QED BY <2>1, <2>2, <2>3 DEF IInv
<1> QED BY <1>1, <1>2, <1>3, <1>4, <1>5, <1>6 DEF Next

\* After any calls, crashes, late answers and unsolicited frames the frame on its
\* way, the threads and the place of the host thread fit together
\* (ProcessTransport, process.rs).
THEOREM TransportInvariance == Spec => []IInv
<1>1. Init => IInv
  BY InitKeeps, TransportAssumption
<1>2. IInv /\ [Next]_vars => IInv'
  BY StepKeeps, TransportAssumption
<1> QED BY <1>1, <1>2, PTL DEF Spec

\* Every variable keeps its type, and neither channel ever holds more than the one
\* item it was created for (sync_channel(1), process.rs:190-192).
THEOREM TransportTypes == Spec => []TypeOK
<1>1. IInv => TypeOK
  <2> SUFFICES ASSUME IInv PROVE TypeOK
    OBVIOUS
  <2>1. setting.calls \in Nat /\ calls \in 1..setting.calls
    BY TransportAssumption DEF IInv, Types, TransportAssumption
  <2>2. Made(calls) \subseteq Commands
    BY <2>1 DEF Made, Commands, Asked
  <2>3. commands \in Seq(Commands) /\ stdin \in Seq(Commands)
    BY <2>2, SeqWidens DEF IInv, PipesOK
  <2>4. job = NoJob \/ job \in Commands
    BY <2>2 DEF IInv, PipesOK
  <2>5. {expired, leaving, shm, writerTx, reaped, crashed, overflow, region,
         inherited} \subseteq BOOLEAN
    BY DEF IInv, Types
  <2> QED BY <2>1, <2>3, <2>4, <2>5 DEF TypeOK, IInv, Types, PipesOK, Asked
<1> QED BY <1>1, TransportInvariance, PTL

-----------------------------------------------------------------------------
(* Quiet around the calls.                                                 *)

\* When a request goes out, nothing of an earlier one is left anywhere.
NothingIsLeft ==
  pc = "enqueue" /\ writerTx =>
    /\ commands = << >> /\ writer # "done"
    /\ setting.honest =>
         /\ stdin = << >> /\ worker # "busy"
         /\ \A i \in 1..Len(stdout) : stdout[i].kind \notin {"answer", "error"}
         /\ \A i \in 1..Len(rx) : rx[i].kind \notin {"answer", "error"}

\* Once a frame was lost, no later call is answered.
FloodEnds ==
  lost # 0 /\ result.code \in {"ok", "WorkerError"} => result.call <= lost

\* Nothing of an earlier call is left when a request goes out, and after a frame
\* that the response channel had no room for no call made later is answered
\* (send_raw and read_loop, process.rs).
THEOREM QuietTransport == Spec => QuietAroundCalls
<1>1. IInv => NothingIsLeft
  <2> SUFFICES ASSUME IInv, pc = "enqueue", writerTx
               PROVE  NothingIsLeft
    BY DEF NothingIsLeft
  <2>1. commands = << >> /\ writer # "done"
    BY DEF IInv, WriterOK
  <2>2. setting.honest => Quiet
    BY DEF IInv, FlowOK, AwaitPcs
  <2>3. \A i \in 1..Len(rx) : i = 1 /\ rx # << >>
    BY DEF IInv, PipesOK
  <2> QED BY <2>1, <2>2, <2>3 DEF NothingIsLeft, Quiet, NoReplyWaits, IsReply
<1>2. IInv => FloodEnds
  BY DEF IInv, LostOK, FloodEnds
<1> QED BY <1>1, <1>2, TransportInvariance, PTL
        DEF QuietAroundCalls, NothingIsLeft, FloodEnds

-----------------------------------------------------------------------------
(* What is left when the worker is gone.                                   *)

\* The first half of ClosedLeavesNothing: once the transport has failed or has been
\* shut down and its owner has control again, the worker is dead and waited for and
\* a page buffer that outlived an honest handshake is removed (terminate, reap).
THEOREM NothingLeftWhenClosed ==
  Spec => [](~writerTx /\ pc \in {"idle", "gone"} =>
               /\ worker = "dead" /\ reaped /\ ~shm
               /\ setting.honest /\ (calls > 1 \/ result.code = "ok") => ~region)
<1>1. IInv => (~writerTx /\ pc \in {"idle", "gone"} =>
                 /\ worker = "dead" /\ reaped /\ ~shm
                 /\ setting.honest /\ (calls > 1 \/ result.code = "ok") => ~region)
  BY DEF IInv, DownOK, RegionOK
<1> QED BY <1>1, TransportInvariance, PTL

-----------------------------------------------------------------------------
(* The transport is a channel of calls.                                    *)

\* A call that ends the worker is one that fails.
LEMMA TerminateFails ==
  ASSUME pc \in SendPcs, NEW code \in Failing, Terminate(code), UNCHANGED setting
  PROVE  Rpc!Failed
  BY DEF Terminate, Returned, Rpc!Failed, Rpc!Failures, Breaking, Failing, SendPcs

\* An accepted reply answers the call it is returned from.
LEMMA AnswerAnswers ==
  ASSUME IInv, pc \in ReplyPcs, pc' = "idle", NEW code \in {"ok", "WorkerError"},
         result' = Returned(code, reply.of), UNCHANGED << setting, writerTx, calls >>
  PROVE  Rpc!Answered
<1>1. writerTx
  BY DEF IInv, DownOK
<1>2. reply.of \in IF setting.honest THEN { calls } ELSE 0..calls
  BY DEF IInv, ReplyOK, LostOK, Frames
<1>3. pc \in SendPcs /\ (pc' \in SendPcs) = FALSE
  BY DEF ReplyPcs, SendPcs
<1>4. result' = [call |-> calls, code |-> code, of |-> reply.of]
  BY DEF Returned
<1>5. \E c \in {"ok", "WorkerError"}, of \in IF setting.honest THEN {calls} ELSE 0..calls :
        result' = [call |-> calls, code |-> c, of |-> of]
  BY <1>2, <1>4
<1> QED BY <1>1, <1>3, <1>5 DEF Rpc!Answered

\* Every step is a step of the channel, or none that it shows.
LEMMA StepIsRpc ==
  ASSUME IInv, [Next]_vars
  PROVE  [Rpc!Next]_(Rpc!vars)
<1> DEFINE Same == UNCHANGED << setting, writerTx, calls, result >>
<1>1. ASSUME Same, (pc \in SendPcs) = (pc' \in SendPcs)
      PROVE  UNCHANGED Rpc!vars
  BY <1>1 DEF Rpc!vars
<1>2. CASE Host
  <2>0. UNCHANGED setting
    BY <1>2 DEF Host
  <2>1. CASE \E r \in setting.requests : Send(r)
    BY <2>0, <2>1 DEF Send, Rpc!Next, Rpc!Call, SendPcs
  <2>2. CASE \E r \in setting.requests : SendRejected(r)
    BY <2>0, <2>2 DEF SendRejected, Rpc!Next, Rpc!Rejected, SendPcs
  <2>3. CASE pc \in SendPcs /\ \E code \in Failing : Terminate(code)
    BY <2>0, <2>3, TerminateFails DEF Rpc!Next
  <2>4. CASE \E label \in SendPcs : pc \in SendPcs /\ GoTo(label)
    BY <1>1, <2>0, <2>4 DEF GoTo
  <2>5. CASE CheckOverflow \/ CheckQueue \/ Enqueue \/ AwaitWrite \/ AwaitReply
               \/ ExtraOverflow
    <3>1. pc \in SendPcs
      BY <2>5 DEF CheckOverflow, CheckQueue, Enqueue, AwaitWrite, AwaitReply,
         ExtraOverflow, SendPcs
    <3>2. \/ \E code \in Failing : Terminate(code)
          \/ \E label \in SendPcs : GoTo(label)
          \/ pc' \in SendPcs /\ UNCHANGED << calls, result, writerTx >>
      BY <2>5 DEF CheckOverflow, CheckQueue, Enqueue, AwaitWrite, AwaitReply, Receive,
         ExtraOverflow, SendPcs, Breaking, Failing
    <3> QED BY <1>1, <2>0, <2>3, <2>4, <3>1, <3>2
  <2>6. CASE ExtraQueue \/ Negotiate
    <3>1. pc \in SendPcs /\ pc \in ReplyPcs
      BY <2>6 DEF ExtraQueue, Negotiate, SendPcs, ReplyPcs
    <3>2. \/ \E code \in Failing : Terminate(code)
          \/ \E label \in SendPcs : GoTo(label)
          \/ /\ pc' = "idle" /\ UNCHANGED << calls, writerTx >>
             /\ \E code \in {"ok", "WorkerError"} : result' = Returned(code, reply.of)
      BY <2>6 DEF ExtraQueue, Negotiate, SendPcs, Breaking, Failing
    <3> QED BY <2>0, <2>3, <2>4, <3>1, <3>2, AnswerAnswers DEF Rpc!Next
  <2>7. CASE Shutdown \/ Drop
    <3>1. /\ pc \notin SendPcs /\ pc' \notin SendPcs /\ writerTx' = FALSE
          /\ UNCHANGED << calls, result >>
      BY <2>7 DEF Shutdown, Drop, SendPcs
    <3>2. CASE writerTx
      BY <2>0, <3>1, <3>2 DEF Rpc!Next, Rpc!Closed
    <3>3. CASE ~writerTx
      <4>1. writerTx' = writerTx
        BY <3>1, <3>3 DEF IInv, Types
      <4>2. (pc \in SendPcs) = (pc' \in SendPcs)
        BY <3>1
      <4> QED BY <1>1, <2>0, <3>1, <4>1, <4>2
    <3> QED BY <3>2, <3>3
  <2>8. CASE Grace \/ Reap
    BY <1>1, <2>0, <2>8 DEF Grace, Reap, SendPcs
  <2> QED BY <1>2, <2>1, <2>2, <2>5, <2>6, <2>7, <2>8 DEF Host, SendRaw
<1>3. CASE Deadline \/ Writer \/ Worker \/ Reader
  BY <1>1, <1>3 DEF Deadline, Writer, Worker, Reader, hostVars
<1>4. CASE UNCHANGED vars
  BY <1>1, <1>4 DEF vars, hostVars
<1> QED BY <1>2, <1>3, <1>4 DEF Next

\* The transport is a channel of calls: an honest worker's answer is the answer to
\* the very call it is returned from, and the first failure is the last
\* (send_raw, process.rs).
THEOREM TransportIsRpc == Spec => ImplementsRpc
<1>1. Init => Rpc!Init
  BY TransportAssumption DEF Init, Rpc!Init, SendPcs, TransportAssumption
<1>2. IInv /\ [Next]_vars => [Rpc!Next]_(Rpc!vars)
  BY StepIsRpc
<1> QED BY <1>1, <1>2, TransportInvariance, PTL DEF Spec, ImplementsRpc, Rpc!Spec
===============================================================================
