---------------------------- MODULE ProcessTransport ----------------------------
(***************************************************************************)
(* ProcessTransport (crates/sandbox/src/process.rs): one worker process    *)
(* behind two pipes.  Four parties run side by side:                       *)
(*   - the host thread, inside send_raw, shutdown, terminate or drop;      *)
(*   - the writer thread, which takes one frame at a time from a channel   *)
(*     of capacity 1 and writes it to the worker's stdin;                  *)
(*   - the reader thread, which puts frames from the worker's stdout into  *)
(*     a channel of capacity 1 and, at the first it cannot put, gives up   *)
(*     first and says so then;                                             *)
(*   - the worker process, which can answer, be slow, or die at any point. *)
(*                                                                         *)
(* Replies carry no request number: the host accepts a reply whose kind,   *)
(* document and page are those of its request (its "echo"), so requests    *)
(* that differ in the render target only cannot be told apart.             *)
(***************************************************************************)
EXTENDS Naturals, Sequences

CONSTANTS Requests,     \* what a session asks for
          Echo,         \* what the reply to each must repeat
          Large,        \* requests that do not fit into a pipe buffer
          Invalid,      \* requests outside the negotiated limits
          Settings      \* the workers, and what is asked of each: records
                        \*   honest   it sends no wrong and no extra frame,
                        \*            so that `extras` is 0
                        \*   shm      it is offered a shared page buffer
                        \*   requests what its session asks for
                        \*   calls    bound: calls, the handshake included
                        \*   extras   bound: unsolicited frames it sends

Hello == "hello"

ASSUME TransportAssumption ==
  /\ Large \subseteq Requests /\ Invalid \subseteq Requests
  /\ Hello \notin Requests
  /\ Settings \subseteq [honest : BOOLEAN, shm : BOOLEAN, requests : SUBSET Requests,
                        calls : Nat \ {0}, extras : Nat]
  /\ \A s \in Settings : s.honest => s.extras = 0

VARIABLES
  setting,    \* the worker there is, of Settings
  pc,         \* where the host thread is
  calls,      \* calls made; the last one is the current one
  request,    \* its request
  expired,    \* its deadline has passed
  reply,      \* the frame it received
  result,     \* what the last finished call returns
  leaving,    \* the transport is being dropped
  writerTx,   \* the host holds the command channel of the writer
  commands,   \* that channel, at most one command
  writer,     \* the writer thread: idle, writing or done
  written,    \* its report on the current command
  stdin,      \* the pipe to the worker
  worker,     \* the process: reading, busy or dead
  job,        \* the request it works on
  reaped,     \* its exit status has been collected
  crashed,    \* history: it died on its own
  stdout,     \* the pipe from the worker
  reader,     \* the reader thread: run, full (the channel was) or done
  rx,         \* the response channel, at most one item
  overflow,   \* the flag it leaves behind when the channel was full
  lost,       \* history: the call under way, or last made, when it was; 0 before
  region,     \* the shared page-buffer file exists
  shm,        \* the host knows that file
  extra,      \* unsolicited frames sent so far
  inherited   \* a descendant of the worker holds its ends of the pipes

hostVars   == << pc, calls, request, expired, reply, result, leaving, shm >>
writerVars == << commands, writer, written >>
workerVars == << worker, job, crashed, extra >>
readerVars == << reader, rx, overflow, lost >>

vars == << setting, hostVars, writerVars, workerVars, readerVars, writerTx,
           stdin, stdout, reaped, region, inherited >>

NoFrame == [kind |-> "none"]
NoJob   == [call |-> 0, request |-> Hello]

EchoOf(r) == IF r = Hello THEN Hello ELSE Echo[r]
Echoes == { EchoOf(r) : r \in setting.requests \cup {Hello} }

Handshake == calls = 1

\* The child has been spawned with its two threads; the handshake is call 1.
Init ==
  /\ setting \in Settings
  /\ pc = "checkOverflow" /\ calls = 1 /\ request = Hello
  /\ expired = FALSE /\ reply = NoFrame /\ leaving = FALSE /\ shm = FALSE
  /\ result = [call |-> 0, code |-> "none", of |-> 0]
  /\ writerTx = TRUE /\ commands = << >>
  /\ writer = "idle" /\ written = "none"
  /\ stdin = << >> /\ stdout = << >>
  /\ worker = "reading" /\ job = NoJob /\ reaped = FALSE /\ crashed = FALSE
  /\ reader = "run" /\ rx = << >> /\ overflow = FALSE /\ lost = 0
  /\ region = FALSE /\ extra = 0
  /\ inherited \in BOOLEAN

-----------------------------------------------------------------------------
(* The host thread: send_raw.                                              *)

Returned(code, of) == [call |-> calls, code |-> code, of |-> of]

GoTo(label) ==
  /\ pc' = label
  /\ UNCHANGED << calls, request, expired, reply, result, leaving, shm,
                  writerTx, worker >>

\* terminate, first half: the command channel is dropped, the child killed.
Terminate(code) ==
  /\ result' = Returned(code, 0)
  /\ pc' = "reap"
  /\ writerTx' = FALSE
  /\ worker' = "dead"
  /\ leaving' = (leaving \/ Handshake)
  /\ UNCHANGED << calls, request, expired, reply, shm >>

Send(r) == /\ pc = "idle" /\ calls < setting.calls /\ r \notin Invalid
           /\ calls' = calls + 1 /\ request' = r
           /\ pc' = "checkOverflow"
           /\ UNCHANGED << expired, reply, result, leaving, shm, writerTx,
                           worker, rx >>

\* Requests outside the negotiated limits are turned down before send_raw.
SendRejected(r) ==
  /\ pc = "idle" /\ calls < setting.calls /\ r \in Invalid
  /\ calls' = calls + 1
  /\ result' = [call |-> calls', code |-> "Rejected", of |-> 0]
  /\ UNCHANGED << pc, request, expired, reply, leaving, shm, writerTx,
                  worker, rx >>

CheckOverflow == /\ pc = "checkOverflow"
                 /\ IF overflow THEN Terminate("InternalError")
                                ELSE GoTo("checkQueue")
                 /\ UNCHANGED rx

\* No stale frame may be waiting when a request goes out.  The end of file a
\* crashed worker left behind counts as one.  The deadline starts here.
CheckQueue ==
  /\ pc = "checkQueue"
  /\ IF rx # << >> THEN Terminate("InternalError")
     ELSE IF reader = "done" THEN Terminate("SandboxCrashed")
     ELSE /\ pc' = "enqueue" /\ expired' = FALSE
          /\ UNCHANGED << calls, request, reply, result, leaving, shm,
                          writerTx, worker >>
  /\ rx' = << >>

Enqueue ==
  /\ pc = "enqueue"
  /\ IF ~writerTx THEN Terminate("InternalError") /\ UNCHANGED << commands, written >>
     ELSE IF writer = "done"
     THEN Terminate("SandboxCrashed") /\ UNCHANGED << commands, written >>
     ELSE IF commands # << >>
     THEN expired /\ Terminate("Timeout") /\ UNCHANGED << commands, written >>
     ELSE /\ commands' = << [call |-> calls, request |-> request] >>
          /\ written' = "none"
          /\ GoTo("awaitWrite")
  /\ UNCHANGED rx

AwaitWrite ==
  /\ pc = "awaitWrite"
  /\ \/ written = "ok" /\ GoTo("awaitReply")
     \/ written = "error" /\ Terminate("InternalError")
     \/ expired /\ Terminate("Timeout")
  /\ UNCHANGED rx

\* What validate_response lets through; an error answers any request.
Acceptable(frame) == \/ frame.kind = "error"
                     \/ frame.kind = "answer" /\ frame.echo = EchoOf(request)

Receive ==
  LET item == Head(rx)
  IN  /\ rx # << >>
      /\ rx' = << >>
      /\ IF item.kind = "eof" THEN Terminate("SandboxCrashed")
         ELSE IF item.kind = "ioerror" \/ ~Acceptable(item)
         THEN Terminate("InternalError")
         ELSE /\ reply' = item /\ pc' = "extraOverflow"
              /\ UNCHANGED << calls, request, expired, result, leaving, shm,
                              writerTx, worker >>

\* A wait for the reply that has no deadline.
AwaitReplyForever ==
  /\ pc = "awaitReply"
  /\ \/ Receive
     \/ /\ rx = << >> /\ reader = "done"
        /\ Terminate("SandboxCrashed") /\ UNCHANGED rx

\* A wait that times out and leaves the worker and its late reply alone.
AwaitReplyKeepsWorker ==
  /\ pc = "awaitReply"
  /\ \/ Receive
     \/ /\ rx = << >> /\ reader = "done"
        /\ Terminate("SandboxCrashed") /\ UNCHANGED rx
     \/ /\ expired
        /\ pc' = "idle" /\ result' = Returned("Timeout", 0)
        /\ UNCHANGED << calls, request, expired, reply, leaving, shm, writerTx,
                        worker, rx >>

AwaitReply ==
  /\ pc = "awaitReply"
  /\ \/ Receive
     \/ /\ rx = << >> /\ reader = "done"
        /\ Terminate("SandboxCrashed") /\ UNCHANGED rx
     \/ expired /\ Terminate("Timeout") /\ UNCHANGED rx

\* A second frame right behind the reply fails the call.
ExtraOverflow == /\ pc = "extraOverflow"
                 /\ IF overflow THEN Terminate("InternalError")
                                ELSE GoTo("extraQueue")
                 /\ UNCHANGED rx

ExtraQueue ==
  /\ pc = "extraQueue"
  /\ IF rx # << >> THEN Terminate("InternalError")
     ELSE IF Handshake THEN GoTo("negotiate")
     ELSE /\ pc' = "idle"
          /\ result' = Returned(IF reply.kind = "error" THEN "WorkerError"
                                                        ELSE "ok", reply.of)
          /\ UNCHANGED << calls, request, expired, reply, leaving, shm,
                          writerTx, worker >>
  /\ rx' = << >>

\* The handshake: limits that do not fit, a region that cannot be opened or
\* an error from the worker end the spawn; otherwise the region is known.
Negotiate ==
  /\ pc = "negotiate"
  /\ \/ reply.kind = "error" /\ Terminate("WorkerError")
     \/ reply.kind = "answer" /\ ~setting.honest /\ Terminate("ProtocolViolation")
     \/ reply.kind = "answer" /\ region /\ Terminate("InternalError")
     \/ /\ reply.kind = "answer"
        /\ pc' = "idle" /\ shm' = region
        /\ result' = Returned("ok", reply.of)
        /\ UNCHANGED << calls, request, expired, reply, leaving, writerTx,
                        worker >>
  /\ UNCHANGED rx

-----------------------------------------------------------------------------
(* The host thread: the end of the worker.                                 *)

\* shutdown drops the command channel, so that the worker sees end of file.
Shutdown == /\ pc = "idle"
            /\ pc' = "grace" /\ writerTx' = FALSE
            /\ UNCHANGED << calls, request, expired, reply, result, leaving,
                            shm, worker, rx >>

\* It has two seconds to exit before it is killed.
Grace == /\ pc = "grace"
         /\ worker' = "dead"
         /\ pc' = "reap"
         /\ UNCHANGED << calls, request, expired, reply, result, leaving, shm,
                         writerTx, rx >>

\* Drop, or terminate called by a backend that goes away.
Drop == /\ pc = "idle"
        /\ pc' = "reap" /\ leaving' = TRUE
        /\ writerTx' = FALSE /\ worker' = "dead"
        /\ UNCHANGED << calls, request, expired, reply, result, shm, rx >>

\* A reap that forgets the shared page buffer.
ReapKeepsRegion == /\ pc = "reap"
                   /\ worker = "dead"
                   /\ reaped' = TRUE
                   /\ shm' = FALSE
                   /\ pc' = IF leaving THEN "gone" ELSE "idle"
                   /\ UNCHANGED << calls, request, expired, reply, result,
                                   leaving, writerTx, worker, rx, region >>

\* reap: the child is waited for, the threads are joined or, after a second,
\* left alone, and the region is removed if the host knows it.
Reap == /\ pc = "reap"
        /\ worker = "dead"
        /\ reaped' = TRUE
        /\ shm' = FALSE
        /\ region' = (region /\ ~shm)
        /\ pc' = IF leaving THEN "gone" ELSE "idle"
        /\ UNCHANGED << calls, request, expired, reply, result, leaving,
                        writerTx, worker, rx >>

SendRaw == \/ CheckOverflow \/ CheckQueue \/ AwaitWrite \/ AwaitReply
           \/ ExtraOverflow \/ ExtraQueue \/ Negotiate

Host ==
  /\ \/ /\ \/ \E r \in setting.requests : Send(r) \/ SendRejected(r)
           \/ SendRaw \/ Shutdown \/ Grace \/ Drop
        /\ UNCHANGED << commands, written, reaped, region >>
     \/ Enqueue /\ UNCHANGED << reaped, region >>
     \/ Reap /\ UNCHANGED << commands, written >>
  /\ UNCHANGED << setting, writer, stdin, stdout, job, crashed, reader, overflow,
                  lost, extra, inherited >>

\* The operation timeout runs out while a call waits.
Deadline == /\ pc \in {"enqueue", "awaitWrite", "awaitReply"}
            /\ ~expired /\ expired' = TRUE
            /\ UNCHANGED << setting, pc, calls, request, reply, result, leaving, shm,
                            writerVars, workerVars, readerVars, writerTx,
                            stdin, stdout, reaped, region, inherited >>

-----------------------------------------------------------------------------
(* The writer thread: write_loop.                                          *)

\* Nobody is left to read the worker's stdin.
Unread == worker = "dead" /\ ~inherited

WriterStart == /\ writer = "idle" /\ commands # << >>
               /\ commands' = << >>
               /\ IF Unread
                  THEN /\ writer' = "done" /\ written' = "error"
                       /\ UNCHANGED stdin
                  ELSE /\ writer' = "writing" /\ stdin' = stdin \o commands
                       /\ UNCHANGED written

\* A frame that fits the pipe is written at once, a large one when the worker
\* has read it.
WriterFinish == /\ writer = "writing"
                /\ \/ /\ stdin # << >> => stdin[Len(stdin)].request \notin Large
                      /\ writer' = "idle" /\ written' = "ok"
                   \/ /\ Unread
                      /\ writer' = "done" /\ written' = "error"
                /\ UNCHANGED << commands, stdin >>

WriterExit == /\ writer = "idle" /\ commands = << >> /\ ~writerTx
              /\ writer' = "done"
              /\ UNCHANGED << commands, written, stdin >>

Writer == /\ WriterStart \/ WriterFinish \/ WriterExit
          /\ UNCHANGED << setting, hostVars, workerVars, readerVars, writerTx, stdout,
                          reaped, region, inherited >>

-----------------------------------------------------------------------------
(* The worker process.                                                     *)

\* A request is read; the first Hello creates the page-buffer region if the
\* host offered one and the file can be made.
WorkerRead == /\ worker = "reading" /\ stdin # << >>
              /\ worker' = "busy" /\ job' = Head(stdin)
              /\ stdin' = Tail(stdin)
              /\ IF Head(stdin).request = Hello /\ setting.shm
                 THEN region' \in BOOLEAN
                 ELSE UNCHANGED region
              /\ UNCHANGED << stdout, crashed, extra >>

\* Its own reply, an error, or, from a worker that garbles, something else.
Replies ==
  { [kind |-> "answer", echo |-> EchoOf(job.request), of |-> job.call],
    [kind |-> "error", of |-> job.call] }
  \cup IF setting.honest THEN {}
       ELSE { [kind |-> "garbage"], [kind |-> "torn"] }
            \cup { [kind |-> "answer", echo |-> e, of |-> 0] : e \in Echoes }

\* Writing to a pipe whose reader has given up ends the worker.
WorkerReply == /\ worker = "busy"
               /\ IF reader = "done"
                  THEN worker' = "dead" /\ UNCHANGED stdout
                  ELSE /\ worker' = "reading"
                       /\ \E f \in Replies : stdout' = Append(stdout, f)
               /\ job' = NoJob
               /\ UNCHANGED << stdin, region, crashed, extra >>

\* A crash can leave a torn frame behind.
WorkerCrash == /\ worker # "dead"
               /\ worker' = "dead" /\ crashed' = TRUE
               /\ \/ UNCHANGED stdout
                  \/ /\ worker = "busy"
                     /\ stdout' = Append(stdout, [kind |-> "torn"])
               /\ UNCHANGED << stdin, job, region, extra >>

\* End of file on stdin: a clean exit.
WorkerExit == /\ worker = "reading" /\ stdin = << >> /\ writer = "done"
              /\ worker' = "dead"
              /\ UNCHANGED << stdin, stdout, job, region, crashed, extra >>

\* A frame nobody asked for: no request is in the pipe or being worked on.
WorkerChatter == /\ worker = "reading" /\ stdin = << >>
                 /\ extra < setting.extras /\ reader # "done"
                 /\ extra' = extra + 1
                 /\ \E e \in Echoes :
                      stdout' = Append(stdout, [kind |-> "answer", echo |-> e,
                                                of |-> 0])
                 /\ UNCHANGED << worker, stdin, job, region, crashed >>

Worker == /\ \/ WorkerRead \/ WorkerReply \/ WorkerCrash \/ WorkerExit
             \/ WorkerChatter
          /\ UNCHANGED << setting, hostVars, writerVars, readerVars, writerTx, reaped,
                          inherited >>

-----------------------------------------------------------------------------
(* The reader thread: read_loop.                                           *)

\* A channel without a bound.
DeliverUnbounded(item, last) ==
  /\ rx' = Append(rx, item)
  /\ reader' = IF last THEN "done" ELSE "run"
  /\ UNCHANGED lost

\* A reader that drops the frame it has no room for, and reads on.
DeliverOrDrop(item, last) ==
  /\ reader' = IF last THEN "done" ELSE "run"
  /\ IF rx = << >> THEN rx' = << item >> /\ UNCHANGED lost
                   ELSE lost' = calls /\ UNCHANGED rx

\* try_send on the response channel.  The frame it has no room for is lost.
Deliver(item, last) ==
  IF rx = << >>
  THEN /\ rx' = << item >>
       /\ reader' = IF last THEN "done" ELSE "run"
       /\ UNCHANGED lost
  ELSE /\ reader' = "full" /\ lost' = calls
       /\ UNCHANGED rx

ReadFrame == /\ reader = "run" /\ stdout # << >> /\ pc # "gone"
             /\ stdout' = Tail(stdout)
             /\ IF Head(stdout).kind = "torn"
                THEN Deliver([kind |-> "ioerror"], TRUE)
                ELSE Deliver(Head(stdout), FALSE)
             /\ UNCHANGED overflow

ReadEof == /\ reader = "run" /\ stdout = << >> /\ Unread /\ pc # "gone"
           /\ Deliver([kind |-> "eof"], TRUE)
           /\ UNCHANGED << stdout, overflow >>

\* Only after the failed try_send is the flag set, and the thread ends: in
\* between the host can take the reply that filled the channel, and look.
Overflow == /\ reader = "full"
            /\ overflow' = TRUE /\ reader' = "done"
            /\ UNCHANGED << stdout, rx, lost >>

\* With the transport dropped there is no channel to deliver to.
ReadGone == /\ reader = "run" /\ pc = "gone"
            /\ stdout # << >> \/ Unread
            /\ reader' = "done"
            /\ UNCHANGED << stdout, rx, overflow, lost >>

Reader == /\ ReadFrame \/ ReadEof \/ Overflow \/ ReadGone
          /\ UNCHANGED << setting, hostVars, writerVars, workerVars, writerTx, stdin,
                          reaped, region, inherited >>

-----------------------------------------------------------------------------
Next == Host \/ Deadline \/ Writer \/ Worker \/ Reader

\* Threads run and clocks tick; nothing obliges the worker to do anything, nor
\* the owner to call.
InCall == pc \notin {"idle", "gone"}

Fairness == /\ WF_vars(Host /\ InCall) /\ WF_vars(Deadline)
            /\ WF_vars(Writer) /\ WF_vars(Reader)

Spec == Init /\ [][Next]_vars
FairSpec == Spec /\ Fairness

-----------------------------------------------------------------------------
(* Properties.                                                             *)

SendPcs == {"checkOverflow", "checkQueue", "enqueue", "awaitWrite",
            "awaitReply", "extraOverflow", "extraQueue", "negotiate"}

Commands == [call : 1..setting.calls, request : Requests \cup {Hello}]

\* Every variable has its type, and neither channel holds more than the one
\* item it was created for.
TypeOK ==
  /\ pc \in SendPcs \cup {"idle", "grace", "reap", "gone"}
  /\ calls \in 1..setting.calls /\ request \in Requests \cup {Hello}
  /\ result.call \in 0..calls /\ result.of \in 0..calls
  /\ {expired, leaving, shm, writerTx, reaped, crashed, overflow, region,
      inherited} \subseteq BOOLEAN
  /\ commands \in Seq(Commands) /\ Len(commands) <= 1
  /\ stdin \in Seq(Commands)
  /\ writer \in {"idle", "writing", "done"}
  /\ written \in {"none", "ok", "error"}
  /\ worker \in {"reading", "busy", "dead"}
  /\ job = NoJob \/ job \in Commands
  /\ reader \in {"run", "full", "done"} /\ Len(rx) <= 1 /\ lost \in 0..calls
  /\ extra \in 0..setting.extras

\* When a request goes out nothing of an earlier one is left anywhere: not in
\* the write channel, the pipes or the worker, nor in the response channel.
\* Because replies carry no number, this is what makes an accepted reply the
\* reply to its request, and what makes the retry loop of send_raw for a full
\* write channel unnecessary.  And a worker that floods the host gets no answer
\* through any more: once a frame found the response channel full, no call made
\* after that is answered.  The call then under way still can be: the reader
\* sets `overflow` a step after it found the channel full, and a host that took
\* the reply out, and looked at the flag and at the empty channel in between,
\* accepts the reply; what came behind it then fails the next call.
QuietAroundCalls ==
  /\ [](pc = "enqueue" /\ writerTx =>
          /\ commands = << >> /\ writer # "done"
          /\ setting.honest =>
               /\ stdin = << >> /\ worker # "busy"
               /\ \A i \in 1..Len(stdout) : stdout[i].kind \notin {"answer", "error"}
               /\ \A i \in 1..Len(rx) : rx[i].kind \notin {"answer", "error"})
  /\ [](lost # 0 /\ result.code \in {"ok", "WorkerError"} => result.call <= lost)

\* Once the transport has failed or has been shut down and its owner has
\* control again, the worker is dead and waited for, and no shared page buffer
\* that an honest worker was ever known to use is left on disk; and both pipe
\* threads end after the transport is dropped, unless a descendant of the worker
\* keeps the pipes open.
ClosedLeavesNothing ==
  /\ [](~writerTx /\ pc \in {"idle", "gone"} =>
          /\ worker = "dead" /\ reaped /\ ~shm
          /\ setting.honest /\ (calls > 1 \/ result.code = "ok") => ~region)
  /\ (pc = "gone" /\ ~inherited) ~> (reader = "done" /\ writer = "done")

\* The transport is a channel of calls (RpcChannel): the answer of an honest
\* worker is the answer to the very call it is returned from, and the first
\* failure is the last, whatever frames were on their way.
Rpc == INSTANCE RpcChannel
         WITH honest <- setting.honest, up <- writerTx, calling <- pc \in SendPcs
ImplementsRpc == Rpc!Spec

\* Every call returns, whatever the worker and the pipes do: it never reads,
\* never answers, dies, or leaves its pipes open to a descendant.
EveryCallReturns == (pc \in SendPcs) ~> (pc \in {"idle", "gone"})

\* What the documentation says and the code does not do.

\* "The host treats any unclean exit as SandboxCrashed".
CrashReportedAsCrash ==
  crashed /\ ~inherited /\ result.call = calls /\ ~Handshake =>
    result.code # "InternalError"

\* Region files are removed by the host when the worker dies.
RegionRemovedWithWorker == pc = "gone" => ~region
=============================================================================
