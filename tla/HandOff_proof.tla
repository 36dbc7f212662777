----------------------------- MODULE HandOff_proof -----------------------------
(***************************************************************************)
(* The hand-off keeps its promises for any numbers of brokers and files, any *)
(* limit of the queue and any number of failures in a row.  What the browser *)
(* is told follows from what an acknowledgement file says, that from the     *)
(* task that writes it; that only drops leak rests on a file being opened at *)
(* most once, so that a task that failed has no document of its own.         *)
(***************************************************************************)
EXTENDS HandOff, FiniteSetTheorems, TLAPS

Waiting == { queue[i] : i \in 1..Len(queue) }

\* The task and the step it is at.
TaskOK ==
  /\ task \in [by : { "none", "dialog", "drop", "drain" },
               step : Steps \cup { "idle" }, file : Files \cup { NoFile },
               ok : BOOLEAN, failures : Nat]
  /\ task.step \in { "idle", "ask", "nothing", "picking" } =>
       task.file = NoFile /\ ~task.ok
  /\ task.step = "picking" => task.by = "dialog"
  /\ task.step \in { "opening", "answered", "adopting" } => task.file # NoFile
  /\ task.step \in { "creating", "writing" } => task.file \in HandOffs
  /\ task.ok /\ task.file \in HandOffs => task.file \in opened
  /\ task.by = "drop" => task.file \in Locals
  /\ stranded \subseteq Locals

\* What an acknowledgement file says, and what the browser was told.
AckOK ==
  /\ broker \in [HandOffs -> Answers \cup { "idle", "launch", "polling" }]
  /\ ack \in [HandOffs -> { "none", "absent", "empty", "ok", "error" }]
  /\ \A h \in HandOffs : ack[h] = "ok" => h \in opened
  /\ OkMeansOpened

\* Each file waits or is being opened once, and is not open before.
FilesOnce ==
  /\ queue \in Seq(Files)
  /\ arrived \subseteq Files /\ Waiting \subseteq arrived /\ open \subseteq arrived
  /\ \A i, j \in 1..Len(queue) : queue[i] = queue[j] => i = j
  /\ \A i \in 1..Len(queue) : queue[i] \notin open /\ queue[i] # task.file
  /\ task.file \in arrived \cup { NoFile }
  /\ task.step = "opening" \/ ~task.ok => task.file \notin open

\* A drain that was told that nothing waits will hear of what has come since.
DrainHears ==
  /\ events \in Nat
  /\ ~running => listening = "no"
  /\ listening = "yes" /\ task.step = "nothing" /\ queue # << >> =>
       events > 0 \/ requested

IInv == TaskOK /\ AckOK /\ FilesOnce /\ OnlyDropsLeak /\ DrainHears

LEMMA InitHolds == Init => IInv
  BY OpeningAssumption
  DEF Init, BrokerInit, AppInit, IInv, TaskOK, AckOK, FilesOnce, Waiting, DrainHears,
      OnlyDropsLeak, OkMeansOpened, NoTask, Steps, Files, Answers

-----------------------------------------------------------------------------
(* Steps of the brokers and of the clock.                                  *)

LEMMA BrokerKeeps ==
  ASSUME IInv, NEW h \in HandOffs, Broker(h)
  PROVE  IInv'
<1>1. AckOK'
  BY DEF IInv, AckOK, OkMeansOpened, Broker, appVars, fileVars, BrokerStep, Request,
         Launch, Look, LookFails, GiveUp, Answer, Decide, Answers
<1>2. TaskOK' /\ FilesOnce' /\ OnlyDropsLeak' /\ DrainHears'
  BY DEF IInv, TaskOK, FilesOnce, Waiting, OnlyDropsLeak, DrainHears, Broker, appVars,
         windowVars, fileVars
<1> QED BY <1>1, <1>2 DEF IInv

LEMMA ClockKeeps ==
  ASSUME IInv, Clock
  PROVE  IInv'
<1>1. AckOK'
  BY DEF IInv, AckOK, OkMeansOpened, Clock, Expire, appVars, fileVars
<1>2. TaskOK' /\ FilesOnce' /\ OnlyDropsLeak' /\ DrainHears'
  BY DEF IInv, TaskOK, FilesOnce, Waiting, OnlyDropsLeak, DrainHears, Clock, appVars,
         windowVars, fileVars
<1> QED BY <1>1, <1>2 DEF IInv

-----------------------------------------------------------------------------
(* Files arrive.                                                           *)

\* A file that has not arrived joins the queue.
LEMMA EnqueueKeeps ==
  ASSUME IInv, NEW f \in Files \ arrived, Enqueue(f), arrived' = arrived \cup {f},
         UNCHANGED << running, windowVars, fileVars >>
  PROVE  IInv'
<1>1. TaskOK' /\ OnlyDropsLeak'
  BY DEF IInv, TaskOK, OnlyDropsLeak, windowVars, fileVars
<1>2. AckOK'
  BY DEF IInv, AckOK, OkMeansOpened, Enqueue, brokerVars, fileVars
<1>3. FilesOnce'
  <2>1. queue \in Seq(Files) /\ queue' = Append(queue, f)
    BY DEF IInv, FilesOnce, Enqueue
  <2>2. /\ queue' \in Seq(Files) /\ Len(queue') = Len(queue) + 1
        /\ \A i \in 1..Len(queue) : queue'[i] = queue[i]
        /\ queue'[Len(queue) + 1] = f
    BY <2>1
  <2>3. Waiting' = Waiting \cup {f}
    BY <2>2, <2>1 DEF Waiting
  <2>4. \A i \in 1..Len(queue) : queue[i] # f
    BY DEF IInv, FilesOnce, Waiting
  <2>5. f \notin open /\ (f = task.file => FALSE)
    BY OpeningAssumption DEF IInv, FilesOnce, Files
  <2> QED
    BY <2>1, <2>2, <2>3, <2>4, <2>5
    DEF IInv, FilesOnce, Enqueue, windowVars, fileVars
<1>4. DrainHears'
  BY DEF IInv, DrainHears, Enqueue, windowVars
<1> QED BY <1>1, <1>2, <1>3, <1>4 DEF IInv

\* A file arrives and goes no further.
LEMMA ArrivalKeeps ==
  ASSUME IInv, NEW f \in Files, arrived' = arrived \cup {f},
         UNCHANGED << running, queue, events, windowVars, fileVars, broker >>,
         ack' = ack \/ (f \in HandOffs /\ ack' = [ack EXCEPT ![f] = "error"])
  PROVE  IInv'
<1>1. TaskOK' /\ OnlyDropsLeak' /\ DrainHears'
  BY DEF IInv, TaskOK, OnlyDropsLeak, DrainHears, windowVars, fileVars
<1>2. AckOK'
  BY DEF IInv, AckOK, OkMeansOpened, fileVars
<1>3. FilesOnce'
  BY DEF IInv, FilesOnce, Waiting, windowVars, fileVars
<1> QED BY <1>1, <1>2, <1>3 DEF IInv

LEMMA BootKeeps ==
  ASSUME IInv, NEW pending, Boot(pending), arrived \subseteq arrived', arrived' \subseteq Files,
         pending = << >> \/ \E f \in Files \ arrived : pending = << f >> /\ f \in arrived'
  PROVE  IInv'
<1>1. TaskOK' /\ OnlyDropsLeak'
  BY DEF IInv, TaskOK, OnlyDropsLeak, Boot, windowVars, fileVars
<1>2. AckOK'
  BY DEF IInv, AckOK, OkMeansOpened, Boot, brokerVars, fileVars
<1>3. FilesOnce'
  <2>1. CASE pending = << >>
    BY <2>1 DEF IInv, FilesOnce, Waiting, Boot, windowVars, fileVars
  <2>2. CASE \E f \in Files \ arrived : pending = << f >> /\ f \in arrived'
    <3>1. PICK f \in Files \ arrived : pending = << f >> /\ f \in arrived'
      BY <2>2
    <3>2. queue' \in Seq(Files) /\ Len(queue') = 1 /\ queue'[1] = f
      BY <3>1 DEF Boot
    <3>3. Waiting' = {f}
      BY <3>2 DEF Waiting
    <3>4. f \notin open /\ f # task.file
      BY OpeningAssumption DEF IInv, FilesOnce, Files
    <3> QED
      BY <3>1, <3>2, <3>3, <3>4 DEF IInv, FilesOnce, Boot, windowVars, fileVars
  <2> QED BY <2>1, <2>2
<1>4. DrainHears'
  BY DEF IInv, DrainHears, Boot, windowVars
<1> QED BY <1>1, <1>2, <1>3, <1>4 DEF IInv

LEMMA FilesArriveKeeps ==
  ASSUME IInv, FilesArrive
  PROVE  IInv'
<1>1. CASE StartPlain
  <2>1. arrived' = arrived /\ Boot(<< >>)
    BY <1>1 DEF StartPlain
  <2> QED BY <2>1, BootKeeps DEF IInv, FilesOnce
<1>2. ASSUME NEW f \in Files, StartWith(f) PROVE IInv'
  <2>1. f \in Files \ arrived /\ arrived' = arrived \cup {f}
    BY <1>2 DEF StartWith, OnItsWay
  <2>2. Boot(<< >>) \/ Boot(<< f >>)
    BY <1>2 DEF StartWith
  <2> QED BY <2>1, <2>2, BootKeeps DEF IInv, FilesOnce
<1>3. ASSUME NEW f \in Files, Lost(f) PROVE IInv'
  BY <1>3, ArrivalKeeps DEF Lost, brokerVars
<1>4. ASSUME NEW f \in Files, SecondInstance(f) PROVE IInv'
  <2>1. f \in Files \ arrived /\ arrived' = arrived \cup {f}
    BY <1>4 DEF SecondInstance, OnItsWay
  <2>2. UNCHANGED << running, windowVars, fileVars >>
    BY <1>4 DEF SecondInstance
  <2>3. CASE Enqueue(f)
    BY <2>1, <2>2, <2>3, EnqueueKeeps
  <2>4. CASE Overflow(f) \/ UNCHANGED << queue, events, brokerVars >>
    BY <2>1, <2>2, <2>4, ArrivalKeeps DEF Overflow, brokerVars
  <2> QED BY <1>4, <2>3, <2>4 DEF SecondInstance
<1>5. ASSUME NEW f \in Files, DeepLink(f) PROVE IInv'
  <2>1. f \in Files \ arrived /\ arrived' = arrived \cup {f}
    BY <1>5 DEF DeepLink, OnItsWay
  <2>2. UNCHANGED << running, windowVars, fileVars >>
    BY <1>5 DEF DeepLink
  <2>3. CASE Enqueue(f)
    BY <2>1, <2>2, <2>3, EnqueueKeeps
  <2>4. CASE UNCHANGED << queue, events, brokerVars >>
    BY <2>1, <2>2, <2>4, ArrivalKeeps DEF brokerVars
  <2> QED BY <1>5, <2>3, <2>4 DEF DeepLink
<1> QED BY <1>1, <1>2, <1>3, <1>4, <1>5 DEF FilesArrive

-----------------------------------------------------------------------------
(* The viewer.                                                             *)

\* A step that touches the task alone leaves the files where they are.
LEMMA TaskMoves ==
  ASSUME IInv, UNCHANGED << arrived, queue, open, opened, brokerVars >>,
         \/ task' = task
         \/ /\ task'.file = task.file /\ task'.ok = task.ok
            /\ task'.step # "opening"
         \/ task'.file = NoFile
  PROVE  AckOK' /\ FilesOnce'
<1>1. AckOK'
  BY DEF IInv, AckOK, OkMeansOpened, brokerVars
<1>2. FilesOnce'
  BY OpeningAssumption DEF IInv, FilesOnce, Waiting, Files
<1> QED BY <1>1, <1>2

\* What follows a task that is over is a task without a file.
LEMMA OverTask ==
  ASSUME TaskOK, NEW failures \in Nat, Over(task, failures),
         opened' = opened, stranded' \subseteq Locals
  PROVE  /\ TaskOK'
         /\ task'.file = NoFile
         /\ task'.step # "nothing"
<1>1. \/ task' = [by |-> "drain", step |-> "ask", file |-> NoFile, ok |-> FALSE,
                  failures |-> 0]
      \/ task' = [by |-> "drain", step |-> "ask", file |-> NoFile, ok |-> FALSE,
                  failures |-> failures]
      \/ task' = [by |-> "none", step |-> "idle", file |-> NoFile, ok |-> FALSE,
                  failures |-> 0]
  BY DEF Over, Draining, NoTask
<1>2. task' \in [by : { "none", "dialog", "drop", "drain" },
                 step : Steps \cup { "idle" }, file : Files \cup { NoFile },
                 ok : BOOLEAN, failures : Nat]
  <2> DEFINE Tasks == [by : { "none", "dialog", "drop", "drain" },
                       step : Steps \cup { "idle" }, file : Files \cup { NoFile },
                       ok : BOOLEAN, failures : Nat]
  <2>1. \A n \in Nat :
          [by |-> "drain", step |-> "ask", file |-> NoFile, ok |-> FALSE, failures |-> n]
            \in Tasks
    BY DEF Steps
  <2>2. [by |-> "none", step |-> "idle", file |-> NoFile, ok |-> FALSE, failures |-> 0]
          \in Tasks
    OBVIOUS
  <2> HIDE DEF Tasks
  <2>3. task' \in Tasks
    BY <1>1, <2>1, <2>2
  <2> QED BY <2>3 DEF Tasks
<1>3. /\ task'.step \in { "ask", "idle" } /\ task'.by # "drop"
      /\ task'.file = NoFile /\ task'.ok = FALSE
  BY <1>1
<1> QED BY <1>2, <1>3 DEF TaskOK

LEMMA ViewerKeeps ==
  ASSUME IInv, Viewer
  PROVE  IInv'
<1> USE DEF IInv
<1>1. CASE Listen \/ HandleEvent
  <2>1. /\ task' = task \/ (task = NoTask /\ task' = Draining)
        /\ UNCHANGED << arrived, queue, shown, fileVars, brokerVars >>
    <3>1. task' = task \/ (task = NoTask /\ task' = Draining)
      BY <1>1 DEF Listen, HandleEvent, Drain
    <3> QED BY <1>1, <3>1 DEF Listen, HandleEvent
  <2>2. TaskOK'
    <3>1. CASE task' = task
      BY <2>1, <3>1 DEF TaskOK, fileVars
    <3>2. CASE task' = Draining
      <4>1. task' \in [by : { "none", "dialog", "drop", "drain" },
                       step : Steps \cup { "idle" }, file : Files \cup { NoFile },
                       ok : BOOLEAN, failures : Nat]
        BY <3>2 DEF Draining, Steps
      <4>2. /\ task'.step = "ask" /\ task'.by = "drain" /\ task'.file = NoFile
            /\ task'.ok = FALSE
        BY <3>2 DEF Draining
      <4>3. stranded' \subseteq Locals
        BY <2>1 DEF TaskOK, fileVars
      <4> QED BY <4>1, <4>2, <4>3 DEF TaskOK
    <3> QED BY <2>1, <3>1, <3>2
  <2>3. OnlyDropsLeak'
    BY <2>1 DEF NoTask, Draining, OnlyDropsLeak, fileVars
  <2>4. AckOK' /\ FilesOnce'
    BY <2>1, TaskMoves DEF Draining, fileVars
  <2>5. DrainHears'
    BY <1>1 DEF Listen, HandleEvent, Drain, Draining, DrainHears, NoTask
  <2> QED BY <2>2, <2>3, <2>4, <2>5
<1>2. CASE NothingWaits
  <2>1. TaskOK' /\ OnlyDropsLeak'
    BY <1>2 DEF NothingWaits, TaskOK, NoTask, Steps, OnlyDropsLeak, fileVars
  <2>2. AckOK' /\ FilesOnce'
    BY <1>2, TaskMoves DEF NothingWaits, TaskOK, NoTask, fileVars
  <2>3. DrainHears'
    BY <1>2 DEF NothingWaits, TaskOK, DrainHears, NoTask
  <2> QED BY <2>1, <2>2, <2>3
<1>3. CASE Cancel
  <2>1. TaskOK' /\ task'.file = NoFile /\ task'.step # "nothing"
    BY <1>3, OverTask DEF Cancel, TaskOK, fileVars
  <2>2. AckOK' /\ FilesOnce'
    BY <1>3, <2>1, TaskMoves DEF Cancel, fileVars
  <2>3. OnlyDropsLeak'
    BY <1>3, <2>1 DEF Cancel, OnlyDropsLeak, TaskOK, fileVars
  <2>4. DrainHears'
    BY <1>3, <2>1 DEF Cancel, DrainHears
  <2> QED BY <2>1, <2>2, <2>3, <2>4
<1>4. CASE OpenFailed
  <2>1. task.failures + 1 \in Nat
    BY DEF TaskOK
  <2>2. TaskOK' /\ task'.file = NoFile /\ task'.step # "nothing"
    BY <1>4, <2>1, OverTask DEF OpenFailed, TaskOK, fileVars
  <2>3. AckOK' /\ FilesOnce'
    BY <1>4, <2>2, TaskMoves DEF OpenFailed, fileVars
  <2>4. OnlyDropsLeak'
    BY <1>4, <2>2 DEF OpenFailed, OnlyDropsLeak, FilesOnce, fileVars
  <2>5. DrainHears'
    BY <1>4, <2>2 DEF OpenFailed, DrainHears
  <2> QED BY <2>2, <2>3, <2>4, <2>5
<1>5. CASE OpenSucceeded
  <2>1. TaskOK' /\ OnlyDropsLeak'
    BY <1>5 DEF OpenSucceeded, TaskOnly, TaskOK, Steps, OnlyDropsLeak, fileVars
  <2>2. AckOK' /\ FilesOnce'
    BY <1>5, TaskMoves DEF OpenSucceeded, TaskOnly, TaskOK, fileVars
  <2>3. DrainHears'
    BY <1>5 DEF OpenSucceeded, TaskOnly, TaskOK, DrainHears
  <2> QED BY <2>1, <2>2, <2>3
<1>6. CASE Adopt \/ AdoptFails
  <2>0. opened' = opened /\ stranded' \subseteq Locals
    BY <1>6 DEF Adopt, AdoptFails, TaskOK
  <2>1. TaskOK' /\ task'.file = NoFile /\ task'.step # "nothing"
    BY <1>6, <2>0, OverTask DEF Adopt, AdoptFails
  <2>2. AckOK' /\ FilesOnce'
    BY <1>6, <2>1, TaskMoves DEF Adopt, AdoptFails
  <2>3. OnlyDropsLeak'
    BY <1>6, <2>1, OpeningAssumption
    DEF Adopt, AdoptFails, Abandons, OnlyDropsLeak, TaskOK, FilesOnce, Files
  <2>4. DrainHears'
    BY <1>6, <2>1 DEF Adopt, AdoptFails, DrainHears
  <2> QED BY <2>1, <2>2, <2>3, <2>4
<1> QED BY <1>1, <1>2, <1>3, <1>4, <1>5, <1>6 DEF Viewer

-----------------------------------------------------------------------------
(* The commands of the application, and the user.                          *)

LEMMA CommandsKeep ==
  ASSUME IInv, Commands
  PROVE  IInv'
<1> USE DEF IInv
<1>1. CASE PopFront
  <2>1. CASE queue = << >>
    <3>1. /\ task' = [task EXCEPT !.step = "nothing"] /\ queue' = << >>
          /\ UNCHANGED << arrived, events, running, listening, requested, shown,
                          fileVars, brokerVars >>
      BY <1>1, <2>1 DEF PopFront
    <3>2. TaskOK' /\ OnlyDropsLeak'
      BY <1>1, <3>1 DEF PopFront, TaskOK, Steps, OnlyDropsLeak, fileVars
    <3>3. AckOK' /\ FilesOnce'
      BY <2>1, <3>1, TaskMoves DEF TaskOK, fileVars
    <3>4. DrainHears'
      BY <3>1 DEF DrainHears
    <3> QED BY <3>2, <3>3, <3>4
  <2>2. CASE queue # << >>
    <3>1. /\ task' = [task EXCEPT !.step = "opening", !.file = Head(queue)]
          /\ queue' = Tail(queue)
          /\ UNCHANGED << arrived, events, running, listening, requested, shown,
                          fileVars, brokerVars >>
      BY <1>1, <2>2 DEF PopFront
    <3>2. queue \in Seq(Files)
      BY DEF FilesOnce
    <3>3. /\ Len(queue) \in Nat \ {0} /\ Head(queue) = queue[1] /\ Head(queue) \in Files
          /\ queue' \in Seq(Files) /\ Len(queue') = Len(queue) - 1
          /\ \A i \in 1..Len(queue') : i + 1 \in 1..Len(queue) /\ queue'[i] = queue[i + 1]
      BY <2>2, <3>1, <3>2
    <3>4. Head(queue) \in Waiting /\ Waiting' \subseteq Waiting
      BY <3>3 DEF Waiting
    <3>5. /\ task.step = "ask" /\ task.file = NoFile /\ ~task.ok
          /\ task'.file = Head(queue) /\ task'.step = "opening" /\ task'.ok = task.ok
          /\ task'.by = task.by
      BY <1>1, <3>1 DEF PopFront, TaskOK
    <3>6. TaskOK'
      <4>1. task' \in [by : { "none", "dialog", "drop", "drain" },
                       step : Steps \cup { "idle" }, file : Files \cup { NoFile },
                       ok : BOOLEAN, failures : Nat]
        BY <3>1, <3>3 DEF TaskOK, Steps
      <4>2. task.by # "drop"
        BY <3>5, OpeningAssumption DEF TaskOK
      <4>3. Head(queue) # NoFile /\ stranded' \subseteq Locals
        BY <3>1, <3>3, OpeningAssumption DEF TaskOK, Files, fileVars
      <4> QED BY <3>5, <4>1, <4>2, <4>3 DEF TaskOK
    <3>7. AckOK'
      BY <3>1 DEF AckOK, OkMeansOpened, brokerVars, fileVars
    <3>8. OnlyDropsLeak'
      BY <3>1, <3>5, OpeningAssumption DEF OnlyDropsLeak, FilesOnce, Files, fileVars
    <3>9. FilesOnce'
      <4>1. \A i, j \in 1..Len(queue') : queue'[i] = queue'[j] => i = j
        BY <3>3 DEF FilesOnce
      <4>2. \A i \in 1..Len(queue') : queue'[i] \notin open /\ queue'[i] # Head(queue)
        BY <3>3 DEF FilesOnce
      <4>3. Head(queue) \notin open /\ Head(queue) \in arrived
        BY <3>3, <3>4 DEF FilesOnce
      <4> QED BY <3>1, <3>3, <3>4, <3>5, <4>1, <4>2, <4>3 DEF FilesOnce, fileVars
    <3>10. DrainHears'
      BY <3>1, <3>5 DEF DrainHears
    <3> QED BY <3>6, <3>7, <3>8, <3>9, <3>10
  <2> QED BY <2>1, <2>2
<1>2. CASE OpenFile
  <2>1. PICK ok \in BOOLEAN :
          /\ open' = IF ok THEN open \cup {task.file} ELSE open
          /\ opened' = IF ok THEN opened \cup ({task.file} \cap HandOffs) ELSE opened
          /\ task' = [task EXCEPT
               !.ok = ok,
               !.step = IF manager /\ task.by = "drain" /\ task.file \in HandOffs
                        THEN "creating" ELSE "answered"]
    BY <1>2 DEF OpenFile
  <2>2. /\ task.step = "opening"
        /\ UNCHANGED << running, manager, arrived, queue, events, listening,
                        requested, shown, closing, stranded, brokerVars >>
    BY <1>2 DEF OpenFile
  <2>3. /\ task'.file = task.file /\ task'.ok = ok /\ task'.by = task.by
        /\ task'.step \in { "creating", "answered" }
        /\ task'.step = "creating" => task.file \in HandOffs
    BY <2>1 DEF TaskOK
  <2>4. TaskOK'
    <3>1. task' \in [by : { "none", "dialog", "drop", "drain" },
                     step : Steps \cup { "idle" }, file : Files \cup { NoFile },
                     ok : BOOLEAN, failures : Nat]
      BY <2>1 DEF TaskOK, Steps
    <3> QED BY <2>1, <2>2, <2>3, <3>1 DEF TaskOK
  <2>5. AckOK'
    BY <2>1, <2>2 DEF AckOK, OkMeansOpened, brokerVars
  <2>6. FilesOnce'
    <3>1. task.file \in arrived
      BY <2>2 DEF FilesOnce, TaskOK
    <3>2. \A i \in 1..Len(queue) : queue[i] \notin open' /\ queue[i] # task'.file
      BY <2>1, <2>3 DEF FilesOnce
    <3> QED BY <2>1, <2>2, <2>3, <3>1, <3>2 DEF FilesOnce, Waiting
  <2>7. OnlyDropsLeak'
    BY <2>1, <2>2, <2>3 DEF OnlyDropsLeak
  <2>8. DrainHears'
    BY <2>2, <2>3 DEF DrainHears
  <2> QED BY <2>4, <2>5, <2>6, <2>7, <2>8
<1>3. CASE CreateAck \/ WriteAck
  <2>1. /\ task.step \in { "creating", "writing" } /\ task.file \in HandOffs
        /\ \/ task' = [task EXCEPT !.step = "writing"]
           \/ task' = [task EXCEPT !.step = "answered"]
        /\ UNCHANGED << running, manager, arrived, queue, events, listening,
                        requested, shown, fileVars, broker, expired >>
    BY <1>3 DEF CreateAck, WriteAck, TaskOK
  <2>2. /\ task'.file = task.file /\ task'.ok = task.ok
        /\ task'.step \in { "writing", "answered" }
    BY <2>1 DEF TaskOK
  <2>3. TaskOK' /\ OnlyDropsLeak'
    <3>1. task.file # NoFile
      BY <2>1, OpeningAssumption
    <3> QED BY <2>1, <3>1 DEF TaskOK, Steps, OnlyDropsLeak, fileVars
  <2>4. AckOK'
    <3>1. \/ ack' = ack \/ ack' = [ack EXCEPT ![task.file] = "empty"]
          \/ ack' = [ack EXCEPT ![task.file] = "error"]
          \/ task.ok /\ ack' = [ack EXCEPT ![task.file] = "ok"]
      BY <1>3 DEF CreateAck, WriteAck, Status
    <3> QED BY <2>1, <3>1 DEF AckOK, OkMeansOpened, TaskOK, fileVars
  <2>5. FilesOnce'
    BY <2>1, <2>2 DEF FilesOnce, Waiting, fileVars
  <2>6. DrainHears'
    BY <2>1, <2>2 DEF DrainHears
  <2> QED BY <2>3, <2>4, <2>5, <2>6
<1>4. ASSUME NEW f \in Files, CloseDocument(f) PROVE IInv'
  <2>1. TaskOK' /\ AckOK' /\ OnlyDropsLeak' /\ DrainHears'
    BY <1>4 DEF CloseDocument, TaskOK, AckOK, OkMeansOpened, OnlyDropsLeak, DrainHears,
                windowVars, brokerVars
  <2>2. FilesOnce'
    BY <1>4 DEF CloseDocument, FilesOnce, Waiting, windowVars
  <2> QED BY <2>1, <2>2
<1> QED BY <1>1, <1>2, <1>3, <1>4 DEF Commands

LEMMA UserKeeps ==
  ASSUME IInv, User
  PROVE  IInv'
<1> USE DEF IInv
<1>1. CASE OpenDialog
  <2>1. /\ task' = [by |-> "dialog", step |-> "picking", file |-> NoFile, ok |-> FALSE,
                    failures |-> 0]
        /\ task = NoTask
        /\ UNCHANGED << running, manager, arrived, queue, events, listening,
                        requested, shown, fileVars, brokerVars >>
    BY <1>1 DEF OpenDialog, TaskOnly, NoTask
  <2>2. TaskOK' /\ OnlyDropsLeak'
    BY <2>1 DEF TaskOK, Steps, NoTask, OnlyDropsLeak, fileVars
  <2>3. AckOK' /\ FilesOnce'
    BY <2>1, TaskMoves DEF fileVars
  <2>4. DrainHears'
    BY <2>1 DEF DrainHears
  <2> QED BY <2>2, <2>3, <2>4
<1>2. CASE HandleClose
  <2>1. TaskOK' /\ AckOK' /\ OnlyDropsLeak' /\ DrainHears'
    BY <1>2 DEF HandleClose, TaskOK, AckOK, OkMeansOpened, OnlyDropsLeak, DrainHears,
                brokerVars
  <2>2. FilesOnce'
    BY <1>2 DEF HandleClose, FilesOnce, Waiting
  <2> QED BY <2>1, <2>2
<1>3. CASE Exits
  <2>1. TaskOK' /\ AckOK' /\ OnlyDropsLeak' /\ DrainHears'
    BY <1>3 DEF Exits, TaskOK, NoTask, AckOK, OkMeansOpened, OnlyDropsLeak, DrainHears,
                brokerVars
  <2>2. FilesOnce'
    BY <1>3 DEF Exits, FilesOnce, Waiting, NoTask
  <2> QED BY <2>1, <2>2
\* Both take a file that has not arrived; a drop opens it at once.
<1>4. ASSUME NEW f \in Locals, Pick(f) \/ Drop(f) PROVE IInv'
  <2>1. /\ f \in Files \ arrived /\ arrived' = arrived \cup {f}
        /\ UNCHANGED << running, queue, events, listening, requested, shown, open,
                        closing, opened, brokerVars >>
    BY <1>4 DEF Pick, Drop, Files, fileVars
  <2>2. /\ task' \in [by : { "dialog", "drop" }, step : { "opening" }, file : { f },
                      ok : { FALSE }, failures : Nat]
        /\ task.file = NoFile
        /\ stranded' = stranded
    <3>1. CASE Pick(f)
      <4>1. /\ task.step = "picking" /\ UNCHANGED fileVars
            /\ task' = [task EXCEPT !.step = "opening", !.file = f]
        BY <3>1 DEF Pick, fileVars
      <4> QED BY <4>1 DEF TaskOK, fileVars
    <3>2. CASE Drop(f)
      <4>1. /\ task = NoTask /\ UNCHANGED fileVars
            /\ task' = [by |-> "drop", step |-> "opening", file |-> f, ok |-> FALSE,
                        failures |-> 0]
        BY <3>2 DEF Drop, NoTask
      <4> QED BY <4>1 DEF TaskOK, NoTask, fileVars
    <3> QED BY <1>4, <3>1, <3>2
  <2>3. f \notin open /\ f \notin Waiting
    BY <2>1 DEF FilesOnce
  <2>4. TaskOK'
    <3>1. f # NoFile
      BY OpeningAssumption
    <3>2. /\ task'.by \in { "dialog", "drop" } /\ task'.step = "opening"
          /\ task'.file = f /\ task'.ok = FALSE
      BY <2>2
    <3>3. task' \in [by : { "none", "dialog", "drop", "drain" },
                     step : Steps \cup { "idle" }, file : Files \cup { NoFile },
                     ok : BOOLEAN, failures : Nat]
      BY <2>1, <2>2 DEF Steps
    <3> QED BY <2>2, <3>1, <3>2, <3>3 DEF TaskOK
  <2>5. AckOK'
    BY <2>1 DEF AckOK, OkMeansOpened, brokerVars
  <2>6. FilesOnce'
    BY <2>1, <2>2, <2>3 DEF FilesOnce, Waiting
  <2>7. OnlyDropsLeak'
    BY <2>1, <2>2, OpeningAssumption DEF OnlyDropsLeak, FilesOnce, Files
  <2>8. DrainHears'
    BY <2>1, <2>2 DEF DrainHears
  <2> QED BY <2>4, <2>5, <2>6, <2>7, <2>8
<1> QED BY <1>1, <1>2, <1>3, <1>4 DEF User

-----------------------------------------------------------------------------
(* The types and the bounds: the queue stays within its limit because its   *)
(* length is looked at before a file joins, and no more events are on their  *)
(* way than files have arrived.                                             *)

\* A task that holds `opening`.
Tasks == [by : { "dialog", "drop", "drain" }, step : Steps, file : Files \cup { NoFile },
          ok : BOOLEAN, failures : 0..MaxFailures]

FlagsOK ==
  /\ running \in BOOLEAN /\ manager \in BOOLEAN /\ requested \in BOOLEAN
  /\ listening \in { "no", "yes", "failed" }
  /\ closing \subseteq Files /\ opened \subseteq HandOffs /\ expired \subseteq HandOffs
  /\ shown \in Files \cup { NoFile }

CountsOK ==
  /\ Len(queue) <= QueueLimit
  /\ IsFiniteSet(arrived) /\ events <= Cardinality(arrived)

Bounded == FlagsOK /\ CountsOK /\ task \in { NoTask } \cup Tasks

LEMMA InitBounded == Init => Bounded
<1> SUFFICES ASSUME Init PROVE Bounded
  OBVIOUS
<1>1. FlagsOK /\ task \in { NoTask } \cup Tasks
  BY DEF Init, BrokerInit, AppInit, FlagsOK
<1>2. CountsOK
  BY FS_EmptySet, OpeningAssumption DEF Init, AppInit, CountsOK
<1> QED BY <1>1, <1>2 DEF Bounded

LEMMA BoundedTypes ==
  ASSUME IInv, Bounded
  PROVE  TypeOK
<1>1. BrokerTypeOK
  BY DEF IInv, AckOK, Bounded, FlagsOK, BrokerTypeOK
<1>2. events \in 0..Cardinality(Files)
  <2>1. arrived \subseteq Files /\ events \in Nat
    BY DEF IInv, FilesOnce, DrainHears
  <2>2. IsFiniteSet(Files)
    BY FilesAssumption, FS_Union DEF Files
  <2>3. /\ Cardinality(arrived) \in Nat /\ Cardinality(Files) \in Nat
        /\ Cardinality(arrived) <= Cardinality(Files)
    BY <2>1, <2>2, FS_Subset, FS_CardinalityType
  <2>4. events <= Cardinality(arrived)
    BY DEF Bounded, CountsOK
  <2> QED BY <2>1, <2>3, <2>4
<1>3. /\ arrived \subseteq Files /\ open \subseteq Files /\ stranded \subseteq Locals
      /\ queue \in Seq(Files)
  BY DEF IInv, FilesOnce, TaskOK
<1>4. AppTypeOK
  BY <1>2, <1>3 DEF Bounded, FlagsOK, CountsOK, Tasks, AppTypeOK
<1> QED BY <1>1, <1>4 DEF TypeOK

\* One more file has arrived, or none.
LEMMA CountsStay ==
  ASSUME CountsOK, IInv, Len(queue') <= QueueLimit, events' \in Nat, events' <= events,
         UNCHANGED arrived \/ \E f \in Files \ arrived : arrived' = arrived \cup {f}
  PROVE  CountsOK'
<1>1. IsFiniteSet(arrived) /\ events <= Cardinality(arrived) /\ events \in Nat
  BY DEF CountsOK, IInv, DrainHears
<1>2. Cardinality(arrived) \in Nat
  BY <1>1, FS_CardinalityType
<1>3. IsFiniteSet(arrived') /\ Cardinality(arrived') >= Cardinality(arrived)
  <2>1. CASE UNCHANGED arrived
    BY <1>1, <1>2, <2>1
  <2>2. ASSUME NEW f \in Files \ arrived, arrived' = arrived \cup {f}
        PROVE  IsFiniteSet(arrived') /\ Cardinality(arrived') >= Cardinality(arrived)
    <3>1. /\ IsFiniteSet(arrived \cup {f})
          /\ Cardinality(arrived \cup {f}) = Cardinality(arrived) + 1
      BY <1>1, FS_AddElement
    <3> QED BY <1>2, <2>2, <3>1
  <2> QED BY <2>1, <2>2
<1>4. Cardinality(arrived') \in Nat
  BY <1>3, FS_CardinalityType
<1>5. events' <= Cardinality(arrived')
  BY <1>1, <1>2, <1>3, <1>4
<1> QED BY <1>3, <1>5 DEF CountsOK

LEMMA EnqueueCounts ==
  ASSUME CountsOK, IInv, NEW f \in Files \ arrived, arrived' = arrived \cup {f}, ~QueueFull,
         Enqueue(f)
  PROVE  CountsOK'
<1>1. IsFiniteSet(arrived) /\ events <= Cardinality(arrived) /\ events \in Nat
  BY DEF CountsOK, IInv, DrainHears
<1>2. /\ IsFiniteSet(arrived') /\ Cardinality(arrived') = Cardinality(arrived) + 1
      /\ Cardinality(arrived) \in Nat
  <2>1. /\ IsFiniteSet(arrived \cup {f})
        /\ Cardinality(arrived \cup {f}) = Cardinality(arrived) + 1
    BY <1>1, FS_AddElement
  <2>2. Cardinality(arrived) \in Nat
    BY <1>1, FS_CardinalityType
  <2> QED BY <2>1, <2>2
<1>3. events' \in { events, events + 1 }
  BY DEF Enqueue
<1>4. Len(queue') <= QueueLimit
  <2>1. queue \in Seq(Files) /\ queue' = Append(queue, f)
    BY DEF IInv, FilesOnce, Enqueue
  <2>2. Len(queue') = Len(queue) + 1 /\ Len(queue) \in Nat
    BY <2>1
  <2> QED BY <2>2, OpeningAssumption DEF QueueFull
<1> QED BY <1>1, <1>2, <1>3, <1>4 DEF CountsOK

\* What follows a task that is over.
LEMMA OverBounded ==
  ASSUME Bounded, NEW failures \in Nat, Over(task, failures)
  PROVE  task' \in { NoTask } \cup Tasks /\ requested' \in BOOLEAN
<1>1. \A n \in 0..MaxFailures :
        [by |-> "drain", step |-> "ask", file |-> NoFile, ok |-> FALSE, failures |-> n]
          \in Tasks
  BY DEF Tasks, Steps
<1>2. 0 \in 0..MaxFailures
  BY OpeningAssumption
<1>3. \/ \E n \in 0..MaxFailures :
           task' = [by |-> "drain", step |-> "ask", file |-> NoFile, ok |-> FALSE,
                    failures |-> n]
      \/ task' = NoTask
  <2>1. CASE task.by = "dialog"
    BY <1>2, <2>1 DEF Over, Draining
  <2>2. CASE task.by = "drain" /\ failures < MaxFailures
    <3>1. failures \in 0..MaxFailures
      BY <2>2, OpeningAssumption
    <3> QED BY <2>2, <3>1 DEF Over, Draining
  <2> QED BY <2>1, <2>2 DEF Over
<1>4. requested' \in BOOLEAN
  BY DEF Over, Bounded, FlagsOK
<1> QED BY <1>1, <1>3, <1>4

LEMMA ArriveBounded ==
  ASSUME IInv, Bounded, FilesArrive
  PROVE  Bounded'
<1> USE DEF Bounded
<1>1. UNCHANGED << windowVars, fileVars, expired >> /\ running' \in BOOLEAN /\ manager' \in BOOLEAN
  <2>1. ASSUME NEW pending, Boot(pending)
        PROVE  /\ UNCHANGED << windowVars, fileVars, expired >>
               /\ running' \in BOOLEAN /\ manager' \in BOOLEAN
    BY <2>1 DEF Boot, brokerVars
  <2>2. CASE \E f \in Files : StartWith(f)
    BY <2>1, <2>2 DEF StartWith
  <2>3. CASE \E f \in Files : Lost(f) \/ SecondInstance(f) \/ DeepLink(f)
    BY <2>3 DEF Lost, SecondInstance, DeepLink, Overflow, Enqueue, FlagsOK, brokerVars
  <2> QED BY <2>1, <2>2, <2>3 DEF FilesArrive, StartPlain
<1>2. FlagsOK' /\ task' \in { NoTask } \cup Tasks
  BY <1>1 DEF FlagsOK, windowVars, fileVars
<1>3. events \in Nat /\ events <= events
  BY DEF IInv, DrainHears
<1>4. CountsOK'
  <2>1. ASSUME NEW pending, Boot(pending), Len(pending) \in { 0, 1 },
               UNCHANGED arrived \/ \E f \in Files \ arrived : arrived' = arrived \cup {f}
        PROVE  CountsOK'
    <3>1. Len(queue') <= QueueLimit
      <4>1. queue' = pending
        BY <2>1 DEF Boot
      <4>2. Len(queue') = Len(pending)
        BY <4>1
      <4> QED BY <2>1, <4>2, OpeningAssumption
    <3> QED BY <1>3, <2>1, <3>1, CountsStay DEF Boot
  <2>2. CASE StartPlain
    <3>1. Len(<< >>) = 0
      OBVIOUS
    <3> QED BY <2>1, <2>2, <3>1 DEF StartPlain
  <2>3. ASSUME NEW f \in Files, StartWith(f) PROVE CountsOK'
    <3>1. f \in Files \ arrived /\ arrived' = arrived \cup {f}
      BY <2>3 DEF StartWith, OnItsWay
    <3>2. Boot(<< >>) \/ Boot(<< f >>)
      BY <2>3 DEF StartWith
    <3>3. Len(<< >>) = 0 /\ Len(<< f >>) = 1
      OBVIOUS
    <3> QED BY <2>1, <3>1, <3>2, <3>3
  <2>4. ASSUME NEW f \in Files, Lost(f) \/ SecondInstance(f) \/ DeepLink(f) PROVE CountsOK'
    <3>1. f \in Files \ arrived /\ arrived' = arrived \cup {f}
      BY <2>4 DEF Lost, SecondInstance, DeepLink, OnItsWay
    <3>2. UNCHANGED << queue, events >> \/ (~QueueFull /\ Enqueue(f))
      BY <2>4 DEF Lost, SecondInstance, DeepLink, Overflow
    <3>3. CASE UNCHANGED << queue, events >>
      BY <1>3, <3>1, <3>3, CountsStay DEF CountsOK
    <3>4. CASE ~QueueFull /\ Enqueue(f)
      BY <3>1, <3>4, EnqueueCounts
    <3> QED BY <3>2, <3>3, <3>4
  <2> QED BY <2>2, <2>3, <2>4 DEF FilesArrive
<1> QED BY <1>2, <1>4

LEMMA ViewerBounded ==
  ASSUME IInv, Bounded, Viewer
  PROVE  Bounded'
<1> USE DEF Bounded
<1>1. UNCHANGED << running, manager, arrived, queue, open, opened, expired >>
  BY DEF Viewer, Listen, HandleEvent, NothingWaits, Cancel, OpenFailed, OpenSucceeded, Adopt,
         AdoptFails, TaskOnly, fileVars, brokerVars
<1>2. events' \in Nat /\ events' <= events
  <2>1. events \in Nat
    BY DEF IInv, DrainHears
  <2>2. events' = events \/ (events > 0 /\ events' = events - 1)
    BY DEF Viewer, Listen, HandleEvent, NothingWaits, Cancel, OpenFailed, OpenSucceeded,
           Adopt, AdoptFails, TaskOnly
  <2> QED BY <2>1, <2>2
<1>3. CountsOK'
  <2>1. Len(queue') <= QueueLimit
    BY <1>1 DEF CountsOK
  <2> QED BY <1>1, <1>2, <2>1, CountsStay
<1>4. task' \in { NoTask } \cup Tasks /\ requested' \in BOOLEAN
  <2>1. CASE Listen \/ HandleEvent
    <3>1. Draining \in Tasks
      BY OpeningAssumption DEF Draining, Tasks, Steps
    <3>2. requested' \in BOOLEAN /\ task' \in { task, Draining }
      BY <2>1 DEF Listen, HandleEvent, Drain, FlagsOK
    <3> QED BY <3>1, <3>2
  <2>2. CASE NothingWaits
    <3>1. task \in Tasks
      BY <2>2 DEF NothingWaits, NoTask
    <3>2. [task EXCEPT !.step = "ask"] \in Tasks
      BY <3>1 DEF Tasks, Steps
    <3> QED BY <2>2, <3>2 DEF NothingWaits
  <2>3. CASE OpenSucceeded
    <3>1. task \in Tasks
      BY <2>3 DEF OpenSucceeded, NoTask
    <3>2. [task EXCEPT !.step = "adopting"] \in Tasks
      BY <3>1 DEF Tasks, Steps
    <3> QED BY <2>3, <3>2 DEF OpenSucceeded, TaskOnly, FlagsOK
  <2>4. CASE OpenFailed
    <3>1. task.failures + 1 \in Nat
      BY DEF IInv, TaskOK
    <3> QED BY <2>4, <3>1, OverBounded DEF OpenFailed
  <2>5. CASE Cancel \/ Adopt \/ AdoptFails
    <3>1. Over(task, 0)
      BY <2>5 DEF Cancel, Adopt, AdoptFails
    <3> QED BY <3>1, OverBounded
  <2> QED BY <2>1, <2>2, <2>3, <2>4, <2>5 DEF Viewer
<1>5. task.file \in Files \cup { NoFile }
  BY DEF IInv, TaskOK
<1>6. task.step = "adopting" => task.file \in Files
  BY <1>5 DEF IInv, TaskOK
<1>7. shown' \in Files \cup { NoFile } /\ closing' \subseteq Files
  <2>1. CASE Adopt
    BY <1>5, <2>1 DEF Adopt, FlagsOK
  <2>2. CASE AdoptFails
    BY <1>6, <2>2 DEF AdoptFails, Abandons, FlagsOK
  <2>3. CASE Viewer /\ ~Adopt /\ ~AdoptFails
    BY <2>3 DEF Viewer, Listen, HandleEvent, NothingWaits, Cancel, OpenFailed, OpenSucceeded,
                TaskOnly, fileVars, FlagsOK
  <2> QED BY <2>1, <2>2, <2>3
<1>8. listening' \in { "no", "yes", "failed" }
  BY DEF Viewer, Listen, HandleEvent, NothingWaits, Cancel, OpenFailed, OpenSucceeded,
         Adopt, AdoptFails, TaskOnly, FlagsOK
<1> QED BY <1>1, <1>3, <1>4, <1>7, <1>8 DEF FlagsOK

LEMMA CommandsBounded ==
  ASSUME IInv, Bounded, Commands
  PROVE  Bounded'
<1> USE DEF Bounded
<1>1. events \in Nat /\ events <= events /\ Len(queue) <= QueueLimit
  BY DEF IInv, DrainHears, CountsOK
<1>2. CASE PopFront
  <2>1. UNCHANGED << running, manager, arrived, events, listening, requested, shown, closing,
                     opened, expired >>
    BY <1>2 DEF PopFront, fileVars, brokerVars
  <2>2. task \in Tasks
    BY <1>2 DEF PopFront, NoTask
  <2>3. queue \in Seq(Files)
    BY DEF IInv, FilesOnce
  <2>4. CASE queue = << >>
    <3>1. [task EXCEPT !.step = "nothing"] \in Tasks
      BY <2>2 DEF Tasks, Steps
    <3> QED BY <1>1, <1>2, <2>1, <2>4, <3>1, CountsStay DEF PopFront, FlagsOK
  <2>5. CASE queue # << >>
    <3>1. Head(queue) \in Files /\ Len(Tail(queue)) <= QueueLimit
      BY <1>1, <2>3, <2>5, OpeningAssumption
    <3>2. [task EXCEPT !.step = "opening", !.file = Head(queue)] \in Tasks
      BY <2>2, <3>1 DEF Tasks, Steps
    <3>3. task' \in Tasks /\ Len(queue') <= QueueLimit
      BY <1>2, <2>5, <3>1, <3>2 DEF PopFront
    <3> QED BY <1>1, <2>1, <3>3, CountsStay DEF FlagsOK
  <2> QED BY <2>4, <2>5
<1>3. CASE OpenFile \/ CreateAck \/ WriteAck
  <2>1. UNCHANGED << running, manager, arrived, queue, events, listening, requested, shown,
                     closing, expired >>
    <3>1. CASE OpenFile
      BY <3>1 DEF OpenFile, brokerVars
    <3>2. CASE CreateAck
      BY <3>2 DEF CreateAck, fileVars
    <3>3. CASE WriteAck
      BY <3>3 DEF WriteAck, fileVars
    <3> QED BY <1>3, <3>1, <3>2, <3>3
  <2>2. task \in Tasks
    <3>1. task.step # "idle"
      BY <1>3 DEF OpenFile, CreateAck, WriteAck
    <3> QED BY <3>1 DEF NoTask
  <2>3. \E ok \in BOOLEAN, step \in Steps :
          task' = [task EXCEPT !.ok = ok, !.step = step] \/ task' = [task EXCEPT !.step = step]
    <3>1. { "creating", "answered", "writing" } \subseteq Steps
      BY DEF Steps
    <3>2. CASE OpenFile
      <4>1. PICK ok \in BOOLEAN, step \in { "creating", "answered" } :
              task' = [task EXCEPT !.ok = ok, !.step = step]
        BY <3>2 DEF OpenFile
      <4> QED BY <3>1, <4>1
    <3>3. CASE CreateAck
      BY <3>1, <3>3 DEF CreateAck
    <3>4. CASE WriteAck
      BY <3>1, <3>4 DEF WriteAck
    <3> QED BY <1>3, <3>2, <3>3, <3>4
  <2>4. task' \in Tasks
    <3>1. ASSUME NEW ok \in BOOLEAN, NEW step \in Steps
          PROVE  /\ [task EXCEPT !.ok = ok, !.step = step] \in Tasks
                 /\ [task EXCEPT !.step = step] \in Tasks
      BY <2>2 DEF Tasks
    <3> QED BY <2>3, <3>1
  <2>5. opened' \subseteq HandOffs
    BY <1>3 DEF OpenFile, CreateAck, WriteAck, fileVars, FlagsOK
  <2> QED BY <1>1, <2>1, <2>4, <2>5, CountsStay DEF FlagsOK
<1>4. ASSUME NEW f \in Files, CloseDocument(f) PROVE Bounded'
  <2>1. /\ closing' \subseteq closing
        /\ UNCHANGED << running, manager, arrived, queue, events, listening, requested, shown,
                        opened, expired, task >>
    BY <1>4 DEF CloseDocument, windowVars, brokerVars
  <2> QED BY <1>1, <2>1, CountsStay DEF FlagsOK
<1> QED BY <1>2, <1>3, <1>4 DEF Commands

LEMMA UserBounded ==
  ASSUME IInv, Bounded, User
  PROVE  Bounded'
<1> USE DEF Bounded
<1>1. events \in Nat /\ events <= events /\ Len(queue) <= QueueLimit
  BY DEF IInv, DrainHears, CountsOK
<1>2. 0 \in 0..MaxFailures
  BY OpeningAssumption
<1>3. CASE OpenDialog
  <2>1. /\ task' = [by |-> "dialog", step |-> "picking", file |-> NoFile, ok |-> FALSE,
                    failures |-> 0]
        /\ UNCHANGED << running, manager, arrived, queue, events, listening, requested, shown,
                        closing, opened, expired >>
    BY <1>3 DEF OpenDialog, TaskOnly, NoTask, fileVars, brokerVars
  <2>2. task' \in Tasks
    BY <1>2, <2>1 DEF Tasks, Steps
  <2> QED BY <1>1, <2>1, <2>2, CountsStay DEF FlagsOK
<1>4. CASE HandleClose
  <2>1. /\ shown \in Files /\ shown' = NoFile /\ closing' = closing \cup { shown }
        /\ UNCHANGED << running, manager, arrived, queue, events, listening, requested, task,
                        opened, expired >>
    BY <1>4 DEF HandleClose, brokerVars, FlagsOK
  <2> QED BY <1>1, <2>1, CountsStay DEF FlagsOK
<1>5. CASE Exits
  <2>1. /\ running' = FALSE /\ manager' = FALSE /\ queue' = << >> /\ events' = 0
        /\ listening' = "no" /\ requested' = FALSE /\ task' = NoTask
        /\ shown' = NoFile /\ closing' = {}
        /\ UNCHANGED << arrived, opened, expired >>
    BY <1>5 DEF Exits, brokerVars
  <2>2. Len(queue') <= QueueLimit /\ events' \in Nat /\ events' <= events
    <3>1. Len(queue') = 0
      BY <2>1
    <3> QED BY <1>1, <2>1, <3>1, OpeningAssumption
  <2> QED BY <2>1, <2>2, CountsStay DEF FlagsOK
<1>6. ASSUME NEW f \in Locals, Pick(f) \/ Drop(f) PROVE Bounded'
  <2>1. /\ f \in Files \ arrived /\ arrived' = arrived \cup {f}
        /\ UNCHANGED << running, manager, queue, events, listening, requested, shown, closing,
                        opened, expired >>
    BY <1>6 DEF Pick, Drop, Files, fileVars, brokerVars
  <2>2. task' \in Tasks
    <3>1. CASE Pick(f)
      <4>1. task \in Tasks
        BY <3>1 DEF Pick, NoTask
      <4>2. [task EXCEPT !.step = "opening", !.file = f] \in Tasks
        BY <2>1, <4>1 DEF Tasks, Steps
      <4> QED BY <3>1, <4>2 DEF Pick
    <3>2. CASE Drop(f)
      <4>1. task' = [by |-> "drop", step |-> "opening", file |-> f, ok |-> FALSE,
                     failures |-> 0]
        BY <3>2 DEF Drop, NoTask
      <4> QED BY <1>2, <2>1, <4>1 DEF Tasks, Steps
    <3> QED BY <1>6, <3>1, <3>2
  <2> QED BY <1>1, <2>1, <2>2, CountsStay DEF FlagsOK
<1> QED BY <1>3, <1>4, <1>5, <1>6 DEF User

LEMMA StepBounded ==
  ASSUME IInv, Bounded, [Next]_vars
  PROVE  Bounded'
<1>1. CASE Clock \/ \E h \in HandOffs : Broker(h)
  <2>1. UNCHANGED << running, manager, arrived, queue, events, listening, requested, shown,
                     closing, opened, task >>
    BY <1>1 DEF Clock, Broker, appVars, windowVars, fileVars
  <2>2. expired' \subseteq HandOffs
    BY <1>1 DEF Clock, Broker, Expire, BrokerStep, Request, Launch, Look, LookFails, GiveUp,
                Answer, Bounded, FlagsOK
  <2> QED BY <2>1, <2>2 DEF Bounded, FlagsOK, CountsOK
<1>2. CASE UNCHANGED vars
  BY <1>2 DEF vars, appVars, windowVars, fileVars, brokerVars, Bounded, FlagsOK, CountsOK
<1> QED BY <1>1, <1>2, ArriveBounded, ViewerBounded, CommandsBounded, UserBounded
    DEF Next, AppStep

-----------------------------------------------------------------------------
(* The theorems.                                                           *)

LEMMA StutterKeeps ==
  ASSUME IInv, UNCHANGED vars
  PROVE  IInv'
<1>1. TaskOK' /\ AckOK' /\ OnlyDropsLeak' /\ DrainHears'
  BY DEF IInv, vars, appVars, windowVars, fileVars, brokerVars, TaskOK, AckOK,
         OkMeansOpened, OnlyDropsLeak, DrainHears
<1>2. FilesOnce'
  BY DEF IInv, vars, appVars, windowVars, fileVars, FilesOnce, Waiting
<1> QED BY <1>1, <1>2 DEF IInv

\* Files, acknowledgements and the viewer's task stay tied together in every
\* state, whatever the brokers, the application and the user do.
THEOREM HandOffInvariance == Spec => []IInv
<1>1. ASSUME IInv, [Next]_vars PROVE IInv'
  <2>1. CASE Clock BY <1>1, <2>1, ClockKeeps
  <2>2. ASSUME NEW h \in HandOffs, Broker(h) PROVE IInv'
    BY <1>1, <2>2, BrokerKeeps
  <2>3. CASE FilesArrive BY <1>1, <2>3, FilesArriveKeeps
  <2>4. CASE Viewer BY <1>1, <2>4, ViewerKeeps
  <2>5. CASE Commands BY <1>1, <2>5, CommandsKeep
  <2>6. CASE User BY <1>1, <2>6, UserKeeps
  <2>7. CASE UNCHANGED vars BY <1>1, <2>7, StutterKeeps
  <2> QED BY <1>1, <2>1, <2>2, <2>3, <2>4, <2>5, <2>6, <2>7 DEF Next, AppStep
<1> QED BY <1>1, InitHolds, PTL DEF Spec

\* The types and the bounds: the queue never holds more than its limit, a drain
\* never counts more failures than it gives up at, and no more events are on
\* their way than files have come, for any limits (main.rs:78, App.vue:371).
THEOREM HandOffTypes == Spec => []TypeOK
<1>1. ASSUME IInv, Bounded, [Next]_vars PROVE Bounded'
  BY <1>1, StepBounded
<1>2. IInv /\ Bounded => TypeOK
  BY BoundedTypes
<1>3. Spec => []Bounded
  BY <1>1, InitBounded, HandOffInvariance, PTL DEF Spec
<1> QED BY <1>2, <1>3, HandOffInvariance, PTL

\* The browser is told "opened" only of a file the application did open, for
\* any number of brokers (native-broker main.rs:95, commands.rs:219).
THEOREM ToldOnlyWhatWasOpened == Spec => []OkMeansOpened
<1>1. IInv => OkMeansOpened
  BY DEF IInv, AckOK
<1> QED BY <1>1, HandOffInvariance, PTL

\* Every document of the manager is shown, being closed or on its way to the
\* window, except a dropped one whose metadata could not be had (App.vue:227).
THEOREM DocumentsAreClosed == Spec => []OnlyDropsLeak
<1>1. IInv => OnlyDropsLeak
  BY DEF IInv
<1> QED BY <1>1, HandOffInvariance, PTL

\* A drain takes the whole queue, hears of what comes meanwhile, or gives up
\* after too many failures, whatever the two limits are (App.vue:355).
THEOREM DrainsToTheEnd == Spec => NoFileForgotten
<1> DEFINE Kept ==
      listening = "yes" /\ running' /\ task.by = "drain" /\ task' = NoTask
        /\ queue # << >>
      => events > 0 \/ requested' \/ task.failures + 1 >= MaxFailures
<1>1. ASSUME IInv, [Next]_vars PROVE [Kept]_vars
  <2> SUFFICES ASSUME listening = "yes", running', task.by = "drain", task' = NoTask,
                      queue # << >>
               PROVE  events > 0 \/ requested' \/ task.failures + 1 >= MaxFailures
    OBVIOUS
  <2>1. task' # task
    BY DEF NoTask
  <2>2. CASE NothingWaits
    BY <1>1, <2>2 DEF NothingWaits, IInv, DrainHears, NoTask
  <2>3. CASE OpenFailed
    BY <1>1, <2>3, OpeningAssumption DEF OpenFailed, Over, Draining, NoTask, IInv, TaskOK
  <2>4. CASE Cancel \/ Adopt \/ AdoptFails
    <3>1. Over(task, 0)
      BY <2>4 DEF Cancel, Adopt, AdoptFails
    <3>2. task' = [Draining EXCEPT !.failures = 0]
      BY <3>1, OpeningAssumption DEF Over
    <3> QED BY <3>2 DEF Draining, NoTask
  <2>5. ~(Listen \/ HandleEvent \/ OpenSucceeded)
    BY <1>1, <2>1 DEF Listen, HandleEvent, OpenSucceeded, Drain, Draining, NoTask, IInv,
                      TaskOK
  <2>6. ~Commands
    BY <1>1, <2>1 DEF Commands, PopFront, OpenFile, CreateAck, WriteAck, CloseDocument,
                      windowVars, NoTask, IInv, TaskOK
  <2>7. ~User
    BY <1>1, <2>1 DEF User, OpenDialog, HandleClose, Exits, Pick, Drop, NoTask, TaskOK, IInv
  <2>8. ~FilesArrive
    BY <2>1 DEF FilesArrive, StartPlain, StartWith, Lost, SecondInstance, DeepLink, Boot,
                windowVars
  <2>9. ~Clock /\ \A h \in HandOffs : ~Broker(h)
    BY <2>1 DEF Clock, Broker, appVars, windowVars
  <2> QED BY <1>1, <2>1, <2>2, <2>3, <2>4, <2>5, <2>6, <2>7, <2>8, <2>9
          DEF Next, AppStep, Viewer, vars, appVars, windowVars
<1>2. Spec => [][Kept]_vars
  BY <1>1, HandOffInvariance, PTL DEF Spec
<1> QED BY <1>2 DEF NoFileForgotten
=============================================================================
