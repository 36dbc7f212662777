------------------------------- MODULE AppOpening -------------------------------
(***************************************************************************)
(* How the application opens documents: the queue of files to open         *)
(* (src-tauri/src/main.rs), the commands that open and close one           *)
(* (src-tauri/src/commands.rs), and the viewer that calls them             *)
(* (frontend/src/App.vue).  The viewer is one thread whose calls are       *)
(* awaited: between a call and its answer events are handled and the user  *)
(* clicks.  A file is opened at most once here, and names its document.    *)
(* `broker` and its acknowledgement files belong to module NativeBroker.   *)
(***************************************************************************)
EXTENDS NativeBroker, FiniteSets

CONSTANTS Locals,      \* files the user opens from outside, drops or picks
          QueueLimit,  \* files that may wait
          MaxFailures, \* failures in a row after which a drain gives up
          NoFile

ASSUME OpeningAssumption ==
  /\ QueueLimit \in Nat \ {0} /\ MaxFailures \in Nat \ {0}
  /\ NoFile \notin HandOffs \cup Locals

\* Only finitely many files ever exist.
ASSUME FilesAssumption == IsFiniteSet(HandOffs) /\ IsFiniteSet(Locals)

Files == HandOffs \cup Locals

VARIABLES
  running,    \* the application runs
  manager,    \* it has a document manager
  arrived,    \* files that reached it, or were lost on the way
  queue,      \* StartupFiles
  events,     \* "associated-file-ready" events on their way to the viewer
  listening,  \* the viewer's listener: "no", "yes" or "failed"
  requested,  \* startupDrainRequested
  task,       \* what holds `opening`
  shown,      \* the viewer's handle
  open,       \* documents the manager has
  closing,    \* documents the viewer asked to close, without waiting
  opened,     \* history: files of a broker that were opened
  stranded    \* history: dropped files whose metadata could not be had, since
              \* the window is there

windowVars == << listening, requested, task, shown >>
fileVars == << open, closing, opened, stranded >>
appVars == << running, manager, arrived, queue, events, windowVars, fileVars >>

NoTask == [by |-> "none", step |-> "idle", file |-> NoFile, ok |-> FALSE,
           failures |-> 0]

AppInit ==
  /\ running = FALSE /\ manager = FALSE
  /\ arrived = {} /\ queue = << >> /\ events = 0
  /\ listening = "no" /\ requested = FALSE /\ task = NoTask /\ shown = NoFile
  /\ open = {} /\ closing = {} /\ opened = {} /\ stranded = {}

-----------------------------------------------------------------------------
(* Files arrive.                                                           *)

\* A file is on its way when its broker has started the application, or the
\* user opens it.
OnItsWay(f) ==
  f \notin arrived /\ (f \in HandOffs => broker[f] \notin { "idle", "launch", "refused" })

\* The first process becomes the application, with a manager or without.
Boot(pending) ==
  /\ ~running /\ running' = TRUE /\ manager' \in BOOLEAN
  /\ queue' = pending
  /\ UNCHANGED << events, windowVars, fileVars, brokerVars >>

StartPlain == Boot(<< >>) /\ UNCHANGED arrived

StartWith(f) ==
  /\ OnItsWay(f) /\ arrived' = arrived \cup {f}
  /\ \E look \in Looks :
       Boot(IF ArgumentAccepted(look, f \in HandOffs) THEN << f >> ELSE << >>)

\* A process that never comes up.
Lost(f) ==
  /\ f \in HandOffs /\ OnItsWay(f) /\ arrived' = arrived \cup {f}
  /\ UNCHANGED << running, manager, queue, events, windowVars, fileVars,
                  brokerVars >>

\* A mutant: the limit is looked at after the push.
QueueFullLate == Len(queue) > QueueLimit

QueueFull == Len(queue) >= QueueLimit

\* The queue is full: only a broker is told.  (The file is created and written
\* in two steps; the broker takes it for a refusal at either.)
Overflow(f) ==
  /\ ack' = IF f \in HandOffs /\ ack[f] # "none"
            THEN [ack EXCEPT ![f] = "error"] ELSE ack
  /\ UNCHANGED << broker, expired, queue, events >>

\* An event no listener was there for is gone.
Enqueue(f) ==
  /\ queue' = Append(queue, f)
  /\ events' = IF listening = "yes" THEN events + 1 ELSE events
  /\ UNCHANGED brokerVars

\* A second process passes its arguments to the first.
SecondInstance(f) ==
  /\ running /\ OnItsWay(f)
  /\ arrived' = arrived \cup {f}
  /\ \E look \in Looks :
       IF ~ArgumentAccepted(look, f \in HandOffs)
       THEN UNCHANGED << queue, events, brokerVars >>
       ELSE IF QueueFull THEN Overflow(f) ELSE Enqueue(f)
  /\ UNCHANGED << running, manager, windowVars, fileVars >>

\* A docbunker:// link; one that finds the queue full is dropped.
DeepLink(f) ==
  /\ running /\ f \in Locals /\ OnItsWay(f)
  /\ arrived' = arrived \cup {f}
  /\ \E look \in Looks :
       IF LinkAccepted(look) /\ ~QueueFull
       THEN Enqueue(f) ELSE UNCHANGED << queue, events, brokerVars >>
  /\ UNCHANGED << running, manager, windowVars, fileVars >>

\* The window is closed and the process leaves, in the middle of whatever.
Exits ==
  /\ running
  /\ running' = FALSE /\ manager' = FALSE /\ queue' = << >> /\ events' = 0
  /\ listening' = "no" /\ requested' = FALSE /\ task' = NoTask
  /\ shown' = NoFile /\ open' = {} /\ closing' = {} /\ stranded' = {}
  /\ UNCHANGED << arrived, opened, brokerVars >>

-----------------------------------------------------------------------------
(* The viewer takes what waits.                                            *)

\* drainStartupDocuments is entered with `opening` free.
Draining == [by |-> "drain", step |-> "ask", file |-> NoFile, ok |-> FALSE,
             failures |-> 0]

\* A mutant: a drain that finds the viewer busy is not remembered.
DrainForgotten ==
  IF task = NoTask THEN requested' = FALSE /\ task' = Draining
                   ELSE UNCHANGED << requested, task >>

Drain == IF task = NoTask
         THEN requested' = FALSE /\ task' = Draining
         ELSE requested' = TRUE /\ UNCHANGED task

Listen ==
  /\ running /\ listening = "no"
  /\ \/ listening' = "yes" /\ Drain
     \/ listening' = "failed" /\ UNCHANGED << requested, task >>
  /\ UNCHANGED << running, manager, arrived, queue, events, shown, fileVars,
                  brokerVars >>

HandleEvent ==
  /\ events > 0
  /\ events' = events - 1
  /\ Drain
  /\ UNCHANGED << running, manager, arrived, queue, listening, shown, fileVars,
                  brokerVars >>

TaskOnly == UNCHANGED << running, manager, arrived, queue, events, listening,
                         requested, shown, fileVars, brokerVars >>

\* open_startup_document, its first half: the front of the queue is taken.
PopFront ==
  /\ task.step = "ask"
  /\ IF queue = << >>
     THEN task' = [task EXCEPT !.step = "nothing"] /\ UNCHANGED queue
     ELSE /\ task' = [task EXCEPT !.step = "opening", !.file = Head(queue)]
          /\ queue' = Tail(queue)
  /\ UNCHANGED << running, manager, arrived, events, listening, requested,
                  shown, fileVars, brokerVars >>

\* The answer "nothing waits": the drain ends, unless it was asked for again.
NothingWaits ==
  /\ task.step = "nothing"
  /\ task' = IF requested THEN [task EXCEPT !.step = "ask"] ELSE NoTask
  /\ requested' = FALSE
  /\ UNCHANGED << running, manager, arrived, queue, events, listening, shown,
                  fileVars, brokerVars >>

-----------------------------------------------------------------------------
(* The user opens.                                                         *)

OpenDialog ==
  /\ running /\ task = NoTask
  /\ task' = [NoTask EXCEPT !.by = "dialog", !.step = "picking"]
  /\ TaskOnly

Pick(f) ==
  /\ task.step = "picking" /\ f \in Locals \ arrived
  /\ task' = [task EXCEPT !.step = "opening", !.file = f]
  /\ arrived' = arrived \cup {f}
  /\ UNCHANGED << running, manager, queue, events, listening, requested, shown,
                  fileVars, brokerVars >>

\* What is dropped while a document is being opened is ignored.
Drop(f) ==
  /\ running /\ task = NoTask /\ f \in Locals \ arrived
  /\ \E look \in Looks : DropAccepted(look)
  /\ task' = [NoTask EXCEPT !.by = "drop", !.step = "opening", !.file = f]
  /\ arrived' = arrived \cup {f}
  /\ UNCHANGED << running, manager, queue, events, listening, requested, shown,
                  fileVars, brokerVars >>

-----------------------------------------------------------------------------
(* open_file, and the acknowledgement of what came from a broker.          *)

OpenFile ==
  /\ task.step = "opening"
  /\ \E ok \in BOOLEAN :
       /\ ok => manager /\ \E look \in Looks : ReadAccepted(look)
       /\ open'   = IF ok THEN open \cup {task.file} ELSE open
       /\ opened' = IF ok THEN opened \cup ({task.file} \cap HandOffs) ELSE opened
       /\ task' = [task EXCEPT
            !.ok = ok,
            !.step = IF manager /\ task.by = "drain" /\ task.file \in HandOffs
                     THEN "creating" ELSE "answered"]
  /\ UNCHANGED << running, manager, arrived, queue, events, listening,
                  requested, shown, closing, stranded, brokerVars >>

\* create_new fails where a file is, and where the broker's directory is gone.
CreateAck ==
  /\ task.step = "creating"
  /\ IF ack[task.file] = "absent"
     THEN /\ ack' = [ack EXCEPT ![task.file] = "empty"]
          /\ task' = [task EXCEPT !.step = "writing"]
     ELSE task' = [task EXCEPT !.step = "answered"] /\ UNCHANGED ack
  /\ UNCHANGED << running, manager, arrived, queue, events, listening,
                  requested, shown, fileVars, broker, expired >>

\* A mutant: what is written does not depend on the result.
StatusOk == "ok"

Status == IF task.ok THEN "ok" ELSE "error"

WriteAck ==
  /\ task.step = "writing"
  /\ task' = [task EXCEPT !.step = "answered"]
  /\ ack' = IF ack[task.file] = "none" THEN ack
            ELSE [ack EXCEPT ![task.file] = Status]
  /\ UNCHANGED << running, manager, arrived, queue, events, listening,
                  requested, shown, fileVars, broker, expired >>

-----------------------------------------------------------------------------
(* The answer arrives in the viewer.                                       *)

\* What follows a task that is over: after the dialog, a drain; after a file
\* of the queue, the next one, unless too many failed in a row; after a drop,
\* nothing.
Over(t, failures) ==
  IF t.by = "dialog" THEN requested' = FALSE /\ task' = Draining
  ELSE IF t.by = "drain" /\ failures < MaxFailures
       THEN /\ task' = [Draining EXCEPT !.failures = failures]
            /\ UNCHANGED requested
  ELSE task' = NoTask /\ UNCHANGED requested

\* Cancelled in the dialog.
Cancel ==
  /\ task.step = "picking" /\ Over(task, 0)
  /\ UNCHANGED << running, manager, arrived, queue, events, listening, shown,
                  fileVars, brokerVars >>

OpenFailed ==
  /\ task.step = "answered" /\ ~task.ok
  /\ Over(task, task.failures + 1)
  /\ UNCHANGED << running, manager, arrived, queue, events, listening, shown,
                  fileVars, brokerVars >>

OpenSucceeded ==
  /\ task.step = "answered" /\ task.ok
  /\ task' = [task EXCEPT !.step = "adopting"]
  /\ TaskOnly

\* adoptDocument: the metadata has come; the document shown before is closed.
Adopt ==
  /\ task.step = "adopting"
  /\ shown' = task.file
  /\ closing' = closing \cup ({ shown } \ { NoFile })
  /\ Over(task, 0)
  /\ UNCHANGED << running, manager, arrived, queue, events, listening, open,
                  opened, stranded, brokerVars >>

\* A mutant: whoever opened it leaves a document that cannot be shown open.
Abandoned(f, by) == {}

\* What is closed when the metadata could not be had; a drop closes nothing.
Abandons(f, by) == IF by = "drop" THEN {} ELSE { f }

AdoptFails ==
  /\ task.step = "adopting"
  /\ closing' = closing \cup Abandons(task.file, task.by)
  /\ stranded' = IF task.by = "drop" THEN stranded \cup { task.file } ELSE stranded
  /\ Over(task, 0)
  /\ UNCHANGED << running, manager, arrived, queue, events, listening, shown,
                  open, opened, brokerVars >>

HandleClose ==
  /\ shown # NoFile
  /\ shown' = NoFile /\ closing' = closing \cup { shown }
  /\ UNCHANGED << running, manager, arrived, queue, events, listening,
                  requested, task, open, opened, stranded, brokerVars >>

\* close_document.
CloseDocument(f) ==
  /\ f \in closing
  /\ closing' = closing \ {f} /\ open' = open \ {f}
  /\ UNCHANGED << running, manager, arrived, queue, events, windowVars,
                  opened, stranded, brokerVars >>

FilesArrive ==
  \/ StartPlain
  \/ \E f \in Files : StartWith(f) \/ Lost(f) \/ SecondInstance(f) \/ DeepLink(f)

Viewer ==
  \/ Listen \/ HandleEvent \/ NothingWaits \/ Cancel \/ OpenFailed
  \/ OpenSucceeded \/ Adopt \/ AdoptFails

Commands ==
  \/ PopFront \/ OpenFile \/ CreateAck \/ WriteAck
  \/ \E f \in Files : CloseDocument(f)

User ==
  \/ OpenDialog \/ HandleClose \/ Exits
  \/ \E f \in Locals : Pick(f) \/ Drop(f)

AppStep == FilesArrive \/ Viewer \/ Commands \/ User

Steps == { "ask", "nothing", "picking", "opening", "creating", "writing",
           "answered", "adopting" }

AppTypeOK ==
  /\ running \in BOOLEAN /\ manager \in BOOLEAN /\ requested \in BOOLEAN
  /\ arrived \subseteq Files /\ open \subseteq Files /\ closing \subseteq Files
  /\ opened \subseteq HandOffs /\ stranded \subseteq Locals
  /\ queue \in Seq(Files) /\ Len(queue) <= QueueLimit
  /\ events \in 0..Cardinality(Files)
  /\ listening \in { "no", "yes", "failed" }
  /\ shown \in Files \cup { NoFile }
  /\ task \in { NoTask } \cup
       [by : { "dialog", "drop", "drain" }, step : Steps,
        file : Files \cup { NoFile }, ok : BOOLEAN, failures : 0..MaxFailures]
=============================================================================
