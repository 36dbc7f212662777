---------------------------- MODULE BrowserExtension ----------------------------
(***************************************************************************)
(* The browser extension (browser-extension/service-worker.js, the same as *)
(* background.js, and the buttons of webmail.js): an attachment is         *)
(* downloaded by the browser, handed to the native broker, and the button  *)
(* that asked for it is told.  Every await lets other handlers run; the    *)
(* background script may be stopped between any two steps, which loses its *)
(* handlers and timers and keeps its storage, and started again, which     *)
(* reconciles the storage with the downloads.                              *)
(* A request id is drawn for each download and is the download's id here.  *)
(***************************************************************************)
EXTENDS Integers, FiniteSets

CONSTANTS Urls,          \* attachments
          Allowed,       \* those at an allowed origin
          Buttons,       \* buttons in the mail's page
          UrlOf,         \* the attachment of each
          Links,         \* those the menu or the shortcut is used on
          NoUrl,         \* of a call that does not run
          MaxPending,    \* transfers that may be under way (MAX_PENDING)
          MaxRetries,    \* of a download (MAX_RETRIES)
          Slots,         \* bound: calls of downloadAndOpen at a time
          MaxDownloads   \* bound: downloads

ASSUME ExtensionAssumption ==
  /\ Allowed \cup Links \subseteq Urls /\ UrlOf \in [Buttons -> Urls]
  /\ "none" \notin Buttons /\ NoUrl \notin Urls
  /\ MaxPending \in Nat /\ MaxRetries \in Nat /\ MaxDownloads \in Nat

Ids == 1..MaxDownloads
NoButton == "none"
Who == { "event", "reconcile" }

VARIABLES
  awake,     \* the background script runs
  stored,    \* downloads with a "pending:" key
  record,    \* what is stored under it: the attachment and the retry count
  active,    \* the "active:" keys: the request of an attachment, or 0
  download,  \* the browser's downloads: their state and their file
  changed,   \* downloads whose end is not announced yet
  call,      \* calls of downloadAndOpen that run
  handler,   \* finishDownload and its like, by caller and download
  timer,     \* retries that wait for their delay
  reconcile, \* reconcilePendingDownloads: what it has left
  button,    \* what each button shows and the request it waits for
  opened     \* history: downloads the native host said it opened

storage == << stored, record, active >>
browser == << download, changed >>
script  == << awake, call, handler, timer, reconcile >>
vars == << storage, browser, script, button, opened >>

NoCall == [pc |-> "none", url |-> NoUrl, retry |-> 0, button |-> NoButton,
           id |-> 0]
Resting == [todo |-> {}, phase |-> "done"]
Ready == [status |-> "ready", request |-> 0]  \* also what an error shows
NoDownload == [state |-> "none", file |-> "none"]

Init ==
  /\ awake = FALSE
  /\ stored = {} /\ active = [u \in Urls |-> 0]
  /\ record = [d \in Ids |-> [url |-> NoUrl, retry |-> 0]]
  /\ download = [d \in Ids |-> NoDownload] /\ changed = {}
  /\ call = [c \in Slots |-> NoCall]
  /\ handler = [k \in Who \X Ids |-> "none"] /\ timer = {}
  /\ reconcile = Resting
  /\ button = [b \in Buttons |-> Ready]
  /\ opened = {}

-----------------------------------------------------------------------------
(* The background script starts and stops.                                 *)

Start ==
  /\ ~awake /\ awake' = TRUE
  /\ reconcile' = [todo |-> {}, phase |-> "read"]
  /\ UNCHANGED << storage, browser, call, handler, timer, button, opened >>

\* A button whose call is lost is told that no answer will come.
Stop ==
  /\ awake /\ awake' = FALSE
  /\ call' = [c \in Slots |-> NoCall]
  /\ handler' = [k \in Who \X Ids |-> "none"] /\ timer' = {}
  /\ reconcile' = Resting
  /\ button' = [b \in Buttons |->
       IF \E c \in Slots : call[c].button = b THEN Ready ELSE button[b]]
  /\ UNCHANGED << storage, browser, opened >>

-----------------------------------------------------------------------------
(* downloadAndOpen.                                                        *)

\* An attachment elsewhere is refused at once, and its button is as before.
Called(c, u, retry, b) ==
  /\ awake /\ u \in Allowed /\ call[c] = NoCall
  /\ call' = [call EXCEPT ![c] =
       [pc |-> "lookup", url |-> u, retry |-> retry, button |-> b, id |-> 0]]

Click(c, b) ==
  /\ button[b].status # "downloading"
  /\ Called(c, UrlOf[b], 0, b)
  /\ button' = [button EXCEPT ![b].status = "downloading"]
  /\ UNCHANGED << storage, browser, awake, handler, timer, reconcile,
                  opened >>

\* The context menu and the keyboard shortcut.
Menu(c, u) ==
  /\ Called(c, u, 0, NoButton)
  /\ UNCHANGED << storage, browser, awake, handler, timer, reconcile,
                  button, opened >>

\* A delay is over; the result of this call is looked at by nobody.
Retry(c, w, d) ==
  /\ << w, d >> \in timer
  /\ timer' = timer \ { << w, d >> }
  /\ Called(c, record[d].url, record[d].retry + 1, NoButton)
  /\ UNCHANGED << storage, browser, awake, handler, reconcile, button,
                  opened >>

\* The response reaches the button that was clicked, if one was.
Respond(c, shows) ==
  /\ call' = [call EXCEPT ![c] = NoCall]
  /\ button' = IF call[c].button \in Buttons
               THEN [button EXCEPT ![call[c].button] = shows] ELSE button

Refused(c) == Respond(c, Ready)

Goes(c, pc, id) ==
  /\ call' = [call EXCEPT ![c].pc = pc, ![c].id = id]
  /\ UNCHANGED button

CallOnly == UNCHANGED << storage, browser, awake, handler, timer, reconcile, opened >>

\* A second request for an attachment under way gets the request of the first.
Lookup(c) ==
  /\ call[c].pc = "lookup"
  /\ IF active[call[c].url] # 0 THEN Goes(c, "accept", active[call[c].url])
                                ELSE Goes(c, "count", 0)
  /\ CallOnly

Count(c) ==
  /\ call[c].pc = "count"
  /\ IF Cardinality(stored) >= MaxPending THEN Refused(c) ELSE Goes(c, "download", 0)
  /\ CallOnly

Started == { d \in Ids : download[d].state # "none" }

Download(c) ==
  /\ call[c].pc = "download"
  /\ \/ /\ Cardinality(Started) < MaxDownloads
        /\ LET d == Cardinality(Started) + 1
           IN  /\ download' = [download EXCEPT ![d] = [state |-> "in_progress",
                                                       file |-> "there"]]
               /\ Goes(c, "store", d)
     \/ Refused(c) /\ UNCHANGED download
  /\ UNCHANGED << storage, changed, awake, handler, timer, reconcile, opened >>

\* Both keys are written at once.
Store(c) ==
  /\ call[c].pc = "store"
  /\ stored' = stored \cup { call[c].id }
  /\ record' = [record EXCEPT ![call[c].id] =
                  [url |-> call[c].url, retry |-> call[c].retry]]
  /\ active' = [active EXCEPT ![call[c].url] = call[c].id]
  /\ call' = [call EXCEPT ![c].pc = "accept"]
  /\ UNCHANGED << browser, awake, handler, timer, reconcile, button,
                  opened >>

Accept(c) ==
  /\ call[c].pc = "accept"
  /\ Respond(c, [status |-> "downloading", request |-> call[c].id])
  /\ CallOnly

-----------------------------------------------------------------------------
(* The browser.                                                            *)

DownloadEnds(d) ==
  /\ download[d].state = "in_progress"
  /\ \E state \in { "complete", "interrupted" } :
       download' = [download EXCEPT ![d].state = state]
  /\ changed' = changed \cup {d}
  /\ UNCHANGED << storage, script, button, opened >>

\* onChanged.
Changed(d) ==
  /\ awake /\ d \in changed
  /\ changed' = changed \ {d}
  /\ handler' = [handler EXCEPT ![<< "event", d >>] = "get"]
  /\ UNCHANGED << storage, download, awake, call, timer, reconcile,
                  button, opened >>
-----------------------------------------------------------------------------
(* finishDownload and reconcilePendingDownloads.                           *)

At(w, d, pc) == handler' = [handler EXCEPT ![<< w, d >>] = pc]

HandlerOnly == UNCHANGED << storage, browser, awake, call, timer,
                            reconcile, button, opened >>

\* A mutant: a download is retried once more than it may be.
InterruptedOnceMore(d) == IF record[d].retry <= MaxRetries THEN "retry" ELSE "fail"

\* What a download that broke off comes to.
Interrupted(d) == IF record[d].retry < MaxRetries THEN "retry" ELSE "fail"

\* The transfer is looked up; a complete download may have been redirected
\* elsewhere, and is unknown once it is removed.
Get(w, d) ==
  /\ handler[<< w, d >>] = "get"
  /\ \E pc \in { "native", "fail" } :
       At(w, d, IF d \notin stored THEN "none"
                ELSE IF w = "event" /\ download[d].state = "interrupted"
                     THEN Interrupted(d)
                ELSE IF download[d].file = "removed" THEN "fail"
                ELSE pc)
  /\ HandlerOnly

Answered(w, d, ok) == At(w, d, IF ok THEN "option" ELSE "fail")

\* The broker's answer.
Native(w, d) ==
  /\ handler[<< w, d >>] = "native"
  /\ \E ok \in BOOLEAN :
       /\ opened' = IF ok THEN opened \cup {d} ELSE opened
       /\ Answered(w, d, ok)
  /\ UNCHANGED << storage, browser, awake, call, timer, reconcile, button >>

\* deleteAfterOpen: the download is erased, its file too unless that fails.
Option(w, d) ==
  /\ handler[<< w, d >>] = "option"
  /\ \E file \in { download[d].file, "removed" } :
       download' = [download EXCEPT ![d].file = file]
  /\ At(w, d, "succeed")
  /\ UNCHANGED << storage, changed, awake, call, timer, reconcile,
                  button, opened >>

\* A mutant: the attachment stays marked as active.
ForgetPending(d) ==
  /\ stored' = stored \ {d}
  /\ UNCHANGED active

\* Both keys are removed at once, whoever the second belongs to by now.
Forget(d) ==
  /\ stored' = stored \ {d}
  /\ active' = [active EXCEPT ![record[d].url] = 0]

ForgetAndRetry(w, d) ==
  /\ handler[<< w, d >>] = "retry"
  /\ Forget(d)
  /\ timer' = timer \cup { << w, d >> }
  /\ At(w, d, "none")
  /\ UNCHANGED << record, download, changed, awake, call, reconcile,
                  button, opened >>

\* finishPending, up to the message.
Finish(w, d) ==
  /\ handler[<< w, d >>] \in { "succeed", "fail" }
  /\ Forget(d)
  /\ At(w, d, IF handler[<< w, d >>] = "succeed" THEN "tellOpened" ELSE "tellFailed")
  /\ UNCHANGED << record, download, changed, awake, call, timer,
                  reconcile, button, opened >>

\* A mutant: a message is taken by every button that waits.
WaitingForAny(d) == { b \in Buttons : button[b].request # 0 }

\* A message is for the buttons that wait for its request.
WaitingFor(d) == { b \in Buttons : button[b].request = d }

Tell(w, d) ==
  /\ handler[<< w, d >>] \in { "tellOpened", "tellFailed" }
  /\ button' = [b \in Buttons |->
       IF b \in WaitingFor(d)
       THEN IF handler[<< w, d >>] = "tellOpened" THEN [Ready EXCEPT !.status = "ok"]
            ELSE Ready
       ELSE button[b]]
  /\ At(w, d, "none")
  /\ UNCHANGED << storage, browser, awake, call, timer, reconcile, opened >>

\* The storage as it is when the script starts; later changes are not seen.
Read ==
  /\ reconcile.phase = "read"
  /\ reconcile' = [todo |-> stored, phase |-> "loop"]
  /\ UNCHANGED << storage, browser, awake, call, handler, timer, button,
                  opened >>

\* One after the other; one that is older than an hour has expired.
Reconcile(d, expired) ==
  /\ d \in reconcile.todo
  /\ \A x \in Ids : handler[<< "reconcile", x >>] = "none"
  /\ reconcile' = [reconcile EXCEPT !.todo = @ \ {d}]
  /\ At("reconcile", d,
        IF expired THEN "fail"
        ELSE IF download[d].state = "interrupted" \/ download[d].file = "removed"
             THEN Interrupted(d)
        ELSE IF download[d].state = "complete" THEN "get"
        ELSE "none")
  /\ UNCHANGED << storage, browser, awake, call, timer, button, opened >>

-----------------------------------------------------------------------------

CallStep(c) ==
  \/ Lookup(c) \/ Count(c) \/ Download(c) \/ Store(c) \/ Accept(c)
  \/ \E w \in Who, d \in Ids : Retry(c, w, d)

HandlerStep(w, d) ==
  \/ Get(w, d) \/ Native(w, d) \/ Option(w, d)
  \/ ForgetAndRetry(w, d) \/ Finish(w, d) \/ Tell(w, d)

ScriptStep ==
  \/ \E c \in Slots : CallStep(c)
  \/ \E w \in Who, d \in Ids : HandlerStep(w, d)
  \/ \E d \in Ids : Changed(d) \/ \E expired \in BOOLEAN : Reconcile(d, expired)
  \/ Read

User ==
  \E c \in Slots : (\E b \in Buttons : Click(c, b)) \/ (\E u \in Links : Menu(c, u))

Browser == Start \/ Stop \/ \E d \in Ids : DownloadEnds(d)

Next == ScriptStep \/ User \/ Browser

Spec == Init /\ [][Next]_vars

-----------------------------------------------------------------------------
(* Properties.                                                             *)

CallPcs == { "lookup", "count", "download", "store", "accept" }

\* The types of the variables.
TypeOK ==
  /\ awake \in BOOLEAN
  /\ stored \subseteq Ids /\ changed \subseteq Ids
  /\ opened \subseteq Ids
  /\ record \in [Ids -> [url : Urls \cup { NoUrl }, retry : 0..MaxRetries]]
  /\ active \in [Urls -> 0..MaxDownloads]
  /\ download \in [Ids -> { NoDownload } \cup
       [state : { "in_progress", "complete", "interrupted" },
        file : { "there", "removed" }]]
  /\ call \in [Slots -> { NoCall } \cup
       [pc : CallPcs, url : Urls, retry : 0..MaxRetries,
        button : Buttons \cup { NoButton }, id : 0..MaxDownloads]]
  /\ handler \in [Who \X Ids -> { "none", "get", "native", "option",
                   "retry", "succeed", "fail", "tellOpened", "tellFailed" }]
  /\ timer \subseteq Who \X Ids
  /\ button \in [Buttons -> [status : { "ready", "downloading", "ok" },
                             request : 0..MaxDownloads]]

\* An attachment that is marked as active has a transfer of its own under way:
\* requests for it are answered with the request of another that will be
\* finished, expired or retried.  A mark without its transfer would make the
\* attachment impossible to open, since nothing but the end of a transfer
\* removes marks; two requests at a time, a retry and a reconcile after a restart
\* each write and remove both keys, at times those of one another.
ActiveHasTransfer ==
  \A u \in Urls : active[u] # 0 => active[u] \in stored /\ record[active[u]].url = u

\* A button turns green only when the very transfer it waited for was opened,
\* whichever buttons wait and whatever request their click was answered with;
\* and the browser's copy is removed only after DocBunker has opened it, although
\* the event and the reconcile may handle the same download at the same time.
OnlyAfterOpening ==
  [][/\ \A b \in Buttons :
          button[b].status # "ok" /\ button'[b].status = "ok"
            => button[b].request \in opened /\ record[button[b].request].url = UrlOf[b]
     /\ \A d \in Ids : download'[d].file = "removed" => d \in opened]_vars
=============================================================================
