# TLA+ models of DocBunker

DocBunker opens a document without letting its parser near the rest of the
system: a desktop application hands the bytes to a worker process inside a
sandbox (a gVisor container, a VM, or a plain subprocess in development), the
worker parses and rasterises, and only pixels come back over a pipe.  This
directory models the program where that can go wrong by ordering, failure or a
limit, from the link in a mail to the pixels on the screen: who owns which
session, which bytes a handle means, what a late reply does, what is left behind
when something dies, which file is opened or forgotten, and what is drawn.

Paths below are relative to the repository root.  A definition's exact lines
are in the `map` of `PROJECT.json`; the hazards the properties aim at are in
its `hazards`.

## 1. The system

    browser extension --(native messaging)--> native broker
                                                 | --open <file>, ack file
                                                 v
    viewer (App.vue) --Tauri commands--> application (src-tauri)
                                                 | spawn_blocking
                                                 v
                                         DocumentManager + PageCache (core)
                                                 | SandboxBackend trait
                                                 v
                       SubprocessBackend | RunscBackend | QemuVmBackend | MockBackend
                                                 | WorkerSession over ProcessTransport
                                                 v  stdin/stdout, shared page buffer
                                         renderer-worker (Worker, renderers)

| Component | State | Operations | Talks to | What is hard | What makes it correct |
|---|---|---|---|---|---|
| Document manager `crates/core/src/manager.rs` | table handle id -> (session, document, info), id counter, cache, backend, all under one mutex that a panic poisons | `open`, `get_document_info`, `render_page`, `close`, `drop` | backend (calls under the lock), cache | opening is four steps and each can fail; closing is three; a worker dies between calls; the lock is poisoned | one session per document, no stray sandbox, cached pages are current, nothing survives the drop, a handle means its bytes |
| Page cache `crates/core/src/cache.rs` | `order` (recency list), `entries` (pages) | `get`, `put`, `remove_document`; private `touch`, `evict` | the manager | two structures that must agree; eviction at the limit | index and pages agree, LRU, latest page |
| Sandbox backends `crates/sandbox/src/process_backend.rs`, `platforms/*`, `mock.rs` | table session -> worker session, session and document counters | `start_session`, `send_document`, `get_document_info`, `render_page`, `close_session`, `drop` | one worker session each | ids are used up by failures; the entry goes before the worker is closed; drop | fresh ids, no process without an entry |
| Process transport `crates/sandbox/src/process.rs` | child, writer channel (1), response channel (1), overflow flag, shared-region path, two threads | `from_child_io` (handshake), `send_raw`, `shutdown`, `terminate`, `reap`, `drop` | worker over two pipes | four parties; replies carry no request number; deadlines; floods; crashes | an answer answers its own call, every call returns, fail-stop, nothing left |
| Worker session `process.rs:664` | transport, documents of the worker | the backend's calls as requests, `close_all_documents` | transport | error half-way through closing | closing ends with no process |
| Renderer worker `crates/renderer-worker` | handshake flag, limits, documents, page-buffer region | `handle`: Hello, Ping, Open, Info, Render, Close; its main loop | renderers | requests in an illegal order, a second Hello | refusals change nothing |
| Wire protocol `crates/protocol` | none (pure) | framing, negotiation and validation of limits | both ends | torn frames, widths, clamping on both sides | what one side sends the other accepts |
| Runsc / VM backend `platforms/linux.rs`, `platforms/vm` | container, bundle, start-up guard | `start`, `output_with_timeout`, `cleanup_container`, `drop` | `runsc`, QEMU | a start that fails half-way; a helper that hangs | no container or bundle outlives its session |
| Application and start-up queue `src-tauri/src/main.rs`, `commands.rs` | queue of at most 4 files, acknowledgement paths | push from argv, second instance, deep link; drain from the viewer | viewer, broker, manager | full queue; acknowledgement of what nobody opened | success is reported of opened files only; a drain leaves no file it did not hear of; every document is closed |
| Native broker `crates/native-broker` | none between runs | checks, spawn, poll of the acknowledgement | application, extension | a look between create and write; 45 s timeout | no success without an opened document |
| Viewer `frontend/src/App.vue`, `PageThumbnails.vue` | current handle, page, zoom, `renderSequence`, drop target | open, adopt, render, close, drain | application | awaits that interleave | only the open document is shown, and the window settles on the selection |
| Browser extension `browser-extension/service-worker.js` | stored transfers and marks, timers, buttons | `downloadAndOpen`, `finishDownload`, `reconcile` | browser, broker | the service worker is stopped at any await | marks and transfers agree; nothing is shown as opened, or removed, before it was |
| Image renderer `renderer-image` | the decoded picture | decode with every check, scale | worker | sizes that lie, fixed-point steps over sizes of one | a page is the picture, resampled |
| Office and PDF renderers `renderer-ooxml`, `pdf_hayro.rs`, `pdf.rs` | pages of lines, media, a table; the PDF | read a container under caps, extract, lay out, scale | worker | headers that lie, cuts, arithmetic on the room of a line | the caps hold, pages are the parts in their order, what is drawn is the page |
| Native host registration `src-tauri/src/native_host.rs` | files, registry keys | write at start | browsers | pure I/O | - |

Calls go down the picture and results up; the only callbacks are the event that
tells the viewer of a queued file and the browser's events to the extension.
All state of the core is under the manager's mutex, so its operations are atomic
to each other.  Below the transport nothing is, and above it the viewer and the
extension are single threads whose every `await` lets other handlers run.

## 2. Modules

| Module | Kind | Models |
|---|---|---|
| `PageCache` | operators on a cache value | `cache.rs`, one operator per method and private helper |
| `PageCacheMachine` | state machine | `PageCache` driven by any calls, with history of what an unbounded cache would know |
| `SandboxBackend` | operators on a backend value | the trait methods, each as the set of outcomes one call can have |
| `DocumentManager` | state machine | `manager.rs`, composed of `PageCache` and `SandboxBackend` |
| `DocumentShelf` | abstract specification | what the manager promises its callers |
| `ProcessTransport` | state machine | `process.rs`: host thread, writer thread, reader thread, worker |
| `RpcChannel` | abstract specification | what a transport promises its session |
| `ProtocolLimits` | pure | negotiation of limits and every check of a message (`validate.rs`, `limits.rs`) |
| `DocumentFormats` | pure | recognition of a format by content, and what is rendered (`format.rs`) |
| `RendererWorker` | operators on a worker value | the dispatch over documents and the shared page buffer (`worker.rs`, `shm.rs`) |
| `WorkerSession` | state machine | host, pipe and the worker's main loop, over the three above (`framing.rs`, `main.rs`, the session of `process.rs`) |
| `LaunchConfig` | pure | environment to backend and asset digests (`app_config.rs`), limits to OCI bundle (`runsc_bundle.rs`) |
| `SandboxLaunch` | state machine | choice of the backend, start, close and drop with runsc and QEMU, `output_with_timeout` |
| `DocumentChecks` | pure | what each door into the application asks of a file |
| `NativeBroker` | actions | the broker: request, spawn, poll, answer |
| `AppOpening` | actions | the queue of files, the commands, the viewer's opening, adopting and closing |
| `HandOff` | composition | `NativeBroker` and `AppOpening`, which meet in a command line and an acknowledgement file |
| `PageThumbnails` | operators on a sidebar value | `PageThumbnails.vue` |
| `Viewer` | state machine | what the window draws of the open document (`App.vue`), with the sidebar |
| `BrowserExtension` | state machine | downloads, retries, hand-over and buttons (`service-worker.js`, `webmail.js`) |
| `ImageRenderer`, `PdfRenderers`, `OoxmlText`, `TextPages` | pure | the renderers: decoding and scaling, both PDF engines, Office containers, their layout |
| `Preview` | composition | `AnyRenderer` over these renderers: open one document, render any page at any size |
| `MC*` | model-checking instances | constants for TLC |
| `*_proof` | theorems | section 5 |

### Page cache

`order` and `entries` are the two fields of the code.  `Touched`, `Evicted`,
`CacheGet`, `CachePut` and `CacheRemoveDocument` are `touch`, `evict`, `get`,
`put` and `remove_document`; `Without` is the `retain` of the last.  A key's target width and height are one value,
`target`, since the code only compares them.  The machine adds `recency` (every
key used since its document was removed, newest first) and `latest` (the page
last put under each), which no eviction touches.

### Sandbox backend

A backend is a record of its table and counters, with the set of sessions whose
process exists; a trait method is the set of outcomes `[backend, ok, result]`.
`FailedRequest` is what the transport does on every failure: the worker is gone
and the table keeps its entry.  `StartSession` takes its id before the spawn,
`SendDocument` before the request, so failures use ids up.  `CloseSession`
removes the entry first and ends without a process whatever fails; the mock
backend alone can then report an error.  Error codes are those a caller can
tell apart by what may follow; the worker's codes are passed through unchanged
and two of them stand for all, one being the code the manager itself uses for a
full table.

### Document manager

The manager holds its mutex for the whole of each operation, so an operation is
one action: `OpenDocument` contains the start, the send, the info request, the
registration, and in each failing branch the clean-up with its own outcomes.
`OpenRejected`, `RenderRejected` and `CloseRejected` are the early returns in
the order of the code.  Between operations `WorkerCrash` takes a sandbox.
`OpenPanics` is a panic under the lock (a thread of a new worker cannot be
spawned): the lock is poisoned, all later calls fail, and `Drop` takes its other
branch.  (Release builds abort on a panic; this is a build that unwinds.)
`opened` and `reply` are history: the bytes opened under each id, and the last
call with its result.  Bytes are a few model values with a page count each; one
of them is over the size limit, one is the empty file.

### Process transport

`pc` is the place of the host thread in `send_raw`; each step between two
accesses of shared state is an action.  The overflow flag and the response
channel are looked at one after the other, so they are two actions, before the
request and again behind the reply.  `Terminate` drops the command channel and
kills the child; `Reap` waits for it, gives the threads their second, and
removes the page-buffer file if the host knows it.  `Shutdown` and `Grace` are
the polite end.  A pipe is a queue; a frame that does not fit a pipe buffer
(`Large`) is written when the worker has read it.  The reader takes a frame and
tries to put it, and stops at the first it cannot put, at end of file, and at a
torn frame.  Finding the channel full (`reader = "full"`) and setting the flag
(`Overflow`) are two steps, as they are in `read_loop`, and the host can take the
reply, look at the flag and find the channel empty between them.  `lost` is
history: the call during which the channel was found full.  `inherited` says that
a descendant of the worker holds its ends of the pipes, so that killing the worker
closes nothing.

Checks on the contents of a reply are one predicate here: kind, document and
page must be those of the request (`Echo`); `WorkerSession` has them in full.
The render target is not among them, so `small` and `resized` in the instance
have the same echo, on purpose.

`setting` chooses the worker, once: an honest one, or one that also sends wrong
replies and frames nobody asked for.  A frame sent on its own after the host
looked at the channel and before the request reaches the worker is taken for the
reply; nothing in the protocol tells the two apart, so what is said of answers
is said of honest workers, and the rest of both.

### Worker and its session

`Handle(worker, request)` in `RendererWorker` is the set of pairs of a worker
and a response that one request can lead to, case by case as in `worker.rs`,
with the page written to the shared region before its frame, whole, in part or
not at all.  `WorkerSession` lets the worker read its input byte by byte:
`frame` is how much of the current frame is in the pipe, `reader` how much of
its header and body the worker has, so that input can end anywhere.  The host is
one of two programs: the code's own session, with its table and its checks of
each answer, or any program that speaks the protocol, which sends any request in
any state, frames of a wrong length, and bytes that are no request.  A document
is reduced to its size, the signature and entries that `DocumentFormats` looks
at, and what its decoder will say; `Preview` has the decoders.

### Launch of sandboxes

`FromEnv` is `AppConfig::from_env`: six variables, a manifest and the build's
policy give a backend and the digests to compare, or a refusal.  `SandboxLaunch`
goes on from there: `pc` is the place of the host thread from `initialize`
through `start_session`, `close_session` and `drop`, with each call of a helper
program of runsc spread over `spawnCommand`, `poll` and `drain`
(`output_with_timeout`).  QEMU's two queries at start-up have no such guard: the
host is at `queryVersion` and `queryAccelerators` until QEMU has told
(`VersionTold`, `AcceleratorsTold`), which may be never.
Next to the host the world moves: `runsc delete` may work, hang, exit without
having deleted, or leave descendants that hold its pipes (`held`); a sandbox
creates its container late or ends by itself; the VM's files are replaced at any
time, one by one, and `replaced` remembers which since the digests were last
compared.  `StartFails` is what the armed `StartupGuard` does and
`AfterShutdown` the order of `close_session`; Rust's implicit drops are explicit
steps (`RemoveBundle`).  What a session does between start and close is the
subject of the two modules above.

### From the browser to the window

`NativeBroker` is a process per file: `Request`, the checks, the start of the
application with the path of an acknowledgement file, `Poll` and the deadline.
`AppOpening` is the application: `FilesArrive` (command line, second instance,
deep link, with the queue's limit), the Tauri commands as steps of their own
with their answers, and the viewer's coroutine `task` between them: a drain, a
drop or a dialog, which goes through the awaits of `openDocument` and
`adoptDocument`.  The acknowledgement is created and written in two steps.
`task` is what holds `opening` in `App.vue`, with its count of failures, and
`requested` is `startupDrainRequested`; `open` is what the manager has, `opened`
and `stranded` are history, the second of the dropped files whose metadata could
not be had.  A file is opened at most once and names its document.

### Viewer

The user's actions change document, page, size or sidebar (`AdoptDocument`,
`HandleClose`, `SelectPage`, `Zoom`, `WindowResized`, `ToggleThumbnails`); the
watchers of Vue run in the same action, since nothing can come between; `Load` is the
timer that starts a render, `Answer` a render that is answered, late, in any
order, or with an error.  `stale` are renders nobody waits for any more,
`preloaded` the map of pages rendered ahead with its limit, `failed` the key
that is not tried again.  The sidebar is a value: its document, its thumbnails,
its queue, and the one rendering it waits for; `QueueAll` is the loop in each of
its watches, `Waiting` what `processQueue` does not pass over.  A picture is
named by document, page and size.

### Browser extension

Each `await` of `downloadAndOpen` and `finishDownload` ends an action: a call
goes through `lookup`, `count`, `download`, `store`, `accept`; a finished
download is handled by the event, by the reconcile after a start, or by both at
once (`handler[<< w, d >>]`).  `Stop` loses calls, handlers and timers and keeps
the stored keys; `Start`, `Read` and `Reconcile` take them up again.  A transfer
that was interrupted is retried by a timer.

### Renderers

`Preview` opens one document with `AnyRenderer` and renders any page at any
target.  A ZIP container is a sequence of entries with the sizes their header
declares and the sizes they inflate to; `ReadEntry` charges the caps in the
order of the code.  The XML of a part is its events, a text is a sequence of
characters with a width in bytes each.  `TextPages` lays out with the code's
numbers; what it computes in `f32` is an exact quotient here, rounded where the
code rounds.  `ImageRenderer` is the fixed-point scaler with its step per axis.

## 3. Runs

`tlc -config X.cfg M`, from this directory.

| Run | Config | Question |
|---|---|---|
| `page_cache` | `MCPageCache.cfg` | Do index and pages agree (`TypeOK`), is what is kept what was used last, and lost only from the back of a full cache (`KeepsMostRecentlyUsed`), and is a hit the latest page (`HitIsLatest`)? |
| `document_manager` | `MCDocumentManager.cfg` | One session per document, no stray sandbox, current cached pages, an empty world after the drop, no operation that disturbs another document (`OthersUndisturbed`); does the manager implement `DocumentShelf`? |
| `process_transport` | `MCProcessTransport.cfg` | Is nothing of an earlier call left when a request goes out, and is no call answered that is made after a frame found the response channel full (`QuietAroundCalls`); does a closed transport leave no process, file or thread (`ClosedLeavesNothing`); does it implement `RpcChannel`; does every call return? |
| `worker_session` | `MCWorkerSession.cfg` | Does the session never send what its worker refuses (`NeverOversteps`), and know what the worker has (`SessionMirrorsWorker`); is a page the one asked for (`PageIsTheOneAskedFor`); does a refusal change nothing; does a worker end with its host? |
| `sandbox_launch` | `MCSandboxLaunch.cfg` | Is nothing left of a session that failed or was closed (`NothingLeftBehind`), does the bundle go last (`BundleOutlivesSandbox`), is what runs isolated and checked, but for files replaced after the check (`LaunchesOnlyWhatWasChecked`), does the runtime's state directory outlive the sessions (`TypeOK`), and does every call but the queries of QEMU return whatever its helpers do (`CallsReturn`)? |
| `hand_off` | `MCHandOff.cfg` | Is a browser told "opened" only of what was (`OkMeansOpened`), is every document closed but dropped ones whose metadata could not be had (`OnlyDropsLeak`), does a drain end with an empty queue (`NoFileForgotten`), does every browser get an answer? |
| `extension` | `MCBrowserExtension.cfg` | Do marks and transfers agree (`ActiveHasTransfer`), and is nothing shown as opened, or removed, before it was (`OnlyAfterOpening`)? |
| `viewer` | `MCViewer.cfg` | Does the window show the open document only, but for one thumbnail (`ShowsOpenDocument`), and settle on what is selected (`SettlesOnSelection`)? |
| `preview` | `MCPreview.cfg` | Do the caps hold for headers that lie (`TypeOK`), are pages the parts in their order and whole (`PagesInOrder`), is what is drawn of a text, a picture or a PDF the page, and of a table as much as its layout leaves room for (`LaidOut`)? |
| `crash_reported`, `region_removed`, `failed_session_deleted` | `TransportCrashReport.cfg`, `TransportRegionLeak.cfg`, `FailedSessionDeleted.cfg` | Violated: section 4. |

`LaidOut` compares with definitions of their own: the bilinear mix of four
pixels as a fraction, the place of each glyph after the one before, a PDF page
that fits its target and fills it in one direction.  For a table it says how much
is drawn, which is less than the table: rows from the top, each cell from its
beginning, without the line that would start at the end of its row, so without
any text in a row of one line (section 4).  Which column a cell is in is not
compared with the sheet but with the extracted table.  `PagesInOrder` also has a
definition of its own, which knows no reader state: a page is the characters
inside the `t` elements of its part.

**Bounds**, and why they are enough.

* Page cache: three documents, two sizes (six keys), two rasters, capacity 3:
  twice as many keys as slots, so eviction, refresh, promotion and removal all
  meet.  The number of calls is not bounded.
* Manager: two documents open at a time, three sessions ever started
  (`MaxSessions`), so that a slot is refused, freed and used again; capacity 2
  for up to three pages of two documents, page numbers 0 to 2 (`MaxPage`), one
  of them beyond every document.
* Transport: four calls with an honest worker, three with the other and two
  frames nobody asked for, one more than the response channel holds, so that a
  call can fail, the next find what it left and a third be made after that.
  Both channels have the capacity 1 of the code.
* Worker session: documents of at most 4 bytes, messages of 3 to 12, pages of
  2 by 1 pixel, two document ids (`MaxIds`), hosts that send ids 0 and 1
  (`AnyIds`), six hellos and four targets with values at, below and above every
  limit.  Limits are constants, so that one off by one is met.
* Launch: two sessions, 80 environments, one for each way to decide them,
  five limits of a session, two of which are refused.
* Hand-off: two brokers and a local file against a queue of two (`QueueLimit`,
  four in the code) and a drain that gives up after two failures in a row
  (`MaxFailures`, four).  Sizes are the real 64 MiB and 64 KiB with looks at
  their edges.
* Extension: one allowed and one other address, one button, one pending
  transfer, one retry, two calls at a time, two downloads; the two calls are
  alike (symmetry).
* Viewer: documents of 2, 3 and 1 pages, two sizes, two preloaded pages, five
  changes by the user (`MaxChanges`); the first 2 thumbnails at once, and 1
  before and 2 behind those that are visible.
* Preview: containers of at most 12 bytes and 6 per entry, 5 bytes of text,
  3 lines, 4 rows, 6 columns, cells of 3 characters, images up to 3 by 3, PDFs
  of two pages, targets from 1 by 1 to 40 by 14 and two that are refused; fixed
  point with 256 for 2^16; page size, font and gaps are the code's.

Larger instances (three extension downloads and calls, four documents in the
viewer, four hand-offs, four launches) were explored by random simulation only
and showed nothing else.

Deadlock checking is off where the system may stop: a dropped manager, a dropped
transport, a worker that ended, a user who rests.

**Fairness.**  `ProcessTransport`: weak fairness of the host thread inside a
call, of the clock, and of each pipe thread: they are OS threads that are never
waited for under a lock, and clocks advance.  Nothing is assumed of the worker,
which may sleep for ever, nor of the owner, who need not call, close or drop.
`WorkerSession`: the worker process is scheduled.  `SandboxLaunch`: the host
thread and the clock; no child has to do anything, and QEMU need not answer its
two queries, which is why `CallsReturn` leaves out the two places where the host
waits for them.  `HandOff`: the brokers run
and time passes; the application need do nothing.  `Viewer`: timers run, and
every render is answered, since each request below has a deadline.  The other
specifications state no fairness and are used for safety only.

**Mutants.**  `PROJECT.json` pairs every property with a variant of one
definition that a plausible bug would produce (`TouchedFifo`, `HalfOpenLeft`,
`StartFailsUnguarded`, `WaitingForAny`, `SlidesAsStored`, ...).  Each variant
stands just before the definition it replaces and makes its property fail.

## 4. Where the code and its documents disagree

* `crash_reported`.  `renderer-worker/src/main.rs:6-7` says the host treats any
  unclean exit as `SandboxCrashed`.  A worker that dies *between* two calls
  leaves its end of file as an item of the response channel; the next
  `send_raw` finds the channel non-empty and reports an internal error, "worker
  sent an unsolicited response" (`process.rs:341-347`).
* `region_removed`.  `docs/changelog.md:96-98` says region files are removed by
  the host when the worker dies.  The worker makes the file while it answers
  Hello; if the handshake fails after that, the host never learned of the file
  and removes nothing.
* `failed_session_deleted`.  `docs/overview.md:149-150` says a session whose
  operation timed out is killed and deleted.  The worker is killed; the session
  stays in the backend's and the manager's tables, counting against the limit of
  open documents, until the user closes it or the manager is dropped.

Other behaviour that is in the models as it is in the code, and that no property
excuses more than it must:

* Hand-off: a poll between the creation and the writing of the acknowledgement
  answers "rejected" for a document that was opened.  A drop that ends does not
  look at the queue, and a drain that gave up leaves files, which wait for the
  next event.  A dropped file whose metadata cannot be had keeps its place in
  the manager.  A file the application refuses from its command line is never
  acknowledged, so the browser waits for the deadline.
* Extension: two requests for one attachment can both pass the look for an
  active transfer, and concurrent calls can exceed the limit of pending ones.
  The event and the reconcile can hand the same download over twice.  A stop
  before a finished transfer is erased opens it again; one between the start of
  a download and its record forgets it, and so does one before a retry.  A
  retry has a new request id, so the button of the first waits for ever.
* Viewer: one thumbnail of the document before can stay among the new ones.
  Opening the dialog clears the error and keeps the key of the failed page, so
  that page is blank with no message.
* Transport: `docs/threat-model.md:172` says the response channel rejects floods.
  It does a step late: a host that took the reply out while the reader was about
  to set `overflow` accepts the reply although a second frame came behind it
  (`process.rs:450`, `:615-618`); the next call fails.  A worker that answers and
  dies at once may fill the channel with its answer and find no room for the end
  of file: the answer is then discarded or accepted, by the same race.
* VM: `docs/sandbox.md:168-169` says assets are verified before QEMU is queried or
  launched, `docs/overview.md:196-197` before QEMU is launched, `SECURITY.md:66-67`
  before use.  `initialize` queries QEMU first, and digests are compared at the
  first start alone (`assets_verified`, `vm/mod.rs:178-186`): a VM started later
  boots from whatever the files are then.  The two queries have no deadline, so
  that a QEMU which hangs keeps the application from starting.
* Office: a cell's value is stored under its row's number instead of its
  column's, so each row of a sheet has one value; all shared strings of a sheet
  are one line of text; a row whose cells fit one line is drawn without text; a
  run of blanks is dropped; the text limit counts bytes of a page.  The room of
  a line can underflow (`text.rs:109`, `:136`), which panics in a debug build and
  wraps in a release build; the model wraps.
* Images: files whose color type is neither RGB nor RGBA, or becomes another one
  while decoding, fail.

## 5. What is proved

TLAPS checks the following for all values of the constants, from the named
assumptions in the modules alone.  Most of them (`CapacityAssumption`,
`ContentAssumption`, `ManagerAssumption`; `LaunchAssumption`,
`SessionsAssumption`; `ChecksAssumption`, `OpeningAssumption`;
`ExtensionAssumption`; `LimitsAssumption`, `SessionAssumption`;
`ThumbnailAssumption`, `ViewerAssumption`) say that numbers are numbers, that
limits are in the order the code's constants are in, and that model values do not
collide.  Three say more:

* `FilesAssumption`: the files that ever reach the application are finitely many,
  for any number.
* `DocumentsAssumption`: a decoder reports any error of `RenderError` but
  `DocumentTooLarge`.  The decoders raise that one in `validate_document_size`
  alone (`limits.rs:55`), against a maximum no negotiated limit exceeds, and the
  worker has compared the size with the negotiated one before.
* `TransportAssumption`: an honest worker sends no frame on its own, which is what
  the word means there; every other worker may.

| Theorem | Module | States |
|---|---|---|
| `TypeCorrectness` | `DocumentManager_proof` | `Spec => []TypeOK` |
| `SessionsMatchDocuments` |  | `Spec => []OneSessionPerDocument` |
| `SandboxesAreBounded` |  | `Spec => []NoStraySandbox` |
| `CacheIsCurrent` |  | `Spec => []CachedPagesAreCurrent` |
| `DropIsComplete` |  | `Spec => []NothingOutlivesTheManager` |
| `CallsAreSeparate` |  | `Spec => OthersUndisturbed` |
| `ManagerIsShelf` |  | `Spec => ImplementsShelf` |
| `Invariance` |  | `Spec => []IInv`, behind the others |
| `CacheTypes` | `PageCacheMachine_proof` | `Spec => []TypeOK` |
| `HitsAreLatest` |  | `Spec => []HitIsLatest` |
| `EvictsLeastRecentlyUsed` |  | `Spec => KeepsMostRecentlyUsed` |
| `CacheInvariance` |  | `Spec => []IInv`, behind the others |
| `TransportTypes` | `ProcessTransport_proof` | `Spec => []TypeOK` |
| `QuietTransport` |  | `Spec => QuietAroundCalls` |
| `NothingLeftWhenClosed` |  | the safety half of `ClosedLeavesNothing` |
| `TransportIsRpc` |  | `Spec => ImplementsRpc` |
| `TransportInvariance` |  | `Spec => []IInv`, behind the others |
| `SessionTypes` | `WorkerSession_proof` | `Spec => []TypeOK` |
| `SessionNeverOversteps` |  | `Spec => []NeverOversteps` |
| `SessionMirrors` |  | `Spec => []SessionMirrorsWorker` |
| `PagesAreThoseAskedFor` |  | `Spec => []PageIsTheOneAskedFor` |
| `RefusalsChangeNothing` |  | `Spec => RefusalChangesNothing` |
| `CleanEndsBetweenFrames` |  | the safety half of `WorkerEndsWithItsHost` |
| `SessionInvariance` |  | `Spec => []IInv`, behind the others |
| `LaunchTypes` | `SandboxLaunch_proof` | `Spec => []TypeOK` |
| `NoRemains` |  | `Spec => []NothingLeftBehind` |
| `CheckedBeforeLaunch` |  | `Spec => []LaunchesOnlyWhatWasChecked` |
| `BundleGoesLast` |  | `Spec => BundleOutlivesSandbox` |
| `LaunchInvariance` |  | `Spec => []IInv`, behind the others |
| `HandOffTypes` | `HandOff_proof` | `Spec => []TypeOK` |
| `ToldOnlyWhatWasOpened` |  | `Spec => []OkMeansOpened` |
| `DocumentsAreClosed` |  | `Spec => []OnlyDropsLeak` |
| `DrainsToTheEnd` |  | `Spec => NoFileForgotten` |
| `HandOffInvariance` |  | `Spec => []IInv`, behind the others |
| `ViewerTypes` | `Viewer_proof` | `Spec => []TypeOK` |
| `ViewerShowsOpenDocument` |  | `Spec => []ShowsOpenDocument` |
| `AtRestIsSettled` |  | the safety half of `SettlesOnSelection` |
| `ViewerInvariance` |  | `Spec => []IInv`, behind the others |
| `ExtensionTypes` | `BrowserExtension_proof` | `Spec => []TypeOK` |
| `MarksHaveTransfers` |  | `Spec => []ActiveHasTransfer` |
| `GreenOnlyAfterOpening` |  | `Spec => OnlyAfterOpening` |
| `ExtensionInvariance` |  | `Spec => []IInv`, behind the others |

**Manager.**  None of its invariants is inductive by itself.  That a cached page
is current needs that no two sessions hold the same document id, which needs
that ids are at most their counter; that the sandboxes are at most
`MaxOpenDocuments` needs that the manager's table maps onto the backend's and is
finite and within the limit.  `IInv` is the conjunction of `BackendOK(backend)`
(ids below their counters, no document id in two sessions, sandboxes only of
sessions in the table), `SessionsOK` and `OpenedOK` (the manager's tables, below
the id counter and the limit), `Tied` (the two tables are one to one, and each
open document's bytes are what the backend holds for it), `CacheOK`, and
`NothingOutlivesTheManager`.  The proof is layered like the code:
its first lemmas state what each trait method does to a well-formed
backend, whatever its outcome, and what each cache operation does to the pages,
for every capacity; then there is one lemma per action, which uses only those
facts.  `OthersUndisturbed` adds whom a request, a
start and a close can take down: nobody but the session they are for, which for
an open is one the manager's table does not have yet.

**Page cache.**  That the two fields agree is not inductive with what the cache
promises of recency, and neither follows from the other, so `IInv` says it of
both at once: the order is the beginning of the recency list, the list has no
key twice, the entries are those of the order, and each is the page put last.
Every operation then does to the order what it does to the list, which is longer:
a touch moves the key from the same place (`TouchedMoves`, since the list agrees
with the order up to it), a push is a push, an eviction shortens the order from
the back, and a removal leaves a beginning of what it leaves of the list.  The
last needs induction: `retain` keeps, of a longer sequence, what it keeps of its
beginning and then more (`Without` lemmas).  Induction is had without an operator
parameter from the library's fact that < is well founded on the naturals: the
least counterexample below a bound does not exist (`Induction`).  A recursive
function is by definition the choice of a solution of its equation, so each one
is first shown to have a solution (`Recursion`); what follows from the equation
is then proved by that induction.

**Shelf.**  The last part of `DocumentManager_proof` maps every step of the manager to a step of
`DocumentShelf` or to none.  A page from the cache is a page of the shelf by
`CachedPagesAreCurrent`, a page from the worker by `Tied`; an open gives a handle
the shelf never had because ids are below their counter; and a failure blames
nobody falsely because no error of the backend but that of an unknown document
says "not open" or "no such page" (`Blameless`), and the manager asks only for
documents it holds.

**Transport.**  A reply carries no number, so nothing of what a channel of calls
promises can be seen from a reply.  The invariant follows the one frame of an
honest worker's call instead: while the host waits it is in one place at most,
the writer's channel, the pipe, the worker, the pipe back or the reader's
channel (`OneFrame`), and when the host does not wait there is none (`Quiet`);
`FlowOK` says so as long as the worker can still be heard.  `WriterOK` ties the
writer thread to the place of the host thread, `ReplyOK` says that a reply looked
at is of the current call, `HandshakeOK` that the first call and no other says
hello, `DownOK` what is done of killing and reaping at each place behind a
failure, `LostOK` that a reader which found the channel full reads no more, and
that a later call finds the channel empty and gets no reply, and `RegionOK` that
a page buffer which outlived the handshake is known to the host.  Where only honest workers are meant, the conjunct says
`setting.honest`.  Each step then is a step of
`RpcChannel` or none: a call that returns an answer returns its own because
`ReplyOK` names the call, and after a failure there is no way back to the writer.

**Session.**  First, what a turn of the worker's loop makes of each request: it
is refused and changes nothing, or granted (`Refused`, `Granted`), and a request
that the host has reason to send (`Proper`) is not refused as its fault.  This
needs that the two negotiations agree (`NegotiateAgrees`): the limits a client
takes from the answer are those the worker took, however each clamps.  `IInv`
then ties four things that change at different times: the host's call, the frame
in the pipe (`InFlight`), the answer on its way back (`Answered`) and the two
tables of documents (`Mirror`, which excepts the document a call is about to
open, since its id is drawn before it is sent).  For a closing session `Mirror`
says that what the worker still has is what was not asked for yet.  A host that
is any program keeps only what the worker alone guarantees.

**Launch.**  Directories, processes and containers change at different times and
by different hands, so the invariant says at each place of the host thread what
may exist: `OwnersOK` gives each to a session of the table, to the session being
started or ended, or, for a container, to a deletion that failed; `CommandOK`
that a `runsc delete` which reported success has deleted; `StateDirOK` that the
state directory is there from the end of the start-up to the end of the drop;
`VerifiedOK` and `BackendOK` that the digests were compared before anything was
started and that each pinned file still has its digest or was replaced since, with
the backend the environment asked for; `IdsOK` that an id is drawn once.
`LaunchesOnlyWhatWasChecked` also rests on two facts about the pure definitions,
`UnpinnedIsOverridden` and `HalfOfTheMemory`.

**Hand-off.**  `AckOK` ties what a broker read to what the application wrote and
that to what was opened; `TaskOK` says what the viewer's coroutine holds at each
of its awaits; `FilesOnce` that a file is in one place at a time (command line,
queue, coroutine); `DrainHears` that an event which came during a drain is still
pending or remembered.  For the types, `Bounded` adds the limits of the queue and
of the failures, and that there is at most one event per file that arrived.

**Viewer.**  An answer is taken when its number is the current one.  That is
enough because whatever changes the document bumps the number, so the rendering
of the current number is of the open document (`RequestsOK`); pages rendered
ahead are kept under what they show (`PreloadedOK`), and the picture is replaced
or cleared in the step that changes document or label (`PictureOK`).  For the
thumbnails `SidebarOK` counts together those of a document before and the
rendering the sidebar waits for, if that was asked for such a document: there is
one of them at most, an answer turns the second into the first, and a change of
document drops the thumbnails and leaves the rendering.  The loops over pages
only put pages on the queue, or start one rendering, of the document of the props
(`QueueAllStays`, by the induction described above).  `SelectionDrawn` says of
the selection that what is on its way is for it, and that it is drawn or failed
when nothing is; so a window which rests shows what is selected, and what liveness
adds is only that it comes to rest.

**Extension.**  Both properties rest on an id being drawn once: a transfer is
written for an id that has none (`WrittenOnce`, `OwnIds`), so no mark, button or
call that names an id ever finds another attachment under it (`CallsOK`,
`ButtonsOK`); `OpenedOK` says a handler past the broker's answer has its file
opened.  That no count of retries passes its bound rests on the same: a record
that waits for its retry is not written again before the timer has taken it.

## 6. What is only model-checked

* Liveness (`EveryCallReturns`, `CallsReturn`, `EveryHandOffAnswered`, that the
  window comes to rest in `SettlesOnSelection`, and the second halves of
  `ClosedLeavesNothing` and `WorkerEndsWithItsHost`): TLAPS does not handle
  fairness here.
* The renderers (`Preview`: `TypeOK`, `PagesInOrder`, `LaidOut`): they are folds
  within folds over the events, characters, rows and pixels of a document.  Each
  needs an induction of its own with an invariant of reader, pen or table; the
  runs compare them with definitions that have no such state.

## 7. What is not modelled

* Native host registration: it writes manifests and registry keys once.
* EPUB, RTF and HTML: the repository has renderers for them that `AnyRenderer`
  does not open (its documents say so).
* What quick-xml, the image codecs, the font, Hayro and MuPDF make of their
  input: external, any outcome they can report is taken.  The same holds for
  `runsc`, QEMU, the guest, the browser and the file system.
* In the viewer: a page number with a fraction, which its input accepts, and a
  window so small that a page would have one pixel, where nothing is loaded; two
  preloads of one page that are under way at once count as one.
* Wording, logging and layout of the interface; panning and zoom gestures beyond
  the size they end in; QEMU's command line; frames and shading of tables;
  how the extension finds links in each mail page, its badge and options page;
  batches of the extension, which are the same calls one after the other.
* The encoding of a message (postcard) is one token: a frame has a length, and
  its payload is a request or is not one.
* `InProcessTransport` calls the worker directly and is covered by
  `WorkerSession` only as a host that never loses a byte.

## 8. Plan

Done: the core, its transport and worker, the launch of sandboxes, the hand-off,
the extension, the viewer and the renderers.  What would come next, in order:

1. The caps of a container (`ReadEntry`) for every sequence of entries, by the
   induction that serves the page cache.
2. The pen of a text page: that no two glyphs overlap, for every text.
3. Batches and the badge of the extension; the frames of tables.
