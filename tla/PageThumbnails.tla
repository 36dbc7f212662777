---------------------------- MODULE PageThumbnails ----------------------------
(***************************************************************************)
(* The sidebar of thumbnails (PageThumbnails.vue) as operators on its       *)
(* state: the document of its props, the thumbnail it has for each page, the *)
(* pages it rendered, the queue of those to render, and the one rendering it *)
(* waits for.  A thumbnail is named by the document and the page it shows.  *)
(***************************************************************************)
EXTENDS Integers, SequencesExt

CONSTANTS PageCounts,   \* the number of pages of each document, in the order opened
          First,        \* how many pages are queued for a new document
          Behind, Ahead \* how far around the current page they are queued

ASSUME ThumbnailAssumption ==
  PageCounts \in Seq(Nat \ {0}) /\ { First, Behind, Ahead } \subseteq Nat

NoJob == [handle |-> 0, page |-> 0]
Fresh == [handle |-> 0, pages |-> << >>, rendered |-> {}, queue |-> << >>,
          job |-> NoJob]

Lower(a, b) == IF a < b THEN a ELSE b
Upper(a, b) == IF a > b THEN a ELSE b

\* One loop at a time.
Processes(t) == t.job = NoJob

Waiting(t) == { j \in 1 .. Len(t.queue) : t.queue[j] \notin t.rendered }

\* processQueue up to its await: the next page that is not rendered, those before
\* it are passed over.
ProcessQueue(t) ==
  LET next == CHOOSE j \in Waiting(t) : \A k \in Waiting(t) : j <= k
  IN  IF ~Processes(t) THEN t
      ELSE IF Waiting(t) = {} THEN [t EXCEPT !.queue = << >>]
      ELSE [t EXCEPT !.queue = SubSeq(@, next + 1, Len(@)),
                     !.job = [handle |-> t.handle, page |-> t.queue[next]]]

QueueRender(t, i) ==
  IF i \in t.rendered \/ i \in ToSet(t.queue) THEN t
  ELSE ProcessQueue([t EXCEPT !.queue = Append(@, i)])

Pages(a, b) == [i \in 1 .. Upper(b - a + 1, 0) |-> a + i - 1]

\* The loops of the watches.
QueueAll(t, pages) ==
  LET queued[n \in 0 .. Len(pages)] ==
        IF n = 0 THEN t ELSE QueueRender(queued[n - 1], pages[n])
  IN  queued[Len(pages)]

\* A mutant: the thumbnails of the document before are kept.
DocumentChangedKeeps(t, handle) ==
  QueueAll([t EXCEPT !.handle = handle, !.rendered = {}, !.queue = << >>,
                     !.pages = [i \in 1 .. PageCounts[handle] |->
                                  IF i \in DOMAIN @ THEN @[i] ELSE NoJob]],
           Pages(1, Lower(PageCounts[handle], First)))

\* The watch on `info`: everything but the rendering in progress is reset.
DocumentChanged(t, handle) ==
  QueueAll([Fresh EXCEPT !.handle = handle, !.job = t.job,
                         !.pages = [i \in 1 .. PageCounts[handle] |-> NoJob]],
           Pages(1, Lower(PageCounts[handle], First)))

\* The watch on `currentPage`.
PageChanged(t, page) ==
  QueueAll(t, Pages(Upper(1, page - Behind),
                    Lower(PageCounts[t.handle], page + Ahead - 1)))

\* The rendering it waits for is answered, with whatever document it was asked
\* for; the queue goes on with the document of the props.  A thumbnail beyond
\* the last page is never drawn.
Answered(t, ok) ==
  LET done == [t EXCEPT !.job = NoJob]
      i == t.job.page
  IN  ProcessQueue(
        IF ~ok THEN done
        ELSE [done EXCEPT !.rendered = @ \cup {i},
                          !.pages = IF i \in DOMAIN @ THEN [@ EXCEPT ![i] = t.job] ELSE @])

\* Pages whose thumbnail shows another document.
Foreign(t) == { i \in DOMAIN t.pages : t.pages[i] # NoJob /\ t.pages[i].handle # t.handle }
=============================================================================
