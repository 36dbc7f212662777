-------------------------------- MODULE Viewer --------------------------------
(***************************************************************************)
(* What the window shows of the open document (App.vue): the page selected, *)
(* the page drawn, the next one rendered ahead, and the thumbnails.  A change *)
(* of the selection runs the watchers before anything else happens, and they *)
(* start a timer that loads the page.  Renders are answered at any later time *)
(* and in any order.                                                        *)
(* A picture is named by the document, the page and the size it shows.      *)
(***************************************************************************)
EXTENDS PageThumbnails, FiniteSets

CONSTANTS Sizes,         \* sizes the window, the fit and the zoom come to
          MaxPreloaded,  \* pages kept that were rendered ahead
          MaxChanges     \* bound: what the user does

ASSUME ViewerAssumption ==
  MaxPreloaded \in Nat \ {0} /\ MaxChanges \in Nat /\ 0 \notin Sizes

VARIABLES
  handle,     \* the open document, by the order of opening, or 0
  opened,     \* how many were opened
  page, size, \* what is selected
  shown,      \* renderedPage
  label,      \* renderedPageNumber
  failed,     \* failedRenderKey
  rendering,  \* the spinner
  load,       \* the rendering whose sequence number is the current one
  stale,      \* renderings of earlier numbers that are not answered
  preloading, \* renderings ahead that are not answered
  preloaded,  \* preloadedPages
  timer,      \* the watcher's timer runs
  sidebar,    \* showThumbnails
  thumbs,     \* the thumbnails, or Fresh when they are not mounted
  changes     \* what the user has done, counted

selection == << handle, page, size >>
picture == << shown, label, failed, rendering >>
requests == << load, stale, preloading >>
vars == << opened, selection, picture, requests, preloaded, timer, sidebar,
           thumbs, changes >>

None == [handle |-> 0, page |-> 0, size |-> 0]
NoEntries == [k \in {} |-> None]

Documents == 1 .. Len(PageCounts)
PageCount == IF handle = 0 THEN 0 ELSE PageCounts[handle]

\* renderCacheKey of the open document.
Key(p) == [handle |-> handle, page |-> p, size |-> size]

Init ==
  /\ handle = 0 /\ opened = 0 /\ page = 1 /\ size \in Sizes
  /\ shown = None /\ label = 1 /\ failed = None /\ rendering = FALSE
  /\ load = None /\ stale = {} /\ preloading = {} /\ preloaded = NoEntries
  /\ timer = FALSE /\ sidebar = FALSE
  /\ thumbs = Fresh /\ changes = 0

-----------------------------------------------------------------------------
(* The user.                                                               *)

User == changes < MaxChanges /\ changes' = changes + 1

\* renderSequence += 1
Bump(next) ==
  /\ stale' = IF load = None THEN stale ELSE stale \cup { load }
  /\ load' = next

\* The sidebar is drawn anew: its props change, and its watchers run in order.
DrawThumbnails ==
  thumbs' =
    IF ~sidebar' \/ handle' = 0 THEN Fresh
    ELSE LET t == IF thumbs.handle = handle' THEN thumbs
                                             ELSE DocumentChanged(thumbs, handle')
         IN  IF thumbs = Fresh \/ page' # page THEN PageChanged(t, page') ELSE t

\* The watch on handle, info, targetDimensions and page, whose timer replaces the
\* one before.
Watch ==
  /\ Bump(None) /\ rendering' = FALSE
  /\ timer' = (handle' # 0)
  /\ DrawThumbnails

\* What adoptDocument and handleClose have in common.
Forget ==
  /\ shown' = None /\ label' = 1 /\ failed' = None /\ preloaded' = NoEntries
  /\ page' = 1
  /\ UNCHANGED << preloading, sidebar >>
  /\ Watch

\* Fit and zoom are reset with the document.
AdoptDocument ==
  /\ User /\ opened < Len(PageCounts)
  /\ opened' = opened + 1 /\ handle' = opened + 1
  /\ size' \in Sizes
  /\ Forget

HandleClose ==
  /\ User /\ handle # 0 /\ handle' = 0
  /\ UNCHANGED << opened, size >>
  /\ Forget

\* Every control, key and thumbnail that changes the page keeps it in range.
SelectPage(p) ==
  /\ User /\ p \in (1..PageCount) \ { page } /\ page' = p
  /\ UNCHANGED << opened, handle, size, shown, label, failed, preloading, preloaded,
                  sidebar >>
  /\ Watch

\* targetDimensions comes to another value, or to the same.
TargetDimensions ==
  /\ size' \in Sizes
  /\ UNCHANGED << opened, handle, page, shown, label, failed, preloading, preloaded,
                  sidebar >>
  /\ Watch

\* Zoom and fit.
Zoom == User /\ handle # 0 /\ TargetDimensions

\* The observer of the window's size; without a document nothing depends on it.
WindowResized == User /\ handle # 0 /\ TargetDimensions

ToggleThumbnails ==
  /\ User /\ sidebar' = ~sidebar
  /\ UNCHANGED << opened, selection, picture, requests, preloaded, timer >>
  /\ DrawThumbnails

-----------------------------------------------------------------------------
(* loadPage and preloadNextPage.                                           *)

\* preloadNextPage up to its await.
Preload(p, entries) ==
  preloading' = IF p >= PageCount \/ Key(p + 1) \in DOMAIN entries THEN preloading
                ELSE preloading \cup { Key(p + 1) }

\* A mutant: the failure before is not forgotten.
DrawOnly(drawn, p) ==
  /\ shown' = drawn /\ label' = p /\ UNCHANGED failed

Draw(drawn, p) ==
  /\ shown' = drawn /\ label' = p /\ failed' = None

Load ==
  /\ timer /\ timer' = FALSE
  /\ LET k == Key(page)
     IN  \/ /\ handle = 0 \/ k = failed
            /\ UNCHANGED << picture, requests, preloaded >>
         \/ /\ handle # 0 /\ k # failed /\ k \in DOMAIN preloaded
            /\ preloaded' = [x \in DOMAIN preloaded \ { k } |-> preloaded[x]]
            /\ Bump(None)
            /\ Draw(preloaded[k], page) /\ UNCHANGED rendering
            /\ Preload(page, preloaded')
         \/ /\ handle # 0 /\ k # failed /\ k \notin DOMAIN preloaded
            /\ Bump(k) /\ rendering' = TRUE
            /\ UNCHANGED << shown, label, failed, preloading, preloaded >>
  /\ UNCHANGED << opened, selection, sidebar, thumbs, changes >>

\* A mutant: the sequence number is not looked at after the await.
TakesAny(fresh) == TRUE

\* sequence === renderSequence.value
Takes(fresh) == fresh

\* The rendering of k is answered; `fresh` if its number is still the current one.
LoadAnswered(k, fresh, ok) ==
  /\ IF fresh THEN k = load /\ load' = None /\ UNCHANGED stale
              ELSE k \in stale /\ stale' = stale \ { k } /\ UNCHANGED load
  /\ k # None
  /\ IF Takes(fresh)
     THEN /\ rendering' = FALSE
          /\ IF ok THEN Draw(k, k.page) /\ Preload(k.page, preloaded)
                   ELSE /\ failed' = k /\ shown' = None
                        /\ UNCHANGED << label, preloading >>
     ELSE UNCHANGED << picture, preloading >>
  /\ UNCHANGED << opened, selection, preloaded, timer, sidebar, thumbs, changes >>

\* A mutant: the cache of pages rendered ahead has no bound.
KeptAlways(entries) == entries

Kept(entries) ==
  IF Cardinality(DOMAIN entries) >= MaxPreloaded THEN NoEntries ELSE entries

PreloadAnswered(k, ok) ==
  /\ k \in preloading /\ preloading' = preloading \ { k }
  /\ preloaded' = IF ~ok \/ handle # k.handle THEN preloaded
                  ELSE [x \in DOMAIN Kept(preloaded) \cup { k } |->
                          IF x = k THEN k ELSE preloaded[x]]
  /\ UNCHANGED << opened, selection, picture, load, stale, timer, sidebar,
                  thumbs, changes >>

ThumbnailAnswered(ok) ==
  /\ thumbs.job # NoJob
  /\ thumbs' = Answered(thumbs, ok)
  /\ UNCHANGED << opened, selection, picture, requests, preloaded, timer, sidebar, changes >>

-----------------------------------------------------------------------------

UserStep ==
  \/ AdoptDocument \/ HandleClose \/ Zoom \/ WindowResized \/ ToggleThumbnails
  \/ \E p \in 1..PageCount : SelectPage(p)

Answer ==
  \E ok \in BOOLEAN :
    \/ \E k \in stale \cup { load }, fresh \in BOOLEAN : LoadAnswered(k, fresh, ok)
    \/ \E k \in preloading : PreloadAnswered(k, ok)
    \/ ThumbnailAnswered(ok)

Next == UserStep \/ Load \/ Answer

\* Timers run, and every request is answered (the transport has a
\* deadline for each).
Spec == Init /\ [][Next]_vars /\ WF_vars(Load \/ Answer)

-----------------------------------------------------------------------------
(* Properties.                                                             *)

\* The types of the variables.
TypeOK ==
  /\ handle \in 0..opened /\ opened \in 0 .. Len(PageCounts)
  /\ page \in 1 .. (IF handle = 0 THEN 1 ELSE PageCount) /\ size \in Sizes
  /\ rendering \in BOOLEAN /\ timer \in BOOLEAN /\ sidebar \in BOOLEAN
  /\ stale \cup preloading \cup DOMAIN preloaded \cup { load, shown, failed }
       \subseteq { None } \cup [handle : 1..opened, page : Nat \ {0}, size : Sizes]
  /\ \A k \in DOMAIN preloaded : preloaded[k] = k
  /\ Cardinality(DOMAIN preloaded) <= MaxPreloaded
  /\ label \in Nat \ {0} /\ changes \in 0..MaxChanges

\* The picture drawn is of the open document and has its page for a label, and so
\* have the thumbnails but for one: the sidebar does not look whether the document
\* changed while it waited, and since it waits for one rendering at a time a
\* single thumbnail of the document before can get among the new ones.
ShowsOpenDocument ==
  /\ shown # None => shown.handle = handle /\ shown.page = label
  /\ Cardinality(Foreign(thumbs)) <= 1

\* What is selected is drawn, in its size, or nothing is as it failed.
Settled ==
  handle # 0 => /\ ~rendering
                /\ shown = Key(page) \/ (shown = None /\ failed = Key(page))

\* Once the user rests, the selection is drawn or has failed, whatever was
\* answered late, in another order or not at all, and the spinner is gone.
SettlesOnSelection == <>[]Settled
=============================================================================
