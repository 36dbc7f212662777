------------------------------ MODULE Viewer_proof ------------------------------
(***************************************************************************)
(* The picture that the window draws is of the open document and has its   *)
(* page for a label, for any documents, sizes and numbers of pages kept.   *)
(* An answer is taken when its sequence number is the current one, and the *)
(* invariant says why that is enough: whatever changes the document bumps  *)
(* the number, so the rendering of the current number is of the document.  *)
(*                                                                         *)
(* Of the thumbnails at most one is of a document before: they are all     *)
(* dropped with their document, and the sidebar waits for one answer at a  *)
(* time (SidebarOK).  Its loops over pages are recursive functions.  That  *)
(* such a function solves its equation has to be proved first; induction   *)
(* is had from the library's fact that < is well founded on the naturals.  *)
(***************************************************************************)
EXTENDS Viewer, FiniteSetTheorems, SequenceTheorems, WellFoundedInduction, TLAPS

\* The renderings that n documents can have been asked for.
Renders(n) == [handle : 1..n, page : Nat \ {0}, size : Sizes]

SelectionOK ==
  /\ opened \in 0 .. Len(PageCounts) /\ handle \in 0..opened
  /\ page \in 1 .. (IF handle = 0 THEN 1 ELSE PageCount) /\ size \in Sizes
  /\ changes \in 0..MaxChanges
  /\ timer \in BOOLEAN /\ sidebar \in BOOLEAN

PictureOK ==
  /\ rendering \in BOOLEAN /\ label \in Nat \ {0}
  /\ shown \in Renders(opened) \cup {None} /\ failed \in Renders(opened) \cup {None}
  /\ shown # None => shown.handle = handle /\ shown.page = label

RequestsOK ==
  /\ load \in Renders(opened) \cup {None}
  /\ stale \subseteq Renders(opened) \cup {None}
  /\ preloading \subseteq Renders(opened) \cup {None}
  /\ load # None => load.handle = handle

PreloadedOK ==
  /\ DOMAIN preloaded \subseteq Renders(opened) \cup {None}
  /\ \A k \in DOMAIN preloaded : preloaded[k] = k
  /\ IsFiniteSet(DOMAIN preloaded) /\ Cardinality(DOMAIN preloaded) <= MaxPreloaded

IInv == SelectionOK /\ PictureOK /\ RequestsOK /\ PreloadedOK

-----------------------------------------------------------------------------
(* Renderings and the pages kept.                                          *)

\* One document more takes no rendering away.
LEMMA OneDocumentMore ==
  ASSUME NEW n \in Nat
  PROVE  Renders(n) \subseteq Renders(n + 1)
<1>1. 1..n \subseteq 1..(n + 1)
  OBVIOUS
<1> QED BY <1>1 DEF Renders

\* A page of the open document names a rendering.
LEMMA KeyIsRender ==
  ASSUME SelectionOK, handle # 0, NEW p \in Nat \ {0}
  PROVE  /\ Key(p) \in Renders(opened) /\ Key(p) # None
         /\ Key(p).handle = handle /\ Key(p).page = p
<1>1. opened \in Nat /\ handle \in 1..opened
  BY ThumbnailAssumption DEF SelectionOK, ThumbnailAssumption
<1> QED BY <1>1 DEF Key, Renders, None, SelectionOK

LEMMA EmptyCacheOK ==
  DOMAIN NoEntries = {} /\ IsFiniteSet({}) /\ Cardinality({}) = 0
  BY FS_EmptySet DEF NoEntries

\* preloadNextPage asks for a page of the open document.
LEMMA PreloadKeeps ==
  ASSUME SelectionOK, RequestsOK, NEW p \in Nat \ {0}, NEW entries,
         Preload(p, entries)
  PROVE  preloading' \subseteq Renders(opened) \cup {None}
<1>1. CASE handle = 0
  BY <1>1 DEF Preload, PageCount, RequestsOK
<1>2. CASE handle # 0
  <2>1. Key(p + 1) \in Renders(opened)
    BY <1>2, KeyIsRender
  <2> QED BY <2>1 DEF Preload, RequestsOK
<1> QED BY <1>1, <1>2

-----------------------------------------------------------------------------
(* The steps.                                                              *)

LEMMA InitKeeps ==
  ASSUME Init
  PROVE  IInv
<1> USE DEF Init
<1>1. Len(PageCounts) \in Nat /\ MaxChanges \in Nat
  BY ViewerAssumption, ThumbnailAssumption DEF ViewerAssumption, ThumbnailAssumption
<1>2. SelectionOK
  <2>1. 0 \in 0 .. Len(PageCounts) /\ 0 \in 0..0 /\ 1 \in 1..1 /\ 0 \in 0..MaxChanges
    BY <1>1
  <2>2. timer \in BOOLEAN /\ sidebar \in BOOLEAN
    OBVIOUS
  <2> QED BY <2>1, <2>2 DEF SelectionOK
<1>3. PictureOK
  <2>1. rendering \in BOOLEAN
    OBVIOUS
  <2> QED BY <2>1 DEF PictureOK
<1>4. RequestsOK
  BY DEF RequestsOK
<1>5. PreloadedOK
  BY EmptyCacheOK, ViewerAssumption DEF PreloadedOK, ViewerAssumption
<1> QED BY <1>2, <1>3, <1>4, <1>5 DEF IInv

\* Whatever changes what is selected gives up the rendering of the current number.
LEMMA BumpKeeps ==
  ASSUME RequestsOK, opened \in Nat, opened' \in { opened, opened + 1 }, Bump(None),
         UNCHANGED preloading
  PROVE  RequestsOK'
<1>1. load' = None /\ stale' \subseteq Renders(opened) \cup {None}
  BY DEF Bump, RequestsOK
<1>2. Renders(opened) \subseteq Renders(opened')
  BY OneDocumentMore
<1> QED BY <1>1, <1>2 DEF RequestsOK

\* What opening and closing have in common: nothing drawn, nothing kept.
LEMMA ForgetKeeps ==
  ASSUME IInv, Forget, opened' \in { opened, opened + 1 }, opened \in Nat
  PROVE  PictureOK' /\ RequestsOK' /\ PreloadedOK'
<1>1. PictureOK'
  <2>1. rendering' \in BOOLEAN
    BY DEF Forget, Watch
  <2> QED BY <2>1 DEF Forget, PictureOK
<1>2. RequestsOK'
  BY BumpKeeps DEF Forget, Watch, IInv
<1>3. PreloadedOK'
  BY EmptyCacheOK, ViewerAssumption DEF Forget, PreloadedOK, ViewerAssumption
<1> QED BY <1>1, <1>2, <1>3

LEMMA UserCounts ==
  ASSUME SelectionOK, User
  PROVE  changes' \in 0..MaxChanges
  BY ViewerAssumption DEF SelectionOK, User, ViewerAssumption

LEMMA OpenedIsNat ==
  ASSUME SelectionOK
  PROVE  opened \in Nat /\ Len(PageCounts) \in Nat
  BY ThumbnailAssumption DEF SelectionOK, ThumbnailAssumption

LEMMA AdoptDocumentKeeps ==
  ASSUME IInv, AdoptDocument
  PROVE  IInv'
<1>1. /\ opened' = opened + 1 /\ opened' \in 1 .. Len(PageCounts)
      /\ handle' = opened' /\ page' = 1 /\ size' \in Sizes
      /\ timer' = (handle' # 0) /\ sidebar' = sidebar
  BY OpenedIsNat DEF AdoptDocument, Forget, Watch, IInv, SelectionOK
<1>2. PageCounts[handle'] \in Nat \ {0}
  BY <1>1, ThumbnailAssumption DEF ThumbnailAssumption
<1>3. SelectionOK'
  BY <1>1, <1>2, OpenedIsNat, UserCounts DEF AdoptDocument, IInv, SelectionOK, PageCount
<1>4. PictureOK' /\ RequestsOK' /\ PreloadedOK'
  BY <1>1, OpenedIsNat, ForgetKeeps DEF AdoptDocument, IInv
<1> QED BY <1>3, <1>4 DEF IInv

LEMMA HandleCloseKeeps ==
  ASSUME IInv, HandleClose
  PROVE  IInv'
<1>1. /\ opened' = opened /\ handle' = 0 /\ page' = 1 /\ size' = size
      /\ timer' = (handle' # 0) /\ sidebar' = sidebar
  BY DEF HandleClose, Forget, Watch
<1>2. SelectionOK'
  BY <1>1, OpenedIsNat, UserCounts DEF HandleClose, IInv, SelectionOK
<1>3. PictureOK' /\ RequestsOK' /\ PreloadedOK'
  BY <1>1, OpenedIsNat, ForgetKeeps DEF HandleClose, IInv
<1> QED BY <1>2, <1>3 DEF IInv

\* Another page or another size of the same document.
LEMMA WatchKeeps ==
  ASSUME IInv, Watch, SelectionOK',
         UNCHANGED << opened, handle, shown, label, failed, preloading, preloaded >>
  PROVE  IInv'
<1>1. PictureOK'
  BY DEF Watch, IInv, PictureOK
<1>2. RequestsOK'
  BY BumpKeeps, OpenedIsNat DEF Watch, IInv
<1>3. PreloadedOK'
  BY DEF IInv, PreloadedOK
<1> QED BY <1>1, <1>2, <1>3 DEF IInv

LEMMA SelectPageKeeps ==
  ASSUME IInv, NEW p \in 1..PageCount, SelectPage(p)
  PROVE  IInv'
<1>1. /\ page' \in 1..PageCount /\ timer' = (handle' # 0)
      /\ UNCHANGED << opened, handle, size, sidebar >>
  BY DEF SelectPage, Watch
<1>2. handle # 0
  BY DEF PageCount
<1>3. SelectionOK'
  BY <1>1, <1>2, UserCounts DEF SelectPage, IInv, SelectionOK, PageCount
<1> QED BY <1>3, WatchKeeps DEF SelectPage

LEMMA TargetDimensionsKeeps ==
  ASSUME IInv, User, TargetDimensions
  PROVE  IInv'
<1>1. /\ size' \in Sizes /\ timer' = (handle' # 0)
      /\ UNCHANGED << opened, handle, page, sidebar >>
  BY DEF TargetDimensions, Watch
<1>2. SelectionOK'
  BY <1>1, UserCounts DEF IInv, SelectionOK, PageCount
<1> QED BY <1>2, WatchKeeps DEF TargetDimensions

LEMMA ToggleThumbnailsKeeps ==
  ASSUME IInv, ToggleThumbnails
  PROVE  IInv'
<1> USE DEF selection, picture, requests
<1>1. SelectionOK'
  BY UserCounts DEF ToggleThumbnails, IInv, SelectionOK, PageCount
<1>2. PictureOK' /\ RequestsOK' /\ PreloadedOK'
  BY DEF ToggleThumbnails, IInv, PictureOK, RequestsOK, PreloadedOK
<1> QED BY <1>1, <1>2 DEF IInv

\* The timer's load draws a page kept of the open document, or asks for one.
LEMMA LoadKeeps ==
  ASSUME IInv, Load
  PROVE  IInv'
<1> DEFINE k == Key(page)
<1>1. /\ timer' = FALSE
      /\ UNCHANGED << opened, handle, page, size, sidebar, changes >>
  BY DEF Load, selection
<1>2. SelectionOK'
  BY <1>1 DEF IInv, SelectionOK, PageCount
<1>3. page \in Nat \ {0}
  BY DEF IInv, SelectionOK
<1>4. CASE UNCHANGED << picture, requests, preloaded >>
  BY <1>1, <1>2, <1>4 DEF picture, requests, IInv, PictureOK, RequestsOK, PreloadedOK
<1>5. CASE /\ handle # 0 /\ k \in DOMAIN preloaded
           /\ preloaded' = [x \in DOMAIN preloaded \ { k } |-> preloaded[x]]
           /\ Bump(None) /\ Draw(preloaded[k], page) /\ UNCHANGED rendering
           /\ Preload(page, preloaded')
  <2>1. k \in Renders(opened) /\ k.handle = handle /\ k.page = page
    BY <1>3, <1>5, KeyIsRender DEF IInv
  <2>2. shown' = k /\ label' = page /\ failed' = None
    BY <1>5 DEF Draw, IInv, PreloadedOK
  <2> HIDE DEF k
  <2>3. PictureOK'
    BY <1>1, <1>3, <1>5, <2>1, <2>2 DEF IInv, PictureOK
  <2>4. preloading' \subseteq Renders(opened) \cup {None}
    BY <1>3, <1>5, PreloadKeeps DEF IInv
  <2>5. RequestsOK'
    BY <1>1, <1>5, <2>4 DEF Bump, IInv, RequestsOK
  <2>6. /\ DOMAIN preloaded' = DOMAIN preloaded \ { k }
        /\ \A x \in DOMAIN preloaded' : preloaded'[x] = x
    BY <1>5 DEF IInv, PreloadedOK
  <2>7. /\ IsFiniteSet(DOMAIN preloaded')
        /\ Cardinality(DOMAIN preloaded') <= MaxPreloaded
    <3>1. /\ IsFiniteSet(DOMAIN preloaded \ { k })
          /\ Cardinality(DOMAIN preloaded \ { k }) = Cardinality(DOMAIN preloaded) - 1
      BY <1>5, FS_RemoveElement DEF IInv, PreloadedOK
    <3>2. Cardinality(DOMAIN preloaded) \in Nat
      BY FS_CardinalityType DEF IInv, PreloadedOK
    <3> QED BY <2>6, <3>1, <3>2, ViewerAssumption DEF IInv, PreloadedOK, ViewerAssumption
  <2>8. PreloadedOK'
    BY <1>1, <2>6, <2>7 DEF IInv, PreloadedOK
  <2> QED BY <1>2, <2>3, <2>5, <2>8 DEF IInv
<1>6. CASE /\ handle # 0 /\ Bump(k) /\ rendering' = TRUE
           /\ UNCHANGED << shown, label, failed, preloading, preloaded >>
  <2>1. k \in Renders(opened) /\ k.handle = handle
    BY <1>3, <1>6, KeyIsRender DEF IInv
  <2> HIDE DEF k
  <2>2. PictureOK'
    BY <1>1, <1>6 DEF IInv, PictureOK
  <2>3. RequestsOK' /\ PreloadedOK'
    BY <1>1, <1>6, <2>1 DEF Bump, IInv, RequestsOK, PreloadedOK
  <2> QED BY <1>2, <2>2, <2>3 DEF IInv
<1> QED BY <1>4, <1>5, <1>6 DEF Load

\* An answer is drawn only when its number is the current one.
LEMMA LoadAnsweredKeeps ==
  ASSUME IInv, NEW k \in stale \cup { load }, NEW fresh \in BOOLEAN,
         NEW ok \in BOOLEAN, LoadAnswered(k, fresh, ok)
  PROVE  IInv'
<1>1. UNCHANGED << opened, handle, page, size, preloaded, timer, sidebar, changes >>
  BY DEF LoadAnswered, selection
<1>2. SelectionOK' /\ PreloadedOK'
  BY <1>1 DEF IInv, SelectionOK, PreloadedOK, PageCount
<1>3. k \in Renders(opened) /\ k # None /\ k.page \in Nat \ {0}
  <2>1. k \in Renders(opened) /\ k # None
    BY DEF LoadAnswered, IInv, RequestsOK
  <2> QED BY <2>1 DEF Renders
<1>4. /\ load' = load \/ load' = None
      /\ stale' \subseteq Renders(opened) \cup {None}
  BY DEF LoadAnswered, IInv, RequestsOK
<1>5. CASE ~fresh
  <2>1. UNCHANGED << picture, preloading >>
    BY <1>5 DEF LoadAnswered, Takes
  <2> QED BY <1>1, <1>2, <1>4, <2>1 DEF picture, IInv, PictureOK, RequestsOK
<1>6. CASE fresh /\ ok
  <2>1. /\ rendering' = FALSE /\ shown' = k /\ label' = k.page /\ failed' = None
        /\ Preload(k.page, preloaded) /\ k.handle = handle
    BY <1>3, <1>6 DEF LoadAnswered, Takes, Draw, IInv, RequestsOK
  <2>2. PictureOK'
    BY <1>1, <1>3, <2>1 DEF PictureOK
  <2>3. preloading' \subseteq Renders(opened) \cup {None}
    BY <1>3, <2>1, PreloadKeeps DEF IInv
  <2>4. RequestsOK'
    BY <1>1, <1>4, <2>3 DEF IInv, RequestsOK
  <2> QED BY <1>2, <2>2, <2>4 DEF IInv
<1>7. CASE fresh /\ ~ok
  <2>1. /\ rendering' = FALSE /\ failed' = k /\ shown' = None
        /\ UNCHANGED << label, preloading >>
    BY <1>7 DEF LoadAnswered, Takes
  <2>2. PictureOK' /\ RequestsOK'
    BY <1>1, <1>3, <1>4, <2>1 DEF IInv, PictureOK, RequestsOK
  <2> QED BY <1>2, <2>2 DEF IInv
<1> QED BY <1>5, <1>6, <1>7

\* A page rendered ahead is kept when its document is still open, among few.
LEMMA PreloadAnsweredKeeps ==
  ASSUME IInv, NEW k \in preloading, NEW ok \in BOOLEAN, PreloadAnswered(k, ok)
  PROVE  IInv'
<1>1. /\ UNCHANGED << opened, handle, page, size, shown, label, failed, rendering >>
      /\ UNCHANGED << load, stale, timer, sidebar, changes >>
      /\ preloading' = preloading \ { k }
  BY DEF PreloadAnswered, selection, picture
<1>2. SelectionOK' /\ PictureOK' /\ RequestsOK'
  BY <1>1 DEF IInv, SelectionOK, PictureOK, RequestsOK, PageCount
<1>3. CASE preloaded' = preloaded
  BY <1>1, <1>2, <1>3 DEF IInv, PreloadedOK
<1>4. CASE preloaded' = [x \in DOMAIN Kept(preloaded) \cup { k } |->
                           IF x = k THEN k ELSE preloaded[x]]
  <2> DEFINE kept == DOMAIN Kept(preloaded)
  <2>1. /\ kept \subseteq DOMAIN preloaded
        /\ IsFiniteSet(kept) /\ Cardinality(kept) \in Nat
        /\ Cardinality(kept) < MaxPreloaded
    <3>1. CASE Cardinality(DOMAIN preloaded) >= MaxPreloaded
      BY <3>1, EmptyCacheOK, ViewerAssumption DEF Kept, ViewerAssumption
    <3>2. CASE ~(Cardinality(DOMAIN preloaded) >= MaxPreloaded)
      <4>1. Cardinality(DOMAIN preloaded) \in Nat
        BY FS_CardinalityType DEF IInv, PreloadedOK
      <4> QED BY <3>2, <4>1, ViewerAssumption DEF Kept, IInv, PreloadedOK,
                 ViewerAssumption
    <3> QED BY <3>1, <3>2
  <2>2. /\ DOMAIN preloaded' = kept \cup { k }
        /\ \A x \in DOMAIN preloaded' : preloaded'[x] = IF x = k THEN k ELSE preloaded[x]
    BY <1>4
  <2> HIDE DEF kept
  <2>3. /\ IsFiniteSet(kept \cup { k })
        /\ Cardinality(kept \cup { k }) <= Cardinality(kept) + 1
    <3>1. /\ IsFiniteSet(kept \cup { k })
          /\ Cardinality(kept \cup { k }) =
               IF k \in kept THEN Cardinality(kept) ELSE Cardinality(kept) + 1
      BY <2>1, FS_AddElement
    <3> QED BY <2>1, <3>1
  <2>4. Cardinality(kept \cup { k }) <= MaxPreloaded
    <3>1. Cardinality(kept \cup { k }) \in Nat
      BY <2>3, FS_CardinalityType
    <3> QED BY <2>1, <2>3, <3>1, ViewerAssumption DEF ViewerAssumption
  <2>5. k \in Renders(opened) \cup {None}
    BY DEF IInv, RequestsOK
  <2>6. \A x \in DOMAIN preloaded' : preloaded'[x] = x
    BY <2>1, <2>2 DEF IInv, PreloadedOK
  <2>7. PreloadedOK'
    BY <1>1, <2>1, <2>2, <2>3, <2>4, <2>5, <2>6 DEF IInv, PreloadedOK
  <2> QED BY <1>2, <2>7 DEF IInv
<1> QED BY <1>3, <1>4 DEF PreloadAnswered

LEMMA StepKeeps ==
  ASSUME IInv, [Next]_vars
  PROVE  IInv'
<1>1. CASE UserStep
  BY <1>1, AdoptDocumentKeeps, HandleCloseKeeps, TargetDimensionsKeeps,
     ToggleThumbnailsKeeps, SelectPageKeeps DEF UserStep, Zoom, WindowResized
<1>2. CASE Load
  BY <1>2, LoadKeeps
<1>3. CASE Answer
  <2>1. CASE \E ok \in BOOLEAN : ThumbnailAnswered(ok)
    <3> USE <2>1 DEF ThumbnailAnswered, selection, picture, requests
    <3>1. SelectionOK'
      BY DEF IInv, SelectionOK, PageCount
    <3>2. PictureOK' /\ RequestsOK' /\ PreloadedOK'
      BY DEF IInv, PictureOK, RequestsOK, PreloadedOK
    <3> QED BY <3>1, <3>2 DEF IInv
  <2> QED BY <1>3, <2>1, LoadAnsweredKeeps, PreloadAnsweredKeeps DEF Answer
<1>4. CASE UNCHANGED vars
  <2> USE <1>4 DEF vars, selection, picture, requests
  <2>1. SelectionOK'
    BY DEF IInv, SelectionOK, PageCount
  <2>2. PictureOK' /\ RequestsOK' /\ PreloadedOK'
    BY DEF IInv, PictureOK, RequestsOK, PreloadedOK
  <2> QED BY <2>1, <2>2 DEF IInv
<1> QED BY <1>1, <1>2, <1>3, <1>4 DEF Next

-----------------------------------------------------------------------------

\* Whatever the user does and in whatever order renderings are answered, what is
\* drawn, asked for and kept is in step with the document (App.vue).
THEOREM ViewerInvariance == Spec => []IInv
<1>1. IInv /\ [Next]_vars => IInv'
  BY StepKeeps
<1> QED BY <1>1, InitKeeps, PTL DEF Spec

\* The variables keep their types, a page kept is the page it is kept for, and no
\* more pages are kept than the bound (App.vue:266).
THEOREM ViewerTypes == Spec => []TypeOK
<1>1. IInv => TypeOK
  BY DEF IInv, SelectionOK, PictureOK, RequestsOK, PreloadedOK, Renders, TypeOK
<1> QED BY <1>1, ViewerInvariance, PTL

-----------------------------------------------------------------------------
(* The window at rest.                                                     *)

\* Neither the watcher's timer nor a rendering of the current number is on its way.
AtRest == ~timer /\ load = None

\* What is on its way is the selection; when nothing is, the selection is drawn or it
\* is what failed.
SelectionDrawn ==
  /\ shown = None \/ failed = None
  /\ rendering => load # None
  /\ load # None => load = Key(page) /\ ~timer
  /\ AtRest /\ handle # 0 => shown = Key(page) \/ failed = Key(page)

\* A step that changes the selection starts the timer and forgets the request.
LEMMA WatchDraws ==
  ASSUME SelectionDrawn, Watch, (shown' = None \/ failed' = None)
  PROVE  SelectionDrawn'
BY DEF SelectionDrawn, AtRest, Watch, Bump

LEMMA UserDraws ==
  ASSUME SelectionDrawn, UserStep
  PROVE  SelectionDrawn'
<1>1. CASE AdoptDocument \/ HandleClose
  BY <1>1, WatchDraws DEF AdoptDocument, HandleClose, Forget
<1>2. CASE Zoom \/ WindowResized
  BY <1>2, WatchDraws DEF Zoom, WindowResized, TargetDimensions, SelectionDrawn
<1>3. CASE \E p \in 1 .. PageCount : SelectPage(p)
  BY <1>3, WatchDraws DEF SelectPage, SelectionDrawn
<1>4. CASE ToggleThumbnails
  BY <1>4 DEF ToggleThumbnails, selection, picture, requests, SelectionDrawn, AtRest, Key
<1> QED BY <1>1, <1>2, <1>3, <1>4 DEF UserStep

\* The timer's step asks for the selection, or takes it from the pages kept, or leaves
\* it as it failed.
LEMMA LoadDraws ==
  ASSUME IInv, SelectionDrawn, Load
  PROVE  SelectionDrawn'
<1> DEFINE k == Key(page)
<1>1. timer' = FALSE /\ UNCHANGED << handle, page, size >> /\ timer
  BY DEF Load, selection
<1>2. k' = k
  BY <1>1 DEF Key
<1>3. load = None
  BY <1>1 DEF SelectionDrawn
<1>4. CASE (handle = 0 \/ k = failed) /\ UNCHANGED << picture, requests, preloaded >>
  <2>1. UNCHANGED << shown, failed, rendering, load >>
    BY <1>4 DEF picture, requests
  <2> HIDE DEF k
  <2>2. SelectionDrawn'
    BY <1>1, <1>2, <1>3, <1>4, <2>1 DEF SelectionDrawn, AtRest, k
  <2> QED BY <2>2
<1>5. CASE k \in DOMAIN preloaded /\ Bump(None) /\ Draw(preloaded[k], page)
           /\ UNCHANGED rendering
  <2>1. shown' = k /\ failed' = None /\ load' = None /\ ~rendering'
    BY <1>3, <1>5 DEF Draw, Bump, IInv, PreloadedOK, SelectionDrawn
  <2> QED BY <1>1, <1>2, <2>1 DEF SelectionDrawn, AtRest
<1>6. CASE /\ handle # 0 /\ Bump(k) /\ rendering' = TRUE
           /\ UNCHANGED << shown, label, failed, preloading, preloaded >>
  <2>1. load' = k /\ k # None /\ UNCHANGED << shown, failed >>
    <3>1. k.handle = handle /\ None.handle = 0
      BY DEF Key, None
    <3> QED BY <1>6, <3>1 DEF Bump
  <2> QED BY <1>1, <1>2, <2>1 DEF SelectionDrawn, AtRest
<1> QED BY <1>4, <1>5, <1>6 DEF Load

\* The answer to the current number is the selection's; any other is not looked at.
LEMMA LoadAnsweredDraws ==
  ASSUME SelectionDrawn, NEW k, NEW fresh \in BOOLEAN, NEW ok \in BOOLEAN,
         LoadAnswered(k, fresh, ok)
  PROVE  SelectionDrawn'
<1>1. UNCHANGED << handle, page, size, timer >> /\ Key(page)' = Key(page)
  BY DEF LoadAnswered, selection, Key
<1>2. CASE ~fresh
  BY <1>1, <1>2 DEF LoadAnswered, Takes, picture, SelectionDrawn, AtRest
<1>3. CASE fresh
  <2>1. k = Key(page) /\ load' = None /\ rendering' = FALSE
    BY <1>3 DEF LoadAnswered, Takes, SelectionDrawn
  <2>2. \/ shown' = k /\ failed' = None
        \/ shown' = None /\ failed' = k
    BY <1>3 DEF LoadAnswered, Takes, Draw
  <2> QED BY <1>1, <2>1, <2>2 DEF SelectionDrawn, AtRest
<1> QED BY <1>2, <1>3

LEMMA StepDraws ==
  ASSUME IInv, SelectionDrawn, [Next]_vars
  PROVE  SelectionDrawn'
<1>1. CASE Answer
  <2>1. CASE \E ok \in BOOLEAN, k \in stale \cup { load }, fresh \in BOOLEAN :
               LoadAnswered(k, fresh, ok)
    BY <2>1, LoadAnsweredDraws
  <2>2. CASE \E ok \in BOOLEAN :
               (\E k \in preloading : PreloadAnswered(k, ok)) \/ ThumbnailAnswered(ok)
    <3>1. UNCHANGED << handle, page, size, shown, failed, rendering, load, timer >>
      BY <2>2 DEF PreloadAnswered, ThumbnailAnswered, selection, picture, requests
    <3> QED BY <3>1 DEF SelectionDrawn, AtRest, Key
  <2> QED BY <1>1, <2>1, <2>2 DEF Answer
<1>2. CASE UNCHANGED vars
  BY <1>2 DEF vars, selection, picture, requests, SelectionDrawn, AtRest, Key
<1> QED BY <1>1, <1>2, UserDraws, LoadDraws DEF Next

\* The safety half of SettlesOnSelection: whenever nothing is on its way, the selection is
\* drawn or is what failed, and the spinner is gone, whatever was answered late or in
\* another order (the sequence number of loadPage, App.vue).
THEOREM AtRestIsSettled == Spec => [](AtRest => Settled)
<1>1. Init => SelectionDrawn
  BY DEF Init, SelectionDrawn, AtRest
<1>2. IInv /\ SelectionDrawn /\ [Next]_vars => SelectionDrawn'
  BY StepDraws
<1>3. IInv /\ SelectionDrawn => (AtRest => Settled)
  <2>1. ASSUME IInv, handle # 0 PROVE Key(page) # None
    <3>1. Key(page).handle = handle /\ None.handle = 0
      BY DEF Key, None
    <3> QED BY <2>1, <3>1
  <2> QED BY <2>1 DEF SelectionDrawn, Settled, AtRest
<1> QED BY <1>1, <1>2, <1>3, ViewerInvariance, PTL DEF Spec

-----------------------------------------------------------------------------
(* Induction and recursion up to a bound.                                  *)

\* A set of naturals that is not empty has a least member.
LEMMA LeastNatural ==
  ASSUME NEW T, T \subseteq Nat, T # {}
  PROVE  \E n \in T : \A m \in T : n <= m
<1> DEFINE Less == { pair \in Nat \X Nat : pair[1] < pair[2] }
<1>1. IsWellFoundedOn(Less, Nat)
  <2>1. OpToRel(<, Nat) = Less
    BY DEF OpToRel
  <2> QED BY <2>1, NatLessThanWellFounded
<1>2. \E n \in T : \A m \in T : << m, n >> \notin Less
  <2> HIDE DEF Less
  <2> QED BY <1>1, WFMin, Zenon
<1>3. \A m, n \in Nat : << m, n >> \notin Less => n <= m
  OBVIOUS
<1> HIDE DEF Less
<1> QED BY <1>2, <1>3

\* A set with 0 and with the successor of each of its members below the bound has
\* every number up to the bound.
LEMMA Induction ==
  ASSUME NEW T, NEW bound \in Nat, 0 \in T,
         \A n \in 0 .. bound - 1 : n \in T => n + 1 \in T
  PROVE  0 .. bound \subseteq T
<1> SUFFICES ASSUME NEW a \in 0 .. bound, a \notin T PROVE FALSE
  OBVIOUS
<1> DEFINE rest == { n \in 0 .. bound : n \notin T }
<1>1. PICK n \in rest : \A m \in rest : n <= m
  <2>1. rest \subseteq Nat /\ rest # {}
    OBVIOUS
  <2> HIDE DEF rest
  <2> QED BY <2>1, LeastNatural
<1>2. n # 0 /\ n - 1 \in 0 .. bound - 1
  BY <1>1
<1>3. n - 1 \in T
  BY <1>1, <1>2
<1> QED BY <1>1, <1>2, <1>3

\* The runs of `bound` steps from a, the n-th of them by step[n].
Runs(S, bound, a, step) ==
  { f \in [0 .. bound -> S] :
      f[0] = a /\ \A n \in 1 .. bound : f[n] = step[n][f[n - 1]] }

\* There is such a run.
LEMMA Recursion ==
  ASSUME NEW S, NEW bound \in Nat, NEW a \in S,
         NEW step \in [1 .. bound -> [S -> S]]
  PROVE  Runs(S, bound, a, step) # {}
<1> DEFINE Run(f, m) == /\ f \in [0 .. m -> S]
                        /\ f[0] = a
                        /\ \A n \in 1 .. m : f[n] = step[n][f[n - 1]]
           T == { m \in 0 .. bound : \E f : Run(f, m) }
<1>1. 0 \in T
  <2>1. Run([i \in 0 .. 0 |-> a], 0)
    OBVIOUS
  <2> HIDE DEF Run
  <2> QED BY <2>1
<1>2. ASSUME NEW m \in 0 .. bound - 1, m \in T
      PROVE  m + 1 \in T
  <2>1. PICK f : Run(f, m)
    BY <1>2
  <2> DEFINE g == [i \in 0 .. m + 1 |-> IF i <= m THEN f[i] ELSE step[m + 1][f[m]]]
  <2>2. f[m] \in S /\ m + 1 \in 1 .. bound /\ \A i \in 0 .. m : f[i] \in S
    BY <2>1
  <2>3. step[m + 1][f[m]] \in S
    BY <2>2
  <2>4. g \in [0 .. m + 1 -> S]
    BY <2>2, <2>3
  <2>5. g[0] = a /\ \A i \in 0 .. m : g[i] = f[i]
    BY <2>1
  <2>6. g[m + 1] = step[m + 1][f[m]]
    BY <2>1
  <2> HIDE DEF g
  <2>7. ASSUME NEW n \in 1 .. m + 1 PROVE g[n] = step[n][g[n - 1]]
    <3>1. CASE n = m + 1
      BY <3>1, <2>5, <2>6
    <3>2. CASE n \in 1 .. m
      BY <3>2, <2>5, <2>1
    <3> QED BY <3>1, <3>2
  <2>8. Run(g, m + 1)
    BY <2>4, <2>5, <2>7
  <2> HIDE DEF Run
  <2> QED BY <2>8
<1> HIDE DEF T
<1>3. 0 .. bound \subseteq T
  BY <1>1, <1>2, Induction
<1>4. \E f : Run(f, bound)
  BY <1>3 DEF T
<1> QED BY <1>4 DEF Runs

-----------------------------------------------------------------------------
(* The sidebar.                                                            *)

\* What the queue can make of a sidebar: its thumbnails are as they were, and it waits
\* for the rendering it did or for one of its own document.
Queued(t) ==
  [handle : { t.handle }, pages : { t.pages }, rendered : { t.rendered },
   queue : Seq(Int), job : { t.job } \cup [handle : { t.handle }, page : Int]]

\* While the sidebar waits for a thumbnail of another document it shows none of another
\* document; so when that one comes it is the only one.
SidebarOK(t) ==
  /\ t \in Queued(t)
  /\ t.job # NoJob /\ t.job.handle # t.handle => Foreign(t) = {}
  /\ \A i, j \in Foreign(t) : i = j

\* What the queue makes of a sidebar that is well is well.
LEMMA QueuedIsOK ==
  ASSUME NEW t, SidebarOK(t), NEW u \in Queued(t)
  PROVE  SidebarOK(u)
<1>1. /\ u.handle = t.handle /\ u.pages = t.pages /\ u.rendered = t.rendered
      /\ u.queue \in Seq(Int)
      /\ u.job = t.job \/ u.job.handle = u.handle
  BY DEF Queued
<1>2. Foreign(u) = Foreign(t)
  BY <1>1 DEF Foreign
<1>3. u \in Queued(u)
  <2>1. u = [handle |-> u.handle, pages |-> u.pages, rendered |-> u.rendered,
             queue |-> u.queue, job |-> u.job]
    BY DEF Queued
  <2> QED BY <1>1, <2>1 DEF Queued
<1> QED BY <1>1, <1>2, <1>3 DEF SidebarOK

\* processQueue takes the next page off the queue, or empties it.
LEMMA ProcessQueueStays ==
  ASSUME NEW t, NEW u \in Queued(t)
  PROVE  ProcessQueue(u) \in Queued(t)
<1>1. /\ u.handle = t.handle /\ u.pages = t.pages /\ u.rendered = t.rendered
      /\ u.queue \in Seq(Int)
      /\ u.job \in { t.job } \cup [handle : { t.handle }, page : Int]
      /\ u = [handle |-> u.handle, pages |-> u.pages, rendered |-> u.rendered,
              queue |-> u.queue, job |-> u.job]
  BY DEF Queued
<1> DEFINE next == CHOOSE j \in Waiting(u) : \A k \in Waiting(u) : j <= k
<1>2. CASE ~Processes(u)
  BY <1>2 DEF ProcessQueue
<1>3. CASE Processes(u) /\ Waiting(u) = {}
  <2> DEFINE none == << >>
  <2>1. ProcessQueue(u) = [u EXCEPT !.queue = none]
    BY <1>3 DEF ProcessQueue
  <2>2. none \in Seq(Int)
    OBVIOUS
  <2> HIDE DEF none
  <2>3. ProcessQueue(u) = [handle |-> u.handle, pages |-> u.pages,
                           rendered |-> u.rendered, queue |-> none, job |-> u.job]
    BY <1>1, <2>1
  <2> QED BY <1>1, <2>2, <2>3 DEF Queued
<1>4. CASE Processes(u) /\ Waiting(u) # {}
  <2>1. next \in Waiting(u)
    <3>1. Waiting(u) \subseteq Nat
      BY DEF Waiting
    <3>2. \E j \in Waiting(u) : \A k \in Waiting(u) : j <= k
      BY <1>4, <3>1, LeastNatural
    <3> QED BY <3>2
  <2> DEFINE tail == SubSeq(u.queue, next + 1, Len(u.queue))
  <2>2. ProcessQueue(u) = [u EXCEPT !.queue = tail,
                             !.job = [handle |-> u.handle, page |-> u.queue[next]]]
    BY <1>4 DEF ProcessQueue
  <2> HIDE DEF next
  <2>3. next \in 1 .. Len(u.queue) /\ Len(u.queue) \in Nat
    BY <1>1, <2>1 DEF Waiting
  <2>4. tail \in Seq(Int)
    <3>1. \A i \in next + 1 .. Len(u.queue) : u.queue[i] \in Int
      BY <1>1, <2>3, ElementOfSeq
    <3> QED BY <2>3, <3>1, SubSeqProperties
  <2>5. u.queue[next] \in Int
    BY <1>1, <2>3, ElementOfSeq
  <2> HIDE DEF tail
  <2>6. ProcessQueue(u) = [handle |-> u.handle, pages |-> u.pages,
                           rendered |-> u.rendered, queue |-> tail,
                           job |-> [handle |-> u.handle, page |-> u.queue[next]]]
    BY <1>1, <2>2
  <2> QED BY <1>1, <2>4, <2>5, <2>6 DEF Queued
<1> QED BY <1>2, <1>3, <1>4

\* queueRender puts a page on the queue, if at all, and starts it.
LEMMA QueueRenderStays ==
  ASSUME NEW t, NEW u \in Queued(t), NEW i \in Int
  PROVE  QueueRender(u, i) \in Queued(t)
<1>1. [u EXCEPT !.queue = Append(@, i)] \in Queued(t)
  <2>1. Append(u.queue, i) \in Seq(Int)
    BY AppendProperties DEF Queued
  <2> QED BY <2>1 DEF Queued
<1> QED BY <1>1, ProcessQueueStays DEF QueueRender

\* So do the loops over the pages.
LEMMA QueueAllStays ==
  ASSUME NEW t, t \in Queued(t), NEW pages \in Seq(Int)
  PROVE  QueueAll(t, pages) \in Queued(t)
<1> DEFINE N == Len(pages)
           S == Queued(t)
           step == [n \in 1 .. N |-> [u \in S |-> QueueRender(u, pages[n])]]
           Solves(f) == f = [n \in 0 .. N |->
                              IF n = 0 THEN t ELSE QueueRender(f[n - 1], pages[n])]
<1>1. N \in Nat /\ t \in S /\ \A n \in 1 .. N : n - 1 \in 0 .. N
  OBVIOUS
<1>2. \A n \in 1 .. N, u \in S : QueueRender(u, pages[n]) \in S
  BY ElementOfSeq, QueueRenderStays
<1> HIDE DEF S, N
<1>3. /\ step \in [1 .. N -> [S -> S]]
      /\ \A n \in 1 .. N, u \in S : step[n][u] = QueueRender(u, pages[n])
  BY <1>2
<1>4. PICK f \in [0 .. N -> S] : f[0] = t /\ \A n \in 1 .. N : f[n] = step[n][f[n - 1]]
  <2> HIDE DEF step
  <2>1. Runs(S, N, t, step) # {}
    BY <1>1, <1>3, Recursion
  <2> QED BY <2>1 DEF Runs
<1>5. Solves(f)
  <2> HIDE DEF step
  <2> DEFINE Body(n) == IF n = 0 THEN t ELSE QueueRender(f[n - 1], pages[n])
  <2>1. \A n \in 0 .. N : n # 0 => n \in 1 .. N
    BY <1>1
  <2>2. \A n \in 0 .. N : f[n] = Body(n)
    BY <1>1, <1>3, <1>4, <2>1
  <2>3. f = [n \in 0 .. N |-> f[n]]
    BY <1>4
  <2> HIDE DEF Body
  <2>4. f = [n \in 0 .. N |-> Body(n)]
    BY <2>2, <2>3
  <2> QED BY <2>4 DEF Body
<1> DEFINE queued == CHOOSE g : Solves(g)
<1>6. Solves(queued)
  <2> HIDE DEF Solves
  <2> QED BY <1>5
<1>7. QueueAll(t, pages) = queued[N]
  BY DEF QueueAll, N
<1> DEFINE T == { n \in 0 .. N : queued[n] \in S }
<1> HIDE DEF queued, step
<1>8. /\ queued[0] = t
      /\ \A n \in 1 .. N : queued[n] = QueueRender(queued[n - 1], pages[n])
  <2>1. 0 \in 0 .. N /\ \A n \in 1 .. N : n \in 0 .. N /\ n # 0
    BY <1>1
  <2> QED BY <1>6, <2>1
<1>9. 0 .. N \subseteq T
  <2>1. 0 \in T
    BY <1>1, <1>8
  <2>2. ASSUME NEW n \in 0 .. N - 1, n \in T PROVE n + 1 \in T
    <3>1. n + 1 \in 1 .. N /\ n + 1 \in 0 .. N /\ (n + 1) - 1 = n
      BY <1>1
    <3> QED BY <1>2, <1>8, <2>2, <3>1
  <2> HIDE DEF T
  <2> QED BY <1>1, <2>1, <2>2, Induction
<1>10. N \in T
  BY <1>1, <1>9
<1> QED BY <1>7, <1>10 DEF S

\* The pages from a to b are numbers.
LEMMA PagesAreNumbers ==
  ASSUME NEW a \in Int, NEW b \in Int
  PROVE  Pages(a, b) \in Seq(Int)
<1> DEFINE n == Upper(b - a + 1, 0)
<1>1. n \in Nat
  BY DEF Upper
<1> HIDE DEF n
<1>2. [i \in 1 .. n |-> a + i - 1] \in Seq(Int)
  BY <1>1
<1> QED BY <1>2 DEF Pages, n

LEMMA FreshIsOK == SidebarOK(Fresh)
<1> DEFINE none == << >>
<1>1. none \in Seq(Int) /\ DOMAIN none = {}
  OBVIOUS
<1>2. Fresh = [handle |-> 0, pages |-> none, rendered |-> {}, queue |-> none,
               job |-> NoJob]
  BY DEF Fresh
<1> HIDE DEF none
<1>3. Foreign(Fresh) = {}
  BY <1>1, <1>2 DEF Foreign
<1>4. Fresh \in Queued(Fresh)
  BY <1>1, <1>2 DEF Queued
<1> QED BY <1>3, <1>4 DEF SidebarOK

\* A new document has no thumbnails, whatever it still waits for (the watch on info).
LEMMA DocumentChangedIsOK ==
  ASSUME NEW t, NEW h \in 1 .. Len(PageCounts)
  PROVE  /\ SidebarOK(DocumentChanged(t, h))
         /\ DocumentChanged(t, h).handle = h
<1> DEFINE n == PageCounts[h]
           blank == [i \in 1 .. n |-> NoJob]
           none == << >>
           base == [Fresh EXCEPT !.handle = h, !.job = t.job, !.pages = blank]
           pages == Pages(1, Lower(n, First))
<1>1. n \in Nat /\ First \in Nat
  BY ThumbnailAssumption, ElementOfSeq DEF ThumbnailAssumption
<1>2. pages \in Seq(Int)
  <2>1. Lower(n, First) \in Int
    BY <1>1 DEF Lower
  <2> HIDE DEF n
  <2> QED BY <2>1, PagesAreNumbers
<1>3. none \in Seq(Int)
  OBVIOUS
<1>4. \A i \in DOMAIN blank : blank[i] = NoJob
  OBVIOUS
<1>5. DocumentChanged(t, h) = QueueAll(base, pages)
  BY DEF DocumentChanged
<1> HIDE DEF blank, pages, n
<1>6. base = [handle |-> h, pages |-> blank, rendered |-> {}, queue |-> none,
              job |-> t.job]
  <2> DEFINE nothing == {}
             zero == 0
             nobody == NoJob
             asked == t.job
             aimed == [Fresh EXCEPT !.handle = h]
             asking == [aimed EXCEPT !.job = asked]
  <2>1. base = [asking EXCEPT !.pages = blank]
    OBVIOUS
  <2>2. Fresh = [handle |-> zero, pages |-> none, rendered |-> nothing,
                 queue |-> none, job |-> nobody]
    BY DEF Fresh
  <2> HIDE DEF base, none, nothing, zero, nobody, asked
  <2>3. aimed = [handle |-> h, pages |-> none, rendered |-> nothing,
                   queue |-> none, job |-> nobody]
    BY <2>2
  <2> HIDE DEF aimed
  <2>4. asking = [handle |-> h, pages |-> none, rendered |-> nothing,
                   queue |-> none, job |-> asked]
    BY <2>3
  <2> HIDE DEF asking
  <2>5. base = [handle |-> h, pages |-> blank, rendered |-> nothing, queue |-> none,
                job |-> asked]
    BY <2>1, <2>4
  <2> QED BY <2>5 DEF nothing, asked
<1> HIDE DEF base, none
<1>7. base \in Queued(base)
  BY <1>3, <1>6 DEF Queued
<1>8. Foreign(base) = {}
  BY <1>4, <1>6 DEF Foreign
<1>9. SidebarOK(base)
  BY <1>7, <1>8 DEF SidebarOK
<1>10. QueueAll(base, pages) \in Queued(base)
  BY <1>2, <1>7, QueueAllStays
<1>11. QueueAll(base, pages).handle = h
  BY <1>6, <1>10 DEF Queued
<1> QED BY <1>5, <1>9, <1>10, <1>11, QueuedIsOK

\* Another page of the same document only puts pages on the queue.
LEMMA PageChangedIsOK ==
  ASSUME NEW t, SidebarOK(t), t.handle \in 1 .. Len(PageCounts), NEW p \in Int
  PROVE  SidebarOK(PageChanged(t, p))
<1> DEFINE a == Upper(1, p - Behind)
           b == Lower(PageCounts[t.handle], p + Ahead - 1)
<1>1. a \in Int /\ b \in Int
  <2>1. PageCounts[t.handle] \in Nat /\ Behind \in Nat /\ Ahead \in Nat
    BY ThumbnailAssumption, ElementOfSeq DEF ThumbnailAssumption
  <2> QED BY <2>1 DEF Upper, Lower
<1> HIDE DEF a, b
<1>2. QueueAll(t, Pages(a, b)) \in Queued(t)
  BY <1>1, PagesAreNumbers, QueueAllStays DEF SidebarOK
<1> QED BY <1>2, QueuedIsOK DEF PageChanged, a, b

\* A thumbnail that comes for the document before finds none of that document; one that
\* comes for the sidebar's own takes the place of any (processQueue, after its await).
LEMMA AnsweredIsOK ==
  ASSUME NEW t, SidebarOK(t), t.job # NoJob, NEW ok
  PROVE  SidebarOK(Answered(t, ok))
<1> DEFINE i == t.job.page
           done == [t EXCEPT !.job = NoJob]
           drawn == [done EXCEPT !.rendered = @ \cup {i},
                                 !.pages = IF i \in DOMAIN @ THEN [@ EXCEPT ![i] = t.job]
                                                             ELSE @]
<1>1. /\ t = [handle |-> t.handle, pages |-> t.pages, rendered |-> t.rendered,
              queue |-> t.queue, job |-> t.job]
      /\ t.queue \in Seq(Int)
  BY DEF SidebarOK, Queued
<1>2. done = [handle |-> t.handle, pages |-> t.pages, rendered |-> t.rendered,
              queue |-> t.queue, job |-> NoJob]
  BY <1>1
<1> HIDE DEF done
<1>3. SidebarOK(done)
  <2>1. Foreign(done) = Foreign(t)
    BY <1>2 DEF Foreign
  <2>2. done \in Queued(done)
    BY <1>1, <1>2 DEF Queued
  <2> QED BY <1>2, <2>1, <2>2 DEF SidebarOK
<1>4. SidebarOK(drawn)
  <2> DEFINE pages == IF i \in DOMAIN t.pages THEN [t.pages EXCEPT ![i] = t.job]
                                              ELSE t.pages
  <2>1. drawn = [handle |-> t.handle, pages |-> pages, rendered |-> t.rendered \cup {i},
                 queue |-> t.queue, job |-> NoJob]
    <3> DEFINE more == t.rendered \cup {i}
    <3>1. done.pages = t.pages /\ done.rendered = t.rendered
      BY <1>2
    <3>2. drawn = [done EXCEPT !.rendered = more, !.pages = pages]
      BY <3>1
    <3> HIDE DEF pages, more, drawn, i
    <3>3. drawn = [handle |-> t.handle, pages |-> pages, rendered |-> more,
                   queue |-> t.queue, job |-> NoJob]
      BY <1>2, <3>2
    <3> QED BY <3>3 DEF more
  <2>2. /\ DOMAIN pages = DOMAIN t.pages
        /\ \A k \in DOMAIN pages : pages[k] = t.pages[k] \/ (k = i /\ pages[k] = t.job)
    OBVIOUS
  <2> HIDE DEF drawn, pages
  <2>3. drawn \in Queued(drawn)
    BY <1>1, <2>1 DEF Queued
  <2>4. Foreign(drawn) \subseteq Foreign(t) \cup {i}
    BY <2>1, <2>2 DEF Foreign
  <2>5. CASE t.job.handle = t.handle
    <3>1. Foreign(drawn) \subseteq Foreign(t)
      BY <2>1, <2>2, <2>5 DEF Foreign
    <3> QED BY <2>1, <2>3, <3>1 DEF SidebarOK
  <2>6. CASE t.job.handle # t.handle
    <3>1. Foreign(t) = {}
      BY <2>6 DEF SidebarOK
    <3> QED BY <2>1, <2>3, <2>4, <3>1 DEF SidebarOK
  <2> QED BY <2>5, <2>6
<1>5. \A u : SidebarOK(u) => SidebarOK(ProcessQueue(u))
  <2> SUFFICES ASSUME NEW u, SidebarOK(u) PROVE SidebarOK(ProcessQueue(u))
    OBVIOUS
  <2>1. u \in Queued(u)
    BY DEF SidebarOK
  <2> QED BY <2>1, ProcessQueueStays, QueuedIsOK
<1>6. Answered(t, ok) = ProcessQueue(IF ~ok THEN done ELSE drawn)
  BY DEF Answered, done
<1> HIDE DEF drawn
<1> QED BY <1>3, <1>4, <1>5, <1>6

\* Drawing the sidebar anew keeps it well.
LEMMA DrawKeeps ==
  ASSUME SidebarOK(thumbs), SelectionOK', DrawThumbnails
  PROVE  SidebarOK(thumbs')
<1>1. CASE ~sidebar' \/ handle' = 0
  BY <1>1, FreshIsOK DEF DrawThumbnails
<1>2. CASE sidebar' /\ handle' # 0
  <2> DEFINE t == IF thumbs.handle = handle' THEN thumbs
                                             ELSE DocumentChanged(thumbs, handle')
  <2>1. handle' \in 1 .. Len(PageCounts) /\ page' \in Int
    BY <1>2, OpenedIsNat DEF SelectionOK, PageCount
  <2>2. SidebarOK(t) /\ t.handle = handle'
    BY <2>1, DocumentChangedIsOK
  <2>3. thumbs' = IF thumbs = Fresh \/ page' # page THEN PageChanged(t, page') ELSE t
    BY <1>2 DEF DrawThumbnails
  <2> HIDE DEF t
  <2> QED BY <2>1, <2>2, <2>3, PageChangedIsOK
<1> QED BY <1>1, <1>2 DEF SelectionOK

LEMMA SidebarKeeps ==
  ASSUME IInv, IInv', SidebarOK(thumbs), [Next]_vars
  PROVE  SidebarOK(thumbs')
<1>1. SelectionOK'
  BY DEF IInv
<1>2. CASE UserStep
  <2>1. DrawThumbnails
    BY <1>2 DEF UserStep, AdoptDocument, HandleClose, Zoom, WindowResized,
       ToggleThumbnails, SelectPage, TargetDimensions, Forget, Watch
  <2> QED BY <1>1, <2>1, DrawKeeps
<1>3. CASE Load
  BY <1>3 DEF Load
<1>4. CASE Answer
  BY <1>4, AnsweredIsOK DEF Answer, LoadAnswered, PreloadAnswered, ThumbnailAnswered
<1>5. CASE UNCHANGED vars
  BY <1>5 DEF vars
<1> QED BY <1>2, <1>3, <1>4, <1>5 DEF Next

\* However the user changes documents while thumbnails are rendered, at most one of those
\* shown is of a document before (PageThumbnails.vue), and the picture drawn is of the open
\* document and has its page for a label.
THEOREM ViewerShowsOpenDocument == Spec => []ShowsOpenDocument
<1>1. Init => SidebarOK(thumbs)
  BY FreshIsOK DEF Init
<1>2. IInv /\ IInv' /\ SidebarOK(thumbs) /\ [Next]_vars => SidebarOK(thumbs)'
  BY SidebarKeeps
<1>3. IInv /\ SidebarOK(thumbs) => ShowsOpenDocument
  <2> SUFFICES ASSUME IInv, SidebarOK(thumbs) PROVE Cardinality(Foreign(thumbs)) <= 1
    BY DEF IInv, PictureOK, ShowsOpenDocument
  <2>1. CASE Foreign(thumbs) = {}
    BY <2>1, FS_EmptySet
  <2>2. CASE Foreign(thumbs) # {}
    <3>1. PICK i : Foreign(thumbs) = {i}
      BY <2>2 DEF SidebarOK
    <3> QED BY <3>1, FS_Singleton
  <2> QED BY <2>1, <2>2
<1> QED BY <1>1, <1>2, <1>3, ViewerInvariance, PTL DEF Spec
================================================================================
