------------------------- MODULE BrowserExtension_proof -------------------------
(***************************************************************************)
(* The extension's marks and its transfers stay in step, for any numbers of *)
(* attachments, buttons, calls at a time and retries.  Both properties rest  *)
(* on a download's id being given out once: a transfer is written for an id  *)
(* that has none yet, so no mark, button or call that names an id ever finds *)
(* another attachment under it.                                            *)
(***************************************************************************)
EXTENDS BrowserExtension, FiniteSetTheorems, TLAPS

Files == { "none", "there", "removed" }
States == { "none", "in_progress", "complete", "interrupted" }
Statuses == { "ready", "downloading", "ok" }

HandlerPcs == { "none", "get", "native", "option", "retry", "succeed", "fail",
                "tellOpened", "tellFailed" }

Calls == [pc : CallPcs \cup { "none" }, url : Urls \cup { NoUrl }, retry : Nat,
          button : Buttons \cup { NoButton }, id : Nat]

Types ==
  /\ stored \subseteq Ids /\ opened \subseteq Ids
  /\ record \in [Ids -> [url : Urls \cup { NoUrl }, retry : Nat]]
  /\ active \in [Urls -> Nat]
  /\ download \in [Ids -> [state : States, file : Files]]
  /\ call \in [Slots -> Calls]
  /\ handler \in [Who \X Ids -> HandlerPcs]
  /\ button \in [Buttons -> [status : Statuses, request : Nat]]

\* Ids are given out in their order.
InOrder == \E n \in Nat : n <= MaxDownloads /\ Started = 1..n

\* A transfer is written once, after its download was started.
WrittenOnce ==
  /\ \A d \in Ids : record[d].url # NoUrl => d \in Started
  /\ \A d \in stored : record[d].url # NoUrl

\* A call is for one attachment, and so is the id it has.
CallOK(c) ==
  /\ call[c].pc # "none" => call[c].url \in Urls
  /\ call[c].button \in Buttons => call[c].url = UrlOf[call[c].button]
  /\ call[c].pc = "store" =>
       call[c].id \in Started /\ record[call[c].id].url = NoUrl
  /\ call[c].pc = "accept" =>
       call[c].id \in Ids /\ record[call[c].id].url = call[c].url

\* The id a call is about to write is its own.
OwnIds ==
  \A c, x \in Slots : /\ call[c].pc = "store" /\ call[x].pc = "store"
                      /\ call[x].id = call[c].id
                      => x = c

CallsOK == OwnIds /\ \A c \in Slots : CallOK(c)

ButtonsOK ==
  \A b \in Buttons : button[b].request # 0 =>
    button[b].request \in Ids /\ record[button[b].request].url = UrlOf[b]

OpenedOK ==
  /\ \A w \in Who, d \in Ids :
       handler[<< w, d >>] \in { "option", "succeed", "tellOpened" } => d \in opened
  /\ \A d \in Ids : download[d].file = "removed" => d \in opened

IInv == Types /\ InOrder /\ WrittenOnce /\ CallsOK /\ ButtonsOK /\ OpenedOK
        /\ ActiveHasTransfer

-----------------------------------------------------------------------------

LEMMA InitHolds == Init => IInv
<1> SUFFICES ASSUME Init PROVE IInv
  OBVIOUS
<1>1. Types
  <2>1. handler \in [Who \X Ids -> HandlerPcs]
    BY DEF Init, HandlerPcs
  <2>2. NoCall \in Calls
    BY DEF NoCall, Calls
  <2> QED BY <2>1, <2>2 DEF Init, Types, Files, States, Statuses, NoDownload, Ready
<1>4. WrittenOnce /\ CallsOK /\ ButtonsOK /\ ActiveHasTransfer
  BY ExtensionAssumption
  DEF Init, WrittenOnce, CallsOK, CallOK, OwnIds, ButtonsOK, ActiveHasTransfer, NoCall,
      Ready, NoButton
<1>5. OpenedOK
  BY DEF Init, OpenedOK, NoDownload
<1>2. Started = 1..0
  BY DEF Init, Started, NoDownload
<1>3. InOrder
  BY <1>2, ExtensionAssumption DEF InOrder
<1> QED BY <1>1, <1>3, <1>4, <1>5 DEF IInv

\* Steps that start no download and write no transfer.
LEMMA OthersStay ==
  ASSUME IInv, UNCHANGED << record, Started >>, stored' \subseteq stored
  PROVE  InOrder' /\ WrittenOnce'
  BY DEF IInv, InOrder, WrittenOnce

-----------------------------------------------------------------------------
(* downloadAndOpen.                                                        *)

\* A call that is replaced, and one that goes on.
LEMMA CallReplaced ==
  ASSUME call \in [Slots -> Calls], NEW c \in Slots, NEW r \in Calls,
         call' = [call EXCEPT ![c] = r]
  PROVE  /\ call' \in [Slots -> Calls] /\ call'[c] = r
         /\ \A x \in Slots : x # c => call'[x] = call[x]
<1> HIDE DEF Calls
<1> QED OBVIOUS

Moved(r, pc, id) == [r EXCEPT !.pc = pc, !.id = id]

LEMMA MovedCall ==
  ASSUME NEW r \in Calls, NEW pc \in CallPcs, NEW id \in Nat
  PROVE  /\ Moved(r, pc, id) \in Calls
         /\ Moved(r, pc, id).pc = pc /\ Moved(r, pc, id).id = id
         /\ Moved(r, pc, id).url = r.url /\ Moved(r, pc, id).button = r.button
<1> DEFINE s == Moved(r, pc, id)
<1>1. PICK p \in CallPcs \cup { "none" }, u \in Urls \cup { NoUrl }, n \in Nat,
           b \in Buttons \cup { NoButton }, i \in Nat :
        r = [pc |-> p, url |-> u, retry |-> n, button |-> b, id |-> i]
  BY DEF Calls
<1>2. s = [pc |-> pc, url |-> u, retry |-> n, button |-> b, id |-> id]
  <2>1. [r EXCEPT !.pc = pc] = [pc |-> pc, url |-> u, retry |-> n, button |-> b, id |-> i]
    BY <1>1
  <2>2. [[pc |-> pc, url |-> u, retry |-> n, button |-> b, id |-> i] EXCEPT !.id = id]
          = [pc |-> pc, url |-> u, retry |-> n, button |-> b, id |-> id]
    OBVIOUS
  <2> QED BY <2>1, <2>2 DEF Moved
<1>3. s \in Calls
  BY <1>2 DEF Calls
<1>4. s.pc = pc /\ s.id = id /\ s.url = r.url /\ s.button = r.button
  BY <1>1, <1>2
<1> QED BY <1>3, <1>4

LEMMA MovedExcept ==
  ASSUME call \in [Slots -> Calls], NEW c \in Slots, NEW pc, NEW id, Goes(c, pc, id)
  PROVE  call' = [call EXCEPT ![c] = Moved(call[c], pc, id)]
<1> DEFINE f == [call EXCEPT ![c].pc = pc]
<1>1. f[c] = [call[c] EXCEPT !.pc = pc]
  OBVIOUS
<1>2. call' = [f EXCEPT ![c].id = id]
  BY DEF Goes
<1>3. \A v : [f EXCEPT ![c] = v] = [call EXCEPT ![c] = v]
  OBVIOUS
<1> HIDE DEF f
<1>4. call' = [f EXCEPT ![c] = [f[c] EXCEPT !.id = id]]
  BY <1>2
<1>5. [f[c] EXCEPT !.id = id] = Moved(call[c], pc, id)
  BY <1>1 DEF Moved
<1> QED BY <1>3, <1>4, <1>5

LEMMA CallMoved ==
  ASSUME call \in [Slots -> Calls], NEW c \in Slots, NEW pc \in CallPcs, NEW id \in Nat,
         Goes(c, pc, id)
  PROVE  /\ call' \in [Slots -> Calls]
         /\ call'[c].pc = pc /\ call'[c].id = id
         /\ call'[c].url = call[c].url /\ call'[c].button = call[c].button
         /\ \A x \in Slots : x # c => call'[x] = call[x]
<1> DEFINE r == Moved(call[c], pc, id)
<1>1. call[c] \in Calls
  OBVIOUS
<1>2. /\ r \in Calls /\ r.pc = pc /\ r.id = id
      /\ r.url = call[c].url /\ r.button = call[c].button
  BY <1>1, MovedCall
<1>3. call' = [call EXCEPT ![c] = r]
  BY MovedExcept
<1> HIDE DEF r
<1>4. /\ call' \in [Slots -> Calls] /\ call'[c] = r
      /\ \A x \in Slots : x # c => call'[x] = call[x]
  BY <1>2, <1>3, CallReplaced
<1> QED BY <1>2, <1>4

\* What is known of a call.
LEMMA CallTyped ==
  ASSUME IInv, NEW c \in Slots
  PROVE  /\ call[c] \in Calls
         /\ call[c].url \in Urls \cup { NoUrl } /\ call[c].retry \in Nat
         /\ call[c].id \in Nat
         /\ call[c].button \in Buttons \cup { NoButton }
<1>1. call[c] \in Calls
  BY DEF IInv, Types
<1> QED BY <1>1 DEF Calls

\* The calls that begin.
LEMMA CalledKeeps ==
  ASSUME IInv, NEW c \in Slots, NEW u \in Urls, NEW retry \in Nat,
         NEW b \in Buttons \cup { NoButton }, Called(c, u, retry, b),
         b \in Buttons => u = UrlOf[b]
  PROVE  call' \in [Slots -> Calls]
         /\ (UNCHANGED << record, download >> => CallsOK')
<1>1. call' = [call EXCEPT ![c] =
                 [pc |-> "lookup", url |-> u, retry |-> retry, button |-> b, id |-> 0]]
  BY DEF Called
<1>2. [pc |-> "lookup", url |-> u, retry |-> retry, button |-> b, id |-> 0] \in Calls
  BY DEF Calls, CallPcs
<1>3. /\ call' \in [Slots -> Calls]
      /\ call'[c] = [pc |-> "lookup", url |-> u, retry |-> retry, button |-> b, id |-> 0]
      /\ \A x \in Slots : x # c => call'[x] = call[x]
  BY <1>1, <1>2, CallReplaced DEF IInv, Types
<1>4. ASSUME UNCHANGED << record, download >> PROVE CallsOK'
  <2>1. /\ call'[c].pc = "lookup" /\ call'[c].url = u /\ call'[c].button = b
    BY <1>3
  <2>2. UNCHANGED Started
    BY <1>4 DEF Started
  <2>3. OwnIds'
    BY <1>3, <2>1 DEF IInv, CallsOK, OwnIds
  <2>4. CallOK(c)'
    BY <2>1 DEF CallOK
  <2>5. ASSUME NEW x \in Slots \ {c} PROVE CallOK(x)'
    BY <1>3, <1>4, <2>2 DEF IInv, CallsOK, CallOK
  <2> QED BY <2>3, <2>4, <2>5 DEF CallsOK
<1> QED BY <1>3, <1>4

LEMMA UserKeeps ==
  ASSUME IInv, User
  PROVE  IInv'
<1>1. PICK c \in Slots : (\E b \in Buttons : Click(c, b)) \/ (\E u \in Links : Menu(c, u))
  BY DEF User
<1>2. ASSUME NEW b \in Buttons, Click(c, b) PROVE IInv'
  <2>1. /\ Called(c, UrlOf[b], 0, b) /\ UrlOf[b] \in Urls
        /\ button' = [button EXCEPT ![b].status = "downloading"]
        /\ UNCHANGED << stored, record, active, download, changed, handler, opened >>
    BY <1>2, ExtensionAssumption DEF Click, storage, browser
  <2>2. Types' /\ CallsOK'
    BY <2>1, CalledKeeps DEF IInv, Types, Statuses
  <2>3. ButtonsOK'
    BY <2>1 DEF IInv, Types, ButtonsOK
  <2>4. OpenedOK' /\ ActiveHasTransfer' /\ UNCHANGED Started
    BY <2>1 DEF IInv, OpenedOK, ActiveHasTransfer, Started
  <2> QED BY <2>1, <2>2, <2>3, <2>4, OthersStay DEF IInv
<1>3. ASSUME NEW u \in Links, Menu(c, u) PROVE IInv'
  <2>1. /\ Called(c, u, 0, NoButton) /\ u \in Urls /\ NoButton \notin Buttons
        /\ UNCHANGED << stored, record, active, download, changed, handler, button, opened >>
    BY <1>3, ExtensionAssumption DEF Menu, storage, browser, NoButton
  <2>2. Types' /\ CallsOK'
    BY <2>1, CalledKeeps DEF IInv, Types
  <2>3. ButtonsOK' /\ OpenedOK' /\ ActiveHasTransfer' /\ UNCHANGED Started
    BY <2>1 DEF IInv, ButtonsOK, OpenedOK, ActiveHasTransfer, Started
  <2> QED BY <2>1, <2>2, <2>3, OthersStay DEF IInv
<1> QED BY <1>1, <1>2, <1>3

LEMMA RetryKeeps ==
  ASSUME IInv, NEW c \in Slots, NEW w \in Who, NEW d \in Ids, Retry(c, w, d)
  PROVE  IInv'
<1>1. /\ Called(c, record[d].url, record[d].retry + 1, NoButton)
      /\ UNCHANGED << stored, record, active, download, changed, handler, button, opened >>
  BY DEF Retry, storage, browser
<1>2. record[d].url \in Urls /\ record[d].retry + 1 \in Nat /\ NoButton \notin Buttons
  BY <1>1, ExtensionAssumption DEF Called, IInv, Types, NoButton
<1>3. Types' /\ CallsOK'
  BY <1>1, <1>2, CalledKeeps DEF IInv, Types
<1>4. ButtonsOK' /\ OpenedOK' /\ ActiveHasTransfer' /\ UNCHANGED Started
  BY <1>1 DEF IInv, ButtonsOK, OpenedOK, ActiveHasTransfer, Started
<1> QED BY <1>1, <1>3, <1>4, OthersStay DEF IInv

\* The response to a call, and its button.
LEMMA RespondKeeps ==
  ASSUME IInv, NEW c \in Slots, NEW shows \in [status : Statuses, request : Nat],
         Respond(c, shows), UNCHANGED << storage, browser, handler, opened >>,
         shows.request # 0 => /\ shows.request \in Ids
                              /\ record[shows.request].url = call[c].url
  PROVE  IInv'
<1>1. call' = [call EXCEPT ![c] = NoCall]
  BY DEF Respond
<1>2. UNCHANGED << stored, record, active, download, changed, handler, opened >>
  BY DEF storage, browser
<1>3. NoCall \in Calls /\ NoCall.pc = "none" /\ NoCall.button \notin Buttons
  BY ExtensionAssumption DEF NoCall, Calls, NoButton
<1>4. /\ call' \in [Slots -> Calls] /\ call'[c] = NoCall
      /\ \A x \in Slots : x # c => call'[x] = call[x]
  BY <1>1, <1>3, CallReplaced DEF IInv, Types
<1>5. /\ button' \in [Buttons -> [status : Statuses, request : Nat]]
      /\ \A b \in Buttons : \/ button'[b] = button[b]
                            \/ button'[b] = shows /\ call[c].button = b
  BY DEF Respond, IInv, Types
<1>6. Types'
  BY <1>2, <1>4, <1>5 DEF IInv, Types
<1>7. UNCHANGED Started
  BY <1>2 DEF Started
<1>8. CallsOK'
  <2>1. OwnIds'
    BY <1>3, <1>4 DEF IInv, CallsOK, OwnIds
  <2>2. CallOK(c)'
    BY <1>3, <1>4 DEF CallOK
  <2>3. ASSUME NEW x \in Slots \ {c} PROVE CallOK(x)'
    BY <1>2, <1>4, <1>7 DEF IInv, CallsOK, CallOK
  <2> QED BY <2>1, <2>2, <2>3 DEF CallsOK
<1>9. ButtonsOK'
  <2>1. \A b \in Buttons : call[c].button = b => call[c].url = UrlOf[b]
    BY DEF IInv, CallsOK, CallOK
  <2> QED BY <1>2, <1>5, <2>1 DEF IInv, ButtonsOK
<1>10. OpenedOK' /\ ActiveHasTransfer'
  BY <1>2 DEF IInv, OpenedOK, ActiveHasTransfer
<1> QED BY <1>2, <1>6, <1>7, <1>8, <1>9, <1>10, OthersStay DEF IInv

LEMMA RefusedKeeps ==
  ASSUME IInv, NEW c \in Slots, Refused(c), UNCHANGED << storage, browser, handler, opened >>
  PROVE  IInv'
<1>1. Ready \in [status : Statuses, request : Nat] /\ Ready.request = 0
  BY DEF Ready, Statuses
<1> QED BY <1>1, RespondKeeps DEF Refused

\* A call that goes on to another step than the writing of a transfer.
LEMMA GoesKeeps ==
  ASSUME IInv, NEW c \in Slots, NEW pc \in { "count", "download", "accept" }, NEW id \in Nat,
         Goes(c, pc, id), UNCHANGED << storage, browser, handler, opened >>,
         call[c].pc # "none",
         pc = "accept" => id \in Ids /\ record[id].url = call[c].url
  PROVE  IInv'
<1>1. UNCHANGED << stored, record, active, download, changed, handler, button, opened >>
  BY DEF Goes, storage, browser
<1>2. /\ call' \in [Slots -> Calls]
      /\ call'[c].pc = pc /\ call'[c].id = id
      /\ call'[c].url = call[c].url /\ call'[c].button = call[c].button
      /\ \A x \in Slots : x # c => call'[x] = call[x]
  <2>1. pc \in CallPcs
    BY DEF CallPcs
  <2> QED BY <1>1, <2>1, CallMoved DEF IInv, Types
<1>3. Types'
  BY <1>1, <1>2 DEF IInv, Types
<1>4. UNCHANGED Started
  BY <1>1 DEF Started
<1>5. CallsOK'
  <2>1. \A x \in Slots : x # c => call'[x] = call[x]
    BY <1>2
  <2>2. /\ call'[c].pc = pc /\ call'[c].id = id /\ call'[c].url = call[c].url
        /\ call'[c].button = call[c].button
    BY <1>2
  <2>3. OwnIds'
    BY <2>1, <2>2 DEF IInv, CallsOK, OwnIds
  <2>4. CallOK(c)'
    BY <1>1, <2>2 DEF IInv, CallsOK, CallOK
  <2>5. ASSUME NEW x \in Slots \ {c} PROVE CallOK(x)'
    <3>1. call'[x] = call[x] /\ UNCHANGED << record, Started >>
      BY <1>1, <1>4, <2>1
    <3>2. CallOK(x)
      BY DEF IInv, CallsOK
    <3> QED BY <3>1, <3>2 DEF CallOK
  <2> QED BY <2>3, <2>4, <2>5 DEF CallsOK
<1>6. ButtonsOK' /\ OpenedOK' /\ ActiveHasTransfer'
  BY <1>1 DEF IInv, ButtonsOK, OpenedOK, ActiveHasTransfer
<1> QED BY <1>1, <1>3, <1>4, <1>5, <1>6, OthersStay DEF IInv

\* The next id is the one after all those given out.
LEMMA NextIsFresh ==
  ASSUME IInv, Cardinality(Started) < MaxDownloads
  PROVE  /\ Cardinality(Started) + 1 \in Ids \ Started
         /\ \E n \in Nat : n < MaxDownloads /\ Started = 1..n /\ Cardinality(Started) = n
<1>1. PICK n \in Nat : n <= MaxDownloads /\ Started = 1..n
  BY DEF IInv, InOrder
<1>2. Cardinality(1..n) = n
  <2>1. Cardinality(1..n) = IF 1 > n THEN 0 ELSE n - 1 + 1
    BY FS_Interval
  <2> QED BY <2>1
<1> QED BY <1>1, <1>2, ExtensionAssumption DEF Ids

LEMMA DownloadKeeps ==
  ASSUME IInv, NEW c \in Slots, Download(c)
  PROVE  IInv'
<1>1. CASE Refused(c) /\ UNCHANGED download
  BY <1>1, RefusedKeeps DEF Download, storage, browser
<1>2. CASE Cardinality(Started) < MaxDownloads /\ Goes(c, "store", Cardinality(Started) + 1)
           /\ download' = [download EXCEPT ![Cardinality(Started) + 1] =
                             [state |-> "in_progress", file |-> "there"]]
  <2> DEFINE d == Cardinality(Started) + 1
  <2>1. d \in Ids \ Started /\ d \in Nat
    BY <1>2, NextIsFresh DEF Ids
  <2>2. /\ Goes(c, "store", d)
        /\ download' = [download EXCEPT ![d] = [state |-> "in_progress", file |-> "there"]]
        /\ call[c].pc = "download"
        /\ UNCHANGED << stored, record, active, changed, handler, button, opened >>
    BY <1>2 DEF Download, Goes, storage
  <2> HIDE DEF d
  <2>3. Started' = Started \cup {d}
    <3>1. \A e \in Ids : download'[e].state = IF e = d THEN "in_progress"
                                                    ELSE download[e].state
      BY <2>1, <2>2 DEF IInv, Types
    <3> QED BY <2>1, <3>1 DEF Started
  <2>10. /\ call' \in [Slots -> Calls]
         /\ call'[c].pc = "store" /\ call'[c].id = d
         /\ call'[c].url = call[c].url /\ call'[c].button = call[c].button
         /\ \A x \in Slots : x # c => call'[x] = call[x]
    <3>1. "store" \in CallPcs
      BY DEF CallPcs
    <3>2. call \in [Slots -> Calls]
      BY DEF IInv, Types
    <3> QED BY <2>1, <2>2, <3>1, <3>2, CallMoved
  <2>4. Types'
    <3>2. download' \in [Ids -> [state : States, file : Files]]
      BY <2>1, <2>2 DEF IInv, Types, States, Files
    <3> QED BY <2>2, <2>10, <3>2 DEF IInv, Types
  <2>5. InOrder'
    <3>1. PICK n \in Nat : n < MaxDownloads /\ Started = 1..n /\ d = n + 1
      BY <1>2, NextIsFresh DEF d
    <3>2. Started' = 1..(n + 1)
      BY <2>3, <3>1
    <3> QED BY <3>1, <3>2, ExtensionAssumption DEF InOrder
  <2>6. WrittenOnce'
    BY <2>2, <2>3 DEF IInv, WrittenOnce
  <2>7. CallsOK'
    <3>1. \A x \in Slots : x # c => call'[x] = call[x]
      BY <2>10
    <3>2. /\ call'[c].pc = "store" /\ call'[c].id = d /\ call'[c].url = call[c].url
          /\ call'[c].button = call[c].button
      BY <2>10
    <3>3. record[d].url = NoUrl
      BY <2>1 DEF IInv, WrittenOnce
    <3>4. \A x \in Slots : call[x].pc = "store" => call[x].id # d
      BY <2>1 DEF IInv, CallsOK, CallOK, OwnIds
    <3>5. OwnIds'
      BY <3>1, <3>2, <3>4 DEF IInv, CallsOK, OwnIds
    <3>6. CallOK(c)'
      BY <2>2, <2>3, <3>2, <3>3 DEF IInv, CallsOK, CallOK
    <3>7. ASSUME NEW x \in Slots \ {c} PROVE CallOK(x)'
      <4>1. call'[x] = call[x] /\ UNCHANGED record /\ Started \subseteq Started'
        BY <2>2, <2>3, <3>1
      <4>2. CallOK(x)
        BY DEF IInv, CallsOK
      <4> QED BY <4>1, <4>2 DEF CallOK
    <3> QED BY <3>5, <3>6, <3>7 DEF CallsOK
  <2>8. ButtonsOK' /\ ActiveHasTransfer'
    BY <2>2 DEF IInv, ButtonsOK, ActiveHasTransfer
  <2>9. OpenedOK'
    BY <2>1, <2>2 DEF IInv, Types, OpenedOK
  <2> QED BY <2>4, <2>5, <2>6, <2>7, <2>8, <2>9 DEF IInv
<1> QED BY <1>1, <1>2 DEF Download

\* Both keys are written for an id that no key, call or button names yet.
LEMMA StoreKeeps ==
  ASSUME IInv, NEW c \in Slots, Store(c)
  PROVE  IInv'
<1> DEFINE d == call[c].id
           u == call[c].url
<1>1. /\ stored' = stored \cup {d}
      /\ record' = [record EXCEPT ![d] = [url |-> u, retry |-> call[c].retry]]
      /\ active' = [active EXCEPT ![u] = d]
      /\ call' = [call EXCEPT ![c].pc = "accept"]
      /\ call[c].pc = "store"
      /\ UNCHANGED << download, changed, handler, button, opened >>
  BY DEF Store, browser
<1>2. /\ d \in Started /\ d \in Ids /\ d \in Nat /\ record[d].url = NoUrl
      /\ u \in Urls /\ u # NoUrl /\ call[c].retry \in Nat
  BY <1>1, CallTyped, ExtensionAssumption DEF IInv, CallsOK, CallOK, OwnIds, Started
<1> HIDE DEF d, u
<1>12. /\ call' \in [Slots -> Calls]
       /\ call'[c].pc = "accept" /\ call'[c].id = d /\ call'[c].url = u
       /\ call'[c].button = call[c].button
       /\ \A x \in Slots : x # c => call'[x] = call[x]
  <2>1. "accept" \in CallPcs /\ call \in [Slots -> Calls] /\ call[c] \in Calls
    BY CallTyped DEF CallPcs, IInv, Types
  <2> DEFINE r == [call[c] EXCEPT !.pc = "accept"]
  <2>2. call' = [call EXCEPT ![c] = r]
    BY <1>1
  <2>3. /\ r \in Calls /\ r.pc = "accept" /\ r.id = call[c].id
        /\ r.url = call[c].url /\ r.button = call[c].button
    BY <2>1 DEF Calls
  <2> HIDE DEF r
  <2>4. /\ call' \in [Slots -> Calls] /\ call'[c] = r
        /\ \A x \in Slots : x # c => call'[x] = call[x]
    BY <2>1, <2>2, <2>3, CallReplaced
  <2> QED BY <2>3, <2>4 DEF d, u
<1>3. /\ record'[d].url = u
      /\ \A e \in Ids \ {d} : record'[e] = record[e]
      /\ \A v \in Urls : active'[v] = IF v = u THEN d ELSE active[v]
  BY <1>1, <1>2 DEF IInv, Types
<1>4. Types'
  <2>1. record' \in [Ids -> [url : Urls \cup { NoUrl }, retry : Nat]]
    BY <1>1, <1>2 DEF IInv, Types
  <2> QED BY <1>1, <1>2, <1>12, <2>1 DEF IInv, Types
<1>5. UNCHANGED Started
  BY <1>1 DEF Started
<1>6. InOrder' /\ OpenedOK'
  BY <1>1, <1>5 DEF IInv, InOrder, OpenedOK
<1>7. WrittenOnce'
  BY <1>1, <1>2, <1>3, <1>5 DEF IInv, Types, WrittenOnce
<1>8. d \notin stored
  BY <1>2 DEF IInv, WrittenOnce
<1>9. ActiveHasTransfer'
  BY <1>1, <1>2, <1>3, <1>8 DEF IInv, Types, ActiveHasTransfer
<1>10. ButtonsOK'
  BY <1>1, <1>2, <1>3, ExtensionAssumption DEF IInv, ButtonsOK
<1>11. CallsOK'
  <2>1. /\ \A x \in Slots : x # c => call'[x] = call[x]
        /\ call'[c].pc = "accept" /\ call'[c].id = d /\ call'[c].url = u
        /\ call'[c].button = call[c].button
    BY <1>12
  <2>2. \A x \in Slots : x # c /\ call[x].pc = "store" =>
          call[x].id # d /\ call[x].id \in Ids /\ call[x].id \in Started
    BY <1>1 DEF IInv, CallsOK, CallOK, OwnIds, Started, d
  <2>3. \A x \in Slots : x # c /\ call[x].pc = "accept" =>
          call[x].id # d /\ call[x].id \in Ids /\ call[x].url \in Urls
    BY <1>2, ExtensionAssumption DEF IInv, CallsOK, CallOK, OwnIds
  <2>4. u = call[c].url
    BY DEF u
  <2>5. OwnIds'
    BY <2>1 DEF IInv, CallsOK, OwnIds
  <2>6. CallOK(c)'
    BY <1>1, <1>2, <1>3, <2>1, <2>4 DEF IInv, CallsOK, CallOK
  <2>7. ASSUME NEW x \in Slots \ {c} PROVE CallOK(x)'
    BY <1>3, <1>5, <2>1, <2>2, <2>3 DEF IInv, CallsOK, CallOK
  <2> QED BY <2>5, <2>6, <2>7 DEF CallsOK
<1> QED BY <1>4, <1>6, <1>7, <1>9, <1>10, <1>11 DEF IInv

LEMMA CallKeeps ==
  ASSUME IInv, NEW c \in Slots, CallStep(c)
  PROVE  IInv'
<1>1. CASE Lookup(c)
  <2>1. call[c].url \in Urls
    BY <1>1 DEF Lookup, IInv, CallsOK, CallOK, OwnIds
  <2>2. UNCHANGED << storage, browser, handler, opened >>
    BY <1>1 DEF Lookup, CallOnly
  <2>3. CASE active[call[c].url] # 0
    <3>1. /\ active[call[c].url] \in Nat /\ active[call[c].url] \in Ids
          /\ record[active[call[c].url]].url = call[c].url
      BY <2>1, <2>3 DEF IInv, Types, ActiveHasTransfer
    <3> QED BY <1>1, <2>2, <2>3, <3>1, GoesKeeps DEF Lookup
  <2>4. CASE active[call[c].url] = 0
    BY <1>1, <2>2, <2>4, GoesKeeps DEF Lookup
  <2> QED BY <2>3, <2>4
<1>2. CASE Count(c)
  BY <1>2, GoesKeeps, RefusedKeeps DEF Count, CallOnly
<1>3. CASE Download(c) BY <1>3, DownloadKeeps
<1>4. CASE Store(c) BY <1>4, StoreKeeps
<1>5. CASE Accept(c)
  <2>1. /\ call[c].id \in Ids /\ record[call[c].id].url = call[c].url /\ call[c].id \in Nat
        /\ Respond(c, [status |-> "downloading", request |-> call[c].id])
        /\ UNCHANGED << storage, browser, handler, opened >>
    BY <1>5, CallTyped DEF Accept, CallOnly, IInv, CallsOK, CallOK
  <2> QED BY <2>1, RespondKeeps DEF Statuses
<1>6. CASE \E w \in Who, d \in Ids : Retry(c, w, d)
  BY <1>6, RetryKeeps
<1> QED BY <1>1, <1>2, <1>3, <1>4, <1>5, <1>6 DEF CallStep

-----------------------------------------------------------------------------
(* finishDownload and reconcilePendingDownloads.                           *)

\* A handler that goes on says "opened" only of what was opened.
LEMMA AtKeeps ==
  ASSUME IInv, NEW w \in Who, NEW d \in Ids, NEW pc \in HandlerPcs, At(w, d, pc),
         opened \subseteq opened', pc \in { "option", "succeed", "tellOpened" } => d \in opened'
  PROVE  /\ handler' \in [Who \X Ids -> HandlerPcs]
         /\ \A v \in Who, e \in Ids :
              handler'[<< v, e >>] \in { "option", "succeed", "tellOpened" } => e \in opened'
<1>1. handler' = [handler EXCEPT ![<< w, d >>] = pc]
  BY DEF At
<1>2. handler' \in [Who \X Ids -> HandlerPcs]
  BY <1>1 DEF IInv, Types
<1>3. ASSUME NEW v \in Who, NEW e \in Ids,
             handler'[<< v, e >>] \in { "option", "succeed", "tellOpened" }
      PROVE  e \in opened'
  <2>1. << v, e >> \in Who \X Ids
    OBVIOUS
  <2>2. CASE << v, e >> = << w, d >>
    BY <1>1, <1>3, <2>1, <2>2 DEF IInv, Types
  <2>3. CASE << v, e >> # << w, d >>
    BY <1>1, <1>3, <2>1, <2>3 DEF IInv, Types, OpenedOK
  <2> QED BY <2>2, <2>3
<1> QED BY <1>2, <1>3

\* A handler that changes nothing but itself.
LEMMA HandlerOnlyKeeps ==
  ASSUME IInv, NEW w \in Who, NEW d \in Ids, NEW pc \in HandlerPcs, At(w, d, pc),
         pc \in { "option", "succeed", "tellOpened" } => d \in opened,
         UNCHANGED << stored, record, active, download, call, button, opened >>
  PROVE  IInv'
<1>1. /\ handler' \in [Who \X Ids -> HandlerPcs]
      /\ \A v \in Who, e \in Ids :
           handler'[<< v, e >>] \in { "option", "succeed", "tellOpened" } => e \in opened'
  BY AtKeeps
<1>2. Types' /\ OpenedOK' /\ UNCHANGED Started
  BY <1>1 DEF IInv, Types, OpenedOK, Started
<1>3. CallsOK' /\ ButtonsOK' /\ ActiveHasTransfer'
  BY <1>2 DEF IInv, CallsOK, CallOK, OwnIds, ButtonsOK, ActiveHasTransfer
<1> QED BY <1>2, <1>3, OthersStay DEF IInv

\* A transfer that is forgotten takes its mark along.
LEMMA ForgetKeeps ==
  ASSUME IInv, NEW w \in Who, NEW d \in Ids, NEW pc \in HandlerPcs, At(w, d, pc),
         Forget(d), pc = "tellOpened" => d \in opened, pc \notin { "option", "succeed" },
         UNCHANGED << record, download, call, button, opened >>
  PROVE  IInv'
<1>1. /\ handler' \in [Who \X Ids -> HandlerPcs]
      /\ \A v \in Who, e \in Ids :
           handler'[<< v, e >>] \in { "option", "succeed", "tellOpened" } => e \in opened'
  BY AtKeeps
<1>2. stored' = stored \ {d} /\ active' = [active EXCEPT ![record[d].url] = 0]
  BY DEF Forget
<1>3. Types' /\ OpenedOK' /\ UNCHANGED Started
  BY <1>1, <1>2 DEF IInv, Types, OpenedOK, Started
<1>4. CallsOK' /\ ButtonsOK'
  BY <1>3 DEF IInv, CallsOK, CallOK, OwnIds, ButtonsOK
<1>5. ActiveHasTransfer'
  BY <1>2 DEF IInv, Types, ActiveHasTransfer
<1> QED BY <1>2, <1>3, <1>4, <1>5, OthersStay DEF IInv

LEMMA HandlerKeeps ==
  ASSUME IInv, NEW w \in Who, NEW d \in Ids, HandlerStep(w, d)
  PROVE  IInv'
<1>1. CASE Get(w, d)
  <2>1. /\ \E pc \in { "none", "retry", "fail", "native" } : At(w, d, pc)
        /\ UNCHANGED << stored, record, active, download, call, button, opened >>
    BY <1>1 DEF Get, Interrupted, HandlerOnly, storage, browser
  <2> QED BY <2>1, HandlerOnlyKeeps DEF HandlerPcs
<1>2. CASE Native(w, d)
  <2>1. PICK ok \in BOOLEAN :
          /\ opened' = IF ok THEN opened \cup {d} ELSE opened
          /\ At(w, d, IF ok THEN "option" ELSE "fail")
    BY <1>2 DEF Native, Answered
  <2>2. UNCHANGED << stored, record, active, download, call, button >>
    BY <1>2 DEF Native, storage, browser
  <2>3. PICK pc \in { "option", "fail" } :
          At(w, d, pc) /\ (pc = "option" => d \in opened') /\ opened \subseteq opened'
    BY <2>1
  <2>4. /\ handler' \in [Who \X Ids -> HandlerPcs]
        /\ \A v \in Who, e \in Ids :
             handler'[<< v, e >>] \in { "option", "succeed", "tellOpened" } => e \in opened'
    BY <2>3, AtKeeps DEF HandlerPcs
  <2>5. Types' /\ OpenedOK' /\ UNCHANGED Started
    BY <2>1, <2>2, <2>4 DEF IInv, Types, OpenedOK, Started
  <2>6. CallsOK' /\ ButtonsOK' /\ ActiveHasTransfer'
    BY <2>2, <2>5 DEF IInv, CallsOK, CallOK, OwnIds, ButtonsOK, ActiveHasTransfer
  <2> QED BY <2>2, <2>5, <2>6, OthersStay DEF IInv
<1>3. CASE Option(w, d)
  <2>1. PICK file \in { download[d].file, "removed" } :
          download' = [download EXCEPT ![d].file = file]
    BY <1>3 DEF Option
  <2>2. /\ At(w, d, "succeed") /\ d \in opened
        /\ UNCHANGED << stored, record, active, call, button, opened >>
    BY <1>3 DEF Option, storage, IInv, OpenedOK
  <2>3. /\ handler' \in [Who \X Ids -> HandlerPcs]
        /\ \A v \in Who, e \in Ids :
             handler'[<< v, e >>] \in { "option", "succeed", "tellOpened" } => e \in opened'
    BY <2>2, AtKeeps DEF HandlerPcs
  <2>4. /\ download' \in [Ids -> [state : States, file : Files]]
        /\ \A e \in Ids : download'[e].state = download[e].state
        /\ \A e \in Ids \ {d} : download'[e] = download[e]
    BY <2>1 DEF IInv, Types, Files
  <2>5. Types' /\ OpenedOK' /\ UNCHANGED Started
    BY <2>2, <2>3, <2>4 DEF IInv, Types, OpenedOK, Started
  <2>6. CallsOK' /\ ButtonsOK' /\ ActiveHasTransfer'
    BY <2>2, <2>5 DEF IInv, CallsOK, CallOK, OwnIds, ButtonsOK, ActiveHasTransfer
  <2> QED BY <2>2, <2>5, <2>6, OthersStay DEF IInv
<1>4. CASE ForgetAndRetry(w, d)
  BY <1>4, ForgetKeeps DEF ForgetAndRetry, HandlerPcs
<1>5. CASE Finish(w, d)
  <2>1. PICK pc \in { "tellOpened", "tellFailed" } :
          At(w, d, pc) /\ (pc = "tellOpened" => handler[<< w, d >>] = "succeed")
    BY <1>5 DEF Finish
  <2>2. pc = "tellOpened" => d \in opened
    BY <2>1 DEF IInv, OpenedOK
  <2> QED BY <1>5, <2>1, <2>2, ForgetKeeps DEF Finish, HandlerPcs
<1>6. CASE Tell(w, d)
  <2>1. /\ At(w, d, "none")
        /\ UNCHANGED << stored, record, active, download, call, opened >>
        /\ \A b \in Buttons : \/ button'[b] = button[b]
                              \/ button'[b] \in [status : { "ok", "ready" }, request : { 0 }]
        /\ button' = [b \in Buttons |-> button'[b]]
    BY <1>6 DEF Tell, Ready, storage, browser
  <2>2. button' \in [Buttons -> [status : Statuses, request : Nat]]
    BY <2>1 DEF IInv, Types, Statuses
  <2>3. /\ handler' \in [Who \X Ids -> HandlerPcs]
        /\ \A v \in Who, e \in Ids :
             handler'[<< v, e >>] \in { "option", "succeed", "tellOpened" } => e \in opened'
    BY <2>1, AtKeeps DEF HandlerPcs
  <2>4. Types' /\ OpenedOK' /\ UNCHANGED Started
    BY <2>1, <2>2, <2>3 DEF IInv, Types, OpenedOK, Started
  <2>5. ButtonsOK'
    BY <2>1 DEF IInv, ButtonsOK
  <2>6. CallsOK' /\ ActiveHasTransfer'
    BY <2>1, <2>4 DEF IInv, CallsOK, CallOK, OwnIds, ActiveHasTransfer
  <2> QED BY <2>1, <2>4, <2>5, <2>6, OthersStay DEF IInv
<1> QED BY <1>1, <1>2, <1>3, <1>4, <1>5, <1>6 DEF HandlerStep

-----------------------------------------------------------------------------
(* The browser, and the script's start and stop.                           *)

LEMMA EventKeeps ==
  ASSUME IInv, NEW d \in Ids,
         Changed(d) \/ \E expired \in BOOLEAN : Reconcile(d, expired)
  PROVE  IInv'
<1>1. CASE Changed(d)
  <2>1. At("event", d, "get")
    BY <1>1 DEF Changed, At
  <2>2. UNCHANGED << stored, record, active, download, call, button, opened >>
    BY <1>1 DEF Changed, storage
  <2> QED BY <2>1, <2>2, HandlerOnlyKeeps DEF Who, HandlerPcs
<1>2. ASSUME NEW expired \in BOOLEAN, Reconcile(d, expired) PROVE IInv'
  <2>1. \E pc \in { "none", "get", "retry", "fail" } : At("reconcile", d, pc)
    BY <1>2 DEF Reconcile, Interrupted
  <2>2. UNCHANGED << stored, record, active, download, call, button, opened >>
    BY <1>2 DEF Reconcile, storage, browser
  <2> QED BY <2>1, <2>2, HandlerOnlyKeeps DEF Who, HandlerPcs
<1> QED BY <1>1, <1>2

LEMMA StopKeeps ==
  ASSUME IInv, Stop
  PROVE  IInv'
<1>1. /\ call' = [c \in Slots |-> NoCall]
      /\ handler' = [k \in Who \X Ids |-> "none"]
      /\ button' = [b \in Buttons |->
           IF \E c \in Slots : call[c].button = b THEN Ready ELSE button[b]]
      /\ UNCHANGED << stored, record, active, download, changed, opened >>
  BY DEF Stop, storage, browser
<1>2. Types'
  <2>1. call' \in [Slots -> Calls]
    BY <1>1 DEF NoCall, Calls
  <2>2. button' \in [Buttons -> [status : Statuses, request : Nat]]
    BY <1>1 DEF IInv, Types, Ready, Statuses
  <2>3. handler' \in [Who \X Ids -> HandlerPcs]
    BY <1>1 DEF HandlerPcs
  <2> QED BY <1>1, <2>1, <2>2, <2>3 DEF IInv, Types
<1>3. CallsOK'
  BY <1>1, ExtensionAssumption DEF CallsOK, CallOK, OwnIds, NoCall, NoButton
<1>4. ButtonsOK'
  BY <1>1 DEF IInv, ButtonsOK, Ready
<1>5. OpenedOK' /\ ActiveHasTransfer' /\ UNCHANGED Started
  BY <1>1 DEF IInv, OpenedOK, ActiveHasTransfer, Started
<1> QED BY <1>1, <1>2, <1>3, <1>4, <1>5, OthersStay DEF IInv

LEMMA DownloadEndsKeeps ==
  ASSUME IInv, NEW d \in Ids, DownloadEnds(d)
  PROVE  IInv'
<1>1. PICK state \in { "complete", "interrupted" } :
        download' = [download EXCEPT ![d].state = state]
  BY DEF DownloadEnds
<1>2. /\ download[d].state = "in_progress"
      /\ UNCHANGED << stored, record, active, call, handler, button, opened >>
  BY DEF DownloadEnds, storage, script
<1>3. /\ download' \in [Ids -> [state : States, file : Files]]
      /\ \A e \in Ids : /\ download'[e].file = download[e].file
                        /\ download'[e].state = IF e = d THEN state ELSE download[e].state
  BY <1>1 DEF IInv, Types, States
<1>4. Types' /\ OpenedOK' /\ UNCHANGED Started
  BY <1>2, <1>3 DEF IInv, Types, OpenedOK, Started
<1>5. CallsOK' /\ ButtonsOK' /\ ActiveHasTransfer'
  BY <1>2, <1>4 DEF IInv, CallsOK, CallOK, OwnIds, ButtonsOK, ActiveHasTransfer
<1> QED BY <1>2, <1>4, <1>5, OthersStay DEF IInv

\* Steps that only move the reconciliation or the script.
LEMMA RestKeeps ==
  ASSUME IInv,
         UNCHANGED << stored, record, active, download, call, handler, button, opened >>
  PROVE  IInv'
<1>1. Types' /\ OpenedOK' /\ UNCHANGED Started
  BY DEF IInv, Types, OpenedOK, Started
<1>2. CallsOK' /\ ButtonsOK' /\ ActiveHasTransfer'
  BY <1>1 DEF IInv, CallsOK, CallOK, OwnIds, ButtonsOK, ActiveHasTransfer
<1> QED BY <1>1, <1>2, OthersStay DEF IInv

LEMMA StepKeeps ==
  ASSUME IInv, [Next]_vars
  PROVE  IInv'
<1>1. CASE ScriptStep
  <2>1. ASSUME NEW c \in Slots, CallStep(c) PROVE IInv'
    BY <2>1, CallKeeps
  <2>2. ASSUME NEW w \in Who, NEW d \in Ids, HandlerStep(w, d) PROVE IInv'
    BY <2>2, HandlerKeeps
  <2>3. ASSUME NEW d \in Ids,
               Changed(d) \/ \E expired \in BOOLEAN : Reconcile(d, expired)
        PROVE  IInv'
    BY <2>3, EventKeeps
  <2>4. CASE Read
    BY <2>4, RestKeeps DEF Read, storage, browser
  <2> QED BY <1>1, <2>1, <2>2, <2>3, <2>4 DEF ScriptStep
<1>2. CASE User BY <1>2, UserKeeps
<1>3. CASE Browser
  <2>1. CASE Start
    BY <2>1, RestKeeps DEF Start, storage, browser
  <2>2. CASE Stop BY <2>2, StopKeeps
  <2>3. ASSUME NEW d \in Ids, DownloadEnds(d) PROVE IInv'
    BY <2>3, DownloadEndsKeeps
  <2> QED BY <1>3, <2>1, <2>2, <2>3 DEF Browser
<1>4. CASE UNCHANGED vars
  BY <1>4, RestKeeps DEF vars, storage, browser, script
<1> QED BY <1>1, <1>2, <1>3, <1>4 DEF Next

\* The only step that turns a button green.
LEMMA GreenOnlyByTell ==
  ASSUME IInv, [Next]_vars, NEW b \in Buttons, button[b].status # "ok",
         button'[b].status = "ok"
  PROVE  \E w \in Who, d \in Ids : Tell(w, d)
<1>1. ASSUME NEW c \in Slots, CallStep(c) PROVE FALSE
  <2>1. CASE \E w \in Who, d \in Ids : Retry(c, w, d)
    BY <2>1 DEF Retry
  <2>2. CASE Store(c)
    BY <2>2 DEF Store
  <2>3. CASE Lookup(c) \/ Count(c) \/ Download(c) \/ Accept(c)
    <3>1. \/ UNCHANGED button
          \/ \E shows \in [status : { "ready", "downloading" }, request : Nat] :
               Respond(c, shows)
      <4>1. Ready \in [status : { "ready", "downloading" }, request : Nat]
        BY DEF Ready
      <4>2. [status |-> "downloading", request |-> call[c].id]
              \in [status : { "ready", "downloading" }, request : Nat]
        BY <1>1, CallTyped
      <4> QED BY <2>3, <4>1, <4>2 DEF Lookup, Count, Download, Accept, Goes, Refused
    <3> QED BY <3>1 DEF Respond, IInv, Types
  <2> QED BY <1>1, <2>1, <2>2, <2>3 DEF CallStep
<1>2. ASSUME NEW w \in Who, NEW d \in Ids, HandlerStep(w, d), ~Tell(w, d) PROVE FALSE
  BY <1>2 DEF HandlerStep, Get, HandlerOnly, Native, Option, ForgetAndRetry, Finish
<1>3. ~(\E d \in Ids : Changed(d) \/ \E expired \in BOOLEAN : Reconcile(d, expired)) /\ ~Read
  BY DEF Changed, Reconcile, Read
<1>4. ~User
  BY DEF User, Click, Menu, IInv, Types
<1>5. ~Browser
  BY DEF Browser, Start, Stop, DownloadEnds, Ready
<1> QED BY <1>1, <1>2, <1>3, <1>4, <1>5 DEF Next, ScriptStep, vars

\* The only step that opens a download.
LEMMA OpenedOnlyByNative ==
  ASSUME IInv, [Next]_vars, opened' # opened
  PROVE  \E w \in Who, d \in Ids : Native(w, d)
<1>1. ASSUME NEW c \in Slots, CallStep(c) PROVE FALSE
  BY <1>1 DEF CallStep, Lookup, Count, Download, Store, Accept, Retry, CallOnly
<1>2. ASSUME NEW w \in Who, NEW d \in Ids, HandlerStep(w, d), ~Native(w, d) PROVE FALSE
  BY <1>2 DEF HandlerStep, Get, HandlerOnly, Tell, Option, ForgetAndRetry, Finish
<1>3. ~(\E d \in Ids : Changed(d) \/ \E expired \in BOOLEAN : Reconcile(d, expired)) /\ ~Read
  BY DEF Changed, Reconcile, Read
<1>4. ~User /\ ~Browser
  BY DEF User, Click, Menu, Browser, Start, Stop, DownloadEnds
<1> QED BY <1>1, <1>2, <1>3, <1>4 DEF Next, ScriptStep, vars

-----------------------------------------------------------------------------
(* The bounds of the counters.  That a retry count stays within MaxRetries   *)
(* rests on the counts of the downloads that wait for their retry, whose     *)
(* record is never written again.                                          *)

\* A call that runs.
OpenCalls == [pc : CallPcs, url : Urls, retry : 0..MaxRetries,
              button : Buttons \cup { NoButton }, id : 0..MaxDownloads]

Shown == [status : Statuses, request : 0..MaxDownloads]

EndedOrNot == { NoDownload } \cup [state : { "in_progress", "complete", "interrupted" },
                                   file : { "there", "removed" }]

Bounds ==
  /\ awake \in BOOLEAN /\ changed \subseteq Ids /\ timer \subseteq Who \X Ids
  /\ record \in [Ids -> [url : Urls \cup { NoUrl }, retry : 0..MaxRetries]]
  /\ active \in [Urls -> 0..MaxDownloads]
  /\ download \in [Ids -> EndedOrNot]
  /\ call \in [Slots -> { NoCall } \cup OpenCalls]
  /\ button \in [Buttons -> Shown]

\* What waits for the broker or for its retry was written, and what waits for
\* its retry may be tried again.
RetriesOK ==
  /\ reconcile \in [todo : SUBSET Ids, phase : { "done", "read", "loop" }]
  /\ \A d \in reconcile.todo : record[d].url # NoUrl
  /\ \A w \in Who, d \in Ids :
       /\ handler[<< w, d >>] \in { "native", "option", "retry" } => record[d].url # NoUrl
       /\ handler[<< w, d >>] = "retry" \/ << w, d >> \in timer
            => record[d].url # NoUrl /\ record[d].retry < MaxRetries

Bounded == Bounds /\ RetriesOK

LEMMA InitBounded == Init => Bounded
<1> SUFFICES ASSUME Init PROVE Bounded
  OBVIOUS
<1>1. Bounds
  <2>1. 0 \in 0..MaxRetries /\ 0 \in 0..MaxDownloads
    BY ExtensionAssumption
  <2>2. Ready \in Shown /\ NoDownload \in EndedOrNot
    BY <2>1 DEF Ready, Shown, Statuses, EndedOrNot
  <2>3. [url |-> NoUrl, retry |-> 0] \in [url : Urls \cup { NoUrl }, retry : 0..MaxRetries]
    BY <2>1
  <2> QED BY <2>1, <2>2, <2>3 DEF Init, Bounds
<1>2. RetriesOK
  BY DEF Init, RetriesOK, Resting
<1> QED BY <1>1, <1>2 DEF Bounded

LEMMA BoundedTypes ==
  ASSUME IInv, Bounded
  PROVE  TypeOK
<1>1. stored \subseteq Ids /\ opened \subseteq Ids /\ handler \in [Who \X Ids -> HandlerPcs]
  BY DEF IInv, Types
<1> QED BY <1>1 DEF Bounded, Bounds, TypeOK, OpenCalls, Shown, EndedOrNot, HandlerPcs, Statuses

\* Steps that leave the retries that wait, or take one away.
LEMMA RetriesStay ==
  ASSUME RetriesOK, UNCHANGED << record, reconcile, handler >>, timer' \subseteq timer
  PROVE  RetriesOK'
  BY DEF RetriesOK

\* One handler goes on, to a retry only if the download may be retried.
LEMMA RetriesMoved ==
  ASSUME IInv, RetriesOK, NEW w \in Who, NEW d \in Ids, NEW pc, At(w, d, pc),
         pc \in { "native", "option", "retry" } => record[d].url # NoUrl,
         pc = "retry" => record[d].retry < MaxRetries,
         UNCHANGED record, reconcile' \in [todo : SUBSET reconcile.todo,
                                           phase : { "done", "read", "loop" }],
         timer' \subseteq timer \cup { << w, d >> },
         timer' # timer => handler[<< w, d >>] = "retry"
  PROVE  RetriesOK'
<1>1. /\ handler \in [Who \X Ids -> HandlerPcs]
      /\ handler' = [handler EXCEPT ![<< w, d >>] = pc]
  BY DEF IInv, Types, At
<1>2. ASSUME NEW v \in Who, NEW e \in Ids
      PROVE  /\ handler'[<< v, e >>] \in { "native", "option", "retry" }
                  => record[e].url # NoUrl
             /\ handler'[<< v, e >>] = "retry" \/ << v, e >> \in timer'
                  => record[e].url # NoUrl /\ record[e].retry < MaxRetries
  <2>1. << v, e >> \in Who \X Ids
    OBVIOUS
  <2>2. CASE << v, e >> = << w, d >>
    <3>1. handler'[<< w, d >>] = pc /\ e = d /\ v = w
      BY <1>1, <2>1, <2>2
    <3>2. << w, d >> \in timer' =>
            << w, d >> \in timer \/ handler[<< w, d >>] = "retry"
      OBVIOUS
    <3> QED BY <3>1, <3>2 DEF RetriesOK
  <2>3. CASE << v, e >> # << w, d >>
    <3>1. handler'[<< v, e >>] = handler[<< v, e >>]
      BY <1>1, <2>1, <2>3
    <3>2. << v, e >> \in timer' => << v, e >> \in timer
      BY <2>3
    <3> QED BY <3>1, <3>2 DEF RetriesOK
  <2> QED BY <2>2, <2>3
<1>3. /\ reconcile' \in [todo : SUBSET Ids, phase : { "done", "read", "loop" }]
      /\ reconcile'.todo \subseteq reconcile.todo
  BY DEF RetriesOK
<1> QED BY <1>2, <1>3 DEF RetriesOK

\* A call and a button that change.
LEMMA CallBounded ==
  ASSUME Bounds, NEW c \in Slots, NEW r \in { NoCall } \cup OpenCalls,
         call' = [call EXCEPT ![c] = r]
  PROVE  call' \in [Slots -> { NoCall } \cup OpenCalls]
<1> HIDE DEF OpenCalls
<1> QED BY DEF Bounds

LEMMA CalledBounded ==
  ASSUME Bounds, NEW c \in Slots, NEW u \in Urls, NEW retry \in 0..MaxRetries,
         NEW b \in Buttons \cup { NoButton }, Called(c, u, retry, b)
  PROVE  call' \in [Slots -> { NoCall } \cup OpenCalls]
<1>1. [pc |-> "lookup", url |-> u, retry |-> retry, button |-> b, id |-> 0] \in OpenCalls
  BY ExtensionAssumption DEF OpenCalls, CallPcs
<1> QED BY <1>1, CallBounded DEF Called

LEMMA RespondBounded ==
  ASSUME Bounds, NEW c \in Slots, NEW shows \in Shown, Respond(c, shows)
  PROVE  /\ call' \in [Slots -> { NoCall } \cup OpenCalls]
         /\ button' \in [Buttons -> Shown]
<1>1. call' \in [Slots -> { NoCall } \cup OpenCalls]
  BY CallBounded DEF Respond
<1>2. button' \in [Buttons -> Shown]
  BY DEF Bounds, Respond
<1> QED BY <1>1, <1>2

LEMMA GoesBounded ==
  ASSUME IInv, Bounds, NEW c \in Slots, NEW pc \in CallPcs, NEW id \in 0..MaxDownloads,
         Goes(c, pc, id), call[c].pc # "none"
  PROVE  call' \in [Slots -> { NoCall } \cup OpenCalls]
<1>1. call[c] \in OpenCalls
  BY DEF Bounds, NoCall
<1>2. Moved(call[c], pc, id) \in OpenCalls
  <2>1. PICK r \in OpenCalls : r = call[c]
    BY <1>1
  <2>2. PICK p \in CallPcs, u \in Urls, n \in 0..MaxRetries,
             b \in Buttons \cup { NoButton }, i \in 0..MaxDownloads :
          r = [pc |-> p, url |-> u, retry |-> n, button |-> b, id |-> i]
    BY DEF OpenCalls
  <2>3. Moved(r, pc, id) = [pc |-> pc, url |-> u, retry |-> n, button |-> b, id |-> id]
    <3>1. [r EXCEPT !.pc = pc] = [pc |-> pc, url |-> u, retry |-> n, button |-> b, id |-> i]
      BY <2>2
    <3>2. [[pc |-> pc, url |-> u, retry |-> n, button |-> b, id |-> i] EXCEPT !.id = id]
            = [pc |-> pc, url |-> u, retry |-> n, button |-> b, id |-> id]
      OBVIOUS
    <3> QED BY <3>1, <3>2 DEF Moved
  <2> QED BY <2>1, <2>3 DEF OpenCalls
<1>3. call \in [Slots -> Calls] /\ id \in Nat
  BY ExtensionAssumption DEF IInv, Types
<1>4. call' = [call EXCEPT ![c] = Moved(call[c], pc, id)]
  BY <1>3, MovedExcept
<1> QED BY <1>2, <1>4, CallBounded

LEMMA CallStepBounded ==
  ASSUME IInv, Bounded, NEW c \in Slots, CallStep(c)
  PROVE  Bounded'
<1> USE DEF Bounded
<1>1. CASE Lookup(c) \/ Count(c) \/ Accept(c)
  <2>1. UNCHANGED << stored, record, active, download, changed, awake, handler, timer,
                     reconcile, opened >>
    BY <1>1 DEF Lookup, Count, Accept, CallOnly, storage, browser
  <2>2. Ready \in Shown
    BY ExtensionAssumption DEF Ready, Shown, Statuses
  <2>3. \A i \in 0..MaxDownloads : [status |-> "downloading", request |-> i] \in Shown
    BY DEF Shown, Statuses
  <2>4. call[c] \in OpenCalls
    BY <1>1 DEF Bounds, NoCall, Lookup, Count, Accept
  <2>5. /\ call[c].id \in 0..MaxDownloads
        /\ active[call[c].url] \in 0..MaxDownloads /\ 0 \in 0..MaxDownloads
    BY <2>4, ExtensionAssumption DEF Bounds, OpenCalls
  <2>6. \/ \E shows \in Shown : Respond(c, shows)
        \/ \E pc \in CallPcs, id \in 0..MaxDownloads : Goes(c, pc, id) /\ call[c].pc # "none"
    <3>1. { "accept", "count", "download" } \subseteq CallPcs
      BY DEF CallPcs
    <3>2. CASE Lookup(c)
      BY <3>1, <3>2, <2>5 DEF Lookup
    <3>3. CASE Count(c)
      BY <3>1, <3>3, <2>2, <2>5 DEF Count, Refused
    <3>4. CASE Accept(c)
      BY <3>4, <2>3, <2>5 DEF Accept
    <3> QED BY <1>1, <3>2, <3>3, <3>4
  <2>7. call' \in [Slots -> { NoCall } \cup OpenCalls] /\ button' \in [Buttons -> Shown]
    <3>1. ASSUME NEW shows \in Shown, Respond(c, shows)
          PROVE  call' \in [Slots -> { NoCall } \cup OpenCalls] /\ button' \in [Buttons -> Shown]
      BY <3>1, RespondBounded
    <3>2. ASSUME NEW pc \in CallPcs, NEW id \in 0..MaxDownloads, Goes(c, pc, id),
                 call[c].pc # "none"
          PROVE  call' \in [Slots -> { NoCall } \cup OpenCalls] /\ button' \in [Buttons -> Shown]
      <4>1. call' \in [Slots -> { NoCall } \cup OpenCalls]
        BY <3>2, GoesBounded
      <4>2. button' = button
        BY <3>2 DEF Goes
      <4> QED BY <4>1, <4>2 DEF Bounds
    <3> QED BY <2>6, <3>1, <3>2
  <2> QED BY <2>1, <2>7, RetriesStay DEF Bounds
<1>2. CASE Download(c)
  <2>1. UNCHANGED << record, active, changed, awake, handler, timer, reconcile >>
    BY <1>2 DEF Download, storage
  <2>2. CASE Refused(c) /\ UNCHANGED download
    <3>1. Ready \in Shown
      BY ExtensionAssumption DEF Ready, Shown, Statuses
    <3>2. call' \in [Slots -> { NoCall } \cup OpenCalls] /\ button' \in [Buttons -> Shown]
      BY <2>2, <3>1, RespondBounded DEF Refused
    <3> QED BY <2>1, <2>2, <3>2, RetriesStay DEF Bounds
  <2>3. ASSUME NEW d, d = Cardinality(Started) + 1, Cardinality(Started) < MaxDownloads,
               download' = [download EXCEPT ![d] = [state |-> "in_progress",
                                                    file |-> "there"]],
               Goes(c, "store", d)
        PROVE  Bounded'
    <3>1. d \in Ids /\ d \in 0..MaxDownloads
      BY <2>3, NextIsFresh DEF Ids
    <3>2. "store" \in CallPcs /\ call[c].pc # "none"
      BY <1>2 DEF Download, CallPcs
    <3>3. call' \in [Slots -> { NoCall } \cup OpenCalls]
      BY <2>3, <3>1, <3>2, GoesBounded
    <3>4. [state |-> "in_progress", file |-> "there"] \in EndedOrNot
      BY DEF EndedOrNot
    <3>5. download' \in [Ids -> EndedOrNot]
      BY <2>3, <3>4 DEF Bounds
    <3>6. button' = button
      BY <2>3 DEF Goes
    <3> QED BY <2>1, <3>3, <3>5, <3>6, RetriesStay DEF Bounds
  <2> QED BY <1>2, <2>2, <2>3 DEF Download
<1>3. CASE Store(c)
  <2> DEFINE d == call[c].id
             u == call[c].url
  <2>1. /\ record' = [record EXCEPT ![d] = [url |-> u, retry |-> call[c].retry]]
        /\ active' = [active EXCEPT ![u] = d]
        /\ call' = [call EXCEPT ![c] = [call[c] EXCEPT !.pc = "accept"]]
        /\ UNCHANGED << download, changed, awake, handler, timer, reconcile, button >>
    BY <1>3 DEF Store, browser
  <2>2. call[c] \in OpenCalls
    BY <1>3 DEF Bounds, NoCall, Store
  <2>3. /\ u \in Urls /\ d \in 0..MaxDownloads /\ call[c].retry \in 0..MaxRetries
        /\ [call[c] EXCEPT !.pc = "accept"] \in OpenCalls
    BY <2>2 DEF OpenCalls, CallPcs
  <2>4. d \in Ids /\ record[d].url = NoUrl
    BY <1>3 DEF Store, IInv, CallsOK, CallOK, Started
  <2> HIDE DEF d, u
  <2>5. call' \in [Slots -> { NoCall } \cup OpenCalls]
    BY <2>1, <2>3, CallBounded
  <2>6. /\ record' \in [Ids -> [url : Urls \cup { NoUrl }, retry : 0..MaxRetries]]
        /\ \A e \in Ids \ {d} : record'[e] = record[e]
    BY <2>1, <2>3 DEF Bounds
  <2>7. active' \in [Urls -> 0..MaxDownloads]
    BY <2>1, <2>3 DEF Bounds
  <2>8. RetriesOK'
    BY <2>1, <2>4, <2>6 DEF RetriesOK
  <2> QED BY <2>1, <2>5, <2>6, <2>7, <2>8 DEF Bounds
<1>4. ASSUME NEW w \in Who, NEW d \in Ids, Retry(c, w, d) PROVE Bounded'
  <2>1. /\ Called(c, record[d].url, record[d].retry + 1, NoButton)
        /\ timer' = timer \ { << w, d >> } /\ << w, d >> \in timer
        /\ UNCHANGED << record, active, download, changed, awake, handler, reconcile, button >>
    BY <1>4 DEF Retry, storage, browser
  <2>2. record[d].url \in Urls /\ record[d].retry < MaxRetries /\ record[d].retry \in 0..MaxRetries
    BY <2>1 DEF Bounds, RetriesOK
  <2>3. record[d].retry + 1 \in 0..MaxRetries
    BY <2>2, ExtensionAssumption
  <2>4. call' \in [Slots -> { NoCall } \cup OpenCalls]
    BY <2>1, <2>2, <2>3, CalledBounded
  <2> QED BY <2>1, <2>4, RetriesStay DEF Bounds
<1> QED BY <1>1, <1>2, <1>3, <1>4 DEF CallStep

\* The reconciliation stays the one it is.
LEMMA ReconcileStays ==
  ASSUME RetriesOK, UNCHANGED reconcile
  PROVE  reconcile' \in [todo : SUBSET reconcile.todo, phase : { "done", "read", "loop" }]
  BY DEF RetriesOK

LEMMA HandlerStepBounded ==
  ASSUME IInv, Bounded, NEW w \in Who, NEW d \in Ids, HandlerStep(w, d)
  PROVE  Bounded'
<1> USE DEF Bounded
<1>1. CASE Get(w, d)
  <2>1. PICK pc \in { "native", "fail" } :
          At(w, d, IF d \notin stored THEN "none"
                   ELSE IF w = "event" /\ download[d].state = "interrupted"
                        THEN Interrupted(d)
                   ELSE IF download[d].file = "removed" THEN "fail"
                   ELSE pc)
    BY <1>1 DEF Get
  <2>2. PICK to : /\ At(w, d, to)
                  /\ to \in { "native", "option", "retry" } => d \in stored
                  /\ to = "retry" => record[d].retry < MaxRetries
    BY <2>1 DEF Interrupted
  <2>3. UNCHANGED << record, active, download, changed, awake, call, timer, reconcile, button >>
    BY <1>1 DEF Get, HandlerOnly, storage, browser
  <2>4. to \in { "native", "option", "retry" } => record[d].url # NoUrl
    BY <2>2 DEF IInv, WrittenOnce
  <2>5. RetriesOK'
    BY <2>2, <2>3, <2>4, RetriesMoved, ReconcileStays
  <2> QED BY <2>3, <2>5 DEF Bounds
<1>2. CASE Native(w, d)
  <2>1. PICK pc \in { "option", "fail" } : At(w, d, pc)
    BY <1>2 DEF Native, Answered
  <2>2. UNCHANGED << record, active, download, changed, awake, call, timer, reconcile, button >>
    BY <1>2 DEF Native, storage, browser
  <2>3. record[d].url # NoUrl
    BY <1>2 DEF Native, RetriesOK
  <2>4. RetriesOK'
    BY <2>1, <2>2, <2>3, RetriesMoved, ReconcileStays
  <2> QED BY <2>2, <2>4 DEF Bounds
<1>3. CASE Option(w, d)
  <2>1. PICK file \in { download[d].file, "removed" } :
          download' = [download EXCEPT ![d] = [download[d] EXCEPT !.file = file]]
    BY <1>3 DEF Option
  <2>2. /\ At(w, d, "succeed") /\ handler[<< w, d >>] = "option"
        /\ UNCHANGED << record, active, changed, awake, call, timer, reconcile, button >>
    BY <1>3 DEF Option, storage
  <2>3. d \in Started
    BY <2>2 DEF RetriesOK, IInv, WrittenOnce
  <2>4. download[d] \in [state : { "in_progress", "complete", "interrupted" },
                         file : { "there", "removed" }]
    BY <2>3 DEF Bounds, EndedOrNot, NoDownload, Started
  <2>5. [download[d] EXCEPT !.file = file] \in EndedOrNot
    BY <2>4 DEF EndedOrNot
  <2>6. download' \in [Ids -> EndedOrNot]
    BY <2>1, <2>5 DEF Bounds
  <2>7. RetriesOK'
    BY <2>2, RetriesMoved, ReconcileStays
  <2> QED BY <2>2, <2>6, <2>7 DEF Bounds
<1>4. CASE ForgetAndRetry(w, d) \/ Finish(w, d)
  <2>1. /\ active' = [active EXCEPT ![record[d].url] = 0]
        /\ UNCHANGED << record, download, changed, awake, call, reconcile, button >>
    <3>1. CASE ForgetAndRetry(w, d)
      BY <3>1 DEF ForgetAndRetry, Forget
    <3>2. CASE Finish(w, d)
      BY <3>2 DEF Finish, Forget
    <3> QED BY <1>4, <3>1, <3>2
  <2>2. active' \in [Urls -> 0..MaxDownloads]
    <3>1. active \in [Urls -> 0..MaxDownloads] /\ 0 \in 0..MaxDownloads
      BY ExtensionAssumption DEF Bounds
    <3>2. \A v : [active EXCEPT ![v] = 0] \in [Urls -> 0..MaxDownloads]
      BY <3>1
    <3> QED BY <2>1, <3>2
  <2>3. PICK pc \in { "none", "tellOpened", "tellFailed" } : At(w, d, pc)
    BY <1>4 DEF ForgetAndRetry, Finish
  <2>4. /\ timer' \subseteq timer \cup { << w, d >> }
        /\ timer' # timer => handler[<< w, d >>] = "retry"
    BY <1>4 DEF ForgetAndRetry, Finish
  <2>5. RetriesOK'
    BY <2>1, <2>3, <2>4, RetriesMoved, ReconcileStays
  <2> QED BY <2>1, <2>2, <2>4, <2>5 DEF Bounds
<1>5. CASE Tell(w, d)
  <2>1. /\ At(w, d, "none")
        /\ UNCHANGED << record, active, download, changed, awake, call, timer, reconcile >>
    BY <1>5 DEF Tell, storage, browser
  <2>2. Ready \in Shown /\ [Ready EXCEPT !.status = "ok"] \in Shown
    BY ExtensionAssumption DEF Ready, Shown, Statuses
  <2>3. button' \in [Buttons -> Shown]
    BY <1>5, <2>2 DEF Tell, Bounds
  <2>4. RetriesOK'
    BY <2>1, RetriesMoved, ReconcileStays
  <2> QED BY <2>1, <2>3, <2>4 DEF Bounds
<1> QED BY <1>1, <1>2, <1>3, <1>4, <1>5 DEF HandlerStep

LEMMA EventBounded ==
  ASSUME IInv, Bounded, NEW d \in Ids,
         Changed(d) \/ \E expired \in BOOLEAN : Reconcile(d, expired)
  PROVE  Bounded'
<1> USE DEF Bounded
<1>1. CASE Changed(d)
  <2>1. /\ At("event", d, "get") /\ changed' = changed \ {d}
        /\ UNCHANGED << record, active, download, awake, call, timer, reconcile, button >>
    BY <1>1 DEF Changed, At, storage
  <2>2. RetriesOK'
    BY <2>1, RetriesMoved, ReconcileStays DEF Who
  <2> QED BY <2>1, <2>2 DEF Bounds
<1>2. ASSUME NEW expired \in BOOLEAN, Reconcile(d, expired) PROVE Bounded'
  <2>1. /\ d \in reconcile.todo
        /\ reconcile' = [reconcile EXCEPT !.todo = @ \ {d}]
        /\ UNCHANGED << record, active, download, changed, awake, call, timer, button >>
    BY <1>2 DEF Reconcile, storage, browser
  <2>2. PICK pc : /\ At("reconcile", d, pc) /\ pc \notin { "native", "option" }
                  /\ pc = "retry" => record[d].retry < MaxRetries
    BY <1>2 DEF Reconcile, Interrupted
  <2>3. record[d].url # NoUrl
    BY <2>1 DEF RetriesOK
  <2>4. reconcile' \in [todo : SUBSET reconcile.todo, phase : { "done", "read", "loop" }]
    BY <2>1 DEF RetriesOK
  <2>5. RetriesOK'
    BY <2>1, <2>2, <2>3, <2>4, RetriesMoved DEF Who
  <2> QED BY <2>1, <2>5 DEF Bounds
<1> QED BY <1>1, <1>2

LEMMA UserBounded ==
  ASSUME IInv, Bounded, User
  PROVE  Bounded'
<1> USE DEF Bounded
<1>1. PICK c \in Slots : (\E b \in Buttons : Click(c, b)) \/ (\E u \in Links : Menu(c, u))
  BY DEF User
<1>2. ASSUME NEW u, NEW b, Called(c, u, 0, b), u \in Urls, b \in Buttons \cup { NoButton }
      PROVE  call' \in [Slots -> { NoCall } \cup OpenCalls]
  BY <1>2, CalledBounded, ExtensionAssumption
<1>3. ASSUME NEW b \in Buttons, Click(c, b) PROVE Bounded'
  <2>1. /\ Called(c, UrlOf[b], 0, b) /\ UrlOf[b] \in Urls
        /\ button' = [button EXCEPT ![b] = [button[b] EXCEPT !.status = "downloading"]]
        /\ UNCHANGED << record, active, download, changed, awake, handler, timer, reconcile >>
    BY <1>3, ExtensionAssumption DEF Click, storage, browser
  <2>2. [button[b] EXCEPT !.status = "downloading"] \in Shown
    BY DEF Bounds, Shown, Statuses
  <2>3. button' \in [Buttons -> Shown]
    BY <2>1, <2>2 DEF Bounds
  <2>4. call' \in [Slots -> { NoCall } \cup OpenCalls]
    BY <1>2, <2>1
  <2> QED BY <2>1, <2>3, <2>4, RetriesStay DEF Bounds
<1>4. ASSUME NEW u \in Links, Menu(c, u) PROVE Bounded'
  <2>1. /\ Called(c, u, 0, NoButton) /\ u \in Urls
        /\ UNCHANGED << record, active, download, changed, awake, handler, timer, reconcile,
                        button >>
    BY <1>4, ExtensionAssumption DEF Menu, storage, browser
  <2>2. call' \in [Slots -> { NoCall } \cup OpenCalls]
    BY <1>2, <2>1
  <2> QED BY <2>1, <2>2, RetriesStay DEF Bounds
<1> QED BY <1>1, <1>3, <1>4

LEMMA BrowserBounded ==
  ASSUME IInv, Bounded, Browser
  PROVE  Bounded'
<1> USE DEF Bounded
<1>1. CASE Start
  <2>1. /\ awake' = TRUE /\ reconcile' = [todo |-> {}, phase |-> "read"]
        /\ UNCHANGED << record, active, download, changed, call, handler, timer, button >>
    BY <1>1 DEF Start, storage, browser
  <2> QED BY <2>1 DEF Bounds, RetriesOK
<1>2. CASE Stop
  <2>1. /\ awake' = FALSE /\ timer' = {} /\ reconcile' = [todo |-> {}, phase |-> "done"]
        /\ call' = [c \in Slots |-> NoCall] /\ handler' = [k \in Who \X Ids |-> "none"]
        /\ button' = [b \in Buttons |->
             IF \E c \in Slots : call[c].button = b THEN Ready ELSE button[b]]
        /\ UNCHANGED << record, active, download, changed >>
    BY <1>2 DEF Stop, storage, browser, Resting
  <2>2. Ready \in Shown
    BY ExtensionAssumption DEF Ready, Shown, Statuses
  <2>3. button' \in [Buttons -> Shown]
    BY <2>1, <2>2 DEF Bounds
  <2>4. RetriesOK'
    BY <2>1 DEF RetriesOK
  <2> QED BY <2>1, <2>3, <2>4 DEF Bounds
<1>3. ASSUME NEW d \in Ids, DownloadEnds(d) PROVE Bounded'
  <2>1. PICK state \in { "complete", "interrupted" } :
          download' = [download EXCEPT ![d] = [download[d] EXCEPT !.state = state]]
    BY <1>3 DEF DownloadEnds
  <2>2. /\ download[d].state = "in_progress" /\ changed' = changed \cup {d}
        /\ UNCHANGED << record, active, awake, call, handler, timer, reconcile, button >>
    BY <1>3 DEF DownloadEnds, storage, script
  <2>3. [download[d] EXCEPT !.state = state] \in EndedOrNot
    BY <2>2 DEF Bounds, EndedOrNot, NoDownload
  <2>4. download' \in [Ids -> EndedOrNot]
    BY <2>1, <2>3 DEF Bounds
  <2> QED BY <2>2, <2>4, RetriesStay DEF Bounds
<1> QED BY <1>1, <1>2, <1>3 DEF Browser

LEMMA StepBounded ==
  ASSUME IInv, Bounded, [Next]_vars
  PROVE  Bounded'
<1>1. CASE ScriptStep
  <2>1. CASE Read
    <3>1. /\ reconcile' = [todo |-> stored, phase |-> "loop"]
          /\ UNCHANGED << record, active, download, changed, awake, call, handler, timer,
                          button >>
      BY <2>1 DEF Read, storage, browser
    <3>2. \A d \in stored : d \in Ids /\ record[d].url # NoUrl
      BY DEF IInv, Types, WrittenOnce
    <3> QED BY <3>1, <3>2 DEF Bounded, Bounds, RetriesOK
  <2> QED BY <1>1, <2>1, CallStepBounded, HandlerStepBounded, EventBounded DEF ScriptStep
<1>2. CASE UNCHANGED vars
  BY <1>2, RetriesStay DEF vars, storage, browser, script, Bounded, Bounds
<1> QED BY <1>1, <1>2, UserBounded, BrowserBounded DEF Next

-----------------------------------------------------------------------------
(* The theorems.                                                           *)

\* Marks, transfers, calls, buttons and downloads stay tied together, whatever
\* the browser, the user and the stops of the script do.
THEOREM ExtensionInvariance == Spec => []IInv
<1>1. ASSUME IInv, [Next]_vars PROVE IInv'
  BY <1>1, StepKeeps
<1> QED BY <1>1, InitHolds, PTL DEF Spec

\* An attachment that is marked as active has a transfer of its own, for any
\* number of downloads, calls at a time and retries (service-worker.js:174).
THEOREM MarksHaveTransfers == Spec => []ActiveHasTransfer
<1>1. IInv => ActiveHasTransfer
  BY DEF IInv
<1> QED BY <1>1, ExtensionInvariance, PTL

\* The types and the bounds of the counters: in particular no download is tried
\* more than MaxRetries times over, and no request is named that was not given
\* out, for any number of downloads (service-worker.js:229).
THEOREM ExtensionTypes == Spec => []TypeOK
<1>1. ASSUME IInv, Bounded, [Next]_vars PROVE Bounded'
  BY <1>1, StepBounded
<1>2. IInv /\ Bounded => TypeOK
  BY BoundedTypes
<1>3. Spec => []Bounded
  BY <1>1, InitBounded, ExtensionInvariance, PTL DEF Spec
<1> QED BY <1>2, <1>3, ExtensionInvariance, PTL

\* No button is green and no copy is removed before its own transfer was opened
\* (service-worker.js:251).
THEOREM GreenOnlyAfterOpening == Spec => OnlyAfterOpening
<1> DEFINE Turns ==
      /\ \A b \in Buttons :
           button[b].status # "ok" /\ button'[b].status = "ok"
             => button[b].request \in opened /\ record[button[b].request].url = UrlOf[b]
      /\ \A d \in Ids : download'[d].file = "removed" => d \in opened
<1>1. ASSUME IInv, [Next]_vars PROVE [Turns]_vars
  <2>1. IInv'
    BY <1>1, StepKeeps
  <2>2. ASSUME NEW b \in Buttons, button[b].status # "ok", button'[b].status = "ok"
        PROVE  button[b].request \in opened /\ record[button[b].request].url = UrlOf[b]
    <3>1. PICK w \in Who, d \in Ids : Tell(w, d)
      BY <1>1, <2>2, GreenOnlyByTell
    <3>2. b \in WaitingFor(d) /\ handler[<< w, d >>] = "tellOpened"
      BY <2>2, <3>1 DEF Tell, Ready
    <3>3. button[b].request = d /\ d \in opened /\ d # 0
      BY <1>1, <3>2, ExtensionAssumption DEF WaitingFor, IInv, OpenedOK, Ids
    <3> QED BY <1>1, <3>3 DEF IInv, ButtonsOK
  <2>3. ASSUME NEW d \in Ids, download'[d].file = "removed"
        PROVE  d \in opened
    <3>1. d \in opened'
      BY <2>1, <2>3 DEF IInv, OpenedOK
    <3>2. CASE opened' = opened
      BY <3>1, <3>2
    <3>3. CASE opened' # opened
      <4>1. \E w \in Who, e \in Ids : Native(w, e)
        BY <1>1, <3>3, OpenedOnlyByNative
      <4>2. download' = download
        BY <4>1 DEF Native, browser
      <4> QED BY <1>1, <2>3, <4>2 DEF IInv, OpenedOK
    <3> QED BY <3>2, <3>3
  <2> QED BY <2>2, <2>3
<1>2. Spec => [][Turns]_vars
  BY <1>1, ExtensionInvariance, PTL DEF Spec
<1> QED BY <1>2 DEF OnlyAfterOpening
=============================================================================
