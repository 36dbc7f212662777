------------------------- MODULE DocumentManager_proof -------------------------
(***************************************************************************)
(* The document manager keeps its tables, its backend and its cache tied   *)
(* together, for any contents, limits and numbers of sessions.  None of    *)
(* the invariants of DocumentManager is inductive by itself: that cached   *)
(* pages are current, say, rests on document ids being unique across the   *)
(* sessions of the backend and below its counter.  IInv adds what is       *)
(* missing.                                                                *)
(*                                                                         *)
(* The first lemmas are about the two parts: each method of a sandbox      *)
(* backend applied to a well-formed backend, whatever its outcome, and     *)
(* each operation of the page cache applied to the pages it holds, for     *)
(* every capacity and whatever its order is.  The steps of the manager     *)
(* rest on them and never look into the methods again.                     *)
(***************************************************************************)
EXTENDS DocumentManager, FiniteSetTheorems, TLAPS

-----------------------------------------------------------------------------
(* The backend.                                                            *)

\* The shape of a backend: a table of functions, every session's sandbox one
\* of the table's, and ids below the counters they are drawn from.
BackendShape(be) ==
  /\ be = [sessions |-> be.sessions, sandboxes |-> be.sandboxes,
           nextSession |-> be.nextSession, nextDocument |-> be.nextDocument]
  /\ be.nextSession \in Nat
  /\ be.nextDocument \in Nat
  /\ be.sessions = [s \in DOMAIN be.sessions |-> be.sessions[s]]
  /\ DOMAIN be.sessions \subseteq 1 .. be.nextSession
  /\ be.sandboxes \subseteq DOMAIN be.sessions

\* What one session holds: byte strings under ids drawn from the counter.
SessionOK(be, s) ==
  /\ be.sessions[s] = [d \in DOMAIN be.sessions[s] |-> be.sessions[s][d]]
  /\ DOMAIN be.sessions[s] \subseteq 1 .. be.nextDocument
  /\ \A d \in DOMAIN be.sessions[s] : be.sessions[s][d] \in Contents

\* No document id is used by two sessions.
DocumentIdsUnique(be) ==
  \A s, t \in DOMAIN be.sessions :
    \A d \in DOMAIN be.sessions[s] : d \in DOMAIN be.sessions[t] => s = t

BackendOK(be) ==
  /\ BackendShape(be)
  /\ \A s \in DOMAIN be.sessions : SessionOK(be, s)
  /\ DocumentIdsUnique(be)

\* The table and the counters are as they were; sandboxes may have died.
SameTable(be, after) ==
  /\ after.sessions = be.sessions
  /\ after.nextSession = be.nextSession
  /\ after.nextDocument = be.nextDocument
  /\ after.sandboxes \subseteq be.sandboxes

\* An outcome is a record of its three fields.
OutcomeShape(o) ==
  o = [backend |-> o.backend, ok |-> o.ok, result |-> o.result]

-----------------------------------------------------------------------------
\* A new backend is well formed.
LEMMA InitBackendOK == BackendOK(InitBackend)
  BY DEF BackendOK, BackendShape, SessionOK, DocumentIdsUnique, InitBackend,
         NoSessions

\* A backend given field by field, and a session that is carried over.
LEMMA ExplicitBackend ==
  ASSUME NEW be, NEW t, NEW x, NEW m, NEW n,
         be = [sessions |-> t, sandboxes |-> x, nextSession |-> m, nextDocument |-> n]
  PROVE  be = [sessions |-> be.sessions, sandboxes |-> be.sandboxes,
               nextSession |-> be.nextSession, nextDocument |-> be.nextDocument]
<1>1. be.sessions = t /\ be.sandboxes = x /\ be.nextSession = m /\ be.nextDocument = n
  OBVIOUS
<1> QED
  BY <1>1

LEMMA SessionCarried ==
  ASSUME NEW be, NEW after, NEW s, SessionOK(be, s),
         after.sessions[s] = be.sessions[s], after.nextDocument = be.nextDocument
  PROVE  SessionOK(after, s)
  BY DEF SessionOK

\* Killing a worker keeps the table (ProcessTransport::terminate).
LEMMA KillKeepsTable ==
  ASSUME NEW be, NEW s, BackendOK(be)
  PROVE  /\ BackendOK(Kill(be, s))
         /\ SameTable(be, Kill(be, s))
         /\ Kill(be, s).sandboxes = be.sandboxes \ {s}
<1>1. Kill(be, s) = [sessions |-> be.sessions, sandboxes |-> be.sandboxes \ {s},
                     nextSession |-> be.nextSession,
                     nextDocument |-> be.nextDocument]
  BY DEF Kill, BackendOK, BackendShape
<1>2. SameTable(be, Kill(be, s)) /\ Kill(be, s).sandboxes = be.sandboxes \ {s}
  BY <1>1 DEF SameTable
<1>3. BackendShape(Kill(be, s))
  BY <1>1 DEF BackendOK, BackendShape
<1>4. \A t \in DOMAIN Kill(be, s).sessions : SessionOK(Kill(be, s), t)
  BY <1>1 DEF BackendOK, SessionOK
<1>5. DocumentIdsUnique(Kill(be, s))
  BY <1>1 DEF BackendOK, DocumentIdsUnique
<1> QED
  BY <1>2, <1>3, <1>4, <1>5 DEF BackendOK

\* A request keeps the table, and succeeds only with its answer.
LEMMA RequestKeepsTable ==
  ASSUME NEW be, NEW s, NEW answer, BackendOK(be),
         NEW o \in Request(be, s, answer)
  PROVE  /\ OutcomeShape(o) /\ o.ok \in BOOLEAN
         /\ BackendOK(o.backend)
         /\ SameTable(be, o.backend)
         /\ o.ok => o.result = answer
         /\ ~o.ok => "error" \in DOMAIN o.result
<1>1. BackendOK(Kill(be, s)) /\ SameTable(be, Kill(be, s))
  BY KillKeepsTable
<1>2. SameTable(be, be)
  BY DEF SameTable
<1>3. CASE o \in FailedRequest(be, s)
  <2>1. PICK code : o = Outcome(Kill(be, s), FALSE, Error(code))
    BY <1>3 DEF FailedRequest
  <2> QED
    BY <2>1, <1>1 DEF Outcome, OutcomeShape, Error
<1>4. CASE o = Outcome(be, TRUE, answer)
  BY <1>4, <1>2 DEF Outcome, OutcomeShape
<1>5. CASE o \in Refusals(be)
  <2>1. PICK code : o = Outcome(be, FALSE, Error(code))
    BY <1>5 DEF Refusals
  <2> QED
    BY <2>1, <1>2 DEF Outcome, OutcomeShape, Error
<1> QED
  BY <1>3, <1>4, <1>5 DEF Request

-----------------------------------------------------------------------------
\* Using up a session id keeps a backend well formed.
LEMMA CountingKeepsTable ==
  ASSUME NEW be, BackendOK(be)
  PROVE  /\ BackendOK([be EXCEPT !.nextSession = @ + 1])
         /\ [be EXCEPT !.nextSession = @ + 1].sessions = be.sessions
         /\ [be EXCEPT !.nextSession = @ + 1].sandboxes = be.sandboxes
<1> DEFINE counted == [be EXCEPT !.nextSession = @ + 1]
<1>1. counted = [sessions |-> be.sessions, sandboxes |-> be.sandboxes,
                 nextSession |-> be.nextSession + 1,
                 nextDocument |-> be.nextDocument]
  BY DEF BackendOK, BackendShape
<1>2. /\ be.nextSession + 1 \in Nat
      /\ 1 .. be.nextSession \subseteq 1 .. be.nextSession + 1
  BY DEF BackendOK, BackendShape
<1> HIDE DEF counted
<1>3. BackendShape(counted)
  BY <1>1, <1>2 DEF BackendOK, BackendShape
<1>4. \A t \in DOMAIN counted.sessions : SessionOK(counted, t)
  BY <1>1 DEF BackendOK, SessionOK
<1>5. DocumentIdsUnique(counted)
  BY <1>1 DEF BackendOK, DocumentIdsUnique
<1>6. BackendOK(counted) /\ counted.sessions = be.sessions
                        /\ counted.sandboxes = be.sandboxes
  BY <1>1, <1>3, <1>4, <1>5 DEF BackendOK
<1> QED
  BY <1>6 DEF counted

\* A session that starts gets an id no session of the table has, and holds
\* nothing; one that does not start leaves the table alone.
LEMMA StartAddsFreshSession ==
  ASSUME NEW be, BackendOK(be), NEW o \in StartSession(be)
  PROVE  /\ OutcomeShape(o) /\ o.ok \in BOOLEAN
         /\ BackendOK(o.backend)
         /\ ~o.ok => /\ o.backend.sessions = be.sessions
                     /\ o.backend.sandboxes \subseteq be.sandboxes
                     /\ "error" \in DOMAIN o.result
         /\ o.ok => /\ o.result.session = be.nextSession + 1
                    /\ be.nextSession + 1 \notin DOMAIN be.sessions
                    /\ o.backend.sessions =
                         [s \in DOMAIN be.sessions \cup {be.nextSession + 1} |->
                            IF s = be.nextSession + 1 THEN NoSessions
                                                      ELSE be.sessions[s]]
                    /\ o.backend.sandboxes \subseteq
                         be.sandboxes \cup {be.nextSession + 1}
<1> DEFINE id == be.nextSession + 1
           counted == [be EXCEPT !.nextSession = id]
           started == [counted EXCEPT
                         !.sessions  = [s \in DOMAIN @ \cup {id} |->
                                          IF s = id THEN NoSessions ELSE @[s]],
                         !.sandboxes = @ \cup {id}]
<1>1. counted = [sessions |-> be.sessions, sandboxes |-> be.sandboxes,
                 nextSession |-> id, nextDocument |-> be.nextDocument]
  BY DEF BackendOK, BackendShape
<1>2. started = [sessions |-> [s \in DOMAIN be.sessions \cup {id} |->
                                 IF s = id THEN NoSessions ELSE be.sessions[s]],
                 sandboxes |-> be.sandboxes \cup {id},
                 nextSession |-> id, nextDocument |-> be.nextDocument]
  <2> DEFINE grown == [s \in DOMAIN be.sessions \cup {id} |->
                         IF s = id THEN NoSessions ELSE be.sessions[s]]
             mid == [counted EXCEPT !.sessions = grown]
  <2>1. DOMAIN counted.sessions = DOMAIN be.sessions /\ counted.sessions = be.sessions
        /\ counted.sandboxes = be.sandboxes
    BY <1>1
  <2>2. started = [mid EXCEPT !.sandboxes = be.sandboxes \cup {id}]
    BY <2>1
  <2> HIDE DEF counted, id, grown, started
  <2>3. mid = [sessions |-> grown, sandboxes |-> be.sandboxes,
               nextSession |-> id, nextDocument |-> be.nextDocument]
    BY <1>1
  <2> HIDE DEF mid
  <2>4. started = [sessions |-> grown, sandboxes |-> be.sandboxes \cup {id},
                   nextSession |-> id, nextDocument |-> be.nextDocument]
    BY <2>2, <2>3
  <2> QED
    BY <2>4 DEF grown
<1>3. id \in Nat /\ id \notin DOMAIN be.sessions /\ 1 .. be.nextSession \subseteq 1 .. id
  BY DEF BackendOK, BackendShape
<1>4. BackendOK(counted)
  BY CountingKeepsTable
<1>5. BackendOK(started)
  <2> HIDE DEF id, started
  <2>1. BackendShape(started)
    <3>1. id \in 1 .. id
      <4>1. \A n \in Nat \ {0} : n \in 1 .. n
        OBVIOUS
      <4>2. id \in Nat \ {0}
        BY <1>3 DEF id, BackendOK, BackendShape
      <4> QED
        BY <4>1, <4>2
    <3> QED
      BY <1>2, <1>3, <3>1 DEF BackendOK, BackendShape
  <2>2. \A t \in DOMAIN started.sessions : SessionOK(started, t)
    BY <1>2, <1>3 DEF BackendOK, SessionOK, NoSessions
  <2>3. DocumentIdsUnique(started)
    BY <1>2, <1>3 DEF BackendOK, DocumentIdsUnique, NoSessions
  <2> QED
    BY <2>1, <2>2, <2>3 DEF BackendOK
<1>6. CASE o = Outcome(started, TRUE, [session |-> id])
  <2>1. o.backend = started /\ o.ok = TRUE /\ o.result.session = id
        /\ OutcomeShape(o)
    BY <1>6 DEF Outcome, OutcomeShape
  <2> HIDE DEF started
  <2>2. /\ o.backend.sessions = [s \in DOMAIN be.sessions \cup {id} |->
                                IF s = id THEN NoSessions ELSE be.sessions[s]]
        /\ o.backend.sandboxes = be.sandboxes \cup {id}
    BY <2>1, <1>2
  <2>3. BackendOK(o.backend)
    BY <2>1, <1>5
  <2> QED
    BY <2>1, <2>2, <2>3, <1>3
<1>7. CASE \E code : o = Outcome(counted, FALSE, Error(code))
  <2>1. o.backend = counted /\ o.ok = FALSE /\ "error" \in DOMAIN o.result
        /\ OutcomeShape(o)
    BY <1>7 DEF Outcome, OutcomeShape, Error
  <2> HIDE DEF counted
  <2>2. o.backend.sessions = be.sessions /\ o.backend.sandboxes = be.sandboxes
    BY <2>1, <1>1
  <2>3. BackendOK(o.backend)
    BY <2>1, <1>4
  <2> QED
    BY <2>1, <2>2, <2>3
<1> QED
  BY <1>6, <1>7 DEF StartSession

\* A document that is sent gets an id no session has and is stored under it; a
\* failed send leaves every session as it was.
LEMMA SendStoresUnderFreshId ==
  ASSUME NEW be, BackendOK(be), NEW s \in DOMAIN be.sessions,
         NEW bytes \in Contents, NEW o \in SendDocument(be, s, bytes)
  PROVE  /\ OutcomeShape(o) /\ o.ok \in BOOLEAN
         /\ BackendOK(o.backend)
         /\ o.backend.sandboxes \subseteq be.sandboxes
         /\ ~o.ok => /\ o.backend.sessions = be.sessions
                     /\ "error" \in DOMAIN o.result
         /\ o.ok => /\ o.result.document = be.nextDocument + 1
                    /\ DOMAIN o.backend.sessions = DOMAIN be.sessions
                    /\ \A t \in DOMAIN be.sessions \ {s} :
                         o.backend.sessions[t] = be.sessions[t]
                    /\ be.nextDocument + 1 \in DOMAIN o.backend.sessions[s]
                    /\ o.backend.sessions[s][be.nextDocument + 1] = bytes
                    /\ \A d \in DOMAIN be.sessions[s] :
                         /\ d \in DOMAIN o.backend.sessions[s]
                         /\ o.backend.sessions[s][d] = be.sessions[s][d]
                    /\ \A t \in DOMAIN be.sessions :
                         be.nextDocument + 1 \notin DOMAIN be.sessions[t]
<1> DEFINE id == be.nextDocument + 1
           counted == [be EXCEPT !.nextDocument = id]
           held == [d \in DOMAIN be.sessions[s] \cup {id} |->
                      IF d = id THEN bytes ELSE be.sessions[s][d]]
           stored(p) == IF p.ok
                        THEN [p EXCEPT !.backend.sessions[s] =
                                [d \in DOMAIN @ \cup {id} |->
                                   IF d = id THEN bytes ELSE @[d]]]
                        ELSE p
<1>1. counted = [sessions |-> be.sessions, sandboxes |-> be.sandboxes,
                 nextSession |-> be.nextSession, nextDocument |-> id]
  BY DEF BackendOK, BackendShape
<1>2. /\ id \in Nat /\ 1 .. be.nextDocument \subseteq 1 .. id /\ id \in 1 .. id
      /\ \A t \in DOMAIN be.sessions : id \notin DOMAIN be.sessions[t]
  BY DEF BackendOK, BackendShape, SessionOK
<1>3. BackendOK(counted)
  <2> HIDE DEF id, counted
  <2>1. BackendShape(counted)
    BY <1>1, <1>2 DEF BackendOK, BackendShape
  <2>2. \A t \in DOMAIN counted.sessions : SessionOK(counted, t)
    BY <1>1, <1>2 DEF BackendOK, SessionOK
  <2>3. DocumentIdsUnique(counted)
    BY <1>1 DEF BackendOK, DocumentIdsUnique
  <2> QED
    BY <2>1, <2>2, <2>3 DEF BackendOK
<1>4. CASE o = Outcome(be, FALSE, Error("DocumentTooLarge"))
  BY <1>4 DEF Outcome, OutcomeShape, Error
<1>5. CASE \E p \in Request(counted, s, [document |-> id]) : o = stored(p)
  <2>1. PICK p \in Request(counted, s, [document |-> id]) : o = stored(p)
    BY <1>5
  <2>2. /\ OutcomeShape(p) /\ p.ok \in BOOLEAN
        /\ BackendOK(p.backend)
        /\ SameTable(counted, p.backend)
        /\ p.ok => p.result = [document |-> id]
        /\ ~p.ok => "error" \in DOMAIN p.result
    <3> HIDE DEF counted, id
    <3> QED
      BY <1>3, RequestKeepsTable
  <2>3. /\ p.backend.sessions = be.sessions
        /\ p.backend.sandboxes \subseteq be.sandboxes
        /\ p.backend.nextSession = be.nextSession
        /\ p.backend.nextDocument = id
    <3> HIDE DEF counted
    <3> QED
      BY <2>2, <1>1 DEF SameTable
  <2>4. CASE ~p.ok
    <3>1. o = p
      BY <2>1, <2>4
    <3> QED
      BY <3>1, <2>2, <2>3, <2>4
  <2>5. CASE p.ok
    <3>1. o = [p EXCEPT !.backend.sessions[s] = held]
      BY <2>1, <2>3, <2>5
    <3>2. p.backend = [sessions |-> be.sessions,
                       sandboxes |-> p.backend.sandboxes,
                       nextSession |-> be.nextSession, nextDocument |-> id]
      BY <2>2, <2>3 DEF BackendOK, BackendShape
    <3>3. /\ o.ok = TRUE /\ o.result = [document |-> id]
          /\ OutcomeShape(o)
          /\ o.backend = [sessions |-> [be.sessions EXCEPT ![s] = held],
                          sandboxes |-> p.backend.sandboxes,
                          nextSession |-> be.nextSession, nextDocument |-> id]
      <4> HIDE DEF held
      <4> QED
        BY <3>1, <3>2, <2>2, <2>5 DEF OutcomeShape
    <3>4. /\ DOMAIN o.backend.sessions = DOMAIN be.sessions
          /\ o.backend.sessions[s] = held
          /\ \A t \in DOMAIN be.sessions \ {s} :
               o.backend.sessions[t] = be.sessions[t]
      BY <3>3
    <3>5. BackendShape(o.backend)
      <4>1. /\ o.backend.sessions = [be.sessions EXCEPT ![s] = held]
            /\ o.backend.sandboxes = p.backend.sandboxes
            /\ o.backend.nextSession = be.nextSession /\ o.backend.nextDocument = id
        BY <3>3
      <4> HIDE DEF held
      <4>2. o.backend.sessions = [t \in DOMAIN o.backend.sessions |-> o.backend.sessions[t]]
        BY <4>1
      <4>3. /\ p.backend.sandboxes \subseteq DOMAIN p.backend.sessions
            /\ be.nextSession \in Nat /\ DOMAIN be.sessions \subseteq 1 .. be.nextSession
        BY <2>2 DEF BackendOK, BackendShape
      <4>4. o.backend.nextDocument \in Nat
        BY <4>1, <1>2
      <4>5. o.backend = [sessions |-> o.backend.sessions,
                         sandboxes |-> o.backend.sandboxes,
                         nextSession |-> o.backend.nextSession,
                         nextDocument |-> o.backend.nextDocument]
        BY <3>3, ExplicitBackend
      <4> QED
        BY <3>4, <2>3, <4>1, <4>2, <4>3, <4>4, <4>5 DEF BackendShape
    <3>6. \A t \in DOMAIN o.backend.sessions : SessionOK(o.backend, t)
      <4>1. SUFFICES ASSUME NEW t \in DOMAIN be.sessions
                     PROVE  SessionOK(o.backend, t)
        BY <3>4
      <4>2. o.backend.nextDocument = id
        BY <3>3
      <4>3. CASE t = s
        <5>1. SessionOK(be, s)
          BY DEF BackendOK
        <5>2. /\ held = [d \in DOMAIN held |-> held[d]]
              /\ DOMAIN held = DOMAIN be.sessions[s] \cup {id}
              /\ \A d \in DOMAIN held :
                   held[d] = IF d = id THEN bytes ELSE be.sessions[s][d]
          OBVIOUS
        <5> HIDE DEF held
        <5>3. \A d \in DOMAIN held : held[d] \in Contents
          BY <5>1, <5>2 DEF SessionOK
        <5>4. DOMAIN held \subseteq 1 .. id
          BY <5>1, <5>2, <1>2 DEF SessionOK
        <5> HIDE DEF id
        <5> QED
          BY <3>4, <4>2, <4>3, <5>2, <5>3, <5>4 DEF SessionOK
      <4>4. CASE t # s
        <5>1. /\ SessionOK(be, t)
              /\ o.backend.sessions[t] = be.sessions[t]
          BY <3>4, <4>4 DEF BackendOK
        <5> QED
          BY <5>1, <4>2, <1>2 DEF SessionOK
      <4> QED
        BY <4>3, <4>4
    <3>7. DocumentIdsUnique(o.backend)
      BY <3>4, <1>2 DEF BackendOK, DocumentIdsUnique
    <3>8. BackendOK(o.backend)
      BY <3>5, <3>6, <3>7 DEF BackendOK
    <3>9. /\ o.result.document = id
          /\ o.backend.sandboxes \subseteq be.sandboxes
          /\ id \in DOMAIN o.backend.sessions[s]
          /\ o.backend.sessions[s][id] = bytes
          /\ \A d \in DOMAIN be.sessions[s] :
               /\ d \in DOMAIN o.backend.sessions[s]
               /\ o.backend.sessions[s][d] = be.sessions[s][d]
      BY <3>3, <3>4, <2>3, <1>2
    <3> QED
      BY <3>3, <3>4, <3>8, <3>9, <1>2
  <2> QED
    BY <2>2, <2>4, <2>5
<1> QED
  BY <1>4, <1>5 DEF SendDocument

-----------------------------------------------------------------------------
\* Reading the metadata keeps the table and gives the pages of the bytes sent.
LEMMA InfoKeepsTable ==
  ASSUME NEW be, BackendOK(be), NEW s \in DOMAIN be.sessions,
         NEW d \in DOMAIN be.sessions[s], NEW o \in GetDocumentInfo(be, s, d)
  PROVE  /\ OutcomeShape(o) /\ o.ok \in BOOLEAN
         /\ BackendOK(o.backend)
         /\ SameTable(be, o.backend)
         /\ o.ok => o.result = [pages |-> PageCount[be.sessions[s][d]]]
         /\ ~o.ok => "error" \in DOMAIN o.result
<1>1. o \in Request(be, s, [pages |-> PageCount[be.sessions[s][d]]])
  BY DEF GetDocumentInfo
<1> QED
  BY <1>1, RequestKeepsTable

\* Rendering keeps the table and shows the bytes sent under that id.
LEMMA RenderKeepsTable ==
  ASSUME NEW be, BackendOK(be), NEW s \in DOMAIN be.sessions,
         NEW d \in DOMAIN be.sessions[s], NEW page, NEW target,
         NEW o \in RenderPage(be, s, d, page, target)
  PROVE  /\ OutcomeShape(o) /\ o.ok \in BOOLEAN
         /\ BackendOK(o.backend)
         /\ SameTable(be, o.backend)
         /\ o.ok => o.result = Raster(be.sessions[s][d], page, target)
         /\ ~o.ok => "error" \in DOMAIN o.result
<1>1. o \in Request(be, s, Raster(be.sessions[s][d], page, target))
  BY DEF RenderPage
<1> QED
  BY <1>1, RequestKeepsTable

\* Taking sessions off the table together with their sandboxes.
LEMMA RemovalKeepsShape ==
  ASSUME NEW be, BackendOK(be), NEW gone,
         NEW after,
         after = [sessions |-> Restrict(be.sessions, DOMAIN be.sessions \ gone),
                  sandboxes |-> be.sandboxes \ gone,
                  nextSession |-> be.nextSession,
                  nextDocument |-> be.nextDocument]
  PROVE  BackendOK(after)
<1>1. /\ DOMAIN after.sessions = DOMAIN be.sessions \ gone
      /\ \A s \in DOMAIN after.sessions : after.sessions[s] = be.sessions[s]
      /\ after.nextDocument = be.nextDocument
  BY DEF Restrict
<1>2. BackendShape(after)
  <2>1. /\ after.sandboxes = be.sandboxes \ gone
        /\ after.nextSession = be.nextSession
    OBVIOUS
  <2>2. after = [sessions |-> after.sessions, sandboxes |-> after.sandboxes,
                 nextSession |-> after.nextSession, nextDocument |-> after.nextDocument]
    BY ExplicitBackend
  <2>3. after.sessions = [s \in DOMAIN after.sessions |-> after.sessions[s]]
    <3>1. after.sessions = Restrict(be.sessions, DOMAIN be.sessions \ gone)
      OBVIOUS
    <3> QED
      BY <3>1 DEF Restrict
  <2>4. /\ be.nextSession \in Nat /\ be.nextDocument \in Nat
        /\ DOMAIN be.sessions \subseteq 1 .. be.nextSession
        /\ be.sandboxes \subseteq DOMAIN be.sessions
    BY DEF BackendOK, BackendShape
  <2> QED
    BY <1>1, <2>1, <2>2, <2>3, <2>4 DEF BackendShape
<1>3. \A s \in DOMAIN after.sessions : SessionOK(after, s)
  BY <1>1, SessionCarried DEF BackendOK
<1>4. DocumentIdsUnique(after)
  <2>1. SUFFICES ASSUME NEW s \in DOMAIN after.sessions,
                        NEW t \in DOMAIN after.sessions,
                        NEW d \in DOMAIN after.sessions[s],
                        d \in DOMAIN after.sessions[t]
                 PROVE  s = t
    BY DEF DocumentIdsUnique
  <2>2. /\ s \in DOMAIN be.sessions /\ t \in DOMAIN be.sessions
        /\ d \in DOMAIN be.sessions[s] /\ d \in DOMAIN be.sessions[t]
    <3> HIDE DEF BackendOK
    <3> QED
      BY <1>1, <2>1
  <2> QED
    BY <2>2 DEF BackendOK, DocumentIdsUnique
<1> QED
  BY <1>2, <1>3, <1>4 DEF BackendOK

\* Whatever a close reports, the session and its sandbox are gone and nothing
\* else has changed.
LEMMA CloseRemovesSession ==
  ASSUME NEW be, BackendOK(be), NEW s \in DOMAIN be.sessions,
         NEW o \in CloseSession(be, s)
  PROVE  /\ OutcomeShape(o)
         /\ BackendOK(o.backend)
         /\ o.backend.sessions = Restrict(be.sessions, DOMAIN be.sessions \ {s})
         /\ o.backend.sandboxes = be.sandboxes \ {s}
<1> DEFINE closed == [Kill(be, s) EXCEPT
                        !.sessions = Restrict(@, DOMAIN @ \ {s})]
<1>1. Kill(be, s) = [sessions |-> be.sessions, sandboxes |-> be.sandboxes \ {s},
                     nextSession |-> be.nextSession,
                     nextDocument |-> be.nextDocument]
  BY DEF Kill, BackendOK, BackendShape
<1>2. Kill(be, s).sessions = be.sessions
  BY <1>1
<1>3. closed = [Kill(be, s) EXCEPT
                  !.sessions = Restrict(be.sessions, DOMAIN be.sessions \ {s})]
  BY <1>2
<1>4. o = Outcome(closed, TRUE, [closed |-> s])
      \/ o = Outcome(closed, FALSE, Error("InternalError"))
  BY DEF CloseSession
<1>5. o.backend = closed /\ OutcomeShape(o)
  <2> HIDE DEF closed
  <2> QED
    BY <1>4 DEF Outcome, OutcomeShape
<1> HIDE DEF closed
<1>6. closed = [sessions |-> Restrict(be.sessions, DOMAIN be.sessions \ {s}),
                sandboxes |-> be.sandboxes \ {s},
                nextSession |-> be.nextSession,
                nextDocument |-> be.nextDocument]
  BY <1>1, <1>3
<1>7. BackendOK(closed)
  BY <1>6, RemovalKeepsShape
<1> QED
  BY <1>5, <1>6, <1>7

\* Dropping a backend leaves no session and no sandbox.
LEMMA DropLeavesNothing ==
  ASSUME NEW be, BackendOK(be)
  PROVE  /\ BackendOK(DropBackend(be))
         /\ DropBackend(be).sessions = NoSessions
         /\ DropBackend(be).sandboxes = {}
<1> DEFINE mid == [be EXCEPT !.sessions = NoSessions]
<1>1. mid = [sessions |-> NoSessions, sandboxes |-> be.sandboxes,
             nextSession |-> be.nextSession, nextDocument |-> be.nextDocument]
  BY DEF BackendOK, BackendShape
<1>2. DropBackend(be) = [mid EXCEPT !.sandboxes = be.sandboxes \ DOMAIN be.sessions]
  <2>1. mid.sandboxes = be.sandboxes
    <3> HIDE DEF mid
    <3> QED
      BY <1>1
  <2>2. DropBackend(be) = [mid EXCEPT !.sandboxes = mid.sandboxes \ DOMAIN be.sessions]
    BY Zenon DEF DropBackend
  <2> QED
    BY <2>1, <2>2, Zenon
<1> HIDE DEF mid
<1>3. DropBackend(be) = [sessions |-> NoSessions,
                         sandboxes |-> be.sandboxes \ DOMAIN be.sessions,
                         nextSession |-> be.nextSession,
                         nextDocument |-> be.nextDocument]
  BY <1>1, <1>2
<1>4. be.sandboxes \ DOMAIN be.sessions = {}
  BY DEF BackendOK, BackendShape
<1>5. /\ DropBackend(be).sessions = NoSessions /\ DropBackend(be).sandboxes = {}
      /\ DropBackend(be).nextSession = be.nextSession
      /\ DropBackend(be).nextDocument = be.nextDocument
      /\ DOMAIN NoSessions = {}
  BY <1>3, <1>4 DEF NoSessions
<1>6. BackendShape(DropBackend(be))
  BY <1>3, <1>5 DEF BackendOK, BackendShape, NoSessions
<1>7. /\ \A s \in DOMAIN DropBackend(be).sessions : SessionOK(DropBackend(be), s)
      /\ DocumentIdsUnique(DropBackend(be))
  BY <1>5 DEF DocumentIdsUnique
<1> QED
  BY <1>5, <1>6, <1>7 DEF BackendOK

-----------------------------------------------------------------------------
(* Whom a call spares: no sandbox but that of its own session.             *)

\* A failed request kills the worker it was sent to.
LEMMA RequestSparesOthers ==
  ASSUME NEW be, NEW s, NEW answer, BackendOK(be),
         NEW o \in Request(be, s, answer)
  PROVE  be.sandboxes \ {s} \subseteq o.backend.sandboxes
<1>1. Kill(be, s).sandboxes = be.sandboxes \ {s}
  BY KillKeepsTable
<1>2. o.backend = Kill(be, s) \/ o.backend = be
  BY DEF Request, FailedRequest, Refusals, Outcome
<1> QED BY <1>1, <1>2

\* A start, failed or not, kills nobody.
LEMMA StartSparesAll ==
  ASSUME NEW be, BackendOK(be), NEW o \in StartSession(be)
  PROVE  be.sandboxes \subseteq o.backend.sandboxes
<1> DEFINE id == be.nextSession + 1
           grown == [s \in DOMAIN be.sessions \cup {id} |->
                       IF s = id THEN NoSessions ELSE be.sessions[s]]
<1>1. be = [sessions |-> be.sessions, sandboxes |-> be.sandboxes,
            nextSession |-> be.nextSession, nextDocument |-> be.nextDocument]
  BY DEF BackendOK, BackendShape
<1>2. o.backend \in { [be EXCEPT !.nextSession = id],
                      [[be EXCEPT !.nextSession = id] EXCEPT
                         !.sessions = grown, !.sandboxes = @ \cup {id}] }
  <2>1. [be EXCEPT !.nextSession = id].sessions = be.sessions
    BY <1>1
  <2> QED BY <2>1 DEF StartSession, Outcome
<1> HIDE DEF id, grown
<1> QED BY <1>1, <1>2

\* Sending a document is one request.
LEMMA SendSparesOthers ==
  ASSUME NEW be, BackendOK(be), NEW s \in DOMAIN be.sessions,
         NEW bytes \in Contents, NEW o \in SendDocument(be, s, bytes)
  PROVE  be.sandboxes \ {s} \subseteq o.backend.sandboxes
<1> DEFINE id == be.nextDocument + 1
           counted == [be EXCEPT !.nextDocument = id]
           held == [d \in DOMAIN be.sessions[s] \cup {id} |->
                      IF d = id THEN bytes ELSE be.sessions[s][d]]
           stored(p) == IF p.ok
                        THEN [p EXCEPT !.backend.sessions[s] =
                                [d \in DOMAIN @ \cup {id} |->
                                   IF d = id THEN bytes ELSE @[d]]]
                        ELSE p
<1>1. CASE o = Outcome(be, FALSE, Error("DocumentTooLarge"))
  BY <1>1 DEF Outcome
<1>2. CASE \E p \in Request(counted, s, [document |-> id]) : o = stored(p)
  <2>1. PICK p \in Request(counted, s, [document |-> id]) : o = stored(p)
    BY <1>2
  <2>2. be = [sessions |-> be.sessions, sandboxes |-> be.sandboxes,
              nextSession |-> be.nextSession, nextDocument |-> be.nextDocument]
    BY DEF BackendOK, BackendShape
  <2>3. /\ p = Outcome(p.backend, p.ok, p.result)
        /\ p.backend = Kill(counted, s) \/ p.backend = counted
    BY DEF Request, FailedRequest, Refusals, Outcome
  <2>4. counted = [sessions |-> be.sessions, sandboxes |-> be.sandboxes,
                   nextSession |-> be.nextSession, nextDocument |-> id]
    BY <2>2
  <2>5. Kill(counted, s) = [sessions |-> be.sessions,
                            sandboxes |-> be.sandboxes \ {s},
                            nextSession |-> be.nextSession, nextDocument |-> id]
    <3> HIDE DEF counted, id
    <3> QED BY <2>4 DEF Kill
  <2>6. p.ok => o = [p EXCEPT !.backend.sessions[s] = held]
    <3>1. p.backend.sessions = be.sessions
      <4> HIDE DEF counted, id
      <4> QED BY <2>4, <2>3, <2>5
    <3> QED BY <2>1, <3>1
  <2>7. ~p.ok => o = p
    BY <2>1
  <2> HIDE DEF counted, id, held
  <2>8. o.backend.sandboxes = p.backend.sandboxes
    BY <2>4, <2>3, <2>5, <2>6, <2>7 DEF Outcome
  <2> QED BY <2>4, <2>3, <2>5, <2>8
<1> QED BY <1>1, <1>2 DEF SendDocument

-----------------------------------------------------------------------------
(* The page cache.                                                         *)

CacheShape(c) ==
  /\ c = [order |-> c.order, entries |-> c.entries]
  /\ c.entries = [k \in DOMAIN c.entries |-> c.entries[k]]

\* The empty cache holds no page.
LEMMA EmptyCacheShape ==
  CacheShape(EmptyCache) /\ DOMAIN EmptyCache.entries = {}
  BY DEF CacheShape, EmptyCache

\* A lookup changes no page (PageCache::get).
LEMMA GetKeepsPages ==
  ASSUME NEW c, NEW key, CacheShape(c)
  PROVE  CacheShape(CacheGet(c, key)) /\ CacheGet(c, key).entries = c.entries
<1>1. CASE CacheHas(c, key)
  <2>1. CacheGet(c, key) = [order |-> Touched(c.order, key), entries |-> c.entries]
    BY <1>1 DEF CacheGet, CacheShape
  <2> QED
    BY <2>1 DEF CacheShape
<1>2. CASE ~CacheHas(c, key)
  BY <1>2 DEF CacheGet
<1> QED
  BY <1>1, <1>2

\* An eviction only takes pages away (PageCache::evict).
LEMMA EvictionOnlyRemoves ==
  ASSUME NEW c, CacheShape(c)
  PROVE  /\ CacheShape(Evicted(c))
         /\ DOMAIN Evicted(c).entries \subseteq DOMAIN c.entries
         /\ \A k \in DOMAIN Evicted(c).entries : Evicted(c).entries[k] = c.entries[k]
<1>1. CASE Len(c.order) <= EffectiveCapacity
  BY <1>1 DEF Evicted
<1>2. CASE ~(Len(c.order) <= EffectiveCapacity)
  <2> DEFINE kept == SubSeq(c.order, 1, EffectiveCapacity)
             left == DOMAIN c.entries \
                       { c.order[i] : i \in EffectiveCapacity + 1 .. Len(c.order) }
  <2>1. Evicted(c) = [order |-> kept, entries |-> Restrict(c.entries, left)]
    BY <1>2 DEF Evicted
  <2>2. left \subseteq DOMAIN c.entries
    OBVIOUS
  <2> HIDE DEF kept, left
  <2> QED
    BY <2>1, <2>2 DEF CacheShape, Restrict
<1> QED
  BY <1>1, <1>2

\* A put stores its page under its key, if at all, and changes no other
\* (PageCache::put).
LEMMA PutChangesOneKey ==
  ASSUME NEW c, NEW key, NEW rendered, CacheShape(c)
  PROVE  /\ CacheShape(CachePut(c, key, rendered))
         /\ DOMAIN CachePut(c, key, rendered).entries \subseteq DOMAIN c.entries \cup {key}
         /\ \A k \in DOMAIN CachePut(c, key, rendered).entries :
              CachePut(c, key, rendered).entries[k] =
                IF k = key THEN rendered ELSE c.entries[k]
<1>1. CASE CacheHas(c, key)
  <2>1. CachePut(c, key, rendered) =
          [order   |-> Touched(c.order, key),
           entries |-> [c.entries EXCEPT ![key] = rendered]]
    BY <1>1 DEF CachePut
  <2> QED
    BY <1>1, <2>1 DEF CacheShape, CacheHas
<1>2. CASE ~CacheHas(c, key)
  <2> DEFINE added == [order   |-> << key >> \o c.order,
                       entries |-> [k \in DOMAIN c.entries \cup {key} |->
                                      IF k = key THEN rendered ELSE c.entries[k]]]
  <2>1. CachePut(c, key, rendered) = Evicted(added)
    BY <1>2 DEF CachePut
  <2>2. CacheShape(added)
    BY DEF CacheShape
  <2>3. /\ DOMAIN added.entries = DOMAIN c.entries \cup {key}
        /\ \A k \in DOMAIN added.entries :
             added.entries[k] = IF k = key THEN rendered ELSE c.entries[k]
    OBVIOUS
  <2> HIDE DEF added
  <2>4. /\ CacheShape(Evicted(added))
        /\ DOMAIN Evicted(added).entries \subseteq DOMAIN added.entries
        /\ \A k \in DOMAIN Evicted(added).entries :
             Evicted(added).entries[k] = added.entries[k]
    BY <2>2, EvictionOnlyRemoves
  <2> QED
    BY <2>1, <2>3, <2>4
<1> QED
  BY <1>1, <1>2

\* Closing a document takes away exactly its pages (PageCache::remove_document).
LEMMA RemoveDropsDocument ==
  ASSUME NEW c, NEW document, CacheShape(c)
  PROVE  /\ CacheShape(CacheRemoveDocument(c, document))
         /\ DOMAIN CacheRemoveDocument(c, document).entries =
              { k \in DOMAIN c.entries : k.document # document }
         /\ \A k \in DOMAIN CacheRemoveDocument(c, document).entries :
              CacheRemoveDocument(c, document).entries[k] = c.entries[k]
<1> DEFINE order == Without(c.order, OfDocument(Range(c.order), document))
           left == { k \in DOMAIN c.entries : k.document # document }
<1>1. CacheRemoveDocument(c, document) =
        [order |-> order, entries |-> Restrict(c.entries, left)]
  <2>1. DOMAIN c.entries \ OfDocument(DOMAIN c.entries, document) = left
    BY DEF OfDocument
  <2> HIDE DEF left
  <2> QED BY <2>1 DEF CacheRemoveDocument
<1> HIDE DEF order
<1> QED
  BY <1>1 DEF CacheShape, Restrict

-----------------------------------------------------------------------------
(* The invariant.                                                          *)

\* The manager's own table, below its counter and its limit.
SessionsOK ==
  /\ sessions = [i \in DOMAIN sessions |-> sessions[i]]
  /\ nextId \in Nat
  /\ DOMAIN sessions \subseteq 1 .. nextId
  /\ \A i \in DOMAIN sessions :
       sessions[i] \in [session : Nat, document : Nat, pages : Nat]
  /\ IsFiniteSet(DOMAIN sessions)
  /\ Cardinality(DOMAIN sessions) <= MaxOpenDocuments

\* Every id ever given out has its bytes.
OpenedOK ==
  /\ opened = [i \in DOMAIN opened |-> opened[i]]
  /\ DOMAIN opened \subseteq 1 .. nextId
  /\ \A i \in DOMAIN opened : opened[i] \in Contents

\* The two tables describe the same documents.
Tied ==
  /\ OneSessionPerDocument
  /\ \A i \in DOMAIN sessions :
       LET held == backend.sessions[sessions[i].session]
       IN  /\ i \in DOMAIN opened
           /\ sessions[i].document \in DOMAIN held
           /\ opened[i] = held[sessions[i].document]
           /\ sessions[i].pages = PageCount[opened[i]]

\* The cache holds pages of open documents.
CacheOK ==
  /\ CacheShape(cache)
  /\ DOMAIN cache.entries \subseteq Keys
  /\ \A k \in DOMAIN cache.entries : cache.entries[k] \in Rasters
  /\ CachedPagesAreCurrent

IInv ==
  /\ BackendOK(backend)
  /\ SessionsOK
  /\ OpenedOK
  /\ Tied
  /\ CacheOK
  /\ poisoned \in BOOLEAN /\ dropped \in BOOLEAN
  /\ NothingOutlivesTheManager

-----------------------------------------------------------------------------
(* Facts about one state.                                                  *)

\* Two handles never name the same document.
LEMMA DocumentsDistinct ==
  ASSUME BackendOK(backend), Tied,
         NEW i \in DOMAIN sessions, NEW j \in DOMAIN sessions,
         sessions[i].document = sessions[j].document
  PROVE  i = j
<1>1. /\ sessions[i].session \in DOMAIN backend.sessions
      /\ sessions[j].session \in DOMAIN backend.sessions
      /\ sessions[i].document \in DOMAIN backend.sessions[sessions[i].session]
      /\ sessions[j].document \in DOMAIN backend.sessions[sessions[j].session]
  BY DEF Tied, OneSessionPerDocument
<1>2. sessions[i].session = sessions[j].session
  BY <1>1 DEF BackendOK, DocumentIdsUnique
<1> QED
  BY <1>2 DEF Tied, OneSessionPerDocument

\* An open document's session and document are the backend's.
LEMMA OpenIsHeld ==
  ASSUME IInv, NEW h, IsOpen(h)
  PROVE  /\ h.session \in DOMAIN sessions
         /\ sessions[h.session].session \in DOMAIN backend.sessions
         /\ h.document \in DOMAIN backend.sessions[sessions[h.session].session]
         /\ opened[h.session] =
              backend.sessions[sessions[h.session].session][h.document]
         /\ opened[h.session] \in Contents
         /\ h.document \in Nat
<1>1. h.session \in DOMAIN sessions /\ h.document = sessions[h.session].document
  BY DEF IsOpen
<1>2. sessions[h.session] \in [session : Nat, document : Nat, pages : Nat]
  BY <1>1 DEF IInv, SessionsOK
<1> QED
  BY <1>1, <1>2 DEF IInv, Tied, OneSessionPerDocument, OpenedOK

\* The type invariant follows.
LEMMA IInvImpliesTypeOK == IInv => TypeOK
<1> SUFFICES ASSUME IInv PROVE TypeOK
  OBVIOUS
<1>1. /\ backend.nextSession \in Nat /\ backend.nextDocument \in Nat
      /\ DOMAIN backend.sessions \subseteq Nat
      /\ backend.sandboxes \subseteq Nat
  BY DEF IInv, BackendOK, BackendShape
<1>2. \A s \in DOMAIN backend.sessions :
        /\ DOMAIN backend.sessions[s] \subseteq Nat
        /\ \A d \in DOMAIN backend.sessions[s] : backend.sessions[s][d] \in Contents
  <2> SUFFICES ASSUME NEW s \in DOMAIN backend.sessions
               PROVE  /\ DOMAIN backend.sessions[s] \subseteq Nat
                      /\ \A d \in DOMAIN backend.sessions[s] :
                           backend.sessions[s][d] \in Contents
    OBVIOUS
  <2>1. SessionOK(backend, s)
    BY DEF IInv, BackendOK
  <2>2. 1 .. backend.nextDocument \subseteq Nat
    BY <1>1
  <2> QED
    BY <2>1, <2>2 DEF SessionOK
<1>3. /\ nextId \in Nat
      /\ DOMAIN sessions \subseteq Nat
      /\ \A i \in DOMAIN sessions :
           sessions[i] \in [session : Nat, document : Nat, pages : Nat]
  BY DEF IInv, SessionsOK
<1>4. /\ DOMAIN cache.entries \subseteq Keys
      /\ \A k \in DOMAIN cache.entries : cache.entries[k] \in Rasters
      /\ poisoned \in BOOLEAN /\ dropped \in BOOLEAN
  BY DEF IInv, CacheOK
<1>5. /\ DOMAIN opened \subseteq Nat
      /\ \A i \in DOMAIN opened : opened[i] \in Contents
  BY <1>3 DEF IInv, OpenedOK
<1> QED
  BY <1>1, <1>2, <1>3, <1>4, <1>5 DEF TypeOK

\* No sandbox is stray: there are no more of them than documents.
LEMMA IInvImpliesNoStraySandbox == IInv => NoStraySandbox
<1> SUFFICES ASSUME IInv PROVE NoStraySandbox
  OBVIOUS
<1>1. /\ IsFiniteSet(DOMAIN sessions)
      /\ Cardinality(DOMAIN sessions) <= MaxOpenDocuments
      /\ Cardinality(DOMAIN sessions) \in Nat
  BY FS_CardinalityType DEF IInv, SessionsOK
<1>2. backend.sandboxes \subseteq DOMAIN backend.sessions
  BY DEF IInv, BackendOK, BackendShape
<1> DEFINE f == [i \in DOMAIN sessions |-> sessions[i].session]
<1>3. f \in Surjection(DOMAIN sessions, DOMAIN backend.sessions)
  BY DEF IInv, Tied, OneSessionPerDocument, Surjection
<1> HIDE DEF f
<1>4. /\ IsFiniteSet(DOMAIN backend.sessions)
      /\ Cardinality(DOMAIN backend.sessions) <= Cardinality(DOMAIN sessions)
      /\ Cardinality(DOMAIN backend.sessions) \in Nat
  BY <1>1, <1>3, FS_Surjection, FS_CardinalityType
<1>5. /\ IsFiniteSet(backend.sandboxes)
      /\ Cardinality(backend.sandboxes) <= Cardinality(DOMAIN backend.sessions)
      /\ Cardinality(backend.sandboxes) \in Nat
  BY <1>2, <1>4, FS_Subset, FS_CardinalityType
<1>6. Cardinality(backend.sandboxes) <= MaxOpenDocuments
  BY <1>1, <1>4, <1>5, ManagerAssumption
<1> QED
  BY <1>2, <1>6 DEF NoStraySandbox

-----------------------------------------------------------------------------
(* Steps that leave the manager's table alone.                             *)

\* The manager's table is tied to any backend with the same sessions.
LEMMA SameTableKeepsIInv ==
  ASSUME IInv, ~dropped, UNCHANGED dropped, UNCHANGED table,
         BackendOK(backend'), backend'.sessions = backend.sessions,
         poisoned' \in BOOLEAN, CacheOK'
  PROVE  IInv'
<1>1. SessionsOK' /\ OpenedOK'
  BY DEF IInv, SessionsOK, OpenedOK, table
<1>2. Tied'
  BY DEF IInv, Tied, OneSessionPerDocument, table
<1>3. NothingOutlivesTheManager'
  BY DEF NothingOutlivesTheManager
<1> QED
  BY <1>1, <1>2, <1>3 DEF IInv

\* The pages of an unchanged cache stay current.
LEMMA SameCacheStaysOK ==
  ASSUME CacheOK, UNCHANGED << cache, table >>
  PROVE  CacheOK'
  BY DEF CacheOK, CachedPagesAreCurrent, table

\* A step of an open manager that changes no table and no page.
LEMMA QuietStep ==
  ASSUME IInv, ~dropped, UNCHANGED dropped, UNCHANGED << cache, table >>,
         BackendOK(backend'), backend'.sessions = backend.sessions,
         poisoned' \in BOOLEAN
  PROVE  IInv'
<1>1. CacheOK'
  BY SameCacheStaysOK DEF IInv
<1> QED
  BY <1>1, SameTableKeepsIInv

-----------------------------------------------------------------------------
(* open                                                                    *)

\* The backend differs from the manager's only by session s, which is new.
Grown(be, s) ==
  /\ BackendOK(be)
  /\ s \notin DOMAIN backend.sessions
  /\ DOMAIN be.sessions = DOMAIN backend.sessions \cup {s}
  /\ \A t \in DOMAIN backend.sessions : be.sessions[t] = backend.sessions[t]

\* Closing the half-open session gives the sessions there were before.
LEMMA HalfOpenStep ==
  ASSUME IInv, ~dropped, UNCHANGED dropped,
         NEW failed, NEW s, NEW bytes, Grown(failed.backend, s),
         HalfOpenClosed(failed, s, bytes)
  PROVE  IInv'
<1>1. PICK closed \in CloseSession(failed.backend, s) :
        OpenFailed(closed.backend, bytes, failed.result)
  BY DEF HalfOpenClosed
<1>2. s \in DOMAIN failed.backend.sessions /\ BackendOK(failed.backend)
  BY DEF Grown
<1>3. /\ BackendOK(closed.backend)
      /\ closed.backend.sessions =
           Restrict(failed.backend.sessions, DOMAIN failed.backend.sessions \ {s})
  BY <1>1, <1>2, CloseRemovesSession
<1>4. backend.sessions = [t \in DOMAIN backend.sessions |-> backend.sessions[t]]
  BY DEF IInv, BackendOK, BackendShape
<1>5. DOMAIN failed.backend.sessions \ {s} = DOMAIN backend.sessions
  BY DEF Grown
<1>6. closed.backend.sessions = backend.sessions
  BY <1>3, <1>4, <1>5 DEF Grown, Restrict
<1>7. backend' = closed.backend /\ UNCHANGED << cache, poisoned, table >>
  BY <1>1 DEF OpenFailed
<1>8. poisoned' \in BOOLEAN /\ UNCHANGED << cache, table >>
  BY <1>7 DEF IInv
<1> QED
  BY <1>3, <1>6, <1>7, <1>8, QuietStep

\* A registered document enters both tables at once, under ids that neither
\* table nor the cache has seen.
LEMMA RegisteredStep ==
  ASSUME IInv, ~dropped, UNCHANGED dropped,
         Cardinality(DOMAIN sessions) < MaxOpenDocuments,
         NEW info, NEW s \in Nat, NEW d \in Nat, NEW bytes \in Contents,
         Grown(info.backend, s),
         d \in DOMAIN info.backend.sessions[s],
         info.backend.sessions[s][d] = bytes,
         info.result = [pages |-> PageCount[bytes]],
         Registered(info, s, d, bytes)
  PROVE  IInv'
<1> DEFINE id == nextId + 1
           entry == [session |-> s, document |-> d, pages |-> PageCount[bytes]]
<1>1. /\ backend' = info.backend
      /\ nextId' = id
      /\ sessions' = [i \in DOMAIN sessions \cup {id} |->
                        IF i = id THEN entry ELSE sessions[i]]
      /\ opened' = [i \in DOMAIN opened \cup {id} |->
                      IF i = id THEN bytes ELSE opened[i]]
      /\ UNCHANGED << cache, poisoned >>
  BY DEF Registered
<1>2. /\ id \in Nat /\ id \notin DOMAIN sessions /\ id \notin DOMAIN opened
      /\ 1 .. nextId \subseteq 1 .. id /\ id \in 1 .. id
  BY DEF IInv, SessionsOK, OpenedOK
<1>3. entry \in [session : Nat, document : Nat, pages : Nat]
  BY ContentAssumption
<1> HIDE DEF entry
<1>4. SessionsOK'
  <2>1. DOMAIN sessions' = DOMAIN sessions \cup {id}
    BY <1>1
  <2>2. /\ IsFiniteSet(DOMAIN sessions')
        /\ Cardinality(DOMAIN sessions') = Cardinality(DOMAIN sessions) + 1
        /\ Cardinality(DOMAIN sessions) \in Nat
    <3>1. IsFiniteSet(DOMAIN sessions) /\ id \notin DOMAIN sessions
      BY <1>2 DEF IInv, SessionsOK
    <3>2. /\ IsFiniteSet(DOMAIN sessions \cup {id})
          /\ Cardinality(DOMAIN sessions \cup {id}) = Cardinality(DOMAIN sessions) + 1
      BY <3>1, FS_AddElement
    <3>3. Cardinality(DOMAIN sessions) \in Nat
      BY <3>1, FS_CardinalityType
    <3> QED
      BY <2>1, <3>2, <3>3
  <2>3. Cardinality(DOMAIN sessions') <= MaxOpenDocuments
    BY <2>2, ManagerAssumption
  <2>4. DOMAIN sessions' \subseteq 1 .. nextId'
    BY <2>1, <1>1, <1>2 DEF IInv, SessionsOK
  <2>5. \A i \in DOMAIN sessions' :
          sessions'[i] \in [session : Nat, document : Nat, pages : Nat]
    <3>1. \A i \in DOMAIN sessions :
            sessions[i] \in [session : Nat, document : Nat, pages : Nat]
      BY DEF IInv, SessionsOK
    <3>2. \A i \in DOMAIN sessions' :
            \/ sessions'[i] = entry
            \/ i \in DOMAIN sessions /\ sessions'[i] = sessions[i]
      BY <1>1
    <3> QED
      BY <1>3, <3>1, <3>2
  <2>6. sessions' = [i \in DOMAIN sessions' |-> sessions'[i]]
    BY <1>1, <2>1
  <2> QED
    BY <2>2, <2>3, <2>4, <2>5, <2>6, <1>1, <1>2 DEF SessionsOK
<1>5. OpenedOK'
  BY <1>1, <1>2 DEF IInv, OpenedOK
<1>6. /\ \A i \in DOMAIN sessions :
            /\ sessions'[i] = sessions[i] /\ i # id
            /\ sessions[i].session \in DOMAIN backend.sessions
            /\ sessions[i].session # s
      /\ sessions'[id] = entry /\ id \in DOMAIN sessions'
      /\ DOMAIN sessions' = DOMAIN sessions \cup {id}
      /\ entry.session = s /\ entry.document = d /\ entry.pages = PageCount[bytes]
  BY <1>1, <1>2 DEF IInv, Tied, OneSessionPerDocument, Grown, entry
<1>7. Tied'
  <2>1. \A i, j \in DOMAIN sessions' :
          sessions'[i].session = sessions'[j].session => i = j
    BY <1>6 DEF IInv, Tied, OneSessionPerDocument
  <2>2. { sessions'[i].session : i \in DOMAIN sessions' } = DOMAIN backend'.sessions
    <3>1. { sessions'[i].session : i \in DOMAIN sessions' }
            = { sessions[i].session : i \in DOMAIN sessions } \cup {s}
      BY <1>6
    <3>2. DOMAIN backend'.sessions = DOMAIN backend.sessions \cup {s}
      BY <1>1 DEF Grown
    <3> QED
      BY <3>1, <3>2 DEF IInv, Tied, OneSessionPerDocument
  <2>3. ASSUME NEW i \in DOMAIN sessions'
        PROVE  LET held == backend'.sessions[sessions'[i].session]
               IN  /\ i \in DOMAIN opened'
                   /\ sessions'[i].document \in DOMAIN held
                   /\ opened'[i] = held[sessions'[i].document]
                   /\ sessions'[i].pages = PageCount[opened'[i]]
    <3>1. CASE i = id
      BY <3>1, <1>1, <1>6
    <3>2. CASE i \in DOMAIN sessions
      <4>1. /\ i \in DOMAIN opened /\ opened'[i] = opened[i]
            /\ sessions'[i] = sessions[i]
            /\ backend'.sessions[sessions[i].session] =
                 backend.sessions[sessions[i].session]
        BY <3>2, <1>1, <1>2, <1>6 DEF IInv, Tied, Grown
      <4> QED
        BY <4>1, <3>2, <1>1 DEF IInv, Tied
    <3> QED
      BY <3>1, <3>2, <1>6
  <2> QED
    BY <2>1, <2>2, <2>3 DEF Tied, OneSessionPerDocument
<1>8. CacheOK'
  <2>1. SUFFICES ASSUME NEW k \in DOMAIN cache.entries
                 PROVE  /\ \E i \in DOMAIN sessions' :
                              sessions'[i].document = k.document
                        /\ \A i \in DOMAIN sessions' :
                             sessions'[i].document = k.document =>
                               cache.entries[k] =
                                 Raster(opened'[i], k.page, k.target)
    BY <1>1 DEF IInv, CacheOK, CachedPagesAreCurrent
  <2>2. PICK j \in DOMAIN sessions : sessions[j].document = k.document
    BY DEF IInv, CacheOK, CachedPagesAreCurrent
  <2>3. k.document # d
    <3>1. k.document \in DOMAIN info.backend.sessions[sessions[j].session]
      BY <2>2, <1>6 DEF IInv, Tied, Grown
    <3> QED
      BY <3>1, <1>6 DEF Grown, BackendOK, DocumentIdsUnique
  <2>4. ASSUME NEW i \in DOMAIN sessions', sessions'[i].document = k.document
        PROVE  cache.entries[k] = Raster(opened'[i], k.page, k.target)
    <3>1. i \in DOMAIN sessions /\ sessions[i].document = k.document
      BY <2>3, <2>4, <1>6
    <3>2. opened'[i] = opened[i]
      BY <3>1, <1>1, <1>6 DEF IInv, Tied
    <3> QED
      BY <3>1, <3>2 DEF IInv, CacheOK, CachedPagesAreCurrent
  <2> QED
    BY <2>2, <2>4, <1>6
<1>9. BackendOK(backend)' /\ poisoned' \in BOOLEAN /\ dropped' \in BOOLEAN
  BY <1>1 DEF Grown, IInv
<1> QED
  BY <1>4, <1>5, <1>7, <1>8, <1>9 DEF IInv, NothingOutlivesTheManager

\* Opening, with every way it can fail.
LEMMA OpenStep ==
  ASSUME IInv, ~dropped, UNCHANGED dropped,
         NEW bytes \in Contents \cup {NoBytes}, Open(bytes)
  PROVE  IInv'
<1>1. CASE OpenRejected(bytes)
  <2>1. UNCHANGED << backend, cache, poisoned, table >>
    BY <1>1 DEF OpenRejected
  <2> QED
    BY <2>1, QuietStep DEF IInv
<1>2. CASE OpenPanics(bytes)
  <2>1. /\ backend' = [backend EXCEPT !.nextSession = @ + 1]
        /\ poisoned' = TRUE /\ UNCHANGED << cache, table >>
    BY <1>2 DEF OpenPanics
  <2>2. BackendOK(backend') /\ backend'.sessions = backend.sessions
    BY <2>1, CountingKeepsTable DEF IInv
  <2> QED
    BY <2>1, <2>2, QuietStep
<1>3. CASE OpenDocument(bytes)
  <2>1. /\ bytes \in Contents
        /\ Cardinality(DOMAIN sessions) < MaxOpenDocuments
    BY <1>3 DEF OpenDocument, MayStart
  <2>2. PICK start \in StartSession(backend) :
          \/ ~start.ok /\ OpenFailed(start.backend, bytes, start.result)
          \/ /\ start.ok
             /\ LET s == start.result.session
                IN  \E sent \in SendDocument(start.backend, s, bytes) :
                      \/ ~sent.ok /\ HalfOpenClosed(sent, s, bytes)
                      \/ /\ sent.ok
                         /\ LET d == sent.result.document
                            IN  \E info \in GetDocumentInfo(sent.backend, s, d) :
                                  \/ ~info.ok /\ HalfOpenClosed(info, s, bytes)
                                  \/ info.ok /\ Registered(info, s, d, bytes)
    BY <1>3 DEF OpenDocument
  <2>3. BackendOK(backend) /\ BackendOK(start.backend)
    BY <2>2, StartAddsFreshSession DEF IInv
  <2>4. CASE ~start.ok /\ OpenFailed(start.backend, bytes, start.result)
    <3>1. start.backend.sessions = backend.sessions
      BY <2>3, <2>4, StartAddsFreshSession
    <3>2. backend' = start.backend /\ UNCHANGED << cache, poisoned, table >>
      BY <2>4 DEF OpenFailed
    <3> QED
      BY <2>3, <3>1, <3>2, QuietStep DEF IInv
  <2>5. CASE start.ok
    <3> DEFINE s == start.result.session
    <3>1. Grown(start.backend, s) /\ s \in Nat
      <4>1. /\ s = backend.nextSession + 1
            /\ s \notin DOMAIN backend.sessions
            /\ start.backend.sessions =
                 [t \in DOMAIN backend.sessions \cup {s} |->
                    IF t = s THEN NoSessions ELSE backend.sessions[t]]
        <5> DEFINE id == backend.nextSession + 1
        <5>1. /\ start.result.session = id
              /\ id \notin DOMAIN backend.sessions
              /\ start.backend.sessions =
                   [t \in DOMAIN backend.sessions \cup {id} |->
                      IF t = id THEN NoSessions ELSE backend.sessions[t]]
          BY <2>3, <2>5, StartAddsFreshSession
        <5>2. s = id
          BY <5>1
        <5> HIDE DEF s, id
        <5>3. /\ s \notin DOMAIN backend.sessions
              /\ start.backend.sessions =
                   [t \in DOMAIN backend.sessions \cup {s} |->
                      IF t = s THEN NoSessions ELSE backend.sessions[t]]
          BY <5>1, <5>2
        <5> QED
          BY <5>2, <5>3 DEF id
      <4>2. s \in Nat
        BY <4>1, <2>3 DEF BackendOK, BackendShape
      <4> HIDE DEF s
      <4> QED
        BY <2>3, <4>1, <4>2 DEF Grown
    <3> HIDE DEF s
    <3>2. PICK sent \in SendDocument(start.backend, s, bytes) :
            \/ ~sent.ok /\ HalfOpenClosed(sent, s, bytes)
            \/ /\ sent.ok
               /\ LET d == sent.result.document
                  IN  \E info \in GetDocumentInfo(sent.backend, s, d) :
                        \/ ~info.ok /\ HalfOpenClosed(info, s, bytes)
                        \/ info.ok /\ Registered(info, s, d, bytes)
      BY <2>2, <2>5 DEF s
    <3>3. s \in DOMAIN start.backend.sessions
      BY <3>1 DEF Grown
    <3>4. Grown(sent.backend, s)
      <4>1. CASE ~sent.ok
        <5>1. BackendOK(sent.backend) /\ sent.backend.sessions = start.backend.sessions
          BY <4>1, <2>1, <2>3, <3>2, <3>3, SendStoresUnderFreshId
        <5> QED
          BY <5>1, <3>1 DEF Grown
      <4>2. CASE sent.ok
        <5>1. /\ BackendOK(sent.backend)
              /\ DOMAIN sent.backend.sessions = DOMAIN start.backend.sessions
              /\ \A t \in DOMAIN start.backend.sessions \ {s} :
                   sent.backend.sessions[t] = start.backend.sessions[t]
          BY <4>2, <2>1, <2>3, <3>2, <3>3, SendStoresUnderFreshId
        <5> QED
          BY <5>1, <3>1 DEF Grown
      <4> QED
        BY <4>1, <4>2
    <3>5. CASE ~sent.ok /\ HalfOpenClosed(sent, s, bytes)
      BY <3>4, <3>5, HalfOpenStep
    <3>6. CASE sent.ok
      <4> DEFINE d == sent.result.document
      <4>1. /\ d = start.backend.nextDocument + 1
            /\ d \in DOMAIN sent.backend.sessions[s]
            /\ sent.backend.sessions[s][d] = bytes
        BY <3>6, <2>1, <2>3, <3>2, <3>3, SendStoresUnderFreshId
      <4>2. d \in Nat
        BY <4>1, <2>3 DEF BackendOK, BackendShape
      <4> HIDE DEF d
      <4>3. PICK info \in GetDocumentInfo(sent.backend, s, d) :
              \/ ~info.ok /\ HalfOpenClosed(info, s, bytes)
              \/ info.ok /\ Registered(info, s, d, bytes)
        BY <3>2, <3>6 DEF d
      <4>4. s \in DOMAIN sent.backend.sessions /\ BackendOK(sent.backend)
        BY <3>4 DEF Grown
      <4>5. /\ BackendOK(info.backend)
            /\ info.backend.sessions = sent.backend.sessions
            /\ info.ok => info.result = [pages |-> PageCount[bytes]]
        BY <4>1, <4>3, <4>4, InfoKeepsTable DEF SameTable
      <4>6. Grown(info.backend, s)
        BY <4>5, <3>4 DEF Grown
      <4>7. CASE ~info.ok /\ HalfOpenClosed(info, s, bytes)
        BY <4>6, <4>7, HalfOpenStep
      <4>8. CASE info.ok /\ Registered(info, s, d, bytes)
        BY <4>1, <4>2, <4>5, <4>6, <4>8, <2>1, <3>1, RegisteredStep
      <4> QED
        BY <4>3, <4>7, <4>8
    <3> QED
      BY <3>2, <3>5, <3>6
  <2> QED
    BY <2>2, <2>4, <2>5
<1> QED
  BY <1>1, <1>2, <1>3 DEF Open

-----------------------------------------------------------------------------
(* get_document_info and render_page                                       *)

\* Metadata is read from the manager's own table.
LEMMA InfoStep ==
  ASSUME IInv, ~dropped, UNCHANGED dropped, NEW h \in Handles, Info(h)
  PROVE  IInv'
<1>1. UNCHANGED << backend, cache, poisoned, table >>
  BY DEF Info
<1> QED
  BY <1>1, QuietStep DEF IInv

\* A rendered page enters the cache only as what its handle shows; no other
\* open document could be served it.
LEMMA RenderStep ==
  ASSUME IInv, ~dropped, UNCHANGED dropped, NEW h \in Handles,
         NEW page \in 0 .. MaxPage, NEW target \in Targets \cup {BadTarget},
         Render(h, page, target)
  PROVE  IInv'
<1>1. CASE RenderRejected(h, page, target)
  <2>1. UNCHANGED << backend, cache, poisoned, table >>
    BY <1>1 DEF RenderRejected
  <2> QED
    BY <2>1, QuietStep DEF IInv
<1>2. CASE RenderHit(h, page, target)
  <2>1. /\ cache' = CacheGet(cache, CacheKey(h.document, page, target))
        /\ UNCHANGED << backend, poisoned, table >>
    BY <1>2 DEF RenderHit
  <2>2. CacheShape(cache') /\ cache'.entries = cache.entries
    BY <2>1, GetKeepsPages DEF IInv, CacheOK
  <2>3. CacheOK'
    BY <2>1, <2>2 DEF IInv, CacheOK, CachedPagesAreCurrent, table
  <2> QED
    BY <2>1, <2>3, SameTableKeepsIInv DEF IInv
<1>3. CASE RenderMiss(h, page, target)
  <2> DEFINE key == CacheKey(h.document, page, target)
             s == sessions[h.session].session
  <2>1. MayRender(h, page, target) /\ UNCHANGED << poisoned, table >>
    BY <1>3 DEF RenderMiss
  <2>2. PICK o \in RenderPage(backend, s, h.document, page, target) :
          /\ backend' = o.backend
          /\ cache' = IF o.ok THEN CachePut(cache, key, o.result) ELSE cache
    BY <1>3 DEF RenderMiss
  <2>3. IsOpen(h) /\ target \in Targets /\ page \in Nat
    BY <2>1 DEF MayRender
  <2>4. /\ h.session \in DOMAIN sessions
        /\ s \in DOMAIN backend.sessions
        /\ h.document \in DOMAIN backend.sessions[s]
        /\ opened[h.session] = backend.sessions[s][h.document]
        /\ opened[h.session] \in Contents
        /\ h.document \in Nat
        /\ h.document = sessions[h.session].document
    BY <2>3, OpenIsHeld DEF IsOpen
  <2> HIDE DEF s
  <2>5. /\ BackendOK(o.backend) /\ o.backend.sessions = backend.sessions
        /\ o.ok => o.result = Raster(opened[h.session], page, target)
    BY <2>2, <2>4, RenderKeepsTable DEF IInv, SameTable
  <2>6. CASE o.ok
    <3> DEFINE new == Raster(opened[h.session], page, target)
    <3>1. cache' = CachePut(cache, key, new)
      BY <2>2, <2>5, <2>6
    <3>2. /\ key \in Keys /\ key.document = h.document
          /\ key.page = page /\ key.target = target
          /\ new \in Rasters
      BY <2>3, <2>4 DEF CacheKey, Keys, Raster, Rasters
    <3>3. new = Raster(opened[h.session], key.page, key.target)
      BY <3>2
    <3> HIDE DEF key, new
    <3>4. /\ CacheShape(cache')
          /\ DOMAIN cache'.entries \subseteq DOMAIN cache.entries \cup {key}
          /\ \A k \in DOMAIN cache'.entries :
               cache'.entries[k] = IF k = key THEN new ELSE cache.entries[k]
      BY <3>1, PutChangesOneKey DEF IInv, CacheOK
    <3>5. /\ DOMAIN cache'.entries \subseteq Keys
          /\ \A k \in DOMAIN cache'.entries : cache'.entries[k] \in Rasters
      BY <3>2, <3>4 DEF IInv, CacheOK
    <3>6. CachedPagesAreCurrent'
      <4>1. SUFFICES ASSUME NEW k \in DOMAIN cache'.entries
                     PROVE  /\ \E i \in DOMAIN sessions :
                                  sessions[i].document = k.document
                            /\ \A i \in DOMAIN sessions :
                                 sessions[i].document = k.document =>
                                   cache'.entries[k] =
                                     Raster(opened[i], k.page, k.target)
        BY <2>1 DEF CachedPagesAreCurrent, table
      <4>2. CASE k = key
        <5>1. \A i \in DOMAIN sessions :
                sessions[i].document = key.document => i = h.session
          BY <2>4, <3>2, DocumentsDistinct DEF IInv
        <5> QED
          BY <4>2, <5>1, <2>4, <3>2, <3>3, <3>4
      <4>3. CASE k # key
        BY <4>3, <3>4 DEF IInv, CacheOK, CachedPagesAreCurrent
      <4> QED
        BY <4>2, <4>3
    <3>7. CacheOK'
      BY <3>4, <3>5, <3>6 DEF CacheOK
    <3> QED
      BY <2>1, <2>2, <2>5, <3>7, SameTableKeepsIInv DEF IInv
  <2>7. CASE ~o.ok
    BY <2>1, <2>2, <2>5, <2>7, QuietStep DEF IInv
  <2> QED
    BY <2>6, <2>7
<1> QED
  BY <1>1, <1>2, <1>3 DEF Render

-----------------------------------------------------------------------------
(* close                                                                   *)

\* A close takes the document out of all three tables, whatever the backend
\* reports.
LEMMA CloseStep ==
  ASSUME IInv, ~dropped, UNCHANGED dropped, NEW h \in Handles, Close(h)
  PROVE  IInv'
<1>1. CASE CloseRejected(h)
  <2>1. UNCHANGED << backend, cache, poisoned, table >>
    BY <1>1 DEF CloseRejected
  <2> QED
    BY <2>1, QuietStep DEF IInv
<1>2. CASE CloseDocument(h)
  <2> DEFINE s == sessions[h.session].session
             left == DOMAIN sessions \ {h.session}
  <2>1. /\ IsOpen(h)
        /\ sessions' = Restrict(sessions, left)
        /\ cache' = CacheRemoveDocument(cache, h.document)
        /\ UNCHANGED << poisoned, nextId, opened >>
    BY <1>2 DEF CloseDocument
  <2>2. PICK o \in CloseSession(backend, s) : backend' = o.backend
    BY <1>2 DEF CloseDocument
  <2>3. /\ h.session \in DOMAIN sessions
        /\ s \in DOMAIN backend.sessions
        /\ h.document = sessions[h.session].document
    BY <2>1, OpenIsHeld DEF IsOpen
  <2>4. /\ DOMAIN sessions' = left
        /\ \A i \in left : i \in DOMAIN sessions /\ sessions'[i] = sessions[i]
        /\ sessions' = [i \in DOMAIN sessions' |-> sessions'[i]]
    BY <2>1 DEF Restrict
  <2>5. /\ BackendOK(backend')
        /\ DOMAIN backend'.sessions = DOMAIN backend.sessions \ {s}
        /\ \A t \in DOMAIN backend'.sessions :
             backend'.sessions[t] = backend.sessions[t]
    <3>1. /\ BackendOK(o.backend)
          /\ o.backend.sessions = Restrict(backend.sessions, DOMAIN backend.sessions \ {s})
      <4> HIDE DEF s
      <4>1. BackendOK(backend)
        BY DEF IInv
      <4> QED
        BY <4>1, <2>2, <2>3, CloseRemovesSession
    <3> HIDE DEF s
    <3> QED
      BY <3>1, <2>2 DEF Restrict
  <2>6. SessionsOK'
    <3>1. /\ IsFiniteSet(DOMAIN sessions')
          /\ Cardinality(DOMAIN sessions') = Cardinality(DOMAIN sessions) - 1
          /\ Cardinality(DOMAIN sessions) \in Nat
      BY <2>3, <2>4, FS_RemoveElement, FS_CardinalityType DEF IInv, SessionsOK
    <3>2. Cardinality(DOMAIN sessions') <= MaxOpenDocuments
      BY <3>1, ManagerAssumption DEF IInv, SessionsOK
    <3> QED
      BY <3>1, <3>2, <2>1, <2>4 DEF IInv, SessionsOK
  <2>7. OpenedOK'
    BY <2>1 DEF IInv, OpenedOK
  <2>8. \A i \in DOMAIN sessions : sessions[i].session = s => i = h.session
    BY <2>3 DEF IInv, Tied, OneSessionPerDocument
  <2> HIDE DEF s
  <2>9. OneSessionPerDocument'
    <3>1. { sessions'[i].session : i \in DOMAIN sessions' }
            = { sessions[i].session : i \in DOMAIN sessions } \ {s}
      BY <2>3, <2>4, <2>8 DEF s
    <3>2. { sessions[i].session : i \in DOMAIN sessions } = DOMAIN backend.sessions
      BY DEF IInv, Tied, OneSessionPerDocument
    <3>3. \A i, j \in DOMAIN sessions' :
            sessions'[i].session = sessions'[j].session => i = j
      BY <2>4 DEF IInv, Tied, OneSessionPerDocument
    <3> QED
      BY <3>1, <3>2, <3>3, <2>5 DEF OneSessionPerDocument
  <2>10. Tied'
    <3>1. ASSUME NEW i \in DOMAIN sessions'
          PROVE  LET held == backend'.sessions[sessions'[i].session]
                 IN  /\ i \in DOMAIN opened'
                     /\ sessions'[i].document \in DOMAIN held
                     /\ opened'[i] = held[sessions'[i].document]
                     /\ sessions'[i].pages = PageCount[opened'[i]]
      <4>1. /\ i \in DOMAIN sessions /\ sessions'[i] = sessions[i]
            /\ sessions'[i].session \in DOMAIN backend'.sessions
        BY <2>4, <2>9 DEF OneSessionPerDocument
      <4>2. backend'.sessions[sessions[i].session] =
              backend.sessions[sessions[i].session]
        BY <4>1, <2>5
      <4> QED
        BY <4>1, <4>2, <2>1 DEF IInv, Tied
    <3> QED
      BY <2>9, <3>1 DEF Tied
  <2>11. CacheOK'
    <3>1. /\ CacheShape(cache')
          /\ DOMAIN cache'.entries =
               { k \in DOMAIN cache.entries : k.document # h.document }
          /\ \A k \in DOMAIN cache'.entries : cache'.entries[k] = cache.entries[k]
      BY <2>1, RemoveDropsDocument DEF IInv, CacheOK
    <3>2. CachedPagesAreCurrent'
      <4>1. SUFFICES ASSUME NEW k \in DOMAIN cache'.entries
                     PROVE  /\ \E i \in DOMAIN sessions' :
                                  sessions'[i].document = k.document
                            /\ \A i \in DOMAIN sessions' :
                                 sessions'[i].document = k.document =>
                                   cache'.entries[k] =
                                     Raster(opened'[i], k.page, k.target)
        BY DEF CachedPagesAreCurrent
      <4>2. k \in DOMAIN cache.entries /\ k.document # h.document
        BY <3>1
      <4>3. PICK i \in DOMAIN sessions : sessions[i].document = k.document
        BY <4>2 DEF IInv, CacheOK, CachedPagesAreCurrent
      <4>4. i \in left
        BY <4>2, <4>3, <2>3
      <4>5. i \in DOMAIN sessions' /\ sessions'[i].document = k.document
        BY <4>3, <4>4, <2>4
      <4>6. ASSUME NEW j \in DOMAIN sessions', sessions'[j].document = k.document
            PROVE  cache'.entries[k] = Raster(opened'[j], k.page, k.target)
        <5>1. /\ j \in DOMAIN sessions /\ sessions[j].document = k.document
              /\ opened'[j] = opened[j] /\ cache'.entries[k] = cache.entries[k]
          BY <4>6, <3>1, <2>1, <2>4
        <5> QED
          BY <5>1, <4>2 DEF IInv, CacheOK, CachedPagesAreCurrent
      <4> QED
        BY <4>5, <4>6
    <3> QED
      BY <3>1, <3>2 DEF IInv, CacheOK
  <2> QED
    BY <2>1, <2>5, <2>6, <2>7, <2>10, <2>11 DEF IInv, NothingOutlivesTheManager
<1> QED
  BY <1>1, <1>2 DEF Close

-----------------------------------------------------------------------------
(* The end of the manager, and crashes.                                    *)

\* The tables and the cache of nothing.
LEMMA EmptyTables ==
  /\ sessions = NoSessions /\ cache = EmptyCache
  /\ backend.sessions = NoSessions /\ nextId \in Nat
  => SessionsOK /\ Tied /\ CacheOK
<1> SUFFICES ASSUME sessions = NoSessions, cache = EmptyCache,
                    backend.sessions = NoSessions, nextId \in Nat
             PROVE  SessionsOK /\ Tied /\ CacheOK
  OBVIOUS
<1>1. DOMAIN sessions = {} /\ DOMAIN backend.sessions = {}
  BY DEF NoSessions
<1>2. IsFiniteSet({}) /\ Cardinality({}) = 0
  BY FS_EmptySet
<1>3. SessionsOK
  BY <1>1, <1>2, ManagerAssumption DEF SessionsOK, NoSessions
<1>4. Tied
  BY <1>1 DEF Tied, OneSessionPerDocument
<1>5. CacheOK
  BY EmptyCacheShape DEF CacheOK, CachedPagesAreCurrent
<1> QED
  BY <1>3, <1>4, <1>5

\* The drop leaves nothing, with the lock poisoned or not.
LEMMA DropStep == ASSUME IInv, ~dropped, Drop PROVE IInv'
<1> DEFINE owned == { sessions[i].session : i \in DOMAIN sessions }
           emptied == [backend EXCEPT !.sessions  = Restrict(@, DOMAIN @ \ owned),
                                      !.sandboxes = @ \ owned]
           closed == IF poisoned THEN backend ELSE emptied
<1>1. /\ dropped' = TRUE /\ backend' = DropBackend(closed)
      /\ sessions' = NoSessions /\ cache' = EmptyCache
      /\ UNCHANGED << nextId, poisoned, opened >>
  BY DEF Drop
<1>2. BackendOK(emptied)
  <2> DEFINE kept == Restrict(backend.sessions, DOMAIN backend.sessions \ owned)
             mid == [backend EXCEPT !.sessions = kept]
  <2>1. mid = [sessions |-> kept, sandboxes |-> backend.sandboxes,
               nextSession |-> backend.nextSession,
               nextDocument |-> backend.nextDocument]
    <3> HIDE DEF kept
    <3> QED
      BY DEF IInv, BackendOK, BackendShape
  <2>2. mid.sandboxes = backend.sandboxes
    <3> HIDE DEF mid
    <3> QED
      BY <2>1
  <2>3. emptied = [mid EXCEPT !.sandboxes = mid.sandboxes \ owned]
    BY Zenon
  <2> HIDE DEF mid, kept, emptied, owned
  <2>4. emptied = [sessions |-> kept, sandboxes |-> backend.sandboxes \ owned,
                   nextSession |-> backend.nextSession,
                   nextDocument |-> backend.nextDocument]
    BY <2>1, <2>2, <2>3
  <2> QED
    BY <2>4, RemovalKeepsShape DEF kept, IInv
<1> HIDE DEF emptied
<1>3. BackendOK(closed)
  BY <1>2 DEF IInv
<1> HIDE DEF closed
<1>4. /\ BackendOK(backend') /\ backend'.sessions = NoSessions
      /\ backend'.sandboxes = {}
  BY <1>1, <1>3, DropLeavesNothing
<1>5. nextId' \in Nat /\ OpenedOK'
  BY <1>1 DEF IInv, SessionsOK, OpenedOK
<1>6. SessionsOK' /\ Tied' /\ CacheOK'
  <2>1. (/\ sessions = NoSessions /\ cache = EmptyCache
         /\ backend.sessions = NoSessions /\ nextId \in Nat
         => SessionsOK /\ Tied /\ CacheOK)'
    BY EmptyTables, PTL
  <2> QED
    BY <2>1, <1>1, <1>4, <1>5
<1>7. NothingOutlivesTheManager'
  BY <1>1, <1>4, EmptyCacheShape DEF NothingOutlivesTheManager, NoSessions
<1> QED
  BY <1>1, <1>4, <1>5, <1>6, <1>7 DEF IInv

\* A crash takes a sandbox and nothing else.
LEMMA CrashStep ==
  ASSUME IInv, ~dropped, UNCHANGED dropped, NEW s, WorkerCrash(s)
  PROVE  IInv'
<1>1. backend' = Kill(backend, s) /\ UNCHANGED << cache, poisoned, table >>
  BY DEF WorkerCrash
<1>2. BackendOK(backend') /\ backend'.sessions = backend.sessions
  BY <1>1, KillKeepsTable DEF IInv, SameTable
<1> QED
  BY <1>1, <1>2, QuietStep DEF IInv

-----------------------------------------------------------------------------
(* Whom a call takes down.                                                 *)

\* Closing a half-open session takes down no other one.
LEMMA HalfOpenSparesOthers ==
  ASSUME NEW failed, NEW s, NEW bytes, BackendOK(failed.backend),
         s \in DOMAIN failed.backend.sessions, HalfOpenClosed(failed, s, bytes)
  PROVE  failed.backend.sandboxes \ {s} \subseteq backend'.sandboxes
<1>1. PICK closed \in CloseSession(failed.backend, s) : backend' = closed.backend
  BY DEF HalfOpenClosed, OpenFailed
<1>2. closed.backend.sandboxes = failed.backend.sandboxes \ {s}
  BY <1>1, CloseRemovesSession
<1> QED
  BY <1>1, <1>2

\* An open takes down no session there was, however it ends.
LEMMA OpenSparesAll ==
  ASSUME IInv, NEW bytes \in Contents \cup {NoBytes}, Open(bytes)
  PROVE  backend.sandboxes \subseteq backend'.sandboxes
<1>1. CASE OpenRejected(bytes)
  BY <1>1 DEF OpenRejected
<1>2. CASE OpenPanics(bytes)
  <2>1. backend' = [backend EXCEPT !.nextSession = @ + 1]
    BY <1>2 DEF OpenPanics
  <2> QED
    BY <2>1, CountingKeepsTable DEF IInv
<1>3. CASE OpenDocument(bytes)
  <2>1. PICK start \in StartSession(backend) :
          \/ backend' = start.backend
          \/ /\ start.ok
             /\ LET s == start.result.session
                IN  \E sent \in SendDocument(start.backend, s, bytes) :
                      \/ HalfOpenClosed(sent, s, bytes)
                      \/ /\ sent.ok
                         /\ LET d == sent.result.document
                            IN  \E info \in GetDocumentInfo(sent.backend, s, d) :
                                  \/ HalfOpenClosed(info, s, bytes)
                                  \/ backend' = info.backend
    BY <1>3 DEF OpenDocument, OpenFailed, Registered
  <2>2. /\ BackendOK(start.backend)
        /\ backend.sandboxes \subseteq start.backend.sandboxes
    BY <2>1, StartAddsFreshSession, StartSparesAll DEF IInv
  <2>3. CASE start.ok /\ backend' # start.backend
    <3> DEFINE s == start.result.session
    <3>1. s \in DOMAIN start.backend.sessions /\ s \notin backend.sandboxes
      <4> DEFINE id == backend.nextSession + 1
      <4>1. BackendOK(backend) /\ s = id /\ id \notin DOMAIN backend.sessions
        BY <2>1, <2>3, StartAddsFreshSession DEF IInv
      <4>2. start.backend.sessions =
              [t \in DOMAIN backend.sessions \cup {id} |->
                 IF t = id THEN NoSessions ELSE backend.sessions[t]]
        BY <2>1, <2>3, <4>1, StartAddsFreshSession
      <4> HIDE DEF s, id
      <4> QED
        BY <4>1, <4>2 DEF BackendOK, BackendShape
    <3>2. bytes \in Contents
      BY <1>3 DEF OpenDocument, MayStart
    <3> HIDE DEF s
    <3>3. PICK sent \in SendDocument(start.backend, s, bytes) :
            \/ HalfOpenClosed(sent, s, bytes)
            \/ /\ sent.ok
               /\ LET d == sent.result.document
                  IN  \E info \in GetDocumentInfo(sent.backend, s, d) :
                        \/ HalfOpenClosed(info, s, bytes)
                        \/ backend' = info.backend
      BY <2>1, <2>3 DEF s
    <3>4. /\ BackendOK(sent.backend) /\ s \in DOMAIN sent.backend.sessions
          /\ backend.sandboxes \subseteq sent.backend.sandboxes
      BY <2>2, <3>1, <3>2, <3>3, SendStoresUnderFreshId, SendSparesOthers
    <3>5. CASE HalfOpenClosed(sent, s, bytes)
      BY <3>1, <3>4, <3>5, HalfOpenSparesOthers
    <3>6. CASE ~HalfOpenClosed(sent, s, bytes)
      <4> DEFINE d == sent.result.document
      <4>1. d \in DOMAIN sent.backend.sessions[s]
        BY <2>2, <3>1, <3>2, <3>3, <3>6, SendStoresUnderFreshId
      <4> HIDE DEF d
      <4>2. PICK info \in GetDocumentInfo(sent.backend, s, d) :
              HalfOpenClosed(info, s, bytes) \/ backend' = info.backend
        BY <3>3, <3>6 DEF d
      <4>3. BackendOK(info.backend) /\ s \in DOMAIN info.backend.sessions
        <5>1. /\ BackendOK(info.backend)
              /\ info.backend.sessions = sent.backend.sessions
          BY <3>4, <4>1, <4>2, InfoKeepsTable DEF SameTable
        <5> QED
          BY <3>4, <5>1
      <4>4. info \in Request(sent.backend, s,
                             [pages |-> PageCount[sent.backend.sessions[s][d]]])
        BY <3>4, <4>1, <4>2 DEF GetDocumentInfo
      <4>5. sent.backend.sandboxes \ {s} \subseteq info.backend.sandboxes
        BY <3>4, <4>4, RequestSparesOthers
      <4> QED
        BY <3>1, <3>4, <4>2, <4>3, <4>5, HalfOpenSparesOthers
    <3> QED
      BY <3>5, <3>6
  <2> QED
    BY <2>1, <2>2, <2>3
<1> QED
  BY <1>1, <1>2, <1>3 DEF Open

\* A call on a handle takes down the session of that handle at most.
LEMMA HandleTakesItsOwn ==
  ASSUME IInv, NEW h \in Handles, NEW i \in DOMAIN sessions,
         sessions[i].session \in backend.sandboxes \ backend'.sandboxes,
         IsOpen(h) => backend.sandboxes \ { sessions[h.session].session }
                        \subseteq backend'.sandboxes,
         ~IsOpen(h) => UNCHANGED backend
  PROVE  h = Handle(i)
<1>1. IsOpen(h) /\ sessions[i].session = sessions[h.session].session
  OBVIOUS
<1>2. i = h.session
  BY <1>1 DEF IsOpen, IInv, Tied, OneSessionPerDocument
<1> QED
  BY <1>1, <1>2 DEF Handles, Handle, IsOpen

-----------------------------------------------------------------------------
(* The invariant and what follows from it.                                 *)

\* A new manager satisfies the invariant.
LEMMA InitIInv == Init => IInv
<1> SUFFICES ASSUME Init PROVE IInv
  OBVIOUS
<1>1. /\ BackendOK(backend) /\ backend.sessions = NoSessions
      /\ nextId = 0 /\ dropped = FALSE /\ poisoned = FALSE
  BY InitBackendOK DEF Init, InitBackend
<1>2. SessionsOK /\ Tied /\ CacheOK
  BY <1>1, EmptyTables DEF Init
<1>3. OpenedOK
  BY DEF Init, OpenedOK, NoSessions
<1> QED
  BY <1>1, <1>2, <1>3 DEF IInv, NothingOutlivesTheManager

\* Every step keeps the invariant.
LEMMA NextIInv == IInv /\ [Next]_vars => IInv'
<1> SUFFICES ASSUME IInv, [Next]_vars PROVE IInv'
  OBVIOUS
<1>1. CASE UNCHANGED vars
  <2>1. /\ UNCHANGED << backend, sessions, cache, nextId, poisoned >>
        /\ UNCHANGED << dropped, opened >>
    BY <1>1 DEF vars
  <2> QED
    BY <2>1 DEF IInv, SessionsOK, OpenedOK, Tied, OneSessionPerDocument,
                CacheOK, CachedPagesAreCurrent, NothingOutlivesTheManager
<1>2. CASE Next
  <2>1. ~dropped
    BY <1>2 DEF Next
  <2>2. CASE Call /\ UNCHANGED dropped
    <3>1. CASE \E bytes \in Contents \cup {NoBytes} : Open(bytes)
      BY <2>1, <2>2, <3>1, OpenStep
    <3>2. CASE \E h \in Handles : Info(h)
      BY <2>1, <2>2, <3>2, InfoStep
    <3>3. CASE \E h \in Handles, page \in 0 .. MaxPage,
                  target \in Targets \cup {BadTarget} : Render(h, page, target)
      BY <2>1, <2>2, <3>3, RenderStep
    <3>4. CASE \E h \in Handles : Close(h)
      BY <2>1, <2>2, <3>4, CloseStep
    <3> QED
      BY <2>2, <3>1, <3>2, <3>3, <3>4 DEF Call
  <2>3. CASE (\E s \in backend.sandboxes : WorkerCrash(s)) /\ UNCHANGED dropped
    BY <2>1, <2>3, CrashStep
  <2>4. CASE Drop
    BY <2>1, <2>4, DropStep
  <2> QED
    BY <1>2, <2>2, <2>3, <2>4 DEF Next
<1> QED
  BY <1>1, <1>2

\* The invariant holds in every reachable state.
THEOREM Invariance == Spec => []IInv
  BY InitIInv, NextIInv, PTL DEF Spec

\* The tables have their types.
THEOREM TypeCorrectness == Spec => []TypeOK
  BY Invariance, IInvImpliesTypeOK, PTL

\* The manager's open documents and the backend's sessions are one to one
\* (the cleanup paths of DocumentManager::open and close).
THEOREM SessionsMatchDocuments == Spec => []OneSessionPerDocument
<1>1. IInv => OneSessionPerDocument
  BY DEF IInv, Tied
<1> QED
  BY <1>1, Invariance, PTL

\* There is no sandbox a close or the drop would not find, and never more of
\* them than MAX_OPEN_DOCUMENTS.
THEOREM SandboxesAreBounded == Spec => []NoStraySandbox
  BY Invariance, IInvImpliesNoStraySandbox, PTL

\* A cached page is never served for bytes it does not show, although cache
\* keys name no session (DocumentManager::render_page and close).
THEOREM CacheIsCurrent == Spec => []CachedPagesAreCurrent
<1>1. IInv => CachedPagesAreCurrent
  BY DEF IInv, CacheOK
<1> QED
  BY <1>1, Invariance, PTL

\* No session and no sandbox outlives the manager, even when it is dropped
\* with its lock poisoned (Drop for DocumentManager).
THEOREM DropIsComplete == Spec => []NothingOutlivesTheManager
<1>1. IInv => NothingOutlivesTheManager
  BY DEF IInv
<1> QED
  BY <1>1, Invariance, PTL

\* No call on one document takes down the sandbox of another, however the call
\* fails (DocumentManager::open, render_page and close, and their cleanups).
THEOREM CallsAreSeparate == Spec => OthersUndisturbed
<1> DEFINE Spared == \A i \in DOMAIN sessions :
              /\ sessions[i].session \in backend.sandboxes \ backend'.sandboxes
              /\ reply' # reply
              => "handle" \in DOMAIN reply' /\ reply'.handle = Handle(i)
<1>1. ASSUME IInv, [Next]_vars PROVE [Spared]_vars
  <2> SUFFICES ASSUME NEW i \in DOMAIN sessions, Next,
                      sessions[i].session \in backend.sandboxes \ backend'.sandboxes,
                      reply' # reply
               PROVE  "handle" \in DOMAIN reply' /\ reply'.handle = Handle(i)
    BY <1>1
  <2>1. Call
    BY DEF Next, WorkerCrash, Drop
  <2>2. ~(\E bytes \in Contents \cup {NoBytes} : Open(bytes))
    BY <1>1, OpenSparesAll
  <2>3. ASSUME NEW h \in Handles, Info(h) PROVE FALSE
    BY <2>3 DEF Info
  <2>4. ASSUME NEW h \in Handles, NEW page, NEW target, Render(h, page, target)
        PROVE  "handle" \in DOMAIN reply' /\ reply'.handle = Handle(i)
    <3>1. "handle" \in DOMAIN reply' /\ reply'.handle = h
      BY <2>4 DEF Render, RenderRejected, RenderHit, RenderMiss, RenderReply
    <3>2. RenderMiss(h, page, target)
      BY <2>4 DEF Render, RenderRejected, RenderHit
    <3> DEFINE s == sessions[h.session].session
    <3>3. IsOpen(h)
      BY <3>2 DEF RenderMiss, MayRender
    <3>4. /\ BackendOK(backend) /\ s \in DOMAIN backend.sessions
          /\ h.document \in DOMAIN backend.sessions[s]
      BY <1>1, <3>3, OpenIsHeld DEF IInv
    <3>5. PICK o \in RenderPage(backend, s, h.document, page, target) :
            backend' = o.backend
      BY <3>2 DEF RenderMiss
    <3>6. backend.sandboxes \ { s } \subseteq backend'.sandboxes
      <4> HIDE DEF s
      <4>1. o \in Request(backend, s,
                    Raster(backend.sessions[s][h.document], page, target))
        BY <3>4, <3>5 DEF RenderPage
      <4>2. backend.sandboxes \ { s } \subseteq o.backend.sandboxes
        BY <3>4, <4>1, RequestSparesOthers
      <4> QED
        BY <3>5, <4>2
    <3> QED
      BY <1>1, <3>1, <3>3, <3>6, HandleTakesItsOwn
  <2>5. ASSUME NEW h \in Handles, Close(h)
        PROVE  "handle" \in DOMAIN reply' /\ reply'.handle = Handle(i)
    <3>1. "handle" \in DOMAIN reply' /\ reply'.handle = h
      BY <2>5 DEF Close, CloseRejected, CloseDocument, CloseReply
    <3>2. CloseDocument(h)
      BY <2>5 DEF Close, CloseRejected
    <3> DEFINE s == sessions[h.session].session
    <3>3. IsOpen(h)
      BY <3>2 DEF CloseDocument
    <3>4. BackendOK(backend) /\ s \in DOMAIN backend.sessions
      BY <1>1, <3>3, OpenIsHeld DEF IInv
    <3>5. PICK o \in CloseSession(backend, s) : backend' = o.backend
      BY <3>2 DEF CloseDocument
    <3>6. backend.sandboxes \ { s } \subseteq backend'.sandboxes
      <4> HIDE DEF s
      <4>1. o.backend.sandboxes = backend.sandboxes \ { s }
        BY <3>4, <3>5, CloseRemovesSession
      <4> QED
        BY <3>5, <4>1
    <3> QED
      BY <1>1, <3>1, <3>3, <3>6, HandleTakesItsOwn
  <2> QED
    BY <2>1, <2>2, <2>3, <2>4, <2>5 DEF Call
<1>2. Spec => [][Spared]_vars
  BY <1>1, Invariance, PTL DEF Spec
<1> QED
  BY <1>2 DEF OthersUndisturbed

-----------------------------------------------------------------------------
(* The document manager is a shelf of documents, for any contents, limits  *)
(* and numbers of sessions: every step of the manager is a step of         *)
(* DocumentShelf, or changes nothing its callers can see.  The proof rests *)
(* on the invariant above (a page from the cache is one of the bytes the   *)
(* handle was given for, an id given out is new) and on what a failed      *)
(* request of the backend can be blamed on.                                *)

\* The handles on the shelf.
OpenHandles == { Handle(i) : i \in DOMAIN sessions }

OnShelf == [h \in OpenHandles |-> opened[h.session]]

\* An error that says nothing about the shelf.
Blameless(result) ==
  "error" \in DOMAIN result /\ result.error \notin { "NoDocumentOpen", "InvalidPage" }

-----------------------------------------------------------------------------
(* What a failed call of the backend says.                                 *)

\* Every error but two says nothing about the shelf.
LEMMA ErrorSays ==
  ASSUME NEW code, code \notin { "NoDocumentOpen", "InvalidPage" }
  PROVE  Blameless(Error(code))
  BY DEF Blameless, Error

\* A start that fails speaks of the sandbox.
LEMMA FailedStart ==
  ASSUME NEW be, NEW o \in StartSession(be), ~o.ok
  PROVE  Blameless(o.result)
<1>1. PICK code \in { "SandboxStartupFailed", "Timeout", "InternalError" } :
        o.result = Error(code)
  BY DEF StartSession, Outcome
<1> QED BY <1>1, ErrorSays

\* So does a request, which ends in time, in a crash or in a worker's refusal.
LEMMA FailedRequestSays ==
  ASSUME NEW be, NEW s, NEW answer, NEW o \in Request(be, s, answer)
  PROVE  /\ OutcomeShape(o)
         /\ ~o.ok => Blameless(o.result)
<1>1. CASE o \in FailedRequest(be, s) \cup Refusals(be)
  <2> DEFINE codes == { "SandboxCrashed", "InternalError", "Timeout",
                        "RenderingFailed", "ResourceLimitExceeded" }
  <2>1. PICK after, code : code \in codes /\ o = Outcome(after, FALSE, Error(code))
    <3>1. CASE o \in FailedRequest(be, s)
      BY <3>1 DEF FailedRequest
    <3>2. CASE o \in Refusals(be)
      BY <3>2 DEF Refusals, WorkerErrors
    <3> QED BY <1>1, <3>1, <3>2
  <2>2. Blameless(Error(code))
    BY <2>1, ErrorSays
  <2> QED BY <2>1, <2>2 DEF Outcome, OutcomeShape
<1>2. CASE o = Outcome(be, TRUE, answer)
  BY <1>2 DEF Outcome, OutcomeShape
<1> QED BY <1>1, <1>2 DEF Request

\* So does sending a document, also one that is too large to send.
LEMMA FailedSend ==
  ASSUME NEW be, NEW s, NEW bytes, NEW o \in SendDocument(be, s, bytes), ~o.ok
  PROVE  Blameless(o.result)
<1>1. CASE \E code \in { "InternalError", "DocumentTooLarge" } :
             o = Outcome(be, FALSE, Error(code))
  BY <1>1, ErrorSays DEF Outcome
<1>2. CASE s \in DOMAIN be.sessions /\ bytes \notin Oversized
  <2> DEFINE id == be.nextDocument + 1
             counted == [be EXCEPT !.nextDocument = id]
             answer == [document |-> id]
             stored(p) == [p EXCEPT !.backend.sessions[s] =
                             [d \in DOMAIN @ \cup {id} |-> IF d = id THEN bytes ELSE @[d]]]
  <2>1. PICK p \in Request(counted, s, answer) : o = IF p.ok THEN stored(p) ELSE p
    BY <1>2 DEF SendDocument
  <2>2. OutcomeShape(p) /\ (~p.ok => Blameless(p.result))
    BY FailedRequestSays
  <2>3. OutcomeShape(p) => stored(p).ok = p.ok
    BY DEF OutcomeShape
  <2> HIDE DEF stored
  <2> QED BY <2>1, <2>2, <2>3
<1> QED BY <1>1, <1>2 DEF SendDocument

-----------------------------------------------------------------------------
(* The shelf a state of the manager shows.                                 *)

\* A handle of the table is an open one.
LEMMA OpenHandlesAreOpen ==
  ASSUME NEW h \in Handles
  PROVE  h \in OpenHandles <=> IsOpen(h)
<1>1. h = [session |-> h.session, document |-> h.document]
  BY DEF Handles
<1> QED BY <1>1 DEF OpenHandles, Handle, IsOpen

\* The shelf counts and restricts as the manager does.
LEMMA SameOperators ==
  ASSUME NEW S, NEW f
  PROVE  Shelf!Cardinality(S) = Cardinality(S) /\ Shelf!Restrict(f, S) = Restrict(f, S)
  BY DEF Shelf!Cardinality, Cardinality, Shelf!IsFiniteSet, IsFiniteSet,
         Shelf!Restrict, Restrict

\* A new manager is an empty shelf.
LEMMA InitIsShelf == Init => Shelf!Init
  BY DEF Init, NoSessions, Shelf!Init

\* A call that fails without touching the table.
LEMMA FailureIsShelf ==
  ASSUME UNCHANGED << sessions, opened >>,
         reply'.op \in { "open", "info", "render", "close" },
         "error" \in DOMAIN reply'.result,
         reply'.op = "close" /\ ~poisoned => reply'.handle \notin OpenHandles,
         reply'.result.error = "NoDocumentOpen" => reply'.handle \notin OpenHandles,
         reply'.result.error = "InvalidPage" =>
           /\ reply'.handle \in OpenHandles
           /\ reply'.page >= PageCount[OnShelf[reply'.handle]],
         poisoned => poisoned', poisoned' => poisoned \/ reply'.op = "open"
  PROVE  Shelf!Next
<1>1. Shelf!Fail
  BY DEF Shelf!Fail, Shelf!Failed, OnShelf, OpenHandles, Handle
<1> QED BY <1>1 DEF Shelf!Next

-----------------------------------------------------------------------------
(* open                                                                    *)

\* Closing the half-open session reports the first error.
LEMMA HalfOpenIsShelf ==
  ASSUME NEW failed, NEW s, NEW bytes, HalfOpenClosed(failed, s, bytes),
         Blameless(failed.result)
  PROVE  Shelf!Next
<1>1. PICK be : OpenFailed(be, bytes, failed.result)
  BY DEF HalfOpenClosed
<1> QED BY <1>1, FailureIsShelf DEF OpenFailed, OpenReply, Blameless, table

\* A registered document is put on the shelf under a handle it did not have.
LEMMA RegisteredIsShelf ==
  ASSUME IInv, ~poisoned, Cardinality(DOMAIN sessions) < MaxOpenDocuments,
         NEW info, NEW s, NEW d, NEW bytes, Registered(info, s, d, bytes)
  PROVE  Shelf!Next
<1> DEFINE id == nextId + 1
           new == [session |-> id, document |-> d]
<1>1. /\ sessions' = [i \in DOMAIN sessions \cup {id} |->
                        IF i = id THEN [session |-> s, document |-> d,
                                        pages |-> info.result.pages]
                                  ELSE sessions[i]]
      /\ opened' = [i \in DOMAIN opened \cup {id} |->
                      IF i = id THEN bytes ELSE opened[i]]
      /\ reply' = [op |-> "open", bytes |-> bytes, result |-> new]
      /\ poisoned' = poisoned
  BY DEF Registered, OpenReply
<1>2. /\ id \notin DOMAIN opened /\ id \notin DOMAIN sessions
      /\ DOMAIN sessions \subseteq DOMAIN opened
  BY DEF IInv, SessionsOK, OpenedOK, Tied
<1> HIDE DEF id
<1>3. OpenHandles' = OpenHandles \cup { new }
  BY <1>1, <1>2 DEF OpenHandles, Handle
<1>4. OnShelf' = [g \in OpenHandles \cup { new } |->
                    IF g = new THEN bytes ELSE OnShelf[g]]
  <2>1. \A g \in OpenHandles : g.session \in DOMAIN sessions /\ g # new
    BY <1>2 DEF OpenHandles, Handle
  <2> QED BY <1>1, <1>2, <1>3, <2>1 DEF OnShelf
<1>5. Cardinality(OpenHandles) < MaxOpenDocuments
  <2> DEFINE f == [i \in DOMAIN sessions |-> Handle(i)]
  <2>1. f \in Surjection(DOMAIN sessions, OpenHandles)
    BY DEF OpenHandles, Surjection
  <2>2. IsFiniteSet(DOMAIN sessions) /\ Cardinality(DOMAIN sessions) \in Nat
    BY FS_CardinalityType DEF IInv, SessionsOK
  <2> HIDE DEF f
  <2>3. /\ Cardinality(OpenHandles) <= Cardinality(DOMAIN sessions)
        /\ Cardinality(OpenHandles) \in Nat
    BY <2>1, <2>2, FS_Surjection, FS_CardinalityType
  <2> QED BY <2>2, <2>3, ManagerAssumption
<1>6. Shelf!Open
  <2>1. DOMAIN OnShelf = OpenHandles
    BY DEF OnShelf
  <2>2. "error" \notin DOMAIN new /\ DOMAIN opened' = DOMAIN opened \cup { new.session }
    BY <1>1
  <2>3. reply'.op = "open" /\ reply'.result = new /\ reply'.bytes = bytes
    BY <1>1
  <2> HIDE DEF new
  <2>4. Shelf!Cardinality(OpenHandles) < MaxOpenDocuments
    BY <1>5, SameOperators
  <2> QED BY <1>1, <1>2, <1>4, <2>1, <2>2, <2>3, <2>4
          DEF Shelf!Open, Shelf!Failed, OnShelf, OpenHandles, new
<1> QED BY <1>6 DEF Shelf!Next


\* An open puts a document on the shelf or blames nobody.
LEMMA OpenIsShelf ==
  ASSUME IInv, NEW bytes \in Contents \cup {NoBytes}, Open(bytes)
  PROVE  Shelf!Next
<1>1. CASE OpenRejected(bytes)
  <2>1. PICK code \in { "InvalidDocument", "InternalError", "ResourceLimitExceeded" } :
          OpenReply(bytes, Error(code))
    BY <1>1 DEF OpenRejected
  <2>2. Blameless(Error(code))
    BY ErrorSays
  <2> QED BY <1>1, <2>1, <2>2, FailureIsShelf DEF OpenRejected, OpenReply, Blameless, table
<1>2. CASE OpenPanics(bytes)
  <2>1. Blameless(Error("InternalError"))
    BY ErrorSays
  <2> QED BY <1>2, <2>1, FailureIsShelf DEF OpenPanics, OpenReply, Blameless, table
<1>3. CASE OpenDocument(bytes)
  <2>1. /\ bytes \in Contents /\ ~poisoned
        /\ Cardinality(DOMAIN sessions) < MaxOpenDocuments
    BY <1>3 DEF OpenDocument, MayStart
  <2>2. PICK start \in StartSession(backend) :
          \/ ~start.ok /\ OpenFailed(start.backend, bytes, start.result)
          \/ /\ start.ok
             /\ LET s == start.result.session
                IN  \E sent \in SendDocument(start.backend, s, bytes) :
                      \/ ~sent.ok /\ HalfOpenClosed(sent, s, bytes)
                      \/ /\ sent.ok
                         /\ LET d == sent.result.document
                            IN  \E info \in GetDocumentInfo(sent.backend, s, d) :
                                  \/ ~info.ok /\ HalfOpenClosed(info, s, bytes)
                                  \/ info.ok /\ Registered(info, s, d, bytes)
    BY <1>3 DEF OpenDocument
  <2>3. CASE ~start.ok /\ OpenFailed(start.backend, bytes, start.result)
    BY <2>3, <2>2, FailedStart, FailureIsShelf DEF OpenFailed, OpenReply, Blameless, table
  <2>4. CASE start.ok
    <3> DEFINE s == start.result.session
    <3>1. BackendOK(start.backend) /\ s \in DOMAIN start.backend.sessions
      <4> DEFINE id == backend.nextSession + 1
      <4>1. BackendOK(backend) /\ BackendOK(start.backend) /\ s = id
        BY <2>2, <2>4, StartAddsFreshSession DEF IInv
      <4>2. start.backend.sessions =
              [t \in DOMAIN backend.sessions \cup {id} |->
                 IF t = id THEN NoSessions ELSE backend.sessions[t]]
        BY <2>2, <2>4, <4>1, StartAddsFreshSession
      <4> HIDE DEF s, id
      <4> QED BY <4>1, <4>2
    <3> HIDE DEF s
    <3>2. PICK sent \in SendDocument(start.backend, s, bytes) :
            \/ ~sent.ok /\ HalfOpenClosed(sent, s, bytes)
            \/ /\ sent.ok
               /\ LET d == sent.result.document
                  IN  \E info \in GetDocumentInfo(sent.backend, s, d) :
                        \/ ~info.ok /\ HalfOpenClosed(info, s, bytes)
                        \/ info.ok /\ Registered(info, s, d, bytes)
      BY <2>2, <2>4 DEF s
    <3>3. CASE ~sent.ok /\ HalfOpenClosed(sent, s, bytes)
      BY <3>2, <3>3, FailedSend, HalfOpenIsShelf
    <3>4. CASE sent.ok
      <4> DEFINE d == sent.result.document
      <4>1. s \in DOMAIN sent.backend.sessions /\ d \in DOMAIN sent.backend.sessions[s]
        BY <2>1, <3>1, <3>2, <3>4, SendStoresUnderFreshId
      <4> HIDE DEF d
      <4>2. PICK info \in GetDocumentInfo(sent.backend, s, d) :
              \/ ~info.ok /\ HalfOpenClosed(info, s, bytes)
              \/ info.ok /\ Registered(info, s, d, bytes)
        BY <3>2, <3>4 DEF d
      <4>3. ~info.ok => Blameless(info.result)
        BY <4>1, <4>2, FailedRequestSays DEF GetDocumentInfo
      <4> QED BY <2>1, <4>2, <4>3, HalfOpenIsShelf, RegisteredIsShelf
    <3> QED BY <3>2, <3>3, <3>4
  <2> QED BY <2>2, <2>3, <2>4
<1> QED BY <1>1, <1>2, <1>3 DEF Open

-----------------------------------------------------------------------------
(* get_document_info, render_page and close.                               *)

\* Metadata is that of the bytes on the shelf.
LEMMA InfoIsShelf ==
  ASSUME IInv, NEW h \in Handles, Info(h)
  PROVE  Shelf!Next
<1>1. UNCHANGED << sessions, opened, poisoned >>
  BY DEF Info, table
<1>2. CASE poisoned
  <2>1. reply' = [op |-> "info", handle |-> h, result |-> Error("InternalError")]
    BY <1>2 DEF Info
  <2> QED BY <1>1, <2>1, ErrorSays, FailureIsShelf DEF Blameless
<1>3. CASE ~poisoned /\ ~IsOpen(h)
  <2>1. reply' = [op |-> "info", handle |-> h, result |-> Error("NoDocumentOpen")]
    BY <1>3 DEF Info
  <2> QED BY <1>1, <1>3, <2>1, OpenHandlesAreOpen, FailureIsShelf DEF Error
<1>4. CASE ~poisoned /\ IsOpen(h)
  <2>1. h \in OpenHandles /\ sessions[h.session].pages = PageCount[OnShelf[h]]
    BY <1>4, OpenHandlesAreOpen, OpenIsHeld DEF OnShelf, IInv, Tied
  <2>2. reply' = [op |-> "info", handle |-> h,
                  result |-> [pages |-> PageCount[OnShelf[h]]]]
    BY <1>4, <2>1 DEF Info
  <2>3. Shelf!Info
    BY <1>1, <1>4, <2>1, <2>2 DEF Shelf!Info, OnShelf, OpenHandles, Handle
  <2> QED BY <2>3 DEF Shelf!Next
<1> QED BY <1>2, <1>3, <1>4

\* A page shown for an open handle is one of the bytes of that handle.
LEMMA PageIsShelf ==
  ASSUME IInv, NEW h \in Handles, NEW page \in 0 .. MaxPage, NEW target,
         MayRender(h, page, target),
         UNCHANGED << sessions, opened, poisoned >>,
         RenderReply(h, page, target, Raster(opened[h.session], page, target))
  PROVE  Shelf!Next
<1>1. ~poisoned /\ IsOpen(h) /\ page < sessions[h.session].pages
  BY DEF MayRender
<1>2. /\ h \in OpenHandles /\ opened[h.session] = OnShelf[h]
      /\ OnShelf[h] \in Contents
      /\ sessions[h.session].pages = PageCount[OnShelf[h]]
  BY <1>1, OpenHandlesAreOpen, OpenIsHeld DEF OnShelf, IInv, Tied
<1>3. page \in 0 .. PageCount[OnShelf[h]] - 1
  BY <1>1, <1>2, ContentAssumption, ManagerAssumption
<1>4. Shelf!Render
  BY <1>1, <1>2, <1>3 DEF Shelf!Render, RenderReply, Raster, OnShelf, OpenHandles, Handle
<1> QED BY <1>4 DEF Shelf!Next

\* A page comes from the cache or the worker, and is the same either way.
LEMMA RenderIsShelf ==
  ASSUME IInv, NEW h \in Handles, NEW page \in 0 .. MaxPage,
         NEW target \in Targets \cup {BadTarget}, Render(h, page, target)
  PROVE  Shelf!Next
<1>0. UNCHANGED << sessions, opened, poisoned >>
  BY DEF Render, RenderRejected, RenderHit, RenderMiss, table
<1>1. CASE RenderRejected(h, page, target)
  <2>1. CASE \E code \in { "ResourceLimitExceeded", "InternalError" } :
               RenderReply(h, page, target, Error(code))
    BY <1>0, <2>1, FailureIsShelf DEF RenderReply, Error
  <2>2. CASE ~IsOpen(h) /\ RenderReply(h, page, target, Error("NoDocumentOpen"))
    BY <1>0, <2>2, OpenHandlesAreOpen, FailureIsShelf DEF RenderReply, Error
  <2>3. CASE /\ IsOpen(h) /\ page >= sessions[h.session].pages
             /\ RenderReply(h, page, target, Error("InvalidPage"))
    <3>1. h \in OpenHandles /\ sessions[h.session].pages = PageCount[OnShelf[h]]
      BY <2>3, OpenHandlesAreOpen, OpenIsHeld DEF OnShelf, IInv, Tied
    <3> QED BY <1>0, <2>3, <3>1, FailureIsShelf DEF RenderReply, Error
  <2> QED BY <1>1, <2>1, <2>2, <2>3 DEF RenderRejected
<1>2. CASE RenderHit(h, page, target)
  <2> DEFINE key == CacheKey(h.document, page, target)
  <2>1. MayRender(h, page, target) /\ key \in DOMAIN cache.entries
    BY <1>2 DEF RenderHit, CacheHas
  <2>2. h.session \in DOMAIN sessions /\ sessions[h.session].document = key.document
    BY <2>1 DEF MayRender, IsOpen, CacheKey
  <2>3. key.page = page /\ key.target = target
    BY DEF CacheKey
  <2>4. RenderReply(h, page, target, cache.entries[key])
    BY <1>2 DEF RenderHit
  <2> HIDE DEF key
  <2>5. cache.entries[key] = Raster(opened[h.session], page, target)
    BY <2>1, <2>2, <2>3 DEF IInv, CacheOK, CachedPagesAreCurrent
  <2> QED BY <1>0, <2>1, <2>4, <2>5, PageIsShelf
<1>3. CASE RenderMiss(h, page, target)
  <2> DEFINE s == sessions[h.session].session
  <2>1. MayRender(h, page, target) /\ IsOpen(h)
    BY <1>3 DEF RenderMiss, MayRender
  <2>2. PICK o \in RenderPage(backend, s, h.document, page, target) :
          RenderReply(h, page, target, o.result)
    BY <1>3 DEF RenderMiss
  <2>3. /\ s \in DOMAIN backend.sessions
        /\ h.document \in DOMAIN backend.sessions[s]
        /\ opened[h.session] = backend.sessions[s][h.document]
    BY <2>1, OpenIsHeld
  <2> HIDE DEF s
  <2>4. CASE o.ok
    <3>1. o.result = Raster(opened[h.session], page, target)
      BY <2>2, <2>3, <2>4, RenderKeepsTable DEF IInv
    <3> QED BY <1>0, <2>1, <2>2, <3>1, PageIsShelf
  <2>5. CASE ~o.ok
    <3>1. Blameless(o.result)
      BY <2>2, <2>3, <2>5, FailedRequestSays DEF RenderPage
    <3> QED BY <1>0, <2>2, <3>1, FailureIsShelf DEF RenderReply, Blameless
  <2> QED BY <2>4, <2>5
<1> QED BY <1>1, <1>2, <1>3 DEF Render

\* The handle is off the shelf, whatever the backend reports.
LEMMA CloseIsShelf ==
  ASSUME IInv, NEW h \in Handles, Close(h)
  PROVE  Shelf!Next
<1>1. CASE CloseRejected(h)
  <2>1. UNCHANGED << sessions, opened, poisoned >>
    BY <1>1 DEF CloseRejected, table
  <2>2. CASE poisoned /\ CloseReply(h, Error("InternalError"))
    BY <2>1, <2>2, FailureIsShelf DEF CloseReply, Error
  <2>3. CASE ~IsOpen(h) /\ CloseReply(h, Error("NoDocumentOpen"))
    BY <2>1, <2>3, OpenHandlesAreOpen, FailureIsShelf DEF CloseReply, Error
  <2> QED BY <1>1, <2>2, <2>3 DEF CloseRejected
<1>2. CASE CloseDocument(h)
  <2>1. /\ ~poisoned /\ IsOpen(h) /\ UNCHANGED << poisoned, opened >>
        /\ sessions' = [i \in DOMAIN sessions \ {h.session} |-> sessions[i]]
        /\ reply'.op = "close" /\ reply'.handle = h
    BY <1>2 DEF CloseDocument, CloseReply, Restrict
  <2>2. h \in OpenHandles
    BY <2>1, OpenHandlesAreOpen
  <2>3. OpenHandles' = OpenHandles \ {h}
    <3>1. h = Handle(h.session)
      BY <2>1 DEF Handles, Handle, IsOpen
    <3> QED BY <2>1, <3>1 DEF OpenHandles, Handle
  <2>4. OnShelf' = Restrict(OnShelf, DOMAIN OnShelf \ {h})
    BY <2>1, <2>3 DEF OnShelf, Restrict
  <2>5. Shelf!Close
    BY <2>1, <2>2, <2>4, SameOperators DEF Shelf!Close, OnShelf, OpenHandles
  <2> QED BY <2>5 DEF Shelf!Next
<1> QED BY <1>1, <1>2 DEF Close

-----------------------------------------------------------------------------
(* The refinement.                                                         *)

\* Every step of the manager is one of the shelf or shows nothing.
LEMMA StepIsShelf == IInv /\ [Next]_vars => [Shelf!Next]_Shelf!vars
<1> SUFFICES ASSUME IInv, [Next]_vars PROVE [Shelf!Next]_Shelf!vars
  OBVIOUS
<1>1. CASE Call
  BY <1>1, OpenIsShelf, InfoIsShelf, RenderIsShelf, CloseIsShelf DEF Call
<1>2. CASE Drop
  <2>1. Shelf!Clear
    BY <1>2 DEF Drop, NoSessions, Shelf!Clear
  <2> QED BY <2>1 DEF Shelf!Next
<1>3. CASE UNCHANGED << sessions, opened, poisoned, reply >>
  BY <1>3 DEF Shelf!vars, Handle
<1>4. CASE \E s \in backend.sandboxes : WorkerCrash(s)
  BY <1>3, <1>4 DEF WorkerCrash, table
<1> QED BY <1>1, <1>2, <1>3, <1>4 DEF Next, vars

\* The manager keeps every promise of the shelf: no sandbox, cache hit, crash or
\* failed cleanup shows to its callers except as an error that blames nobody
\* falsely (DocumentManager::open, get_document_info, render_page and close).
THEOREM ManagerIsShelf == Spec => ImplementsShelf
  BY InitIsShelf, StepIsShelf, Invariance, PTL DEF Spec, ImplementsShelf, Shelf!Spec
=============================================================================
