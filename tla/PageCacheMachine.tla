--------------------------- MODULE PageCacheMachine ---------------------------
(***************************************************************************)
(* The page cache driven by any sequence of the calls its owner can make.  *)
(* Two history variables say what an unbounded cache would know: `recency` *)
(* is every key used since its document was last removed, most recently    *)
(* used first, and `latest` is the page last put under each of them.       *)
(***************************************************************************)
EXTENDS PageCache, SequencesExt

CONSTANTS Documents, Pages, Targets,
          Rasters               \* the rendered pages that can be put

VARIABLES cache, recency, latest

vars == << cache, recency, latest >>

Keys == [document : Documents, page : Pages, target : Targets]

MoveToFront(seq, key) == << key >> \o Without(seq, { key })

Init == /\ cache = EmptyCache
        /\ recency = << >>
        /\ latest = [k \in {} |-> k]

Get(key) == /\ cache' = CacheGet(cache, key)
            /\ recency' = IF CacheHas(cache, key) THEN MoveToFront(recency, key)
                                                  ELSE recency
            /\ UNCHANGED latest

Put(key, raster) == /\ cache' = CachePut(cache, key, raster)
                    /\ recency' = MoveToFront(recency, key)
                    /\ latest' = [k \in DOMAIN latest \cup { key } |->
                                    IF k = key THEN raster ELSE latest[k]]

RemoveDocument(document) ==
  /\ cache' = CacheRemoveDocument(cache, document)
  /\ recency' = Without(recency, OfDocument(Range(recency), document))
  /\ latest' = Restrict(latest, DOMAIN latest \ OfDocument(DOMAIN latest, document))

Next ==
  \/ \E d \in Documents, p \in Pages, t \in Targets :
       \/ Get(CacheKey(d, p, t))
       \/ \E r \in Rasters : Put(CacheKey(d, p, t), r)
  \/ \E d \in Documents : RemoveDocument(d)

Spec == Init /\ [][Next]_vars

-----------------------------------------------------------------------------
(* Properties.                                                             *)

\* `order` lists exactly the keys of `entries`, each once, and never more than
\* the capacity: a key in one of them only would be a page that is never
\* evicted, or an eviction that frees nothing (PageCache::evict, touch,
\* remove_document).
OrderIndexesEntries ==
  /\ IsInjective(cache.order)
  /\ ToSet(cache.order) = DOMAIN cache.entries
  /\ Len(cache.order) <= EffectiveCapacity

\* The two fields have their types, and `order` is an index of `entries`.
TypeOK == /\ cache.order \in Seq(Keys)
          /\ DOMAIN cache.entries \subseteq Keys
          /\ \A k \in DOMAIN cache.entries : cache.entries[k] \in Rasters
          /\ OrderIndexesEntries

\* A hit returns the page put last under that key, never an earlier one that
\* survived a refresh, an eviction or the removal of its document.
HitIsLatest == \A k \in DOMAIN cache.entries :
                  k \in DOMAIN latest /\ cache.entries[k] = latest[k]

\* What is kept is what was used last: `order` is the beginning of the recency
\* list of all keys ever used, so an evicted key was the least recently used
\* one, whatever mix of hits, refreshes, evictions and removals came before; and
\* a page leaves the cache only because its document was removed, or as the back
\* of a full order that a new key pushed out.
KeepsMostRecentlyUsed ==
  [][ /\ IsPrefix(cache'.order, recency')
      /\ \A k \in DOMAIN cache.entries \ DOMAIN cache'.entries :
           \/ k \notin ToSet(recency')
           \/ /\ Len(cache.order) = EffectiveCapacity
              /\ k = Last(cache.order)
              /\ Head(cache'.order) \notin DOMAIN cache.entries ]_vars
=============================================================================
