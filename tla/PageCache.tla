------------------------------ MODULE PageCache ------------------------------
(***************************************************************************)
(* The bounded LRU cache of rendered pages (crates/core/src/cache.rs), as  *)
(* operators over a cache value                                            *)
(*                                                                         *)
(*   [order   : sequence of keys, most recently used first,                *)
(*    entries : function from keys to rendered pages]                      *)
(*                                                                         *)
(* The code keeps the same two fields and must keep them in step: `entries`*)
(* answers lookups, `order` decides what is evicted.  A key is a record    *)
(* [document, page, target]; `target` stands for the pair of target        *)
(* dimensions.                                                             *)
(***************************************************************************)
EXTENDS Naturals, Sequences, Functions

CONSTANT Capacity       \* the argument of PageCache::new

ASSUME CapacityAssumption == Capacity \in Nat

\* PageCache::new clamps the capacity to at least one page.
EffectiveCapacity == IF Capacity = 0 THEN 1 ELSE Capacity

EmptyCache == [order |-> << >>, entries |-> [k \in {} |-> k]]

CacheKey(document, page, target) ==
  [document |-> document, page |-> page, target |-> target]

CacheHas(cache, key) == key \in DOMAIN cache.entries

-----------------------------------------------------------------------------
(* Moving a key to the front, and evicting from the back.                  *)

Positions(order, key) == { i \in 1..Len(order) : order[i] = key }

\* A touch that forgets to promote: a first-in first-out cache.
TouchedFifo(order, key) == order

\* The first occurrence of `key` is taken out and put in front; an absent
\* key changes nothing.
Touched(order, key) ==
  IF Positions(order, key) = {}
  THEN order
  ELSE LET first == CHOOSE i \in Positions(order, key) :
                      \A j \in Positions(order, key) : i <= j
       IN  << key >> \o SubSeq(order, 1, first - 1)
                     \o SubSeq(order, first + 1, Len(order))

\* Keys are popped from the back, each with its entry, while the order is
\* longer than the capacity.
Evicted(cache) ==
  LET kept == SubSeq(cache.order, 1, EffectiveCapacity)
      out  == { cache.order[i] : i \in EffectiveCapacity + 1 .. Len(cache.order) }
  IN  IF Len(cache.order) <= EffectiveCapacity
      THEN cache
      ELSE [order   |-> kept,
            entries |-> Restrict(cache.entries, DOMAIN cache.entries \ out)]

-----------------------------------------------------------------------------
(* The operations.                                                         *)

\* A hit promotes the key; its page is cache.entries[key].  A miss leaves
\* the cache alone.
CacheGet(cache, key) ==
  IF CacheHas(cache, key)
  THEN [cache EXCEPT !.order = Touched(@, key)]
  ELSE cache

\* A put that promotes a present key but keeps its old page.
CachePutStale(cache, key, rendered) ==
  IF CacheHas(cache, key)
  THEN [cache EXCEPT !.order = Touched(@, key)]
  ELSE Evicted([order   |-> << key >> \o cache.order,
                entries |-> [k \in DOMAIN cache.entries \cup {key} |->
                               IF k = key THEN rendered ELSE cache.entries[k]]])

\* Refreshing a present key replaces its page and promotes it; a new key goes
\* in front and the cache evicts.
CachePut(cache, key, rendered) ==
  IF CacheHas(cache, key)
  THEN [order   |-> Touched(cache.order, key),
        entries |-> [cache.entries EXCEPT ![key] = rendered]]
  ELSE Evicted([order   |-> << key >> \o cache.order,
                entries |-> [k \in DOMAIN cache.entries \cup {key} |->
                               IF k = key THEN rendered ELSE cache.entries[k]]])

\* A removal that frees the pages and leaves their keys in the order.
CacheRemoveDocumentHalf(cache, document) ==
  [cache EXCEPT !.entries =
     Restrict(@, { k \in DOMAIN @ : k.document # document })]

OfDocument(keys, document) == { k \in keys : k.document = document }

\* What `retain` leaves of an order, its keys in the order they had.
Without(order, gone) ==
  LET kept[n \in 0 .. Len(order)] ==
        IF n = 0 THEN << >>
        ELSE IF order[n] \in gone THEN kept[n - 1]
        ELSE Append(kept[n - 1], order[n])
  IN  kept[Len(order)]

\* Both fields drop every key of the document.
CacheRemoveDocument(cache, document) ==
  [order   |-> Without(cache.order, OfDocument(Range(cache.order), document)),
   entries |-> Restrict(cache.entries,
                 DOMAIN cache.entries \ OfDocument(DOMAIN cache.entries, document))]
=============================================================================
