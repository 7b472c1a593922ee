------------------------------- MODULE LruCache -------------------------------
(***************************************************************************)
(* The size-limited map with times to live of memory/embeddingCache.js,    *)
(* which cache/cacheManager.js repeats as its fallback.  The order of the  *)
(* map's entries is what it evicts by: a hit puts the entry back at the    *)
(* end.  Values are versions of what their keys stand for.                 *)
(***************************************************************************)
EXTENDS Naturals, SequencesExt

CONSTANTS CacheKeys,
          CacheSize,   \* maxEntries
          MaxVersions  \* bound: versions of a key's value

ASSUME CacheAssumption == CacheSize \in Nat /\ MaxVersions \in Nat

VARIABLES entries,  \* [key, value] records in the map's order
          recent    \* history: keys ever used, by their last use

lruState == <<entries, recent>>

Miss == 0
Cached(k) == {i \in 1..Len(entries) : entries[i].key = k}

\* A sequence without the element at one of these places; there is one at most.
Drop(s, at) == IF at = {} THEN s ELSE RemoveAt(s, CHOOSE i \in at : TRUE)
Without(k) == Drop(entries, Cached(k))
Used(k) == Append(Drop(recent, {i \in 1..Len(recent) : recent[i] = k}), k)

LruInit == entries = <<>> /\ recent = <<>>

\* What get() returns of an entry that has not run out.
Held(k) == IF Cached(k) = {} THEN Miss ELSE entries[CHOOSE i \in Cached(k) : TRUE].value

\* Mutant: a hit leaves the entry where it is.
LruHitInPlace(k) ==
    /\ Cached(k) # {}
    /\ entries' = entries
    /\ recent' = Used(k)

\* get() of an entry in time: it moves to the end.
LruHit(k) ==
    /\ Cached(k) # {}
    /\ entries' = Append(Without(k), [key |-> k, value |-> Held(k)])
    /\ recent' = Used(k)

\* get() without an entry, or with one that has run out and is dropped.
LruMiss(k) ==
    /\ entries' = Without(k)
    /\ UNCHANGED recent

\* set(): the entry goes to the end, then the oldest go while there are too many.
LruSet(k, v) ==
    LET all == Append(Without(k), [key |-> k, value |-> v]) IN
    /\ entries' = IF Len(all) > CacheSize THEN Tail(all) ELSE all
    /\ recent' = Used(k)

LruDel(k) ==
    /\ entries' = Without(k)
    /\ UNCHANGED recent

LruClear == entries' = <<>> /\ UNCHANGED recent

LruNext ==
    \/ LruClear
    \/ \E k \in CacheKeys :
          LruHit(k) \/ LruMiss(k) \/ LruDel(k) \/ \E v \in 1..MaxVersions : LruSet(k, v)

LruSpec == LruInit /\ [][LruNext]_lruState

-----------------------------------------------------------------------------
\* The map holds its keys in the order they were last used, each once, so that
\* what it evicts is the least recently used; and it never outgrows its limit.
RecencyKept ==
    /\ Len(entries) =< CacheSize
    /\ \A j \in 1..Len(entries) : \A i \in 1..j :
          \E n \in 1..Len(recent) : \E m \in 1..n :
             /\ recent[m] = entries[i].key /\ recent[n] = entries[j].key
             /\ m = n => i = j
=============================================================================
