----------------------------- MODULE MCRedisKeys -----------------------------
(* What the processes share through Redis, and the maps that stand in for  *)
(* it: components that share no state.  A behaviour is one of any of them, *)
(* while the others stay in their initial state.                           *)
EXTENDS AiQuota, IdempotencyKeys, DistributedLock, FallbackCache

CONSTANTS c1, c2, c3, k1, k2, k3

VARIABLE map  \* what the map of LruCache is: the cache's fallback or the embeddings

KeysInit == Init /\ IdemInit /\ LockInit /\ CacheInit /\ map = "unused"

NoMap == CacheInit /\ map = "unused" /\ UNCHANGED <<cacheState, map>>

QuotaAlone == IdemInit /\ LockInit /\ NoMap /\ UNCHANGED <<idemState, lockState>>
IdemAlone == Init /\ LockInit /\ NoMap /\ UNCHANGED <<vars, lockState>>
LockAlone == Init /\ IdemInit /\ NoMap /\ UNCHANGED <<vars, idemState>>
MapAlone == Init /\ IdemInit /\ LockInit /\ UNCHANGED <<vars, idemState, lockState>>

Fallback == map \in {"unused", "fallback"} /\ map' = "fallback"
Embeddings ==
    /\ map \in {"unused", "embeddings"} /\ map' = "embeddings"
    /\ UNCHANGED <<remote, latest, side, writes>>

KeysNext ==
    \/ QuotaAlone /\ Next
    \/ IdemAlone /\ IdemNext
    \/ LockAlone /\ LockNext
    \/ MapAlone /\ Fallback /\ CacheNext
    \/ MapAlone /\ Embeddings /\ LruNext

KeysSpec == KeysInit /\ [][KeysNext]_<<vars, idemState, lockState, cacheState, map>>

\* Clients are interchangeable.
Symmetric == Permutations({c1, c2, c3})
=============================================================================
