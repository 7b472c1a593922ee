---------------------------- MODULE FallbackCache ----------------------------
(***************************************************************************)
(* cache/cacheManager.js: a cache in Redis whose operations go to an       *)
(* in-memory LRU map when Redis fails.  The two sides never learn of each  *)
(* other: an operation Redis took leaves what the map holds of the key,    *)
(* and the other way round.  getRedis() always returns a client, so that   *)
(* clear() changes nothing.                                                *)
(***************************************************************************)
EXTENDS LruCache

VARIABLES remote,  \* remote[k]: the value in Redis, or Miss
          latest,  \* history: the value last set, or Miss once deleted
          side,    \* history: the side that took the last write of k
          writes   \* history: values set so far

cacheState == <<entries, recent, remote, latest, side, writes>>

CacheInit ==
    /\ LruInit
    /\ remote = [k \in CacheKeys |-> Miss]
    /\ latest = [k \in CacheKeys |-> Miss]
    /\ side = [k \in CacheKeys |-> "redis"]
    /\ writes = 0

-----------------------------------------------------------------------------
LocalGet(k) == LruHit(k) \/ LruMiss(k)
LocalSet(k, v) == LruSet(k, v)
LocalDel(k) == LruDel(k)

\* A write of value v to k, which this side has taken.
Took(k, v, where) ==
    /\ latest' = [latest EXCEPT ![k] = v]
    /\ side' = [side EXCEPT ![k] = where]

\* get(): only a failing one looks at, and refreshes, the map.
CacheGet(k) ==
    /\ LocalGet(k)
    /\ UNCHANGED <<remote, latest, side, writes>>

\* set(): a command that fails may still have been done.
CacheSet(k) ==
    LET v == writes + 1 IN
    /\ writes < MaxVersions
    /\ writes' = v
    /\ \/ /\ remote' = [remote EXCEPT ![k] = v]
          /\ Took(k, v, "redis")
          /\ UNCHANGED <<entries, recent>>
       \/ /\ remote' \in {remote, [remote EXCEPT ![k] = v]}
          /\ LocalSet(k, v)
          /\ Took(k, v, "local")

\* Mutant: a failing deletion leaves the map's copy.
CacheDelRemote(k) ==
    /\ remote' \in {remote, [remote EXCEPT ![k] = Miss]}
    /\ Took(k, Miss, IF remote'[k] = Miss THEN "redis" ELSE "local")
    /\ UNCHANGED <<entries, recent, writes>>

\* del()
CacheDel(k) ==
    /\ \/ /\ remote' = [remote EXCEPT ![k] = Miss]
          /\ Took(k, Miss, "redis")
          /\ UNCHANGED <<entries, recent>>
       \/ /\ remote' \in {remote, [remote EXCEPT ![k] = Miss]}
          /\ LocalDel(k)
          /\ Took(k, Miss, "local")
    /\ UNCHANGED writes

RemoteExpires(k) ==
    /\ remote[k] # Miss
    /\ remote' = [remote EXCEPT ![k] = Miss]
    /\ UNCHANGED <<entries, recent, latest, side, writes>>

CacheNext ==
    \E k \in CacheKeys : CacheGet(k) \/ CacheSet(k) \/ CacheDel(k) \/ RemoteExpires(k)

CacheSpec == CacheInit /\ [][CacheNext]_cacheState

-----------------------------------------------------------------------------
\* The side that took the last write of a key holds nothing older of it: only an
\* operation served by the other side than that write can see a stale value.
WriterSideFresh ==
    \A k \in CacheKeys :
        /\ side[k] = "redis" => remote[k] \in {latest[k], Miss}
        /\ side[k] = "local" => Held(k) \in {latest[k], Miss}
=============================================================================
