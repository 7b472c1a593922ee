--------------------------- MODULE DistributedLock ---------------------------
(***************************************************************************)
(* utils/distributedLock.js: withLock() runs a function under a Redlock    *)
(* lease on one resource.  The lease is not extended and may run out while *)
(* the function runs; releasing compares the lock's value, and a release   *)
(* that fails is swallowed.  Resources do not interact.                    *)
(***************************************************************************)
EXTENDS Naturals, FiniteSets

CONSTANTS LockClients,  \* callers of withLock(), each once
          NoClient,
          LockTries     \* attempts Redlock makes to acquire

ASSUME LockAssumption == NoClient \notin LockClients /\ LockTries \in Nat \ {0}

VARIABLES holder,  \* the client whose value the lock's key holds
          stage,   \* stage[c]: where withLock() is for c
          tries,   \* tries[c]: attempts to acquire that are left
          late     \* late[c]: c's lease ran out before c released it

lockState == <<holder, stage, tries, late>>

LockTypeOK ==
    /\ holder \in LockClients \cup {NoClient}
    /\ stage \in [LockClients -> {"acquiring", "inside", "unlocking", "returned", "thrown"}]
    /\ tries \in [LockClients -> 0..LockTries]
    /\ late \in [LockClients -> BOOLEAN]

LockInit ==
    /\ holder = NoClient
    /\ stage = [c \in LockClients |-> "acquiring"]
    /\ tries = [c \in LockClients |-> LockTries]
    /\ late = [c \in LockClients |-> FALSE]

-----------------------------------------------------------------------------
Acquire(c) ==
    /\ stage[c] = "acquiring"
    /\ holder = NoClient
    /\ holder' = c
    /\ stage' = [stage EXCEPT ![c] = "inside"]
    /\ UNCHANGED <<tries, late>>

\* The key is taken or Redis fails, possibly after setting the key; another
\* attempt follows a delay, or acquireLock() throws.
AcquireFails(c) ==
    /\ stage[c] = "acquiring"
    /\ holder' \in {holder, IF holder = NoClient THEN c ELSE holder}
    /\ tries' = [tries EXCEPT ![c] = @ - 1]
    /\ stage' = [stage EXCEPT ![c] = IF tries[c] = 1 THEN "thrown" ELSE "acquiring"]
    /\ UNCHANGED late

\* The function returns or throws: either way the lock is released next.
FunctionEnds(c) ==
    /\ stage[c] = "inside"
    /\ stage' = [stage EXCEPT ![c] = "unlocking"]
    /\ UNCHANGED <<holder, tries, late>>

\* Mutant: the key is deleted without comparing its value.
UnlockAnyones(c) ==
    /\ stage[c] = "unlocking"
    /\ holder' = NoClient
    /\ stage' = [stage EXCEPT ![c] = "returned"]
    /\ UNCHANGED <<tries, late>>

\* safeUnlock(): the key is deleted if it still holds c's value; a failing
\* release leaves it to its time to live.
SafeUnlock(c) ==
    /\ stage[c] = "unlocking"
    /\ holder' \in {holder, IF holder = c THEN NoClient ELSE holder}
    /\ stage' = [stage EXCEPT ![c] = "returned"]
    /\ UNCHANGED <<tries, late>>

LeaseExpires ==
    /\ holder # NoClient
    /\ holder' = NoClient
    /\ late' = [late EXCEPT ![holder] = stage[holder] \in {"inside", "unlocking"}]
    /\ UNCHANGED <<stage, tries>>

LockNext ==
    \/ LeaseExpires
    \/ \E c \in LockClients :
          Acquire(c) \/ AcquireFails(c) \/ FunctionEnds(c) \/ SafeUnlock(c)

LockSpec == LockInit /\ [][LockNext]_lockState

-----------------------------------------------------------------------------
InTime(c) == stage[c] = "inside" /\ ~late[c]

\* However many leases have run out, a client inside its function whose own
\* lease has not still holds the lock, so that no two such clients are inside:
\* late clients release nothing but their own lock.
LeaseExcludes == \A c \in LockClients : InTime(c) => holder = c
=============================================================================
