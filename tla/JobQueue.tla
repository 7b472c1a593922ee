------------------------------ MODULE JobQueue ------------------------------
(***************************************************************************)
(* The task queue as queue/queueManager.js uses it: a store of jobs keyed  *)
(* by a caller-chosen id, with the default options of queue/queueUtils.js  *)
(* (a number of attempts with backoff, the last completed jobs retained,   *)
(* failed jobs kept).  Adding an id that is still stored changes nothing.  *)
(* A running job is owned through a lock; a lock that is not renewed in    *)
(* time makes the job "stalled" and gives it to someone else.              *)
(***************************************************************************)
EXTENDS Naturals, Sequences

CONSTANTS TaskIds,        \* job ids
          Sources,        \* what a job can be for: a workflow id, or none
          Slots,          \* concurrent job processors
          Nobody,         \* no lock holder
          MaxAttempts,    \* job option attempts
          MaxStalled,     \* stalls tolerated per job
          KeepCompleted   \* completed jobs retained

ASSUME QueueAssumption ==
    /\ Nobody \notin Slots
    /\ MaxAttempts \in Nat \ {0}
    /\ MaxStalled \in Nat
    /\ KeepCompleted \in Nat

VARIABLES job,   \* job[id]: the stored job
          kept   \* ids of retained completed jobs, oldest first

queueVars == <<job, kept>>

JobState == {"none", "waiting", "delayed", "active", "completed", "failed", "gone"}

Job == [state: JobState, made: Nat, stalls: Nat, source: Sources \cup {Nobody},
        holder: Slots \cup {Nobody}]

NoJob == [state |-> "none", made |-> 0, stalls |-> 0, source |-> Nobody, holder |-> Nobody]

QueueTypeOK ==
    /\ job \in [TaskIds -> Job]
    /\ kept \in Seq(TaskIds)

QueueInit ==
    /\ job = [id \in TaskIds |-> NoJob]
    /\ kept = <<>>

Stored(id) == job[id].state \notin {"none", "gone"}
Holds(s, id) == job[id].state = "active" /\ job[id].holder = s

-----------------------------------------------------------------------------
\* Mutant: a stored id is replaced.
AddAlways(id, src) ==
    /\ job' = [job EXCEPT ![id] = [NoJob EXCEPT !.state = "waiting", !.source = src]]
    /\ UNCHANGED kept

\* queue.add with a jobId: a stored id is left alone, whatever its state.
Add(id, src) ==
    /\ job' = IF Stored(id) THEN job
              ELSE [job EXCEPT ![id] = [NoJob EXCEPT !.state = "waiting", !.source = src]]
    /\ UNCHANGED kept

\* Mutant: a job in progress is handed out again.
TakeAny(s, id) ==
    /\ job[id].state \in {"waiting", "active"}
    /\ job' = [job EXCEPT ![id].state = "active", ![id].holder = s]
    /\ UNCHANGED kept

Take(s, id) ==
    /\ job[id].state = "waiting"
    /\ job' = [job EXCEPT ![id].state = "active", ![id].holder = s]
    /\ UNCHANGED kept

\* Mutant: no scheduler runs, so a backoff never ends.
PromoteNever(id) == FALSE /\ job[id].state = "delayed" /\ UNCHANGED queueVars

\* The backoff delay of a failed attempt has passed.
Promote(id) ==
    /\ job[id].state = "delayed"
    /\ job' = [job EXCEPT ![id].state = "waiting"]
    /\ UNCHANGED kept

\* The processor returned: the job completes and the oldest retained completed
\* job beyond KeepCompleted is removed.
Complete(s, id) ==
    /\ Holds(s, id)
    /\ LET all  == Append(kept, id)
           done == [job EXCEPT ![id].state = "completed", ![id].holder = Nobody]
       IN  IF Len(all) > KeepCompleted
           THEN /\ kept' = Tail(all)
                /\ job' = [done EXCEPT ![Head(all)] = [NoJob EXCEPT !.state = "gone"]]
           ELSE /\ kept' = all
                /\ job' = done

\* Mutant: one attempt too many.
FailOffByOne(s, id) ==
    /\ Holds(s, id)
    /\ job' = [job EXCEPT ![id].made = @ + 1, ![id].holder = Nobody,
                          ![id].state = IF job[id].made < MaxAttempts
                                        THEN "delayed" ELSE "failed"]
    /\ UNCHANGED kept

\* The processor threw: one attempt is spent.
Fail(s, id) ==
    /\ Holds(s, id)
    /\ job' = [job EXCEPT ![id].made = @ + 1, ![id].holder = Nobody,
                          ![id].state = IF job[id].made + 1 < MaxAttempts
                                        THEN "delayed" ELSE "failed"]
    /\ UNCHANGED kept

\* Mutant: a stall is not counted.
StallUncounted(id) ==
    /\ job[id].state = "active"
    /\ job' = [job EXCEPT ![id].state = "waiting", ![id].holder = Nobody]
    /\ UNCHANGED kept

\* The lock expired: the stalled-job check takes the job from its holder.
Stall(id) ==
    /\ job[id].state = "active"
    /\ job' = [job EXCEPT ![id].stalls = @ + 1, ![id].holder = Nobody,
                          ![id].state = IF job[id].stalls + 1 > MaxStalled
                                        THEN "failed" ELSE "waiting"]
    /\ UNCHANGED kept

\* The processors S died: their locks stay in the store, with nobody to renew
\* or use them, until the stalled-job check.
Orphan(S) ==
    /\ job' = [id \in TaskIds |-> IF job[id].holder \in S
                                  THEN [job[id] EXCEPT !.holder = Nobody] ELSE job[id]]
    /\ UNCHANGED kept

-----------------------------------------------------------------------------
\* A job is counted within its limits: a job that can still run has attempts
\* left and has not stalled too often, and the retained completed jobs are
\* exactly those listed for removal, each once.
JobsAccounted ==
    /\ \A id \in TaskIds : job[id].state \in {"waiting", "delayed", "active"} =>
          job[id].made < MaxAttempts /\ job[id].stalls =< MaxStalled
    /\ Len(kept) =< KeepCompleted
    /\ \A i \in 1..Len(kept) : job[kept[i]].state = "completed"
    /\ \A i, j \in 1..Len(kept) : kept[i] = kept[j] => i = j
    /\ \A id \in TaskIds : job[id].state = "completed" => \E i \in 1..Len(kept) : kept[i] = id

-----------------------------------------------------------------------------
\* The stored jobs as submissions in the sense of JobLifecycle: where each one
\* stands, and how often it was run.
Phases == [id \in TaskIds |->
             CASE job[id].state \in {"none", "gone"} -> "absent"
               [] job[id].state \in {"waiting", "delayed"} -> "ready"
               [] job[id].state = "active" -> "busy"
               [] OTHER -> "ended"]
Tries == [id \in TaskIds |->
            job[id].made + job[id].stalls
            + IF job[id].state \in {"active", "completed"} THEN 1 ELSE 0]

Lifecycle == INSTANCE JobLifecycle WITH
    Limit <- MaxAttempts + MaxStalled, phase <- Phases, tries <- Tries
=============================================================================
