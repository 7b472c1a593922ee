----------------------------- MODULE MemoryEngine -----------------------------
(***************************************************************************)
(* The in-memory workflow engine (engine/workflowEngine.js) over the       *)
(* in-process queue.  A call of start() registers the states of its tasks  *)
(* (engine/stateMachine.js), then enqueues one task at a time and waits    *)
(* for it.  A task whose function throws is called again up to Retries     *)
(* times (engine/retryManager.js).  A transition names a task only: it     *)
(* goes to the first registered workflow that has a task of that id.       *)
(***************************************************************************)
EXTENDS ExecutionQueue

CONSTANTS Starts,      \* calls of start(); each job is a call and an index
          WorkflowOf,  \* the workflow id a call is made with
          TasksOf,     \* the task ids of a call, in order
          Retries      \* calls retryManager makes, 3 in the code

Tasks(r) == {TasksOf[r][i] : i \in 1..Len(TasksOf[r])}
WorkflowIds == {WorkflowOf[r] : r \in Starts}

ASSUME EngineAssumption ==
    /\ Retries \in Nat \ {0}
    /\ \A r \in Starts : Len(TasksOf[r]) \in Nat \ {0}
    /\ Jobs = UNION {{r} \X (1..Len(TasksOf[r])) : r \in Starts}

VARIABLES order,    \* workflow ids in the order of the map's entries
          states,   \* states[w]: the state of each task registered under w
          thrown,   \* thrown[j]: calls of j's function that have thrown
          outcome   \* history: how j's function ended

engineState == <<queue, running, ticks, place, order, states, thrown, outcome>>

IdOf(j) == TasksOf[j[1]][j[2]]
Outcomes == {"none", "first", "retried", "falsy", "exhausted"}

EngineInit ==
    /\ Init
    /\ order = <<>>
    /\ states = [w \in WorkflowIds |-> <<>>]
    /\ thrown = [j \in Jobs |-> 0]
    /\ outcome = [j \in Jobs |-> "none"]

-----------------------------------------------------------------------------
\* initialize(): an id registered before keeps its place in the map.
Initialize(r) ==
    LET w == WorkflowOf[r] IN
    /\ states' = [states EXCEPT ![w] = [t \in Tasks(r) |-> "pending"]]
    /\ order' = IF \E i \in 1..Len(order) : order[i] = w THEN order ELSE Append(order, w)

\* transition(): the first workflow that has a task of this id.
Transition(map, t, s) ==
    LET having == {i \in 1..Len(order) : t \in DOMAIN map[order[i]]} IN
    IF having = {} THEN map
    ELSE LET first == CHOOSE i \in having : \A k \in having : i =< k
         IN  [map EXCEPT ![order[first]][t] = s]

\* A job that next() starts in this step records that it runs, after the
\* states have become map.
Begins(map) ==
    LET begun == {k \in Jobs : place[k] = "waiting" /\ place'[k] = "started"} IN
    states' = IF begun = {} THEN map
              ELSE Transition(map, IdOf(CHOOSE k \in begun : TRUE), "running")

Start(r) ==
    /\ Enqueue(<<r, 1>>)
    /\ Initialize(r)
    /\ UNCHANGED <<thrown, outcome>>

\* Mutant: start() does not wait for the task before it.
ContinueAtOnce(r, i) ==
    /\ i < Len(TasksOf[r])
    /\ place[<<r, i>>] # "new"
    /\ Enqueue(<<r, i + 1>>)
    /\ UNCHANGED <<order, states, thrown, outcome>>

\* Mutant: the loop goes on only after a task that did not fail.
ContinueUnlessFailed(r, i) ==
    /\ i < Len(TasksOf[r])
    /\ place[<<r, i>>] = "ended" /\ outcome[<<r, i>>] \notin {"falsy", "exhausted"}
    /\ Enqueue(<<r, i + 1>>)
    /\ UNCHANGED <<order, states, thrown, outcome>>

\* The job start() awaits has settled: the loop enqueues the next task.
Continue(r, i) ==
    /\ i < Len(TasksOf[r])
    /\ place[<<r, i>>] = "ended"
    /\ Enqueue(<<r, i + 1>>)
    /\ UNCHANGED <<order, states, thrown, outcome>>

EngineTick ==
    /\ Tick
    /\ Begins(states)
    /\ UNCHANGED <<order, thrown, outcome>>

\* The job ends with this outcome, after its last transition made map.
Ends(j, how, map) ==
    /\ Finish(j)
    /\ outcome' = [outcome EXCEPT ![j] = how]
    /\ Begins(map)
    /\ UNCHANGED order

\* The function returns at the first call.
Returns(j) ==
    /\ thrown[j] = 0
    /\ Ends(j, "first", Transition(states, IdOf(j), "succeeded"))
    /\ UNCHANGED thrown

\* Mutant: whatever a retry returns counts as recovered.
RetryAlwaysRecovers(j) ==
    /\ thrown[j] > 0
    /\ \E how \in {"retried", "falsy"} : Ends(j, how, states)
    /\ UNCHANGED thrown

\* A retry returns; no transition follows, unless what it returns is falsy,
\* which counts as not recovered.
RetryReturns(j) ==
    /\ thrown[j] > 0
    /\ \/ Ends(j, "retried", states)
       \/ Ends(j, "falsy", Transition(states, IdOf(j), "failed"))
    /\ UNCHANGED thrown

\* A call throws: another follows after a delay, or the retries are used up and
\* errorRecovery only logs.
Throws(j) ==
    /\ thrown' = [thrown EXCEPT ![j] = @ + 1]
    /\ IF thrown[j] < Retries
       THEN /\ place[j] = "started"
            /\ UNCHANGED <<queue, running, ticks, place, order, states, outcome>>
       ELSE Ends(j, "exhausted", Transition(states, IdOf(j), "failed"))

Settles(j) == Returns(j) \/ RetryReturns(j) \/ Throws(j)

EngineNext ==
    \/ EngineTick
    \/ \E r \in Starts : Start(r) \/ \E i \in 1..Len(TasksOf[r]) : Continue(r, i)
    \/ \E j \in Jobs : Settles(j)

EngineSpec == EngineInit /\ [][EngineNext]_engineState

\* Ticks and continuations run, and every call of a function returns or throws.
EngineFairSpec ==
    /\ EngineSpec
    /\ WF_engineState(EngineTick)
    /\ \A r \in Starts : \A i \in 1..Len(TasksOf[r]) : WF_engineState(Continue(r, i))
    /\ \A j \in Jobs : WF_engineState(Settles(j))

-----------------------------------------------------------------------------
Failed == {"falsy", "exhausted"}
Alone(j) ==
    /\ \A k \in Jobs \ {j} : IdOf(k) # IdOf(j)
    /\ \A s \in Starts \ {j[1]} : WorkflowOf[s] # WorkflowOf[j[1]]

\* What is recorded of a task is what a task of that id did; and if no other
\* task has its id and no other call its workflow's, it is what this one did,
\* where a task that succeeded on a retry stays "running".
StatesTellOutcomes ==
    /\ \A w \in WorkflowIds : \A t \in DOMAIN states[w] :
          LET ended == {outcome[j] : j \in {k \in Jobs : IdOf(k) = t}} IN
          /\ states[w][t] = "succeeded" => "first" \in ended
          /\ states[w][t] = "failed" => ended \cap Failed # {}
    /\ \A j \in Jobs : Alone(j) /\ place[<<j[1], 1>>] # "new" =>
          states[WorkflowOf[j[1]]][IdOf(j)] =
             IF place[j] \in {"new", "waiting"} THEN "pending"
             ELSE IF outcome[j] \in {"none", "retried"} THEN "running"
             ELSE IF outcome[j] = "first" THEN "succeeded" ELSE "failed"

\* A workflow's tasks run one after the other, however many workflows share the
\* queue: a task waits or runs only when all before it have ended.
TasksInOrder ==
    \A j \in Jobs : place[j] # "new" =>
        \A i \in 1..(j[2] - 1) : place[<<j[1], i>>] = "ended"

\* Every call of start() comes to an end, through queueing, failing tasks and
\* their retries.
StartsEnd ==
    \A r \in Starts :
        place[<<r, 1>>] # "new" ~> place[<<r, Len(TasksOf[r])>>] = "ended"
=============================================================================
