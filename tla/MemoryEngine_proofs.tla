------------------------- MODULE MemoryEngine_proofs -------------------------
(***************************************************************************)
(* The in-process queue and the in-memory workflow engine over it, for     *)
(* every number of jobs, calls of start() and every limit: the queue keeps *)
(* its limit and loses no wakeup; the engine uses it as it is meant to be  *)
(* used, runs a workflow's tasks in order, and records of each how it      *)
(* ended.                                                                  *)
(***************************************************************************)
EXTENDS MemoryEngine, FiniteSetTheorems, SequenceTheorems, TLAPS

-----------------------------------------------------------------------------
(* The queue                                                               *)

Started == {j \in Jobs : place[j] = "started"}

\* The waiting jobs are queued, each once.
QueueLists ==
    /\ \A i \in 1..Len(queue) : place[queue[i]] = "waiting"
    /\ \A i, k \in 1..Len(queue) : queue[i] = queue[k] => i = k

CountsStarted == IsFiniteSet(Started) /\ running = Cardinality(Started)

\* The inductive invariant: a lost wakeup is excluded only because a job that
\* ends leaves fewer than Concurrency running, and the count is right only
\* because no queued job has been started before.
QueueInv == TypeOK /\ QueueLists /\ CountsStarted /\ running =< Concurrency /\ NoLostWakeup

\* next() started the head of the queue or had nothing to start.
LEMMA NextJobKeeps ==
    ASSUME QueueInv, NEW busy \in Int, NEW at \in [Jobs -> Place],
           IsFiniteSet({j \in Jobs : at[j] = "started"}),
           busy = Cardinality({j \in Jobs : at[j] = "started"}),
           busy =< Concurrency, ticks' \in Nat,
           \A i \in 1..Len(queue) : at[queue[i]] = "waiting",
           Smaller(Len(queue), Concurrency - busy) =< ticks' + 1,
           NextJob(busy, at)
    PROVE  QueueInv'
  <1> USE ConcurrencyAssumption DEF QueueInv
  <1>0. queue \in Seq(Jobs) /\ Len(queue) \in Nat
        /\ \A i \in 1..Len(queue) : queue[i] \in Jobs
    BY DEF TypeOK
  <1>1. CASE busy >= Concurrency \/ queue = <<>>
    <2>1. queue' = queue /\ running' = busy /\ place' = at
      BY <1>1 DEF NextJob
    <2>2. NoLostWakeup'
      <3>1. CASE busy >= Concurrency
        BY <2>1, <3>1, <1>0 DEF NoLostWakeup, Smaller
      <3>2. CASE queue = <<>>
        BY <2>1, <3>2 DEF NoLostWakeup, Smaller
      <3> QED BY <1>1, <3>1, <3>2
    <2>3. CountsStarted'
      BY <2>1 DEF CountsStarted, Started
    <2>4. QueueLists'
      BY <2>1 DEF QueueLists
    <2> QED BY <2>1, <2>2, <2>3, <2>4, <1>0 DEF TypeOK
  <1>2. CASE busy < Concurrency /\ queue # <<>>
    <2> DEFINE j == Head(queue)
               n == Len(queue)
               S == {k \in Jobs : at[k] = "started"}
    <2>1. /\ queue' = Tail(queue) /\ running' = busy + 1
          /\ place' = [at EXCEPT ![j] = "started"]
      BY <1>2 DEF NextJob
    <2>2. /\ n >= 1 /\ j \in Jobs /\ j = queue[1]
          /\ queue' \in Seq(Jobs) /\ Len(queue') = n - 1
          /\ \A i \in 1..(n - 1) : queue'[i] = queue[i + 1] /\ i + 1 \in 1..n
      BY <2>1, <1>0, <1>2, HeadTailProperties
    <2>3. at[j] = "waiting" /\ place' \in [Jobs -> Place]
      BY <2>1, <2>2 DEF Place
    <2>4. NoLostWakeup'
      BY <2>1, <2>2, <1>2 DEF NoLostWakeup, Smaller
    <2>5. QueueLists'
      <3>0. \A i, k \in 1..n : queue[i] = queue[k] => i = k
        BY DEF QueueLists
      <3> HIDE DEF n, j, QueueInv
      <3>1. ASSUME NEW i \in 1..(n - 1) PROVE queue'[i] # j /\ queue'[i] \in Jobs
        <4>1. i + 1 \in 1..n /\ 1 \in 1..n /\ i + 1 # 1 /\ queue'[i] = queue[i + 1]
          BY <2>2
        <4>2. queue[i + 1] # queue[1]
          BY <3>0, <4>1
        <4> QED BY <4>1, <4>2, <2>2, <1>0 DEF n
      <3>2. \A i \in 1..(n - 1) : place'[queue'[i]] = at[queue[i + 1]]
        BY <2>1, <2>2, <3>1
      <3>3. \A i \in 1..(n - 1) : place'[queue'[i]] = "waiting"
        BY <2>2, <3>2 DEF n
      <3>4. ASSUME NEW i \in 1..(n - 1), NEW k \in 1..(n - 1), queue'[i] = queue'[k]
            PROVE  i = k
        <4>1. i + 1 = k + 1
          BY <2>2, <3>4, <3>0
        <4> QED BY <4>1
      <3> QED BY <2>2, <3>3, <3>4 DEF QueueLists
    <2>6. CountsStarted'
      <3>1. Started' = S \cup {j} /\ j \notin S
        BY <2>1, <2>2, <2>3 DEF Started
      <3> HIDE DEF S, j
      <3>2. IsFiniteSet(Started') /\ Cardinality(Started') = Cardinality(S) + 1
        BY <3>1, FS_AddElement DEF S
      <3> QED BY <3>2, <2>1 DEF CountsStarted, S
    <2> QED BY <2>1, <2>2, <2>3, <2>4, <2>5, <2>6, <1>2 DEF TypeOK
  <1> QED BY <1>1, <1>2

LEMMA StepKeeps == QueueInv /\ [Next]_queueState => QueueInv'
  <1> SUFFICES ASSUME QueueInv, [Next]_queueState PROVE QueueInv'
    OBVIOUS
  <1> USE ConcurrencyAssumption DEF QueueInv
  <1>0. /\ queue \in Seq(Jobs) /\ Len(queue) \in Nat /\ running \in Int /\ ticks \in Nat
        /\ place \in [Jobs -> Place] /\ \A i \in 1..Len(queue) : queue[i] \in Jobs
    BY DEF TypeOK
  <1>1. ASSUME NEW j \in Jobs, Enqueue(j) PROVE QueueInv'
    <2>1. /\ queue' = Append(queue, j) /\ ticks' = ticks + 1 /\ running' = running
          /\ place' = [place EXCEPT ![j] = "waiting"] /\ place[j] = "new"
      BY <1>1 DEF Enqueue
    <2>2. /\ queue' \in Seq(Jobs) /\ Len(queue') = Len(queue) + 1
          /\ queue'[Len(queue) + 1] = j
          /\ \A i \in 1..Len(queue) : queue'[i] = queue[i]
      BY <2>1, <1>0
    <2>3. \A i \in 1..Len(queue) : queue[i] # j
      BY <2>1 DEF QueueLists
    <2>4. place' \in [Jobs -> Place] /\ place'[j] = "waiting"
          /\ \A k \in Jobs : k # j => place'[k] = place[k]
      BY <2>1, <1>0 DEF Place
    <2>5. \A i \in 1..(Len(queue) + 1) : i \in 1..Len(queue) \/ i = Len(queue) + 1
      BY <1>0
    <2>6. QueueLists'
      <3>1. \A i \in 1..(Len(queue) + 1) : place'[queue'[i]] = "waiting"
        BY <2>2, <2>3, <2>4, <2>5, <1>0 DEF QueueLists
      <3>2. \A i, k \in 1..(Len(queue) + 1) : queue'[i] = queue'[k] => i = k
        BY <2>2, <2>3, <2>5 DEF QueueLists
      <3> QED BY <2>2, <3>1, <3>2 DEF QueueLists
    <2>7. Started' = Started
      BY <2>1, <2>4 DEF Started
    <2>8. NoLostWakeup'
      BY <2>1, <2>2, <1>0 DEF NoLostWakeup, Smaller
    <2> QED BY <2>1, <2>2, <2>4, <2>6, <2>7, <2>8, <1>0 DEF TypeOK, CountsStarted
  <1>2. CASE Tick
    <2>1. ticks' \in Nat /\ ticks = ticks' + 1 /\ NextJob(running, place)
      BY <1>2, <1>0 DEF Tick
    <2>2. Smaller(Len(queue), Concurrency - running) =< ticks' + 1
      BY <2>1 DEF NoLostWakeup
    <2>3. \A i \in 1..Len(queue) : place[queue[i]] = "waiting"
      BY DEF QueueLists
    <2>4. IsFiniteSet({j \in Jobs : place[j] = "started"})
          /\ running = Cardinality({j \in Jobs : place[j] = "started"})
      BY DEF CountsStarted, Started
    <2> QED BY <2>1, <2>2, <2>3, <2>4, <1>0, NextJobKeeps
  <1>3. ASSUME NEW j \in Jobs, Finish(j) PROVE QueueInv'
    <2> DEFINE at == [place EXCEPT ![j] = "ended"]
               S  == {k \in Jobs : at[k] = "started"}
    <2>1. ticks' = ticks /\ NextJob(running - 1, at) /\ place[j] = "started"
      BY <1>3 DEF Finish
    <2>2. at \in [Jobs -> Place] /\ S = Started \ {j} /\ j \in Started
      BY <2>1, <1>0 DEF Started, Place
    <2>3. IsFiniteSet(S) /\ Cardinality(S) = running - 1
      BY <2>2, FS_RemoveElement DEF CountsStarted
    <2>4. \A i \in 1..Len(queue) : at[queue[i]] = "waiting"
      BY <2>1, <1>0 DEF QueueLists
    <2>5. Smaller(Len(queue), Concurrency - (running - 1)) =< ticks' + 1
      BY <2>1, <1>0 DEF NoLostWakeup, Smaller
    <2> HIDE DEF at
    <2> QED BY <2>1, <2>2, <2>3, <2>4, <2>5, <1>0, NextJobKeeps
  <1>4. CASE UNCHANGED queueState
    BY <1>4 DEF queueState, TypeOK, QueueLists, CountsStarted, Started, NoLostWakeup
  <1> QED BY <1>1, <1>2, <1>3, <1>4 DEF Next

LEMMA InitHolds == Init => QueueInv
  <1> SUFFICES ASSUME Init PROVE QueueInv
    OBVIOUS
  <1>1. Started = {} /\ queue = <<>> /\ running = 0 /\ ticks = 0 /\ Len(queue) = 0
    BY DEF Init, Started
  <1>2. CountsStarted
    BY <1>1, FS_EmptySet DEF CountsStarted
  <1>3. TypeOK
    BY <1>1 DEF Init, TypeOK, Place
  <1> QED BY <1>1, <1>2, <1>3, ConcurrencyAssumption
          DEF QueueInv, QueueLists, NoLostWakeup, Smaller

THEOREM QueueInvariant == Spec => []QueueInv
  BY InitHolds, StepKeeps, PTL DEF Spec

\* At most Concurrency functions run, and the counter counts them, whatever
\* order jobs arrive and end in.
THEOREM LimitAlwaysKept == Spec => []LimitKept
  <1>1. QueueInv => LimitKept
    BY DEF QueueInv, CountsStarted, Started, LimitKept
  <1> QED BY <1>1, QueueInvariant, PTL

\* A waiting job never depends on a wakeup that has already been spent.
THEOREM WakeupsSuffice == Spec => []NoLostWakeup
  <1>1. QueueInv => NoLostWakeup
    BY DEF QueueInv
  <1> QED BY <1>1, QueueInvariant, PTL

-----------------------------------------------------------------------------
(* The engine over the queue                                               *)

\* Jobs are calls and indexes.
LEMMA JobsOfStarts ==
    /\ \A j \in Jobs : /\ j[1] \in Starts /\ j[2] \in 1..Len(TasksOf[j[1]])
                       /\ j = <<j[1], j[2]>> /\ IdOf(j) \in Tasks(j[1])
    /\ \A r \in Starts : \A i \in 1..Len(TasksOf[r]) : <<r, i>> \in Jobs
    /\ \A r \in Starts : /\ Len(TasksOf[r]) \in Nat /\ 1 \in 1..Len(TasksOf[r])
                         /\ <<r, 1>> \in Jobs /\ WorkflowOf[r] \in WorkflowIds
  <1>1. \A r \in Starts : Len(TasksOf[r]) \in Nat /\ 1 \in 1..Len(TasksOf[r])
    BY EngineAssumption
  <1>2. \A j \in Jobs : /\ j[1] \in Starts /\ j[2] \in 1..Len(TasksOf[j[1]])
                        /\ j = <<j[1], j[2]>>
    BY EngineAssumption
  <1>3. \A r \in Starts : \A i \in 1..Len(TasksOf[r]) : <<r, i>> \in Jobs
    BY EngineAssumption
  <1>4. \A j \in Jobs : IdOf(j) \in Tasks(j[1])
    BY <1>2 DEF IdOf, Tasks
  <1> QED BY <1>1, <1>2, <1>3, <1>4 DEF WorkflowIds

\* A step of the engine is a step of the queue, or leaves it alone.
LEMMA EngineUsesQueue == [EngineNext]_engineState => [Next]_queueState
  <1> SUFFICES ASSUME [EngineNext]_engineState PROVE [Next]_queueState
    OBVIOUS
  <1>1. ASSUME NEW r \in Starts, Start(r) PROVE Next
    BY <1>1, JobsOfStarts DEF Start, Next
  <1>2. ASSUME NEW r \in Starts, NEW i \in 1..Len(TasksOf[r]), Continue(r, i) PROVE Next
    <2>1. i + 1 \in 1..Len(TasksOf[r])
      BY <1>2, JobsOfStarts DEF Continue
    <2> QED BY <1>2, <2>1, JobsOfStarts DEF Continue, Next
  <1>3. ASSUME NEW j \in Jobs, Settles(j) PROVE [Next]_queueState
    BY <1>3 DEF Settles, Returns, RetryReturns, Throws, Ends, Next, queueState
  <1> QED BY <1>1, <1>2, <1>3 DEF EngineNext, EngineTick, Next, engineState, queueState

\* The engine's use of the queue is one the queue is specified for.
THEOREM EngineImplementsQueue == EngineSpec => Spec
  <1>1. EngineInit => Init
    BY DEF EngineInit
  <1> QED BY <1>1, EngineUsesQueue, PTL DEF EngineSpec, Spec

LEMMA EngineQueueInvariant == EngineSpec => []QueueInv
  BY EngineImplementsQueue, QueueInvariant, PTL

\* So in the engine too, whatever its calls of start() do, the limit is kept and
\* no wakeup is lost.
THEOREM EngineKeepsLimit == EngineSpec => [](LimitKept /\ NoLostWakeup)
  BY EngineImplementsQueue, LimitAlwaysKept, WakeupsSuffice, PTL

\* The jobs a step of next() starts: none, or one that waited.
LEMMA NextJobStarts ==
    ASSUME QueueInv, NEW busy, NEW at \in [Jobs -> Place],
           \A i \in 1..Len(queue) : at[queue[i]] = "waiting", NextJob(busy, at)
    PROVE  \/ place' = at
           \/ \E k \in Jobs : at[k] = "waiting" /\ place' = [at EXCEPT ![k] = "started"]
  <1>1. CASE busy >= Concurrency \/ queue = <<>>
    BY <1>1 DEF NextJob
  <1>2. CASE ~(busy >= Concurrency \/ queue = <<>>)
    <2>1. place' = [at EXCEPT ![Head(queue)] = "started"]
      BY <1>2 DEF NextJob
    <2>2. queue \in Seq(Jobs) /\ queue # <<>>
      BY <1>2 DEF QueueInv, TypeOK
    <2>3. Head(queue) = queue[1] /\ 1 \in 1..Len(queue) /\ Head(queue) \in Jobs
      BY <2>2
    <2> QED BY <2>1, <2>3
  <1> QED BY <1>1, <1>2

\* What a step does to the places of the jobs: one is enqueued, or one may end
\* and one that waited may start.
Enqueues(j) == place[j] = "new" /\ place' = [place EXCEPT ![j] = "waiting"]
MayBegin(at) ==
    \/ place' = at
    \/ \E k \in Jobs : at[k] = "waiting" /\ place' = [at EXCEPT ![k] = "started"]
EndsOne(j) == place[j] = "started" /\ MayBegin([place EXCEPT ![j] = "ended"])

LEMMA TickPlaces ==
    ASSUME QueueInv, Tick
    PROVE  MayBegin(place)
  <1>1. place \in [Jobs -> Place] /\ \A i \in 1..Len(queue) : place[queue[i]] = "waiting"
    BY DEF QueueInv, TypeOK, QueueLists
  <1> QED BY <1>1, NextJobStarts DEF Tick, MayBegin

LEMMA FinishPlaces ==
    ASSUME QueueInv, NEW j \in Jobs, Finish(j)
    PROVE  EndsOne(j)
  <1> DEFINE at == [place EXCEPT ![j] = "ended"]
  <1>1. /\ place \in [Jobs -> Place] /\ queue \in Seq(Jobs)
        /\ \A i \in 1..Len(queue) : place[queue[i]] = "waiting"
    BY DEF QueueInv, TypeOK, QueueLists
  <1>2. place[j] = "started" /\ NextJob(running - 1, at)
    BY DEF Finish
  <1>3. at \in [Jobs -> Place] /\ \A k \in Jobs : k # j => at[k] = place[k]
    BY <1>1 DEF Place
  <1>4. \A i \in 1..Len(queue) : at[queue[i]] = "waiting"
    BY <1>1, <1>2, <1>3
  <1> HIDE DEF at
  <1>5. MayBegin(at)
    BY <1>2, <1>3, <1>4, NextJobStarts DEF MayBegin
  <1> QED BY <1>2, <1>5 DEF EndsOne, at

\* What an enqueue does to the places.
LEMMA EnqueuePlaces ==
    ASSUME NEW j, Enqueue(j)
    PROVE  Enqueues(j)
  BY DEF Enqueue, Enqueues

-----------------------------------------------------------------------------
(* Tasks in order                                                          *)

\* Ended jobs stay ended, and only an enqueued job stops being new.
LEMMA PlacesKeepOrder ==
    ASSUME TasksInOrder, place \in [Jobs -> Place],
           \A k \in Jobs : /\ place[k] = "ended" => place'[k] = "ended"
                           /\ place[k] = "new" => place'[k] = "new"
    PROVE  TasksInOrder'
  <1> SUFFICES ASSUME NEW j \in Jobs, place'[j] # "new", NEW i \in 1..(j[2] - 1)
               PROVE  place'[<<j[1], i>>] = "ended"
    BY DEF TasksInOrder
  <1>1. place[<<j[1], i>>] = "ended"
    BY DEF TasksInOrder
  <1>2. <<j[1], i>> \in Jobs
    BY JobsOfStarts
  <1> QED BY <1>1, <1>2

LEMMA MayBeginMoves ==
    ASSUME NEW at \in [Jobs -> Place], MayBegin(at)
    PROVE  \A k \in Jobs : place'[k] = at[k] \/ (at[k] = "waiting" /\ place'[k] = "started")
  BY DEF MayBegin

LEMMA OrderKept ==
    ASSUME QueueInv, TasksInOrder, [EngineNext]_engineState
    PROVE  TasksInOrder'
  <1>0. place \in [Jobs -> Place]
    BY DEF QueueInv, TypeOK
  <1>1. CASE Tick
    BY <1>0, <1>1, TickPlaces, MayBeginMoves, PlacesKeepOrder
  <1>2. ASSUME NEW j \in Jobs, Finish(j) PROVE TasksInOrder'
    <2> DEFINE at == [place EXCEPT ![j] = "ended"]
    <2>1. place[j] = "started" /\ MayBegin(at)
      BY <1>2, FinishPlaces DEF EndsOne
    <2>2. at \in [Jobs -> Place] /\ at[j] = "ended" /\ \A k \in Jobs : k # j => at[k] = place[k]
      BY <1>0 DEF Place
    <2> HIDE DEF at
    <2> QED BY <1>0, <2>1, <2>2, MayBeginMoves, PlacesKeepOrder
  <1>3. ASSUME NEW j \in Jobs, Enqueue(j), \A i \in 1..(j[2] - 1) : place[<<j[1], i>>] = "ended"
        PROVE  TasksInOrder'
    <2> SUFFICES ASSUME NEW k \in Jobs, place'[k] # "new", NEW i \in 1..(k[2] - 1)
                 PROVE  place'[<<k[1], i>>] = "ended"
      BY DEF TasksInOrder
    <2>1. <<k[1], i>> \in Jobs
      BY JobsOfStarts
    <2>2. place[j] = "new" /\ place' = [place EXCEPT ![j] = "waiting"]
      BY <1>3 DEF Enqueue
    <2>3. place[<<k[1], i>>] = "ended"
      BY <1>0, <1>3, <2>2 DEF TasksInOrder
    <2> QED BY <1>0, <2>1, <2>2, <2>3
  <1>4. ASSUME NEW r \in Starts, Start(r) PROVE TasksInOrder'
    <2>1. \A i \in 1..(<<r, 1>>[2] - 1) : FALSE
      OBVIOUS
    <2> QED BY <1>3, <1>4, <2>1, JobsOfStarts DEF Start
  <1>5. ASSUME NEW r \in Starts, NEW i \in 1..Len(TasksOf[r]), Continue(r, i) PROVE TasksInOrder'
    <2>1. <<r, i + 1>> \in Jobs /\ <<r, i>> \in Jobs /\ i \in Nat
      BY <1>5, JobsOfStarts DEF Continue
    <2>2. \A k \in 1..i : place[<<r, k>>] = "ended"
      <3>1. place[<<r, i>>] = "ended"
        BY <1>5 DEF Continue
      <3>2. \A k \in 1..(i - 1) : place[<<r, k>>] = "ended"
        BY <2>1, <3>1 DEF TasksInOrder
      <3> QED BY <2>1, <3>1, <3>2
    <2>3. \A k \in 1..(<<r, i + 1>>[2] - 1) : place[<<(<<r, i + 1>>[1]), k>>] = "ended"
      BY <2>1, <2>2
    <2> QED BY <1>3, <1>5, <2>1, <2>3 DEF Continue
  <1>6. CASE place' = place
    BY <1>0, <1>6, PlacesKeepOrder
  <1> QED BY <1>1, <1>2, <1>4, <1>5, <1>6
          DEF EngineNext, EngineTick, Settles, Returns, RetryReturns, Throws, Ends, engineState

\* The tasks of a workflow run one after the other, whatever else the queue
\* holds: the loop of start() waits for each.
THEOREM TasksRunInOrder == EngineSpec => []TasksInOrder
  <1>1. EngineInit => TasksInOrder
    BY DEF EngineInit, Init, TasksInOrder
  <1> QED BY <1>1, OrderKept, EngineQueueInvariant, PTL DEF EngineSpec

-----------------------------------------------------------------------------
(* States and outcomes                                                     *)

Ordered(w) == \E i \in 1..Len(order) : order[i] = w

\* The map's entries: functions on task ids, each workflow listed once.
MapTypeOK ==
    /\ order \in Seq(WorkflowIds)
    /\ \A i, k \in 1..Len(order) : order[i] = order[k] => i = k
    /\ states = [w \in WorkflowIds |-> states[w]]
    /\ \A w \in WorkflowIds : states[w] = [t \in DOMAIN states[w] |-> states[w][t]]
    /\ outcome = [j \in Jobs |-> outcome[j]]

\* A job has an outcome exactly when it has ended.
OutcomesTold == \A j \in Jobs : outcome[j] = "none" <=> place[j] # "ended"

Unshared(r) == \A s \in Starts \ {r} : WorkflowOf[s] # WorkflowOf[r]

\* A started call's workflow is in the map; its entry holds tasks of calls made
\* with its id, all of them if there is one such call.
Registered ==
    /\ \A r \in Starts : place[<<r, 1>>] # "new" => Ordered(WorkflowOf[r])
    /\ \A w \in WorkflowIds : \A t \in DOMAIN states[w] :
          \E r \in Starts : WorkflowOf[r] = w /\ t \in Tasks(r)
    /\ \A r \in Starts : place[<<r, 1>>] # "new" /\ Unshared(r) =>
          DOMAIN states[WorkflowOf[r]] = Tasks(r)

\* What the map records of a task was the outcome of one of that id.
Backed(map, how) ==
    \A w \in WorkflowIds : \A t \in DOMAIN map[w] :
        /\ map[w][t] = "succeeded" => \E k \in Jobs : IdOf(k) = t /\ how[k] = "first"
        /\ map[w][t] = "failed" => \E k \in Jobs : IdOf(k) = t /\ how[k] \in Failed

\* What is recorded of a job that has its id to itself.
Recorded(at, how) ==
    IF at \in {"new", "waiting"} THEN "pending"
    ELSE IF how \in {"none", "retried"} THEN "running"
    ELSE IF how = "first" THEN "succeeded" ELSE "failed"

Exact(map, at, how) ==
    \A j \in Jobs : Alone(j) /\ at[<<j[1], 1>>] # "new" =>
        map[WorkflowOf[j[1]]][IdOf(j)] = Recorded(at[j], how[j])

StatesInv == /\ MapTypeOK /\ OutcomesTold /\ Registered
             /\ Backed(states, outcome) /\ Exact(states, place, outcome)

\* Maps of states.
Maps(map) ==
    /\ map = [w \in WorkflowIds |-> map[w]]
    /\ \A w \in WorkflowIds : map[w] = [t \in DOMAIN map[w] |-> map[w][t]]

\* Setting one entry.
SetEntry(map, w, t, s) == [map EXCEPT ![w][t] = s]

LEMMA SetOne ==
    ASSUME NEW map, Maps(map), NEW w, NEW t, NEW s
    PROVE  LET new == SetEntry(map, w, t, s) IN
           /\ Maps(new)
           /\ \A v \in WorkflowIds : DOMAIN new[v] = DOMAIN map[v]
           /\ \A v \in WorkflowIds : \A u \in DOMAIN map[v] :
                 new[v][u] = IF v = w /\ u = t THEN s ELSE map[v][u]
  <1> DEFINE entry == [map[w] EXCEPT ![t] = s]
             new == [map EXCEPT ![w] = entry]
  <1>1. w \in WorkflowIds => /\ DOMAIN entry = DOMAIN map[w]
                             /\ entry = [u \in DOMAIN entry |-> entry[u]]
                             /\ \A u \in DOMAIN map[w] :
                                   entry[u] = IF u = t THEN s ELSE map[w][u]
    BY DEF Maps
  <1> HIDE DEF entry
  <1>2. /\ DOMAIN new = WorkflowIds
        /\ \A v \in WorkflowIds : new[v] = IF v = w THEN entry ELSE map[v]
    BY DEF Maps
  <1>3. new = [v \in WorkflowIds |-> new[v]]
    BY DEF Maps
  <1> HIDE DEF new
  <1>4. Maps(new)
    BY <1>1, <1>2, <1>3 DEF Maps
  <1>5. /\ \A v \in WorkflowIds : DOMAIN new[v] = DOMAIN map[v]
        /\ \A v \in WorkflowIds : \A u \in DOMAIN map[v] :
              new[v][u] = IF v = w /\ u = t THEN s ELSE map[v][u]
    BY <1>1, <1>2
  <1> QED BY <1>4, <1>5 DEF new, entry, SetEntry

\* A transition records s for the task, where the map has it in a single entry,
\* and nothing else.
LEMMA TransitionEffect ==
    ASSUME MapTypeOK, NEW map, Maps(map), NEW t, NEW s
    PROVE  LET new == Transition(map, t, s) IN
           /\ Maps(new)
           /\ \A v \in WorkflowIds : DOMAIN new[v] = DOMAIN map[v]
           /\ \A v \in WorkflowIds : \A u \in DOMAIN map[v] :
                 new[v][u] = map[v][u] \/ (u = t /\ new[v][u] = s)
           /\ \A w \in WorkflowIds :
                 Ordered(w) /\ t \in DOMAIN map[w]
                 /\ (\A v \in WorkflowIds \ {w} : t \notin DOMAIN map[v])
                 => new[w][t] = s
  <1> DEFINE having == {i \in 1..Len(order) : t \in DOMAIN map[order[i]]}
             first  == CHOOSE i \in having : \A k \in having : i =< k
             new    == Transition(map, t, s)
  <1>0. order \in Seq(WorkflowIds) /\ Len(order) \in Nat
        /\ \A i \in 1..Len(order) : order[i] \in WorkflowIds
    BY DEF MapTypeOK
  <1>1. CASE having = {}
    <2>1. new = map
      BY <1>1 DEF Transition
    <2>2. \A w \in WorkflowIds : ~(Ordered(w) /\ t \in DOMAIN map[w])
      BY <1>1 DEF Ordered
    <2> QED BY <2>1, <2>2
  <1>2. CASE having # {}
    <2>1. new = [map EXCEPT ![order[first]][t] = s]
      BY <1>2 DEF Transition
    <2>2. ASSUME NEW w \in WorkflowIds, Ordered(w), t \in DOMAIN map[w],
                 \A v \in WorkflowIds \ {w} : t \notin DOMAIN map[v]
          PROVE  order[first] = w
      <3>1. PICK i \in 1..Len(order) : order[i] = w
        BY <2>2 DEF Ordered
      <3>2. i \in having /\ \A k \in having : order[k] = w
        BY <1>0, <2>2, <3>1
      <3>3. \A k \in having : k = i
        BY <3>1, <3>2 DEF MapTypeOK
      <3>4. i =< i
        BY <1>0
      <3>5. first \in having
        BY <3>2, <3>3, <3>4
      <3> QED BY <3>2, <3>5
    <2> DEFINE x == order[first]
               set == SetEntry(map, x, t, s)
    <2> HIDE DEF x
    <2>3. /\ Maps(set)
          /\ \A v \in WorkflowIds : DOMAIN set[v] = DOMAIN map[v]
          /\ \A v \in WorkflowIds : \A u \in DOMAIN map[v] :
                set[v][u] = IF v = x /\ u = t THEN s ELSE map[v][u]
      BY SetOne
    <2>4. Transition(map, t, s) = set
      BY <2>1 DEF x, SetEntry
    <2> HIDE DEF set
    <2>5. \A w \in WorkflowIds :
             Ordered(w) /\ t \in DOMAIN map[w]
             /\ (\A v \in WorkflowIds \ {w} : t \notin DOMAIN map[v])
             => x = w
      BY <2>2 DEF x
    <2> QED BY <2>3, <2>4, <2>5
  <1> QED BY <1>1, <1>2

\* The entry of a task only one job has, once its call is registered.
LEMMA AloneEntry ==
    ASSUME StatesInv, TasksInOrder, NEW j \in Jobs, Alone(j), place[<<j[1], 1>>] # "new"
    PROVE  /\ WorkflowOf[j[1]] \in WorkflowIds /\ Ordered(WorkflowOf[j[1]])
           /\ IdOf(j) \in DOMAIN states[WorkflowOf[j[1]]]
           /\ \A v \in WorkflowIds \ {WorkflowOf[j[1]]} : IdOf(j) \notin DOMAIN states[v]
  <1>1. j[1] \in Starts /\ IdOf(j) \in Tasks(j[1]) /\ WorkflowOf[j[1]] \in WorkflowIds
    BY JobsOfStarts
  <1>2. Ordered(WorkflowOf[j[1]])
    BY <1>1 DEF StatesInv, Registered
  <1>3. DOMAIN states[WorkflowOf[j[1]]] = Tasks(j[1])
    BY <1>1 DEF StatesInv, Registered, Alone, Unshared
  <1>4. ASSUME NEW v \in WorkflowIds, IdOf(j) \in DOMAIN states[v] PROVE v = WorkflowOf[j[1]]
    <2>1. PICK r \in Starts : WorkflowOf[r] = v /\ IdOf(j) \in Tasks(r)
      BY <1>4 DEF StatesInv, Registered
    <2>2. PICK i \in 1..Len(TasksOf[r]) : TasksOf[r][i] = IdOf(j)
      BY <2>1 DEF Tasks
    <2>3. <<r, i>> \in Jobs /\ IdOf(<<r, i>>) = IdOf(j)
      BY <2>2, JobsOfStarts DEF IdOf
    <2>4. <<r, i>> = j
      BY <2>3 DEF Alone
    <2> QED BY <2>1, <2>4
  <1> QED BY <1>1, <1>2, <1>3, <1>4

\* A job that is not new has a call that was started.
LEMMA CallStarted ==
    ASSUME TasksInOrder, NEW j \in Jobs, place[j] # "new"
    PROVE  place[<<j[1], 1>>] # "new"
  <1>1. j[2] \in Nat \ {0} /\ j = <<j[1], j[2]>>
    BY JobsOfStarts
  <1>2. CASE j[2] = 1
    BY <1>1, <1>2
  <1>3. CASE j[2] # 1
    BY <1>1, <1>3 DEF TasksInOrder
  <1> QED BY <1>2, <1>3

\* Setting the entry of job k's task, in a map with the entries of states: other
\* jobs' own entries stay.
LEMMA TransitionOfJob ==
    ASSUME StatesInv, TasksInOrder, NEW map, Maps(map),
           \A v \in WorkflowIds : DOMAIN map[v] = DOMAIN states[v],
           NEW k \in Jobs, NEW s
    PROVE  LET new == Transition(map, IdOf(k), s) IN
           /\ Maps(new) /\ \A v \in WorkflowIds : DOMAIN new[v] = DOMAIN states[v]
           /\ \A v \in WorkflowIds : \A u \in DOMAIN map[v] :
                 new[v][u] = map[v][u] \/ (u = IdOf(k) /\ new[v][u] = s)
           /\ \A j \in Jobs : Alone(j) /\ place[<<j[1], 1>>] # "new" =>
                 new[WorkflowOf[j[1]]][IdOf(j)] =
                    IF j = k THEN s ELSE map[WorkflowOf[j[1]]][IdOf(j)]
  <1> DEFINE new == Transition(map, IdOf(k), s)
  <1>1. /\ Maps(new) /\ \A v \in WorkflowIds : DOMAIN new[v] = DOMAIN map[v]
        /\ \A v \in WorkflowIds : \A u \in DOMAIN map[v] :
              new[v][u] = map[v][u] \/ (u = IdOf(k) /\ new[v][u] = s)
        /\ \A w \in WorkflowIds :
              Ordered(w) /\ IdOf(k) \in DOMAIN map[w]
              /\ (\A v \in WorkflowIds \ {w} : IdOf(k) \notin DOMAIN map[v])
              => new[w][IdOf(k)] = s
    BY TransitionEffect DEF StatesInv
  <1> HIDE DEF new
  <1>2. ASSUME NEW j \in Jobs, Alone(j), place[<<j[1], 1>>] # "new"
        PROVE  new[WorkflowOf[j[1]]][IdOf(j)] =
                  IF j = k THEN s ELSE map[WorkflowOf[j[1]]][IdOf(j)]
    <2>1. /\ WorkflowOf[j[1]] \in WorkflowIds /\ Ordered(WorkflowOf[j[1]])
          /\ IdOf(j) \in DOMAIN map[WorkflowOf[j[1]]]
          /\ \A v \in WorkflowIds \ {WorkflowOf[j[1]]} : IdOf(j) \notin DOMAIN map[v]
      BY <1>2, AloneEntry
    <2>2. CASE j = k
      BY <1>1, <2>1, <2>2
    <2>3. CASE j # k
      <3>1. IdOf(k) # IdOf(j)
        BY <1>2, <2>3 DEF Alone
      <3> QED BY <1>1, <2>1, <2>3, <3>1
    <2> QED BY <2>2, <2>3
  <1> QED BY <1>1, <1>2 DEF new

\* next() records that the job it starts runs.
LEMMA BeginPhase ==
    ASSUME StatesInv, TasksInOrder, NEW map, Maps(map),
           \A v \in WorkflowIds : DOMAIN map[v] = DOMAIN states[v],
           NEW at \in [Jobs -> Place], MayBegin(at), Begins(map),
           \A k \in Jobs : /\ at[k] = "waiting" <=> place[k] = "waiting"
                           /\ at[k] = "new" <=> place[k] = "new",
           NEW how, \A k \in Jobs : at[k] # "ended" => how[k] = "none",
           Backed(map, how), Exact(map, at, how)
    PROVE  /\ Maps(states') /\ \A v \in WorkflowIds : DOMAIN states'[v] = DOMAIN states[v]
           /\ Backed(states', how) /\ Exact(states', place', how)
           /\ \A k \in Jobs : /\ place'[k] = "ended" <=> at[k] = "ended"
                              /\ place'[k] = "new" <=> at[k] = "new"
  <1> DEFINE begun == {k \in Jobs : place[k] = "waiting" /\ place'[k] = "started"}
  <1>1. CASE place' = at
    <2>1. begun = {}
      BY <1>1
    <2>2. states' = map
      BY <2>1 DEF Begins
    <2> QED BY <1>1, <2>2
  <1>2. ASSUME NEW k \in Jobs, at[k] = "waiting", place' = [at EXCEPT ![k] = "started"]
        PROVE  /\ Maps(states') /\ \A v \in WorkflowIds : DOMAIN states'[v] = DOMAIN states[v]
               /\ Backed(states', how) /\ Exact(states', place', how)
               /\ \A i \in Jobs : /\ place'[i] = "ended" <=> at[i] = "ended"
                                  /\ place'[i] = "new" <=> at[i] = "new"
    <2>1. place'[k] = "started" /\ \A i \in Jobs : i # k => place'[i] = at[i]
      BY <1>2
    <2>2. begun = {k}
      BY <1>2, <2>1
    <2>3. (CHOOSE i \in begun : TRUE) = k
      BY <2>2
    <2>4. states' = Transition(map, IdOf(k), "running")
      BY <2>2, <2>3 DEF Begins
    <2>5. /\ Maps(states') /\ \A v \in WorkflowIds : DOMAIN states'[v] = DOMAIN states[v]
          /\ \A v \in WorkflowIds : \A u \in DOMAIN map[v] :
                states'[v][u] = map[v][u] \/ (u = IdOf(k) /\ states'[v][u] = "running")
          /\ \A j \in Jobs : Alone(j) /\ place[<<j[1], 1>>] # "new" =>
                states'[WorkflowOf[j[1]]][IdOf(j)] =
                   IF j = k THEN "running" ELSE map[WorkflowOf[j[1]]][IdOf(j)]
      BY <2>4, TransitionOfJob
    <2>6. Backed(states', how)
      BY <2>5 DEF Backed
    <2>7. \A i \in Jobs : /\ place'[i] = "ended" <=> at[i] = "ended"
                          /\ place'[i] = "new" <=> at[i] = "new"
      BY <1>2, <2>1
    <2>8. ASSUME NEW j \in Jobs, Alone(j), place'[<<j[1], 1>>] # "new"
          PROVE  states'[WorkflowOf[j[1]]][IdOf(j)] = Recorded(place'[j], how[j])
      <3>1. at[<<j[1], 1>>] # "new" /\ place[<<j[1], 1>>] # "new"
        BY <2>7, <2>8, JobsOfStarts
      <3>2. CASE j = k
        <4>1. how[k] = "none"
          BY <1>2
        <4> QED BY <2>1, <2>5, <2>8, <3>1, <3>2, <4>1 DEF Recorded
      <3>3. CASE j # k
        BY <2>1, <2>5, <2>8, <3>1, <3>3 DEF Exact
      <3> QED BY <3>2, <3>3
    <2>9. Exact(states', place', how)
      BY <2>8 DEF Exact
    <2> QED BY <2>5, <2>6, <2>7, <2>9
  <1> QED BY <1>1, <1>2 DEF MayBegin

\* A job that ends has its outcome recorded.
LEMMA EndPhase ==
    ASSUME StatesInv, TasksInOrder, place \in [Jobs -> Place],
           NEW j \in Jobs, place[j] = "started",
           NEW how, NEW st,
           \/ how = "first" /\ st = "succeeded"
           \/ how \in Failed /\ st = "failed",
           NEW map, map = Transition(states, IdOf(j), st)
    PROVE  /\ Maps(map) /\ \A v \in WorkflowIds : DOMAIN map[v] = DOMAIN states[v]
           /\ Backed(map, [outcome EXCEPT ![j] = how])
           /\ Exact(map, [place EXCEPT ![j] = "ended"], [outcome EXCEPT ![j] = how])
  <1> DEFINE oc == [outcome EXCEPT ![j] = how]
             at == [place EXCEPT ![j] = "ended"]
  <1>1. outcome[j] = "none" /\ outcome = [k \in Jobs |-> outcome[k]]
    BY DEF StatesInv, OutcomesTold, MapTypeOK
  <1>2. oc[j] = how /\ \A k \in Jobs : k # j => oc[k] = outcome[k]
    BY <1>1
  <1>3. at[j] = "ended" /\ \A k \in Jobs : k # j => at[k] = place[k]
    OBVIOUS
  <1>4. Maps(states)
    BY DEF StatesInv, MapTypeOK, Maps
  <1> HIDE DEF oc, at
  <1>5. /\ Maps(map) /\ \A v \in WorkflowIds : DOMAIN map[v] = DOMAIN states[v]
        /\ \A v \in WorkflowIds : \A u \in DOMAIN states[v] :
              map[v][u] = states[v][u] \/ (u = IdOf(j) /\ map[v][u] = st)
        /\ \A k \in Jobs : Alone(k) /\ place[<<k[1], 1>>] # "new" =>
              map[WorkflowOf[k[1]]][IdOf(k)] =
                 IF k = j THEN st ELSE states[WorkflowOf[k[1]]][IdOf(k)]
    BY <1>4, TransitionOfJob
  <1>6. Backed(map, oc)
    <2> SUFFICES ASSUME NEW w \in WorkflowIds, NEW t \in DOMAIN map[w]
                 PROVE  /\ map[w][t] = "succeeded" => \E k \in Jobs : IdOf(k) = t /\ oc[k] = "first"
                        /\ map[w][t] = "failed" => \E k \in Jobs : IdOf(k) = t /\ oc[k] \in Failed
      BY DEF Backed
    <2>1. CASE map[w][t] = states[w][t]
      <3>1. \A k \in Jobs : outcome[k] \in {"first"} \cup Failed => oc[k] = outcome[k]
        BY <1>1, <1>2 DEF Failed
      <3> QED BY <1>5, <2>1, <3>1 DEF StatesInv, Backed
    <2>2. CASE t = IdOf(j) /\ map[w][t] = st
      BY <1>2, <2>2
    <2> QED BY <1>5, <2>1, <2>2
  <1>7. Exact(map, at, oc)
    <2> SUFFICES ASSUME NEW k \in Jobs, Alone(k), at[<<k[1], 1>>] # "new"
                 PROVE  map[WorkflowOf[k[1]]][IdOf(k)] = Recorded(at[k], oc[k])
      BY DEF Exact
    <2>1. place[<<k[1], 1>>] # "new"
      BY <1>3, JobsOfStarts
    <2>2. CASE k = j
      <3>1. map[WorkflowOf[k[1]]][IdOf(k)] = st
        BY <1>5, <2>1, <2>2
      <3> QED BY <1>2, <1>3, <2>2, <3>1 DEF Recorded, Failed
    <2>3. CASE k # j
      BY <1>2, <1>3, <1>5, <2>1, <2>3 DEF StatesInv, Exact
    <2> QED BY <2>2, <2>3
  <1> QED BY <1>5, <1>6, <1>7 DEF oc, at

\* A retry that succeeded is not recorded.
LEMMA RetryPhase ==
    ASSUME StatesInv, place \in [Jobs -> Place], NEW j \in Jobs, place[j] = "started"
    PROVE  /\ Maps(states)
           /\ Backed(states, [outcome EXCEPT ![j] = "retried"])
           /\ Exact(states, [place EXCEPT ![j] = "ended"], [outcome EXCEPT ![j] = "retried"])
  <1> DEFINE oc == [outcome EXCEPT ![j] = "retried"]
             at == [place EXCEPT ![j] = "ended"]
  <1>1. outcome[j] = "none" /\ outcome = [k \in Jobs |-> outcome[k]]
    BY DEF StatesInv, OutcomesTold, MapTypeOK
  <1>2. oc[j] = "retried" /\ \A k \in Jobs : k # j => oc[k] = outcome[k]
    BY <1>1
  <1>3. at[j] = "ended" /\ \A k \in Jobs : k # j => at[k] = place[k]
    OBVIOUS
  <1> HIDE DEF oc, at
  <1>4. Backed(states, oc)
    <2>1. \A k \in Jobs : outcome[k] \in {"first"} \cup Failed => oc[k] = outcome[k]
      BY <1>1, <1>2 DEF Failed
    <2> QED BY <2>1 DEF StatesInv, Backed
  <1>5. Exact(states, at, oc)
    <2> SUFFICES ASSUME NEW k \in Jobs, Alone(k), at[<<k[1], 1>>] # "new"
                 PROVE  states[WorkflowOf[k[1]]][IdOf(k)] = Recorded(at[k], oc[k])
      BY DEF Exact
    <2>1. place[<<k[1], 1>>] # "new"
      BY <1>3, JobsOfStarts
    <2>2. CASE k = j
      BY <1>1, <1>2, <1>3, <2>1, <2>2 DEF StatesInv, Exact, Recorded
    <2>3. CASE k # j
      BY <1>2, <1>3, <2>1, <2>3 DEF StatesInv, Exact
    <2> QED BY <2>2, <2>3
  <1> QED BY <1>4, <1>5 DEF StatesInv, MapTypeOK, Maps, oc, at

\* After next(): what is left of the invariant once map, order and outcomes are
\* accounted for.
LEMMA BegunKeeps ==
    ASSUME StatesInv, TasksInOrder, order' = order, NEW map, Maps(map),
           \A v \in WorkflowIds : DOMAIN map[v] = DOMAIN states[v],
           NEW at \in [Jobs -> Place], MayBegin(at), Begins(map),
           \A k \in Jobs : /\ at[k] = "waiting" <=> place[k] = "waiting"
                           /\ at[k] = "new" <=> place[k] = "new",
           outcome' = [j \in Jobs |-> outcome'[j]],
           \A k \in Jobs : at[k] # "ended" <=> outcome'[k] = "none",
           Backed(map, outcome'), Exact(map, at, outcome')
    PROVE  StatesInv'
  <1>1. /\ Maps(states') /\ \A v \in WorkflowIds : DOMAIN states'[v] = DOMAIN states[v]
        /\ Backed(states', outcome') /\ Exact(states', place', outcome')
        /\ \A k \in Jobs : /\ place'[k] = "ended" <=> at[k] = "ended"
                           /\ place'[k] = "new" <=> at[k] = "new"
    BY BeginPhase
  <1>2. MapTypeOK'
    BY <1>1 DEF StatesInv, MapTypeOK, Maps
  <1>3. OutcomesTold'
    BY <1>1 DEF OutcomesTold
  <1>4. Registered'
    <2>1. \A r \in Starts : place'[<<r, 1>>] # "new" => place[<<r, 1>>] # "new"
      BY <1>1, JobsOfStarts
    <2> QED BY <1>1, <2>1, JobsOfStarts DEF StatesInv, Registered, Ordered
  <1>5. Backed(states, outcome)' /\ Exact(states, place, outcome)'
    BY <1>1 DEF Backed, Exact
  <1> QED BY <1>2, <1>3, <1>4, <1>5 DEF StatesInv

LEMMA TickKeepsStates ==
    ASSUME QueueInv, StatesInv, TasksInOrder, EngineTick
    PROVE  StatesInv'
  <1>1. place \in [Jobs -> Place] /\ MayBegin(place) /\ Begins(states)
        /\ order' = order /\ outcome' = outcome
    BY TickPlaces DEF QueueInv, TypeOK, EngineTick
  <1>2. Maps(states) /\ outcome' = [j \in Jobs |-> outcome'[j]]
        /\ \A k \in Jobs : place[k] # "ended" <=> outcome'[k] = "none"
    BY <1>1 DEF StatesInv, MapTypeOK, Maps, OutcomesTold
  <1>3. Backed(states, outcome') /\ Exact(states, place, outcome')
    BY <1>1 DEF StatesInv
  <1> QED BY <1>1, <1>2, <1>3, BegunKeeps

LEMMA EndsKeepsStates ==
    ASSUME QueueInv, StatesInv, TasksInOrder, NEW j \in Jobs, NEW how \in Outcomes \ {"none"},
           NEW map, Ends(j, how, map), Maps(map),
           \A v \in WorkflowIds : DOMAIN map[v] = DOMAIN states[v],
           Backed(map, [outcome EXCEPT ![j] = how]),
           Exact(map, [place EXCEPT ![j] = "ended"], [outcome EXCEPT ![j] = how])
    PROVE  StatesInv'
  <1> DEFINE at == [place EXCEPT ![j] = "ended"]
  <1>1. place \in [Jobs -> Place] /\ place[j] = "started" /\ MayBegin(at)
    BY FinishPlaces DEF QueueInv, TypeOK, Ends, EndsOne
  <1>2. /\ at \in [Jobs -> Place] /\ at[j] = "ended" /\ \A k \in Jobs : k # j => at[k] = place[k]
    BY <1>1 DEF Place
  <1>3. /\ Begins(map) /\ order' = order /\ outcome' = [outcome EXCEPT ![j] = how]
        /\ outcome = [k \in Jobs |-> outcome[k]]
    BY DEF Ends, StatesInv, MapTypeOK
  <1>4. outcome' = [k \in Jobs |-> outcome'[k]]
        /\ outcome'[j] = how /\ \A k \in Jobs : k # j => outcome'[k] = outcome[k]
    BY <1>3
  <1>5. Exact(map, at, outcome') /\ Backed(map, outcome')
    BY <1>3
  <1> HIDE DEF at
  <1>6. \A k \in Jobs : at[k] # "ended" <=> outcome'[k] = "none"
    BY <1>2, <1>4 DEF StatesInv, OutcomesTold
  <1>7. \A k \in Jobs : /\ at[k] = "waiting" <=> place[k] = "waiting"
                        /\ at[k] = "new" <=> place[k] = "new"
    BY <1>1, <1>2
  <1> QED BY <1>1, <1>2, <1>3, <1>4, <1>5, <1>6, <1>7, BegunKeeps

LEMMA SettlesKeepsStates ==
    ASSUME QueueInv, StatesInv, TasksInOrder, NEW j \in Jobs, Settles(j)
    PROVE  StatesInv'
  <1>0. place \in [Jobs -> Place] /\ Maps(states)
    BY DEF QueueInv, TypeOK, StatesInv, MapTypeOK, Maps
  <1>1. ASSUME NEW how, NEW st, Ends(j, how, Transition(states, IdOf(j), st)),
               \/ how = "first" /\ st = "succeeded"
               \/ how \in Failed /\ st = "failed"
        PROVE  StatesInv'
    <2> DEFINE map == Transition(states, IdOf(j), st)
    <2>1. place[j] = "started"
      BY <1>1 DEF Ends, Finish
    <2>2. /\ Maps(map) /\ \A v \in WorkflowIds : DOMAIN map[v] = DOMAIN states[v]
          /\ Backed(map, [outcome EXCEPT ![j] = how])
          /\ Exact(map, [place EXCEPT ![j] = "ended"], [outcome EXCEPT ![j] = how])
      BY <1>0, <1>1, <2>1, EndPhase
    <2>3. how \in Outcomes \ {"none"}
      BY <1>1 DEF Outcomes, Failed
    <2> HIDE DEF map
    <2>4. Ends(j, how, map)
      BY <1>1 DEF map
    <2> QED BY <2>2, <2>3, <2>4, EndsKeepsStates
  <1>2. CASE Ends(j, "retried", states)
    <2>1. place[j] = "started"
      BY <1>2 DEF Ends, Finish
    <2>2. "retried" \in Outcomes \ {"none"}
      BY DEF Outcomes
    <2> QED BY <1>0, <1>2, <2>1, <2>2, RetryPhase, EndsKeepsStates
  <1>3. CASE UNCHANGED <<queue, running, ticks, place, order, states, outcome>>
    BY <1>3 DEF StatesInv, MapTypeOK, OutcomesTold, Registered, Ordered, Backed, Exact
  <1>4. {"falsy", "exhausted"} = Failed
    BY DEF Failed
  <1> QED BY <1>1, <1>2, <1>3, <1>4 DEF Settles, Returns, RetryReturns, Throws

LEMMA ContinueKeepsStates ==
    ASSUME QueueInv, StatesInv, TasksInOrder,
           NEW r \in Starts, NEW i \in 1..Len(TasksOf[r]), Continue(r, i)
    PROVE  StatesInv'
  <1> DEFINE j == <<r, i + 1>>
  <1>1. j \in Jobs /\ <<r, i>> \in Jobs /\ j[1] = r
    BY JobsOfStarts DEF Continue
  <1>2. /\ place \in [Jobs -> Place] /\ place[j] = "new"
        /\ place' = [place EXCEPT ![j] = "waiting"]
        /\ states' = states /\ order' = order /\ outcome' = outcome
    BY DEF QueueInv, TypeOK, Continue, Enqueue
  <1>3. place[<<r, 1>>] # "new"
    <2>1. place[<<r, i>>] # "new" /\ <<r, i>>[1] = r
      BY DEF Continue
    <2> QED BY <1>1, <2>1, CallStarted
  <1> HIDE DEF j
  <1>4. place'[j] = "waiting" /\ \A k \in Jobs : k # j => place'[k] = place[k]
    BY <1>1, <1>2
  <1>5. \A s \in Starts : place'[<<s, 1>>] # "new" => place[<<s, 1>>] # "new"
    BY <1>3, <1>4, JobsOfStarts DEF j
  <1>6. MapTypeOK' /\ Registered'
    BY <1>2, <1>5 DEF StatesInv, MapTypeOK, Registered, Ordered
  <1>7. OutcomesTold'
    BY <1>1, <1>2, <1>4 DEF StatesInv, OutcomesTold
  <1>8. Exact(states, place, outcome)'
    <2> SUFFICES ASSUME NEW k \in Jobs, Alone(k), place'[<<k[1], 1>>] # "new"
                 PROVE  states[WorkflowOf[k[1]]][IdOf(k)] = Recorded(place'[k], outcome[k])
      BY <1>2 DEF Exact
    <2>1. place[<<k[1], 1>>] # "new"
      BY <1>5, JobsOfStarts
    <2>2. states[WorkflowOf[k[1]]][IdOf(k)] = Recorded(place[k], outcome[k])
      BY <2>1 DEF StatesInv, Exact
    <2> QED BY <1>2, <1>4, <2>2 DEF Recorded
  <1> QED BY <1>2, <1>6, <1>7, <1>8 DEF StatesInv, Backed

\* A task that has not begun is recorded as pending, whatever else is known.
LEMMA NothingBegun ==
    ASSUME NEW at, at \in {"new", "waiting"}, NEW how
    PROVE  Recorded(at, how) = "pending"
  BY DEF Recorded

\* initialize() makes the tasks of a call pending, and nothing else.
LEMMA StartKeepsStates ==
    ASSUME QueueInv, StatesInv, TasksInOrder, NEW r \in Starts, Start(r)
    PROVE  StatesInv'
  <1> DEFINE j == <<r, 1>>
             w == WorkflowOf[r]
             entry == [t \in Tasks(r) |-> "pending"]
  <1>1. j \in Jobs /\ w \in WorkflowIds
    BY JobsOfStarts
  <1>2. /\ place \in [Jobs -> Place] /\ place[j] = "new"
        /\ place' = [place EXCEPT ![j] = "waiting"]
        /\ states' = [states EXCEPT ![w] = entry] /\ outcome' = outcome
        /\ order' = IF Ordered(w) THEN order ELSE Append(order, w)
    BY DEF QueueInv, TypeOK, Start, Enqueue, Initialize, Ordered
  <1>3. \A v \in WorkflowIds : states'[v] = IF v = w THEN entry ELSE states[v]
    BY <1>2 DEF StatesInv, MapTypeOK
  <1>4. place'[j] = "waiting" /\ \A k \in Jobs : k # j => place'[k] = place[k]
    BY <1>1, <1>2
  <1>5. DOMAIN entry = Tasks(r) /\ entry = [t \in DOMAIN entry |-> entry[t]]
        /\ \A t \in Tasks(r) : entry[t] = "pending"
    OBVIOUS
  <1>6. /\ order' \in Seq(WorkflowIds)
        /\ \A i, k \in 1..Len(order') : order'[i] = order'[k] => i = k
        /\ Ordered(w)' /\ \A v : Ordered(v) => Ordered(v)'
    <2>0. order \in Seq(WorkflowIds) /\ Len(order) \in Nat
          /\ \A i, k \in 1..Len(order) : order[i] = order[k] => i = k
      BY DEF StatesInv, MapTypeOK
    <2>1. CASE Ordered(w)
      BY <1>2, <2>0, <2>1 DEF Ordered
    <2>2. CASE ~Ordered(w)
      <3>1. order' = Append(order, w)
        BY <1>2, <2>2
      <3> HIDE DEF w
      <3>2. /\ order' \in Seq(WorkflowIds) /\ Len(order') = Len(order) + 1
            /\ order'[Len(order) + 1] = w /\ \A i \in 1..Len(order) : order'[i] = order[i]
        BY <1>1, <2>0, <3>1
      <3>3. \A i \in 1..Len(order') : i \in 1..Len(order) \/ i = Len(order) + 1
        BY <2>0, <3>2
      <3>4. \A i \in 1..Len(order) : order[i] # w
        BY <2>2 DEF Ordered
      <3>5. \A i, k \in 1..Len(order') : order'[i] = order'[k] => i = k
        BY <2>0, <3>2, <3>3, <3>4
      <3>6. Ordered(w)'
        <4>1. Len(order) + 1 \in 1..Len(order')
          BY <2>0, <3>2
        <4> QED BY <3>2, <4>1 DEF Ordered, w
      <3>7. ASSUME NEW v, Ordered(v) PROVE Ordered(v)'
        <4>1. PICK i \in 1..Len(order) : order[i] = v
          BY <3>7 DEF Ordered
        <4>2. i \in 1..Len(order') /\ order'[i] = v
          BY <2>0, <3>2, <4>1
        <4> QED BY <4>2 DEF Ordered
      <3> QED BY <3>2, <3>5, <3>6, <3>7
    <2> QED BY <2>1, <2>2
  <1>7. \A s \in Starts : place'[<<s, 1>>] # "new" => place[<<s, 1>>] # "new" \/ s = r
    BY <1>4, JobsOfStarts
  <1> HIDE DEF j, w, entry
  <1>8. MapTypeOK'
    <2>1. states' = [v \in WorkflowIds |-> states'[v]]
      BY <1>2 DEF StatesInv, MapTypeOK
    <2>2. \A v \in WorkflowIds : states'[v] = [t \in DOMAIN states'[v] |-> states'[v][t]]
      BY <1>3, <1>5 DEF StatesInv, MapTypeOK
    <2> QED BY <1>2, <1>6, <2>1, <2>2 DEF StatesInv, MapTypeOK
  <1>9. OutcomesTold'
    BY <1>1, <1>2, <1>4 DEF StatesInv, OutcomesTold
  <1>10. Registered'
    <2>1. \A s \in Starts : place'[<<s, 1>>] # "new" => Ordered(WorkflowOf[s])'
      BY <1>6, <1>7 DEF StatesInv, Registered, Ordered, w
    <2>2. ASSUME NEW v \in WorkflowIds, NEW t \in DOMAIN states'[v]
          PROVE  \E s \in Starts : WorkflowOf[s] = v /\ t \in Tasks(s)
      BY <1>3, <1>5, <2>2 DEF StatesInv, Registered, w
    <2>3. ASSUME NEW s \in Starts, place'[<<s, 1>>] # "new", Unshared(s)
          PROVE  DOMAIN states'[WorkflowOf[s]] = Tasks(s)
      <3>1. WorkflowOf[s] = w => s = r
        BY <2>3 DEF Unshared, w
      <3>2. WorkflowOf[s] \in WorkflowIds
        BY JobsOfStarts
      <3> QED BY <1>3, <1>5, <1>7, <2>3, <3>1, <3>2 DEF StatesInv, Registered, w
    <2> QED BY <2>1, <2>2, <2>3 DEF Registered
  <1>11. Backed(states, outcome)'
    BY <1>2, <1>3, <1>5 DEF StatesInv, Backed
  <1>12. Exact(states, place, outcome)'
    <2> SUFFICES ASSUME NEW k \in Jobs, Alone(k), place'[<<k[1], 1>>] # "new"
                 PROVE  states'[WorkflowOf[k[1]]][IdOf(k)] = Recorded(place'[k], outcome[k])
      BY <1>2 DEF Exact
    <2>0. k[1] \in Starts /\ IdOf(k) \in Tasks(k[1]) /\ WorkflowOf[k[1]] \in WorkflowIds
      BY JobsOfStarts
    <2>1. CASE k[1] = r
      <3>1. states'[WorkflowOf[k[1]]][IdOf(k)] = "pending"
        BY <1>3, <1>5, <2>0, <2>1 DEF w
      <3>2. place'[k] \in {"new", "waiting"}
        <4>1. k # j => place[k] = "new"
          BY <1>2, <2>1, CallStarted DEF j
        <4> QED BY <1>4, <4>1
      <3>3. Recorded(place'[k], outcome[k]) = "pending"
        BY <3>2, NothingBegun
      <3> QED BY <3>1, <3>3
    <2>2. CASE k[1] # r
      <3>1. WorkflowOf[k[1]] # w
        BY <2>2 DEF Alone, w
      <3>2. place[<<k[1], 1>>] # "new" /\ k # j
        BY <1>7, <2>0, <2>2 DEF j
      <3>3. states[WorkflowOf[k[1]]][IdOf(k)] = Recorded(place[k], outcome[k])
        BY <3>2 DEF StatesInv, Exact
      <3> QED BY <1>3, <1>4, <2>0, <3>1, <3>2, <3>3
    <2> QED BY <2>1, <2>2
  <1> QED BY <1>8, <1>9, <1>10, <1>11, <1>12 DEF StatesInv

\* The states of tasks tell how their functions ended, for every number of
\* workflows that share the engine: what is recorded belongs to a task of that
\* id, and exactly to the one if nobody shares its ids.
THEOREM StatesAreTrue == EngineSpec => []StatesTellOutcomes
  <1>1. EngineInit => StatesInv
    <2> SUFFICES ASSUME EngineInit PROVE StatesInv
      OBVIOUS
    <2>1. /\ order = <<>> /\ states = [w \in WorkflowIds |-> <<>>]
          /\ outcome = [j \in Jobs |-> "none"] /\ place = [j \in Jobs |-> "new"]
      BY DEF EngineInit, Init
    <2>2. DOMAIN <<>> = {} /\ <<>> = [t \in DOMAIN <<>> |-> <<>>[t]]
      OBVIOUS
    <2>3. MapTypeOK
      BY <2>1, <2>2 DEF MapTypeOK
    <2>4. OutcomesTold /\ Registered
      BY <2>1, <2>2, JobsOfStarts DEF OutcomesTold, Registered
    <2>5. Backed(states, outcome) /\ Exact(states, place, outcome)
      BY <2>1, <2>2, JobsOfStarts DEF Backed, Exact
    <2> QED BY <2>3, <2>4, <2>5 DEF StatesInv
  <1>2. QueueInv /\ TasksInOrder /\ StatesInv /\ [EngineNext]_engineState => StatesInv'
    <2> SUFFICES ASSUME QueueInv, TasksInOrder, StatesInv, [EngineNext]_engineState
                 PROVE  StatesInv'
      OBVIOUS
    <2>1. CASE UNCHANGED engineState
      BY <2>1 DEF engineState, StatesInv, MapTypeOK, OutcomesTold, Registered, Ordered, Backed,
                  Exact
    <2> QED BY <2>1, TickKeepsStates, SettlesKeepsStates, StartKeepsStates, ContinueKeepsStates
            DEF EngineNext
  <1>3. StatesInv /\ TasksInOrder => StatesTellOutcomes
    <2> SUFFICES ASSUME StatesInv, TasksInOrder PROVE StatesTellOutcomes
      OBVIOUS
    <2>1. ASSUME NEW w \in WorkflowIds, NEW t \in DOMAIN states[w]
          PROVE  LET ended == {outcome[j] : j \in {k \in Jobs : IdOf(k) = t}} IN
                 /\ states[w][t] = "succeeded" => "first" \in ended
                 /\ states[w][t] = "failed" => ended \cap Failed # {}
      BY DEF StatesInv, Backed
    <2>2. ASSUME NEW j \in Jobs, Alone(j), place[<<j[1], 1>>] # "new"
          PROVE  states[WorkflowOf[j[1]]][IdOf(j)] =
                    IF place[j] \in {"new", "waiting"} THEN "pending"
                    ELSE IF outcome[j] \in {"none", "retried"} THEN "running"
                    ELSE IF outcome[j] = "first" THEN "succeeded" ELSE "failed"
      BY <2>2 DEF StatesInv, Exact, Recorded
    <2> QED BY <2>1, <2>2 DEF StatesTellOutcomes
  <1> QED BY <1>1, <1>2, <1>3, EngineQueueInvariant, TasksRunInOrder, PTL DEF EngineSpec
=============================================================================
