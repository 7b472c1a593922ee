--------------------------- MODULE ExecutionQueue ---------------------------
(***************************************************************************)
(* The in-process queue of engine/executionQueue.js: at most Concurrency   *)
(* functions run at once, the others wait in order.  A waiting job is      *)
(* started by one call of next(): a tick scheduled when it was enqueued,   *)
(* or the call a finishing job makes.  A tick that finds every place taken *)
(* is spent for nothing.                                                   *)
(***************************************************************************)
EXTENDS Integers, Sequences, FiniteSets

CONSTANTS Jobs,        \* the functions passed to enqueue
          Concurrency

ASSUME ConcurrencyAssumption == Concurrency \in Nat \ {0}

VARIABLES queue,    \* jobs that wait
          running,  \* the counter this.running
          ticks,    \* process.nextTick callbacks not yet run
          place     \* where each job is

queueState == <<queue, running, ticks, place>>

Place == {"new", "waiting", "started", "ended"}

TypeOK ==
    /\ queue \in Seq(Jobs)
    /\ running \in Int
    /\ ticks \in Nat
    /\ place \in [Jobs -> Place]

Init ==
    /\ queue = <<>>
    /\ running = 0
    /\ ticks = 0
    /\ place = [j \in Jobs |-> "new"]

-----------------------------------------------------------------------------
Enqueue(j) ==
    /\ place[j] = "new"
    /\ place' = [place EXCEPT ![j] = "waiting"]
    /\ queue' = Append(queue, j)
    /\ ticks' = ticks + 1
    /\ UNCHANGED running

\* Mutant: the limit is checked against one job too many.
NextJobOverLimit(busy, at) ==
    IF busy > Concurrency \/ queue = <<>>
    THEN queue' = queue /\ running' = busy /\ place' = at
    ELSE /\ queue' = Tail(queue)
         /\ running' = busy + 1
         /\ place' = [at EXCEPT ![Head(queue)] = "started"]

\* next(), with busy jobs running and the jobs at these places.
NextJob(busy, at) ==
    IF busy >= Concurrency \/ queue = <<>>
    THEN queue' = queue /\ running' = busy /\ place' = at
    ELSE /\ queue' = Tail(queue)
         /\ running' = busy + 1
         /\ place' = [at EXCEPT ![Head(queue)] = "started"]

Tick ==
    /\ ticks > 0
    /\ ticks' = ticks - 1
    /\ NextJob(running, place)

\* Mutant: a finished job does not call next().
FinishSilently(j) ==
    /\ place[j] = "started"
    /\ running' = running - 1
    /\ place' = [place EXCEPT ![j] = "ended"]
    /\ UNCHANGED <<queue, ticks>>

\* The function returned or threw: the finally block frees the place and calls
\* next() at once.
Finish(j) ==
    /\ place[j] = "started"
    /\ NextJob(running - 1, [place EXCEPT ![j] = "ended"])
    /\ UNCHANGED ticks

Next == Tick \/ \E j \in Jobs : Enqueue(j) \/ Finish(j)

Spec == Init /\ [][Next]_queueState

-----------------------------------------------------------------------------
Smaller(a, b) == IF a < b THEN a ELSE b

\* The counter is the number of started jobs, never more than the limit.
LimitKept ==
    /\ running = Cardinality({j \in Jobs : place[j] = "started"})
    /\ running =< Concurrency

\* No wakeup is lost: for every place that is free while a job waits, a tick is
\* still to come, although ticks are spent for nothing while the queue is full.
NoLostWakeup == Smaller(Len(queue), Concurrency - running) =< ticks
=============================================================================
