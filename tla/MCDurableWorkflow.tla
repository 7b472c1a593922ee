------------------------- MODULE MCDurableWorkflow -------------------------
(* Small instances of the durable workflow engine for TLC.                 *)
EXTENDS DurableWorkflow, TLC

CONSTANTS w1, w2, t1, t2, t3, s1, s2, h1, h2

\* One workflow, of two tasks or of one.
OneWorkflow == w1 :> <<t1, t2>>
OneTask == w1 :> <<t1>>

\* Two workflows whose callers chose the same two task ids.
SharedId == w1 :> <<t1, t2>> @@ w2 :> <<t1, t2>>

MCActors == Handlers \cup Slots
MCSources == Workflows \cup {NoWf}
NoProcesses == {}
\* An API process and a worker process.
ApiAndWorker == {Handlers, Slots}

\* Slots, and handlers, are interchangeable.
SlotsOnly == Permutations(Slots)
HandlersOnly == Permutations(Handlers)
=============================================================================
