--------------------------- MODULE MCMemoryEngine ---------------------------
(* Small instances of the in-memory engine over its queue for TLC.         *)
EXTENDS MemoryEngine, TLC

CONSTANTS r1, r2, r3, w1, w2, t1, t2

\* Two workflows share a task id; the third call registers the first id anew.
MCWorkflowOf == r1 :> w1 @@ r2 :> w2 @@ r3 :> w1
MCTasksOf == r1 :> <<t1>> @@ r2 :> <<t1, t2>> @@ r3 :> <<t1>>
MCJobs == {<<r1, 1>>, <<r2, 1>>, <<r2, 2>>, <<r3, 1>>}
=============================================================================
