---------------------------- MODULE JobLifecycle ----------------------------
(***************************************************************************)
(* What enqueueing by task id promises the rest of the program             *)
(* (queue/queueManager.js: "idempotency by jobId uniqueness"): a submitted *)
(* id is run by one processor at a time, a bounded number of times, until  *)
(* it ends, and an ended id is not run again unless the queue has forgotten*)
(* it first.  Submitting an id that is not forgotten changes nothing.      *)
(***************************************************************************)
EXTENDS Naturals

CONSTANTS TaskIds,
          Limit    \* how often one submission may be run

VARIABLES phase,   \* where the submission of an id stands
          tries    \* how often it was run

Phase == {"absent", "ready", "busy", "ended"}

LifecycleTypeOK ==
    /\ phase \in [TaskIds -> Phase]
    /\ tries \in [TaskIds -> 0..Limit]

Init ==
    /\ phase = [id \in TaskIds |-> "absent"]
    /\ tries = [id \in TaskIds |-> 0]

Submit(id) ==
    /\ phase[id] = "absent"
    /\ phase' = [phase EXCEPT ![id] = "ready"]
    /\ UNCHANGED tries

Run(id) ==
    /\ phase[id] = "ready"
    /\ tries[id] < Limit
    /\ phase' = [phase EXCEPT ![id] = "busy"]
    /\ tries' = [tries EXCEPT ![id] = @ + 1]

GiveBack(id) ==
    /\ phase[id] = "busy"
    /\ tries[id] < Limit
    /\ phase' = [phase EXCEPT ![id] = "ready"]
    /\ UNCHANGED tries

End(id) ==
    /\ phase[id] = "busy"
    /\ phase' = [phase EXCEPT ![id] = "ended"]
    /\ UNCHANGED tries

\* An id ends and an ended one, possibly itself, makes room for it.
EndForgetting(id, old) ==
    /\ phase[id] = "busy"
    /\ phase[old] = "ended" \/ old = id
    /\ phase' = [phase EXCEPT ![id] = "ended", ![old] = "absent"]
    /\ tries' = [tries EXCEPT ![old] = 0]

Next ==
    \E id \in TaskIds :
        \/ Submit(id) \/ Run(id) \/ GiveBack(id) \/ End(id)
        \/ \E old \in TaskIds : EndForgetting(id, old)

Spec == Init /\ [][Next]_<<phase, tries>>
=============================================================================
