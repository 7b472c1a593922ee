------------------------------ MODULE MCProcess ------------------------------
(* The life of the process, the log shipper it closes last, and the values *)
(* it keeps of other services, which share no state: a behaviour is one of *)
(* one of them, while the others stay in their initial states.  That the   *)
(* shipper's shutdown returns, which the last steps of the process rely    *)
(* on, is ShutdownReturns.                                                 *)
EXTENDS LogShipper, ServerLifecycle, FetchedValues

\* The keys are replaced one at a time; k1 is used again in the end.
MCKeySets == [v \in 0..3 |-> CASE v = 0 -> {} [] v = 1 -> {"k1", "k2"}
                               [] v = 2 -> {"k2", "k3"} [] v = 3 -> {"k3", "k1"}]

\* What kind of value is fetched matters to nothing else.
NothingFetched == FetchInit /\ kind = "keys"

ProcessInit == Init /\ ServerInit /\ FetchInit

ProcessNext ==
    \/ ServerInit /\ NothingFetched /\ UNCHANGED <<serverState, fetchState>> /\ Next
    \/ Init /\ NothingFetched /\ UNCHANGED <<vars, fetchState>> /\ ServerNext
    \/ Init /\ ServerInit /\ UNCHANGED <<vars, serverState>> /\ FetchNext

\* In their initial states nothing that is fair is enabled.
ProcessSpec ==
    /\ ProcessInit /\ [][ProcessNext]_<<vars, serverState, fetchState>>
    /\ WF_vars(TimerFlush)
    /\ \A f \in Flights : WF_vars(closing # "done" /\ Flying(f))
    /\ ServerFairness
=============================================================================
