------------------------------ MODULE MCFrontDoor ------------------------------
(* What people send in: requests of the approval API, the owner's commands *)
(* and WhatsApp messages.  The three share no state: a behaviour is one of *)
(* a single component, while the others stay in their initial states.      *)
EXTENDS ApprovalFlow, OwnerWorkflows, InboundMessages

CONSTANTS a1, r1, r2, r3, u1, u2, f1, noon, owner, other,
          m1, m2, m3, h1, h2

FrontDoorInit == Init /\ OwnerInit /\ InboundInit

NoApprovals == Init /\ UNCHANGED vars
NoOwner == OwnerInit /\ UNCHANGED ownerState
NoMessages == InboundInit /\ UNCHANGED inboundState

FrontDoorNext ==
    \/ NoOwner /\ NoMessages /\ Next
    \/ NoApprovals /\ NoMessages /\ OwnerNext
    \/ NoApprovals /\ NoOwner /\ InboundNext

\* A request of the approval API that has begun goes on (FairSpec of
\* ApprovalFlow); where the API is not used, nothing that is fair is enabled.
FrontDoorSpec ==
    /\ FrontDoorInit
    /\ [][FrontDoorNext]_<<vars, ownerState, inboundState>>
    /\ \A r \in Requests : WF_vars(Working(r))
================================================================================
