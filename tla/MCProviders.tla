------------------------------ MODULE MCProviders ------------------------------
(* What the system exchanges with services outside it: payment webhooks,   *)
(* the calls of the integrations, the stream of a model's answer, and the  *)
(* text prepared for a model.  These components share no state: a behaviour*)
(* is one of a single component, while the others stay in their initial    *)
(* states.  The payments are one payment reported as authorized and        *)
(* captured under one key, the way Razorpay reports it (the key is the     *)
(* payment's id); only the first report gives the amount.                  *)
EXTENDS PaymentEvents, ProviderCalls, Chunker, ModelStream, RagContext

CONSTANTS k1, d1, d2, c1, c2

Authorized == [key |-> k1, status |-> "authorized", amount |-> "five"]
Captured == [key |-> k1, status |-> "captured", amount |-> None]

OnePayment == {Authorized, Captured}

ProvidersInit == Init /\ ProviderInit /\ ChunkInit /\ StreamInit /\ RagInit

NoPayments == Init /\ UNCHANGED vars
NoCalls == ProviderInit /\ UNCHANGED callState
NoChunks == ChunkInit /\ UNCHANGED chunkState
NoStream == StreamInit /\ UNCHANGED streamState
NoContext == RagInit /\ UNCHANGED ragState

ProvidersNext ==
    \/ NoCalls /\ NoChunks /\ NoStream /\ NoContext /\ Next
    \/ NoPayments /\ NoChunks /\ NoStream /\ NoContext /\ ProviderNext
    \/ NoPayments /\ NoCalls /\ NoStream /\ NoContext /\ ChunkNext
    \/ NoPayments /\ NoCalls /\ NoChunks /\ NoContext /\ StreamNext
    \/ NoPayments /\ NoCalls /\ NoChunks /\ NoStream /\ RagNext

everything == <<vars, callState, chunkState, streamState, ragState>>

\* The providers' deliveries and the requests are fair (FairSpec of
\* PaymentEvents): a behaviour of another component, in which no delivery ever
\* happens, says nothing of the payments.
ProvidersSpec ==
    /\ ProvidersInit /\ [][ProvidersNext]_everything
    /\ \A d \in Deliveries : WF_vars(Working(d))
    /\ \A e \in Events : SF_vars(e \notin accepted /\ \E d \in Deliveries : Deliver(d, e))
================================================================================
