------------------------------ MODULE AiQuota ------------------------------
(***************************************************************************)
(* The token quota of one owner: utils/aiRateLimiter.js as used by         *)
(* services/geminiService.js.  A call reads the counter, asks the model,   *)
(* and charges what the answer cost; checking and charging are separate    *)
(* commands to Redis, and so are reading the key's time to live and        *)
(* setting it.  Owners have keys of their own and do not interact.         *)
(***************************************************************************)
EXTENDS Naturals, FiniteSets

CONSTANTS Callers,   \* clients, each with one call at a time
          Tokens,    \* quota of a window
          Estimate,  \* tokens a text call asks for in advance
          MaxCost,   \* tokens the largest answer costs
          MaxCalls   \* bound: calls of each client

ASSUME QuotaAssumption ==
    /\ IsFiniteSet(Callers)
    /\ Tokens \in Nat /\ Estimate \in Nat \ {0} /\ MaxCost \in Nat /\ MaxCalls \in Nat

VARIABLES live,     \* the owner's key exists
          used,     \* its value
          expires,  \* it has a time to live
          call,     \* call[c]: the call c is making
          calls,    \* calls c has begun
          embedded  \* history: tokens charged for embeddings in this window

vars == <<live, used, expires, call, calls, embedded>>

Kind == {"text", "stream", "embed"}
Ttl == {"missing", "never", "armed"}
Call == [pc: {"idle", "model", "readTtl", "charge"}, kind: Kind, cost: 0..MaxCost, seen: Ttl]
Asking(kind) == [pc |-> "model", kind |-> kind, cost |-> 0, seen |-> "missing"]
Idle == [pc |-> "idle", kind |-> "text", cost |-> 0, seen |-> "missing"]

TypeOK ==
    /\ live \in BOOLEAN /\ expires \in BOOLEAN
    /\ used \in Nat /\ embedded \in Nat
    /\ call \in [Callers -> Call]
    /\ calls \in [Callers -> 0..MaxCalls]

Init ==
    /\ live = FALSE /\ expires = FALSE
    /\ used = 0 /\ embedded = 0
    /\ call = [c \in Callers |-> Idle]
    /\ calls = [c \in Callers |-> 0]

-----------------------------------------------------------------------------
\* What a call asks for before it is made; an embedding asks for nothing.
Asked(kind) == IF kind = "text" THEN Estimate ELSE 1

\* Mutant: a request is admitted as long as the counter is not negative.
AdmitsAll(kind) == kind = "embed" \/ used >= 0

\* allowConsume(): the remaining tokens, at least 0, cover what is asked for.
Admits(kind) ==
    kind = "embed" \/ (IF used > Tokens THEN 0 ELSE Tokens - used) >= Asked(kind)

Begin(c, kind) ==
    /\ call[c].pc = "idle" /\ calls[c] < MaxCalls
    /\ Admits(kind)
    /\ call' = [call EXCEPT ![c] = Asking(kind)]
    /\ calls' = [calls EXCEPT ![c] = @ + 1]
    /\ UNCHANGED <<live, used, expires, embedded>>

\* The model answers, at a cost known only now.
Answered(c) ==
    /\ call[c].pc = "model"
    /\ \E cost \in 0..MaxCost :
          call' = [call EXCEPT ![c].pc = "readTtl", ![c].cost = cost]
    /\ UNCHANGED <<live, used, expires, calls, embedded>>

\* The model or Redis fails, or a stream is not finalized: nothing is charged.
GivesUp(c) ==
    /\ call[c].pc # "idle"
    /\ call' = [call EXCEPT ![c] = Idle]
    /\ UNCHANGED <<live, used, expires, calls, embedded>>

ReadTtl(c) ==
    /\ call[c].pc = "readTtl"
    /\ call' = [call EXCEPT ![c].pc = "charge",
                            ![c].seen = IF ~live THEN "missing"
                                        ELSE IF expires THEN "armed" ELSE "never"]
    /\ UNCHANGED <<live, used, expires, calls, embedded>>

\* One transaction: INCRBY, which creates a missing key without a time to live,
\* and EXPIRE if none was seen.
Charge(c) ==
    /\ call[c].pc = "charge"
    /\ live' = TRUE
    /\ used' = used + call[c].cost
    /\ expires' = (expires \/ call[c].seen # "armed")
    /\ embedded' = embedded + IF call[c].kind = "embed" THEN call[c].cost ELSE 0
    /\ call' = [call EXCEPT ![c] = Idle]
    /\ UNCHANGED calls

\* The time to live runs out.
WindowEnds ==
    /\ live /\ expires
    /\ live' = FALSE /\ expires' = FALSE
    /\ used' = 0 /\ embedded' = 0
    /\ UNCHANGED <<call, calls>>

Working(c) == Answered(c) \/ GivesUp(c) \/ ReadTtl(c) \/ Charge(c)

Next ==
    \/ WindowEnds
    \/ \E c \in Callers : Working(c) \/ \E kind \in Kind : Begin(c, kind)

Spec == Init /\ [][Next]_vars

\* Time passes, and every await of a call in progress ends.
FairSpec == Spec /\ WF_vars(WindowEnds) /\ \A c \in Callers : WF_vars(Working(c))

-----------------------------------------------------------------------------
\* Checking before and charging after the call lets a window overrun its quota,
\* but by no more than one answer per client, whatever the interleaving; what
\* embeddings cost is charged without any check.
OvershootBounded == used =< Tokens + Cardinality(Callers) * MaxCost + embedded

\* aiRateLimiter.js:10, "count tokens consumed within a window": an owner whose
\* quota is used up gets a new window.
QuotaReturns == live /\ used >= Tokens ~> used < Tokens
=============================================================================
