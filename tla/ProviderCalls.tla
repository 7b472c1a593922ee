--------------------------- MODULE ProviderCalls ---------------------------
(***************************************************************************)
(* Calls of external services: integrations/hubspotClient.js, zohoClient.js,*)
(* amazon/spApiClient.js, services/wooService.js, geminiClient.js and the  *)
(* checkout of controllers/orderController.js.  A call is a plan of        *)
(* requests; a request may be applied although its answer is lost; a       *)
(* failed attempt is repeated from the start of the plan, as often as the  *)
(* client's wrapper allows.                                                *)
(***************************************************************************)
EXTENDS Naturals, Sequences

CONSTANTS Calls,
          Attempts,     \* retryWrapper's attempts
          SpRetries     \* DEFAULT_RETRIES of the Amazon client

ASSUME AttemptsAssumption == Attempts \in Nat \ {0} /\ SpRetries \in Nat \ {0}

Crms == {"hubspot", "zoho"}

VARIABLES call,     \* call[c]: its plan, the request it is at, its failed attempts
          orphan,   \* request an attempt is at that the breaker has given up, or 0
          base,     \* what the attempt has prepared: a feed document, an order
          made,     \* made[c]: things call c has created or changed
          restsOn,  \* what they rest on
          known,    \* the CRMs in which the customer has a contact
          knew      \* knew[c]: those in which it had one when call c began

callState == <<call, orphan, base, made, restsOn, known, knew>>

\* The requests of an attempt.
Plan ==
    [read |-> <<"read">>, search |-> <<"search">>, update |-> <<"change">>,
     create |-> <<"contact">>, deal |-> <<"change">>,
     wooRead |-> <<"read">>, wooOrder |-> <<"change">>, wooStock |-> <<"read", "change">>,
     spRead |-> <<"read", "read">>,
     spFeed |-> <<"read", "prepare", "complete", "rest">>,
     checkout |-> <<"complete", "rest", "note">>]

WooPlans == {"wooRead", "wooOrder", "wooStock"}
SpPlans == {"spRead", "spFeed"}

\* Failed attempts after which a call fails: one more behind a circuit breaker,
\* none is repeated by the checkout.
Limit(p) == CASE p \in SpPlans -> SpRetries
              [] p \in WooPlans -> Attempts + 1
              [] p = "checkout" -> 1
              [] OTHER -> Attempts

Most == Attempts + SpRetries

Call == [status: {"idle", "running", "answered", "failed"}, plan: DOMAIN Plan,
         service: Crms \cup {"other"}, step: 1..4, tries: 0..Most]

ProviderTypeOK ==
    /\ call \in [Calls -> Call]
    /\ orphan \in [Calls -> 0..2]
    /\ base \in [Calls -> {"none", "begun", "complete"}]
    /\ made \in [Calls -> 0..Most]
    /\ restsOn \in [Calls -> SUBSET {"none", "begun", "complete"}]
    /\ known \subseteq Crms /\ knew \in [Calls -> SUBSET Crms]

ProviderInit ==
    /\ call = [c \in Calls |-> [status |-> "idle", plan |-> "read", service |-> "other",
                                step |-> 1, tries |-> 0]]
    /\ orphan = [c \in Calls |-> 0]
    /\ base = [c \in Calls |-> "none"]
    /\ made = [c \in Calls |-> 0]
    /\ restsOn = [c \in Calls |-> {}]
    /\ known = {}
    /\ knew = [c \in Calls |-> {}]

-----------------------------------------------------------------------------
(* The operations.                                                         *)

Begins(c, plan, service) ==
    /\ call[c].status = "idle"
    /\ call' = [call EXCEPT ![c] = [status |-> "running", plan |-> plan, service |-> service,
                                    step |-> 1, tries |-> 0]]
    /\ knew' = [knew EXCEPT ![c] = known]
    /\ UNCHANGED <<orphan, base, made, restsOn, known>>

HubspotUpsert(c) == Begins(c, "search", "hubspot")
HubspotDeal(c) == Begins(c, "deal", "hubspot")
ZohoUpsert(c) == Begins(c, "search", "zoho")
ZohoDeal(c) == Begins(c, "deal", "zoho")
GetCatalogItem(c) == Begins(c, "spRead", "other")
ListOrders(c) == Begins(c, "spRead", "other")
GetAmazonOrder(c) == Begins(c, "spRead", "other")
GetFeedStatus(c) == Begins(c, "spRead", "other")
SubmitFeed(c) == Begins(c, "spFeed", "other")
GetWooOrder(c) == Begins(c, "wooRead", "other")
CreateWooOrder(c) == Begins(c, "wooOrder", "other")
UpdateInventory(c) == Begins(c, "wooStock", "other")
CallText(c) == Begins(c, "read", "other")
Embed(c) == Begins(c, "read", "other")
Checkout(c) == Begins(c, "checkout", "other")

-----------------------------------------------------------------------------
(* One request.                                                            *)

Running(c) == call[c].status = "running"
Request(c) == Plan[call[c].plan][call[c].step]
LastRequest(c) == call[c].step = Len(Plan[call[c].plan])

\* What request r of call c changes at the service.
Applied(c, r) ==
    /\ made' = [made EXCEPT ![c] = @ + IF r \in {"change", "contact", "rest"} THEN 1 ELSE 0]
    /\ restsOn' = [restsOn EXCEPT ![c] = @ \cup IF r = "rest" THEN {base[c]} ELSE {}]
    /\ known' = known \cup IF r = "contact" THEN {call[c].service} ELSE {}

NotApplied == UNCHANGED <<made, restsOn, known>>

Prepared(c) ==
    base' = [base EXCEPT ![c] = CASE Request(c) = "prepare" -> "begun"
                                  [] Request(c) = "complete" -> "complete"
                                  [] OTHER -> @]

\* The next request of the attempt.
Continues(c) ==
    /\ Running(c) /\ ~LastRequest(c)
    /\ Applied(c, Request(c)) /\ Prepared(c)
    /\ call' = [call EXCEPT ![c].step = @ + 1]
    /\ UNCHANGED <<orphan, knew>>

Answered(c) ==
    /\ Running(c) /\ LastRequest(c) /\ call[c].plan # "search"
    /\ Applied(c, Request(c))
    /\ call' = [call EXCEPT ![c].status = "answered"]
    /\ UNCHANGED <<orphan, base, knew>>

\* upsertContact goes on with what the search found, in a wrapper of its own.
Found(c) ==
    /\ Running(c) /\ call[c].plan = "search"
    /\ call' = [call EXCEPT ![c].plan = IF call[c].service \in known THEN "update" ELSE "create",
                            ![c].tries = 0]
    /\ UNCHANGED <<orphan, base, made, restsOn, known, knew>>

-----------------------------------------------------------------------------
(* Failures.                                                               *)

\* Mutant: the limit is compared before the attempt is counted.
RepeatsOnceMore(c) ==
    IF call[c].tries < Limit(call[c].plan)
    THEN [call[c] EXCEPT !.step = 1, !.tries = @ + 1]
    ELSE [call[c] EXCEPT !.status = "failed"]

\* The wrapper: the next attempt, or the end.
Repeats(c) ==
    IF call[c].tries + 1 < Limit(call[c].plan)
    THEN [call[c] EXCEPT !.step = 1, !.tries = @ + 1]
    ELSE [call[c] EXCEPT !.status = "failed"]

\* Mutant: a search that fails for good counts as one that found nobody.
FailsIntoCreate(c) ==
    /\ Running(c) /\ Request(c) # "note"
    /\ Applied(c, Request(c)) \/ NotApplied
    /\ call' = [call EXCEPT ![c] =
           IF call[c].plan = "search" /\ Repeats(c).status = "failed"
           THEN [@ EXCEPT !.plan = "create", !.tries = 0] ELSE Repeats(c)]
    /\ base' = [base EXCEPT ![c] = "none"]
    /\ UNCHANGED <<orphan, knew>>

\* An error or a timeout, before or after the service has done its part.
Fails(c) ==
    /\ Running(c) /\ Request(c) # "note"
    /\ Applied(c, Request(c)) \/ NotApplied
    /\ call' = [call EXCEPT ![c] = Repeats(c)]
    /\ base' = [base EXCEPT ![c] = "none"]
    /\ UNCHANGED <<orphan, knew>>

\* The payment record of a checkout is written if possible.
NoteFails(c) ==
    /\ Running(c) /\ Request(c) = "note"
    /\ call' = [call EXCEPT ![c].status = "answered"]
    /\ UNCHANGED <<orphan, base, made, restsOn, known, knew>>

\* A status of 4xx other than 429 ends a call of the Amazon client at once.
Refused(c) ==
    /\ Running(c) /\ call[c].plan \in SpPlans
    /\ call' = [call EXCEPT ![c].status = "failed"]
    /\ UNCHANGED <<orphan, base, made, restsOn, known, knew>>

\* The breaker stops waiting for the first attempt, which goes on by itself.
BreakerTimesOut(c) ==
    /\ Running(c) /\ call[c].plan \in WooPlans /\ call[c].tries = 0
    /\ orphan' = [orphan EXCEPT ![c] = call[c].step]
    /\ call' = [call EXCEPT ![c] = Repeats(c)]
    /\ UNCHANGED <<base, made, restsOn, known, knew>>

\* The abandoned attempt, also after its call has ended.
OrphanGoesOn(c) ==
    /\ orphan[c] # 0
    /\ Applied(c, Plan[call[c].plan][orphan[c]])
    /\ orphan' = [orphan EXCEPT ![c] = IF @ < Len(Plan[call[c].plan]) THEN @ + 1 ELSE 0]
    /\ UNCHANGED <<call, base, knew>>

OrphanFails(c) ==
    /\ orphan[c] # 0
    /\ orphan' = [orphan EXCEPT ![c] = 0]
    /\ UNCHANGED <<call, base, made, restsOn, known, knew>>

ProviderNext ==
    \E c \in Calls :
       \/ HubspotUpsert(c) \/ HubspotDeal(c) \/ ZohoUpsert(c) \/ ZohoDeal(c)
       \/ GetCatalogItem(c) \/ ListOrders(c) \/ GetAmazonOrder(c) \/ GetFeedStatus(c)
       \/ SubmitFeed(c) \/ GetWooOrder(c) \/ CreateWooOrder(c) \/ UpdateInventory(c)
       \/ CallText(c) \/ Embed(c) \/ Checkout(c)
       \/ Continues(c) \/ Answered(c) \/ Found(c)
       \/ Fails(c) \/ NoteFails(c) \/ Refused(c)
       \/ BreakerTimesOut(c) \/ OrphanGoesOn(c) \/ OrphanFails(c)

ProviderSpec == ProviderInit /\ [][ProviderNext]_callState

-----------------------------------------------------------------------------
\* Whatever is lost, late or repeated: an answered call has done its work, and
\* none has done it more often than it has attempts.
DoneWithinAttempts ==
    \A c \in Calls :
       /\ made[c] <= Limit(call[c].plan)
       /\ /\ call[c].status = "answered"
          /\ "read" # Plan[call[c].plan][Len(Plan[call[c].plan])]
          => made[c] > 0

\* What a call creates rests on something complete: a feed on a document whose
\* content is uploaded, a checkout session on an order that is stored.
NothingRestsOnAir == \A c \in Calls : restsOn[c] \subseteq {"complete"}

\* An upsert that begins when the customer has a contact creates no second one,
\* however its search goes.
LaterUpsertsUpdate ==
    \A c \in Calls : call[c].plan = "create" => call[c].service \notin knew[c]

RecordsAccounted == ProviderTypeOK /\ DoneWithinAttempts /\ NothingRestsOnAir /\ LaterUpsertsUpdate
=============================================================================
