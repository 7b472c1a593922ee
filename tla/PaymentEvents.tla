--------------------------- MODULE PaymentEvents ---------------------------
(***************************************************************************)
(* Payment webhooks: controllers/paymentWebhookController.js hands a       *)
(* provider's event to services/paymentService.js, which records it with   *)
(* PaymentRecord.recordEvent and then touches the order and the workflow.  *)
(* Providers deliver an event at least once and again until it is          *)
(* accepted.  recordEvent looks for a record and then creates or saves;    *)
(* mongoose writes the fields that differ from the loaded copy.            *)
(***************************************************************************)
EXTENDS Naturals, Sequences, FiniteSets

CONSTANTS Events,         \* what providers report, see Event below
          Keys,           \* (provider, providerEventId)
          Statuses, Amounts,
          Deliveries,     \* requests in progress at one time
          MaxFailures,    \* bound: calls of the database that fail
          MaxDuplicates   \* bound: events delivered although accepted

None == "none"

\* Several events of one payment can share the key, and not all know the amount.
Event == [key: Keys, status: Statuses, amount: Amounts \cup {None}]

ASSUME PaymentAssumption ==
    /\ Events \subseteq Event
    /\ MaxFailures \in Nat /\ MaxDuplicates \in Nat

VARIABLES stored,     \* the payment records, in order of creation
          paid,       \* paid[k]: payment status kept with the order of k
          task,       \* task[d]: what request d is doing
          parsed,     \* express.json() reads bodies before the route: it does in
                      \* server.js, not where the router is mounted alone
          failures,
          duplicates,
          accepted    \* events answered with 200

vars == <<stored, paid, task, parsed, failures, duplicates, accepted>>

Record == [key: Keys, status: Statuses, amount: Amounts \cup {None}, reconciled: BOOLEAN]
Pc == {"idle", "verify", "find", "create", "save", "order", "log", "reconcile"}
FreeTask == [pc |-> "idle"]

TypeOK ==
    /\ stored \in Seq(Record)
    /\ paid \in [Keys -> Statuses \cup {None}]
    /\ \A d \in Deliveries : task[d].pc \in Pc
    /\ parsed \in BOOLEAN
    /\ failures \in 0..MaxFailures /\ duplicates \in 0..MaxDuplicates
    /\ accepted \subseteq Events

Init ==
    /\ stored = <<>>
    /\ paid = [k \in Keys |-> None]
    /\ task = [d \in Deliveries |-> FreeTask]
    /\ parsed \in BOOLEAN
    /\ failures = 0 /\ duplicates = 0
    /\ accepted = {}

-----------------------------------------------------------------------------
Ids == 1..Len(stored)
Matching(k) == {i \in Ids : stored[i].key = k}

At(d, pc) == task[d].pc = pc
Goes(d, pc) == task' = [task EXCEPT ![d] = [pc |-> pc, event |-> @.event]]
Ends(d) == task' = [task EXCEPT ![d] = FreeTask]

\* The provider posts an event it has no 200 for, or one it has.
Deliver(d, e) ==
    /\ At(d, "idle")
    /\ \/ e \notin accepted /\ UNCHANGED duplicates
       \/ /\ e \in accepted /\ duplicates < MaxDuplicates
          /\ duplicates' = duplicates + 1
    /\ task' = [task EXCEPT ![d] = [pc |-> "verify", event |-> e]]
    /\ UNCHANGED <<parsed, stored, paid, failures, accepted>>

\* The signature is checked against the raw body.  If the body was parsed
\* before, the route gets an object instead and answers 400.
Verify(d) ==
    /\ At(d, "verify")
    /\ IF parsed THEN Ends(d) ELSE Goes(d, "find")
    /\ UNCHANGED <<parsed, stored, paid, failures, duplicates, accepted>>

\* recordEvent(): findOne returns any record with the key, as loaded.
Find(d) ==
    /\ At(d, "find")
    /\ LET e == task[d].event IN
       IF Matching(e.key) = {}
       THEN Goes(d, "create")
       ELSE \E i \in Matching(e.key) :
               task' = [task EXCEPT ![d] =
                          [pc |-> "save", event |-> e, id |-> i, loaded |-> stored[i]]]
    /\ UNCHANGED <<parsed, stored, paid, failures, duplicates, accepted>>

Created(e) ==
    Append(stored, [key |-> e.key, status |-> e.status, amount |-> e.amount,
                    reconciled |-> FALSE])

\* Mutant: the event's fields replace the record's, known or not.
UpdatedPlainly(t) ==
    [stored EXCEPT ![t.id].status = t.event.status, ![t.id].amount = t.event.amount]

\* A field the event does not have keeps its value, and a field that already
\* had the event's value when it was loaded is not written.
Updated(t) ==
    LET s == IF t.event.status = t.loaded.status THEN stored[t.id].status
             ELSE t.event.status
        a == IF t.event.amount \in {None, t.loaded.amount} THEN stored[t.id].amount
             ELSE t.event.amount
    IN [stored EXCEPT ![t.id] =
          [key |-> @.key, status |-> s, amount |-> a, reconciled |-> @.reconciled]]

Create(d) ==
    /\ At(d, "create")
    /\ stored' = Created(task[d].event)
    /\ Goes(d, "order")
    /\ UNCHANGED <<parsed, paid, failures, duplicates, accepted>>

Save(d) ==
    /\ At(d, "save")
    /\ stored' = Updated(task[d])
    /\ Goes(d, "order")
    /\ UNCHANGED <<parsed, paid, failures, duplicates, accepted>>

\* Mutant: an event that could not be recorded is acknowledged.
RecordFailsQuietly(d) ==
    /\ task[d].pc \in {"find", "create", "save"}
    /\ failures < MaxFailures
    /\ failures' = failures + 1
    /\ Goes(d, "order")
    /\ UNCHANGED <<parsed, stored, paid, duplicates, accepted>>

\* A failure while recording is answered 400; a write may have been applied.
RecordFails(d) ==
    /\ task[d].pc \in {"find", "create", "save"}
    /\ failures < MaxFailures
    /\ failures' = failures + 1
    /\ \/ UNCHANGED stored
       \/ At(d, "create") /\ stored' = Created(task[d].event)
       \/ At(d, "save") /\ stored' = Updated(task[d])
    /\ Ends(d)
    /\ UNCHANGED <<parsed, paid, duplicates, accepted>>

\* The fields of OrderRecord's schema; mongoose stores no others.
OrderFields == {"wooOrderId", "customerPhone", "status", "total", "currency", "items", "raw"}

\* The order is looked up by orderId and given a payment; errors are ignored.
ReconcileOrder(d) ==
    /\ At(d, "order")
    /\ LET e == task[d].event IN
       paid' = IF {"orderId", "payment"} \subseteq OrderFields
               THEN [paid EXCEPT ![e.key] = e.status] ELSE paid
    /\ Goes(d, "log")
    /\ UNCHANGED <<parsed, stored, failures, duplicates, accepted>>

\* The workflow's log is best effort; the event is then answered with 200.
LogAndAccept(d) ==
    /\ At(d, "log")
    /\ accepted' = accepted \cup {task[d].event}
    /\ Ends(d)
    /\ UNCHANGED <<parsed, stored, paid, failures, duplicates>>

\* A record whose fields are set is left out: setting them again changes nothing.
FindForReconcile(d, k) ==
    /\ At(d, "idle")
    /\ \E i \in Matching(k) :
          /\ ~stored[i].reconciled
          /\ task' = [task EXCEPT ![d] = [pc |-> "reconcile", id |-> i]]
    /\ UNCHANGED <<parsed, stored, paid, failures, duplicates, accepted>>

\* The two fields that markReconciled() sets; it looks the record up before.
Reconciled(n) ==
    [stored EXCEPT ![n] = [key |-> @.key, status |-> @.status, amount |-> @.amount,
                           reconciled |-> TRUE]]

\* The save of the reconciled record, which may fail.
SaveReconciled(d) ==
    /\ At(d, "reconcile")
    /\ stored' = Reconciled(task[d].id) \/ UNCHANGED stored
    /\ Ends(d)
    /\ UNCHANGED <<parsed, paid, failures, duplicates, accepted>>

Working(d) ==
    \/ Verify(d) \/ Find(d) \/ Create(d) \/ Save(d) \/ RecordFails(d)
    \/ ReconcileOrder(d) \/ LogAndAccept(d) \/ SaveReconciled(d)

Next ==
    \E d \in Deliveries :
       \/ Working(d)
       \/ \E e \in Events : Deliver(d, e)
       \/ \E k \in Keys : FindForReconcile(d, k)

Spec == Init /\ [][Next]_vars

\* The provider keeps sending what is not accepted, and every await ends.
FairSpec ==
    /\ Spec
    /\ \A d \in Deliveries : WF_vars(Working(d))
    /\ \A e \in Events : SF_vars(e \notin accepted /\ \E d \in Deliveries : Deliver(d, e))

-----------------------------------------------------------------------------
\* Whatever is delivered twice, late or out of order: an amount that is known
\* is not forgotten, and a reconciled record stays reconciled.
KnownStaysKnown ==
    [][\A i \in Ids : /\ stored'[i].amount = None => stored[i].amount = None
                      /\ stored[i].reconciled => stored'[i].reconciled]_vars

\* An event answered with 200 is on record.
AcceptedIsRecorded == \A e \in accepted : Matching(e.key) # {}

\* Unless the body is parsed before the route, every event that its provider
\* keeps sending is recorded in the end, through failures and overlaps.
EventsGetRecorded == \A e \in Events : <>(parsed \/ Matching(e.key) # {})
=============================================================================
