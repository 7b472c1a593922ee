-------------------------- MODULE Providers_proofs ---------------------------
(***************************************************************************)
(* Proofs about what is exchanged with services outside, for any events,   *)
(* calls, requests and limits, and about the text made ready for them, for *)
(* any texts, documents and options.                                       *)
(*   Payment events: a step never removes a record, changes its key,       *)
(* forgets its amount or takes its reconciliation back (Kept); from this   *)
(* and from what a request that is past the recording knows, acceptance    *)
(* follows.                                                                *)
(*   Calls of external services: each attempt of a call makes one thing at *)
(* most, the failed ones, the abandoned one when it gets there, and the    *)
(* present one once it is past the request that counts.                    *)
(*   Contexts: an excerpt that is not the whole document took all the      *)
(* budget that was left, and is the last one (SourcesOK).                  *)
(*   Chunks: buffer and chunks are stretches of neighbouring positions,    *)
(* the buffer ends just before the blank that the next sentence follows    *)
(* (BufferOK), and what is before it is in a chunk or in the buffer        *)
(* (Reached).                                                              *)
(*   Streams: a cut between two characters does not show in the decoded    *)
(* text (DecodedJoined), and what a chunk adds to the lines of a text      *)
(* depends only on what follows its last newline (LinesJoined).            *)
(***************************************************************************)
EXTENDS PaymentEvents, ProviderCalls, RagContext, Chunker, ModelStream,
        SequenceTheorems, WellFoundedInduction, TLAPS

-----------------------------------------------------------------------------
(* Payment events                                                          *)

\* What a request holds, by where it is.
Waiting == [pc : {"verify", "find", "create", "order", "log"}, event : Events]
Saving == [pc : {"save"}, event : Events, id : Ids, loaded : Record]
Reconciling == [pc : {"reconcile"}, id : Ids]

TasksOK == task \in [Deliveries -> {FreeTask} \cup Waiting \cup Saving \cup Reconciling]

\* Past the recording there is a record; a save is of a record with the key.
Recorded ==
    \A d \in Deliveries :
       /\ task[d].pc \in {"order", "log"} => Matching(task[d].event.key) # {}
       /\ task[d].pc = "save" => stored[task[d].id].key = task[d].event.key

Inv == TypeOK /\ TasksOK /\ Recorded /\ AcceptedIsRecorded

\* What a step leaves of the records there are.
Kept ==
    /\ stored' \in Seq(Record)
    /\ Len(stored) <= Len(stored')
    /\ \A i \in Ids : /\ stored'[i].key = stored[i].key
                      /\ stored'[i].amount = None => stored[i].amount = None
                      /\ stored[i].reconciled => stored'[i].reconciled

\* Creating a record keeps the others, and there is one with the event's key.
LEMMA CreatingKeeps ==
    ASSUME stored \in Seq(Record), NEW e \in Events, stored' = Created(e)
    PROVE  Kept /\ Matching(e.key)' # {}
<1>1. /\ e \in Event
      /\ [key |-> e.key, status |-> e.status, amount |-> e.amount, reconciled |-> FALSE] \in Record
  BY PaymentAssumption DEF Event, Record
<1>2. /\ Len(stored') = Len(stored) + 1 /\ Len(stored) \in Nat
      /\ stored'[Len(stored) + 1].key = e.key
      /\ \A i \in Ids : stored'[i] = stored[i]
  BY <1>1 DEF Created, Ids
<1>3. Kept
  BY <1>1, <1>2 DEF Created, Kept, Ids
<1>4. Len(stored) + 1 \in Matching(e.key)'
  BY <1>2 DEF Matching, Ids
<1> QED BY <1>3, <1>4

\* Saving what an event tells neither changes a key nor forgets an amount.
LEMMA SavingKeeps ==
    ASSUME stored \in Seq(Record), NEW t \in Saving, stored' = Updated(t)
    PROVE  Kept
<1>1. t.id \in Ids /\ t.event \in Event
  BY PaymentAssumption DEF Saving
<1>2. stored[t.id] \in Record
  BY <1>1 DEF Ids
<1> DEFINE s == IF t.event.status = t.loaded.status THEN stored[t.id].status ELSE t.event.status
           a == IF t.event.amount \in {None, t.loaded.amount} THEN stored[t.id].amount
                ELSE t.event.amount
           r == [key |-> stored[t.id].key, status |-> s, amount |-> a,
                 reconciled |-> stored[t.id].reconciled]
<1>3. s \in Statuses /\ a \in Amounts \cup {None}
  BY <1>1, <1>2 DEF Event, Record
<1>4. r \in Record
  BY <1>2, <1>3 DEF Record
<1>5. a = None => stored[t.id].amount = None
  OBVIOUS
<1>6. stored' = [stored EXCEPT ![t.id] = r]
  BY <1>1 DEF Updated, Ids
<1> HIDE DEF r
<1>7. Len(stored') = Len(stored) /\ stored' \in Seq(Record) /\ Len(stored) \in Nat
  BY <1>1, <1>4, <1>6 DEF Ids
<1>8. \A i \in Ids : stored'[i] = IF i = t.id THEN r ELSE stored[i]
  BY <1>1, <1>6 DEF Ids
<1> QED BY <1>5, <1>7, <1>8 DEF Kept, r

\* Marking a record as reconciled changes nothing else.
LEMMA ReconcilingKeeps ==
    ASSUME stored \in Seq(Record), NEW n \in Ids
    PROVE  stored' = Reconciled(n) => Kept
<1> DEFINE r == [key |-> stored[n].key, status |-> stored[n].status,
                 amount |-> stored[n].amount, reconciled |-> TRUE]
<1>1. stored[n] \in Record
  BY DEF Ids
<1>2. r \in Record
  BY <1>1 DEF Record
<1>3. Reconciled(n) = [stored EXCEPT ![n] = r]
  BY DEF Reconciled, Ids
<1> SUFFICES ASSUME stored' = [stored EXCEPT ![n] = r] PROVE Kept
  BY <1>3
<1> HIDE DEF r
<1>4. Len(stored') = Len(stored) /\ stored' \in Seq(Record) /\ Len(stored) \in Nat
  BY <1>2 DEF Ids
<1>5. \A i \in Ids : stored'[i] = IF i = n THEN r ELSE stored[i]
  BY DEF Ids
<1> QED BY <1>4, <1>5 DEF Kept, r

\* If every record is kept, so is what is known of the keys on record.
LEMMA KeptKeeps ==
    ASSUME stored \in Seq(Record), Kept
    PROVE  /\ \A k : Matching(k) # {} => Matching(k)' # {}
           /\ Ids \subseteq Ids'
           /\ Waiting = Waiting' /\ Saving \subseteq Saving' /\ Reconciling \subseteq Reconciling'
<1>1. Ids \subseteq Ids'
  BY DEF Kept, Ids
<1>2. \A k : Matching(k) \subseteq Matching(k)'
  BY <1>1 DEF Kept, Matching
<1> QED BY <1>1, <1>2 DEF Waiting, Saving, Reconciling

LEMMA InvInit == Init => Inv
BY PaymentAssumption
   DEF Init, Inv, TypeOK, TasksOK, Recorded, AcceptedIsRecorded, FreeTask, Pc, Record

\* TasksOK tells the place of each request among the places there are.
LEMMA Places ==
    ASSUME TasksOK
    PROVE  \A d \in Deliveries : task[d].pc \in Pc
BY DEF TasksOK, FreeTask, Waiting, Saving, Reconciling, Pc

\* A step that gives one request another task, keeps every record and accepts
\* only what is on record, keeps the invariant: what the request now holds must
\* have its type, and if it is past the recording there must be a record.
LEMMA OneTaskMoves ==
    ASSUME Inv, Kept, NEW d \in Deliveries,
           NEW t \in {FreeTask} \cup Waiting \cup Saving' \cup Reconciling',
           t.pc \in {"order", "log"} => Matching(t.event.key)' # {},
           t.pc = "save" => stored'[t.id].key = t.event.key,
           task' = [task EXCEPT ![d] = t],
           paid' \in [Keys -> Statuses \cup {None}], parsed' \in BOOLEAN,
           failures' \in 0..MaxFailures, duplicates' \in 0..MaxDuplicates,
           accepted' \subseteq Events,
           \A e \in accepted' : Matching(e.key)' # {}
    PROVE  Inv'
<1>1. /\ \A k : Matching(k) # {} => Matching(k)' # {}
      /\ Waiting = Waiting' /\ Saving \subseteq Saving' /\ Reconciling \subseteq Reconciling'
  BY KeptKeeps DEF Inv, TypeOK
<1>2. TasksOK'
  BY <1>1 DEF Inv, TasksOK
<1>3. Recorded'
  <2> SUFFICES ASSUME NEW c \in Deliveries, NEW u, u = task'[c]
               PROVE  /\ u.pc \in {"order", "log"} => Matching(u.event.key)' # {}
                      /\ u.pc = "save" => stored'[u.id].key = u.event.key
    BY DEF Recorded, Matching, Ids
  <2>1. CASE c = d
    <3>1. u = t
      BY <2>1 DEF Inv, TasksOK
    <3> QED BY <3>1
  <2>2. CASE c # d
    <3>1. u = task[c]
      BY <2>2 DEF Inv, TasksOK
    <3>2. u.pc = "save" => u.id \in Ids
      BY <3>1 DEF Inv, TasksOK, FreeTask, Waiting, Saving, Reconciling
    <3>3. u.pc = "save" => stored'[u.id].key = u.event.key
      BY <3>1, <3>2 DEF Inv, Recorded, Kept
    <3>4. u.pc \in {"order", "log"} => Matching(u.event.key) # {}
      BY <3>1 DEF Inv, Recorded
    <3> QED BY <1>1, <3>3, <3>4
  <2> QED BY <2>1, <2>2
<1>4. TypeOK'
  <2>1. \A c \in Deliveries : task'[c].pc \in Pc
    BY <1>2 DEF TasksOK, FreeTask, Waiting, Saving, Reconciling, Pc
  <2> QED BY <2>1 DEF TypeOK, Kept
<1> QED BY <1>2, <1>3, <1>4 DEF Inv, AcceptedIsRecorded

\* Every step keeps the records and the invariant.
LEMMA InvStep ==
    ASSUME Inv, [Next]_vars
    PROVE  Kept /\ Inv'
<1> USE DEF Inv
<1>a. stored \in Seq(Record) /\ TasksOK
  BY DEF TypeOK
<1>b. stored' = stored => Kept /\ \A k : Matching(k)' = Matching(k)
  BY <1>a DEF Kept, Matching, Ids
<1>c. \A d \in Deliveries :
        /\ task[d].pc \in {"verify", "find", "create", "order", "log"} => task[d] \in Waiting
        /\ task[d].pc = "save" => task[d] \in Saving
        /\ task[d].pc = "reconcile" => task[d] \in Reconciling
        /\ task[d].pc \notin {"idle", "reconcile"} => task[d].event \in Events
  BY <1>a DEF TasksOK, FreeTask, Waiting, Saving, Reconciling
<1>d. Kept => \A k : Matching(k) # {} => Matching(k)' # {}
  BY <1>a, KeptKeeps
<1>1. ASSUME NEW d \in Deliveries, NEW e \in Events, Deliver(d, e) PROVE Kept /\ Inv'
  <2> DEFINE t == [pc |-> "verify", event |-> e]
  <2>1. t \in Waiting
    BY DEF Waiting
  <2>2. /\ task' = [task EXCEPT ![d] = t] /\ stored' = stored /\ accepted' = accepted
        /\ paid' = paid /\ parsed' = parsed /\ failures' = failures
        /\ duplicates' \in 0..MaxDuplicates
    BY <1>1, PaymentAssumption DEF Deliver, TypeOK
  <2> QED BY <2>1, <2>2, <1>b, OneTaskMoves DEF TypeOK, AcceptedIsRecorded
<1>2. ASSUME NEW d \in Deliveries, Ends(d), Kept,
             paid' = paid, parsed' = parsed, failures' \in 0..MaxFailures,
             duplicates' = duplicates, accepted' \subseteq Events,
             \A e \in accepted' : Matching(e.key)' # {}
      PROVE  Inv'
  BY <1>2, OneTaskMoves DEF Ends, FreeTask, TypeOK
<1>3. ASSUME NEW d \in Deliveries, NEW pc, NEW e \in Events, e = task[d].event,
             Goes(d, pc), Kept,
             pc \in {"find", "create"} \/ Matching(e.key)' # {},
             pc \in {"find", "create", "order", "log"},
             paid' \in [Keys -> Statuses \cup {None}], parsed' = parsed,
             failures' = failures, duplicates' = duplicates, accepted' = accepted
      PROVE  Inv'
  <2> DEFINE t == [pc |-> pc, event |-> e]
  <2>1. t \in Waiting /\ task' = [task EXCEPT ![d] = t]
    BY <1>3 DEF Waiting, Goes, TasksOK
  <2>2. \A a \in accepted' : Matching(a.key)' # {}
    BY <1>3, <1>d DEF AcceptedIsRecorded
  <2>3. t.pc \in {"order", "log"} => Matching(t.event.key)' # {}
    BY <1>3
  <2>4. t.pc # "save"
    BY <1>3
  <2> HIDE DEF t
  <2> QED BY <1>3, <2>1, <2>2, <2>3, <2>4, OneTaskMoves DEF TypeOK
<1>4. ASSUME NEW d \in Deliveries, Verify(d) PROVE Kept /\ Inv'
  <2>1. PICK e \in Events : e = task[d].event
    BY <1>4, <1>c DEF Verify, At
  <2> QED
    BY <1>4, <2>1, <1>2, <1>3, <1>b DEF Verify, TypeOK, AcceptedIsRecorded
<1>5. ASSUME NEW d \in Deliveries, Find(d) PROVE Kept /\ Inv'
  <2>1. PICK e \in Events : e = task[d].event
    BY <1>5, <1>c DEF Find, At
  <2>2. CASE Goes(d, "create")
    BY <1>5, <2>1, <2>2, <1>3, <1>b DEF Find, TypeOK
  <2>3. ASSUME NEW i \in Matching(e.key),
               task' = [task EXCEPT ![d] = [pc |-> "save", event |-> e,
                                            id |-> i, loaded |-> stored[i]]]
        PROVE  Kept /\ Inv'
    <3>1. i \in Ids /\ stored[i].key = e.key
      BY DEF Matching
    <3>2. PICK r \in Record : r = stored[i]
      BY <3>1, <1>a DEF Ids
    <3> DEFINE t == [pc |-> "save", event |-> e, id |-> i, loaded |-> r]
    <3>3. stored' = stored /\ UNCHANGED <<paid, parsed, failures, duplicates, accepted>>
      BY <1>5 DEF Find
    <3>4. t \in Saving' /\ stored'[t.id].key = t.event.key
      BY <3>1, <3>3 DEF Saving, Ids
    <3>5. t.pc \notin {"order", "log"} /\ task' = [task EXCEPT ![d] = t]
      BY <2>3, <3>2
    <3> HIDE DEF t
    <3> QED BY <3>3, <3>4, <3>5, <1>b, OneTaskMoves DEF TypeOK, AcceptedIsRecorded
  <2> QED BY <1>5, <2>1, <2>2, <2>3 DEF Find
<1>6. ASSUME NEW d \in Deliveries, Create(d) PROVE Kept /\ Inv'
  <2>1. PICK e \in Events : e = task[d].event
    BY <1>6, <1>c DEF Create, At
  <2>2. Kept /\ Matching(e.key)' # {}
    BY <1>6, <2>1, <1>a, CreatingKeeps DEF Create
  <2> QED BY <1>6, <2>1, <2>2, <1>3 DEF Create, TypeOK
<1>7. ASSUME NEW d \in Deliveries, At(d, "save"), stored' = Updated(task[d])
      PROVE  Kept /\ Matching(task[d].event.key) # {}
  <2>1. task[d] \in Saving
    BY <1>7, <1>c DEF At
  <2>2. PICK t \in Saving : t = task[d]
    BY <2>1
  <2>3. Kept
    BY <1>7, <2>2, <1>a, SavingKeeps
  <2>4. task[d].id \in Matching(task[d].event.key)
    BY <1>7, <2>1 DEF At, Saving, Recorded, Matching
  <2> QED BY <2>3, <2>4
<1>8. ASSUME NEW d \in Deliveries, Save(d) PROVE Kept /\ Inv'
  <2>1. PICK e \in Events : e = task[d].event
    BY <1>8, <1>c DEF Save, At
  <2>2. Kept /\ Matching(e.key)' # {}
    BY <1>8, <1>7, <2>1, <1>d DEF Save
  <2> QED BY <1>8, <2>1, <2>2, <1>3 DEF Save, TypeOK
<1>9. ASSUME NEW d \in Deliveries, RecordFails(d) PROVE Kept /\ Inv'
  <2>1. PICK e \in Events : e = task[d].event
    BY <1>9, <1>c DEF RecordFails
  <2>2. Kept
    <3>1. CASE stored' = Created(e)
      BY <3>1, <1>a, CreatingKeeps
    <3>2. CASE At(d, "save") /\ stored' = Updated(task[d])
      BY <3>2, <1>7
    <3> QED BY <1>9, <2>1, <3>1, <3>2, <1>b DEF RecordFails
  <2>3. failures' \in 0..MaxFailures
    BY <1>9, PaymentAssumption DEF RecordFails, TypeOK
  <2> QED BY <1>9, <2>2, <2>3, <1>2, <1>d DEF RecordFails, TypeOK, AcceptedIsRecorded
<1>10. ASSUME NEW d \in Deliveries, ReconcileOrder(d) PROVE Kept /\ Inv'
  <2>1. PICK e \in Events : e = task[d].event
    BY <1>10, <1>c DEF ReconcileOrder, At
  <2>2. paid' \in [Keys -> Statuses \cup {None}]
    BY <1>10, <2>1, PaymentAssumption DEF ReconcileOrder, TypeOK, Event
  <2>3. Matching(e.key) # {}
    BY <1>10, <2>1 DEF ReconcileOrder, At, Recorded
  <2>4. Kept /\ Matching(e.key)' # {}
    BY <1>10, <2>3, <1>b DEF ReconcileOrder
  <2> QED BY <1>10, <2>1, <2>2, <2>4, <1>3 DEF ReconcileOrder
<1>11. ASSUME NEW d \in Deliveries, LogAndAccept(d) PROVE Kept /\ Inv'
  <2>1. task[d].event \in Events /\ Matching(task[d].event.key) # {}
    BY <1>11, <1>c DEF LogAndAccept, At, Recorded
  <2>2. Kept /\ \A k : Matching(k)' = Matching(k)
    BY <1>11, <1>b DEF LogAndAccept
  <2>3. accepted' \subseteq Events /\ \A e \in accepted' : Matching(e.key)' # {}
    BY <1>11, <2>1, <2>2 DEF LogAndAccept, TypeOK, AcceptedIsRecorded
  <2> QED BY <1>11, <2>2, <2>3, <1>2 DEF LogAndAccept, TypeOK
<1>12. ASSUME NEW d \in Deliveries, NEW k \in Keys, FindForReconcile(d, k) PROVE Kept /\ Inv'
  <2>1. PICK i \in Ids : task' = [task EXCEPT ![d] = [pc |-> "reconcile", id |-> i]]
    BY <1>12 DEF FindForReconcile, Matching
  <2>2. stored' = stored /\ UNCHANGED <<paid, parsed, failures, duplicates, accepted>>
    BY <1>12 DEF FindForReconcile
  <2>3. [pc |-> "reconcile", id |-> i] \in Reconciling'
    BY <2>2 DEF Reconciling, Ids
  <2> QED BY <2>1, <2>2, <2>3, <1>b, OneTaskMoves DEF TypeOK, AcceptedIsRecorded
<1>13. ASSUME NEW d \in Deliveries, SaveReconciled(d) PROVE Kept /\ Inv'
  <2>1. task[d].id \in Ids
    BY <1>13, <1>c DEF SaveReconciled, At, Reconciling
  <2>2. Kept
    BY <1>13, <2>1, <1>a, <1>b, ReconcilingKeeps DEF SaveReconciled
  <2> QED BY <1>13, <2>2, <1>2, <1>d DEF SaveReconciled, TypeOK, AcceptedIsRecorded
<1>14. CASE UNCHANGED vars
  <2>1. Kept /\ \A k : Matching(k)' = Matching(k)
    BY <1>14, <1>b DEF vars
  <2>2. Waiting' = Waiting /\ Saving' = Saving /\ Reconciling' = Reconciling
    BY <1>14 DEF vars, Waiting, Saving, Reconciling, Ids
  <2> QED BY <1>14, <2>1, <2>2 DEF vars, TypeOK, TasksOK, Recorded, AcceptedIsRecorded
<1> QED
  BY <1>1, <1>4, <1>5, <1>6, <1>8, <1>9, <1>10, <1>11, <1>12, <1>13, <1>14
  DEF Next, Working

\* The records, the requests and the counts have their types in every state of
\* the recording of events, however many requests overlap or fail.
THEOREM TypesHold == Spec => []TypeOK
<1>1. Inv /\ [Next]_vars => Inv'
  BY InvStep
<1>2. Inv => TypeOK
  BY DEF Inv
<1> QED BY InvInit, <1>1, <1>2, PTL DEF Spec

\* An event that was answered with 200 is on record: whatever fails between the
\* lookup and the answer, no provider is told to stop sending an event it lost.
THEOREM NothingAcceptedIsLost == Spec => []AcceptedIsRecorded
<1>1. Inv /\ [Next]_vars => Inv'
  BY InvStep
<1>2. Inv => AcceptedIsRecorded
  BY DEF Inv
<1> QED BY InvInit, <1>1, <1>2, PTL DEF Spec

\* No step forgets an amount that is known or takes a reconciliation back,
\* although recordEvent() and markReconciled() write from stale copies.
THEOREM NothingKnownIsForgotten == Spec => KnownStaysKnown
<1>1. Inv /\ [Next]_vars => Inv'
  BY InvStep
<1>2. Inv /\ [Next]_vars =>
        [\A i \in Ids : /\ stored'[i].amount = None => stored[i].amount = None
                        /\ stored[i].reconciled => stored'[i].reconciled]_vars
  BY InvStep DEF Kept
<1> QED BY InvInit, <1>1, <1>2, PTL DEF Spec, KnownStaysKnown

-----------------------------------------------------------------------------
(* Calls of external services                                              *)

\* The request of a plan that changes or creates something, or 0.
Due(p) == CASE p \in {"update", "create", "deal", "wooOrder"} -> 1
            [] p \in {"wooStock", "checkout"} -> 2
            [] p = "spFeed" -> 4
            [] OTHER -> 0

Counts(r) == r \in {"change", "contact", "rest"}

\* At these requests what the attempt has prepared is complete.
Ready(p, i) == (p = "spFeed" /\ i = 4) \/ (p = "checkout" /\ i > 1)

One(condition) == IF condition THEN 1 ELSE 0

\* A call k, its abandoned attempt at o, what it has prepared b, the number m of things
\* it made and rs, what they rest on.  Each attempt makes one thing at most: the failed
\* ones, the abandoned one when it gets there, and the present one once it is past it.
CallOK(k, o, b, m, rs) ==
    /\ k \in Call /\ k.step =< Len(Plan[k.plan]) /\ k.tries < Limit(k.plan)
    /\ k.plan \in {"search", "create"} => k.service \in Crms
    /\ o \in 0..2 /\ o =< Len(Plan[k.plan])
    /\ o # 0 => k.plan \in WooPlans /\ k.tries > 0
    /\ b \in {"none", "begun", "complete"}
    /\ k.status = "running" /\ Ready(k.plan, k.step) => b = "complete"
    /\ rs \subseteq {"complete"}
    /\ m \in Nat
    /\ k.status = "idle" => o = 0 /\ m = 0
    /\ Due(k.plan) = 0 => m = 0
    /\ m + One(o # 0 /\ Due(k.plan) # 0)
          =< k.tries + One(k.status # "running" \/ Due(k.plan) \in 1..(k.step - 1))
    /\ k.status = "running" /\ Due(k.plan) \in 1..(k.step - 1) => m > 0
    /\ k.status = "answered" =>
          /\ k.plan # "search"
          /\ "read" # Plan[k.plan][Len(Plan[k.plan])] => m > 0

ProviderInv ==
    /\ call \in [Calls -> Call] /\ orphan \in [Calls -> 0..2]
    /\ base \in [Calls -> {"none", "begun", "complete"}]
    /\ made \in [Calls -> Nat] /\ restsOn \in [Calls -> SUBSET {"complete"}]
    /\ known \subseteq Crms /\ knew \in [Calls -> SUBSET Crms]
    /\ \A c \in Calls : /\ CallOK(call[c], orphan[c], base[c], made[c], restsOn[c])
                        /\ knew[c] \subseteq known
    /\ LaterUpsertsUpdate

\* Read off the plans: which request counts, what a plan needs before a request, and
\* that a plan whose last request does not only read does something.
PlanOK(p, q, limit) ==
    /\ Len(q) \in Nat /\ 1 =< Len(q) /\ Len(q) =< 4 /\ Due(p) \in 0..Len(q) /\ ~Ready(p, 1)
    /\ p \in WooPlans => Len(q) =< 2 /\ Due(p) \in {0, Len(q)}
    /\ p = "search" => Len(q) = 1 /\ Due(p) = 0
    /\ limit \in Nat /\ 0 < limit /\ limit =< Most /\ (p \in WooPlans => limit > 1)
    /\ p # "search" /\ q[Len(q)] # "read" => Due(p) > 0

RequestsOK(p, q) ==
    \A i \in 1..Len(q) :
          /\ Counts(q[i]) <=> i = Due(p)
          /\ q[i] = "rest" => Ready(p, i)
          /\ q[i] = "contact" => p = "create"
          /\ q[i] = "note" => p # "search" /\ Due(p) \in 1..(i - 1)
          /\ Ready(p, i) => q[i] \notin {"prepare", "complete"}
          /\ Ready(p, i + 1) => Ready(p, i) \/ q[i] = "complete"

LEMMA PlansOK == \A p \in DOMAIN Plan : PlanOK(p, Plan[p], Limit(p)) /\ RequestsOK(p, Plan[p])
  <1>1. DOMAIN Plan = {"read", "search", "update", "create", "deal", "wooRead",
                      "wooOrder", "wooStock", "spRead", "spFeed", "checkout"}
    BY DEF Plan
  <1>2. PlanOK("read", Plan["read"], Limit("read")) /\ RequestsOK("read", Plan["read"])
    <2>1. Plan["read"] = <<"read">>
      BY DEF Plan
    <2>2. Due("read") = 0 /\ Limit("read") = Attempts
      BY DEF Due, Limit, SpPlans, WooPlans
    <2> QED BY <2>1, <2>2, AttemptsAssumption DEF PlanOK, RequestsOK, Ready, WooPlans, Counts, Most
  <1>3. PlanOK("search", Plan["search"], Limit("search")) /\ RequestsOK("search", Plan["search"])
    <2>1. Plan["search"] = <<"search">>
      BY DEF Plan
    <2>2. Due("search") = 0 /\ Limit("search") = Attempts
      BY DEF Due, Limit, SpPlans, WooPlans
    <2> QED BY <2>1, <2>2, AttemptsAssumption DEF PlanOK, RequestsOK, Ready, WooPlans, Counts, Most
  <1>4. PlanOK("update", Plan["update"], Limit("update")) /\ RequestsOK("update", Plan["update"])
    <2>1. Plan["update"] = <<"change">>
      BY DEF Plan
    <2>2. Due("update") = 1 /\ Limit("update") = Attempts
      BY DEF Due, Limit, SpPlans, WooPlans
    <2> QED BY <2>1, <2>2, AttemptsAssumption DEF PlanOK, RequestsOK, Ready, WooPlans, Counts, Most
  <1>5. PlanOK("create", Plan["create"], Limit("create")) /\ RequestsOK("create", Plan["create"])
    <2>1. Plan["create"] = <<"contact">>
      BY DEF Plan
    <2>2. Due("create") = 1 /\ Limit("create") = Attempts
      BY DEF Due, Limit, SpPlans, WooPlans
    <2> QED BY <2>1, <2>2, AttemptsAssumption DEF PlanOK, RequestsOK, Ready, WooPlans, Counts, Most
  <1>6. PlanOK("deal", Plan["deal"], Limit("deal")) /\ RequestsOK("deal", Plan["deal"])
    <2>1. Plan["deal"] = <<"change">>
      BY DEF Plan
    <2>2. Due("deal") = 1 /\ Limit("deal") = Attempts
      BY DEF Due, Limit, SpPlans, WooPlans
    <2> QED BY <2>1, <2>2, AttemptsAssumption DEF PlanOK, RequestsOK, Ready, WooPlans, Counts, Most
  <1>7. PlanOK("wooRead", Plan["wooRead"], Limit("wooRead")) /\ RequestsOK("wooRead", Plan["wooRead"])
    <2>1. Plan["wooRead"] = <<"read">>
      BY DEF Plan
    <2>2. Due("wooRead") = 0 /\ Limit("wooRead") = Attempts + 1
      BY DEF Due, Limit, SpPlans, WooPlans
    <2> QED BY <2>1, <2>2, AttemptsAssumption DEF PlanOK, RequestsOK, Ready, WooPlans, Counts, Most
  <1>8. PlanOK("wooOrder", Plan["wooOrder"], Limit("wooOrder")) /\ RequestsOK("wooOrder", Plan["wooOrder"])
    <2>1. Plan["wooOrder"] = <<"change">>
      BY DEF Plan
    <2>2. Due("wooOrder") = 1 /\ Limit("wooOrder") = Attempts + 1
      BY DEF Due, Limit, SpPlans, WooPlans
    <2> QED BY <2>1, <2>2, AttemptsAssumption DEF PlanOK, RequestsOK, Ready, WooPlans, Counts, Most
  <1>9. PlanOK("wooStock", Plan["wooStock"], Limit("wooStock")) /\ RequestsOK("wooStock", Plan["wooStock"])
    <2>1. Plan["wooStock"] = <<"read", "change">>
      BY DEF Plan
    <2>2. Due("wooStock") = 2 /\ Limit("wooStock") = Attempts + 1
      BY DEF Due, Limit, SpPlans, WooPlans
    <2> QED BY <2>1, <2>2, AttemptsAssumption DEF PlanOK, RequestsOK, Ready, WooPlans, Counts, Most
  <1>10. PlanOK("spRead", Plan["spRead"], Limit("spRead")) /\ RequestsOK("spRead", Plan["spRead"])
    <2>1. Plan["spRead"] = <<"read", "read">>
      BY DEF Plan
    <2>2. Due("spRead") = 0 /\ Limit("spRead") = SpRetries
      BY DEF Due, Limit, SpPlans, WooPlans
    <2> QED BY <2>1, <2>2, AttemptsAssumption DEF PlanOK, RequestsOK, Ready, WooPlans, Counts, Most
  <1>11. PlanOK("spFeed", Plan["spFeed"], Limit("spFeed")) /\ RequestsOK("spFeed", Plan["spFeed"])
    <2>1. Plan["spFeed"] = <<"read", "prepare", "complete", "rest">>
      BY DEF Plan
    <2>2. Due("spFeed") = 4 /\ Limit("spFeed") = SpRetries
      BY DEF Due, Limit, SpPlans, WooPlans
    <2> QED BY <2>1, <2>2, AttemptsAssumption DEF PlanOK, RequestsOK, Ready, WooPlans, Counts, Most
  <1>12. PlanOK("checkout", Plan["checkout"], Limit("checkout")) /\ RequestsOK("checkout", Plan["checkout"])
    <2>1. Plan["checkout"] = <<"complete", "rest", "note">>
      BY DEF Plan
    <2>2. Due("checkout") = 2 /\ Limit("checkout") = 1
      BY DEF Due, Limit, SpPlans, WooPlans
    <2> QED BY <2>1, <2>2, AttemptsAssumption DEF PlanOK, RequestsOK, Ready, WooPlans, Counts, Most
  <1> QED BY <1>1, <1>2, <1>3, <1>4, <1>5, <1>6, <1>7, <1>8, <1>9, <1>10, <1>11, <1>12

\* Call c becomes k, and what belongs to it o, b, m and rs.
Becomes(c, k, o, b, m, rs) ==
    /\ call' = [call EXCEPT ![c] = k] /\ orphan' = [orphan EXCEPT ![c] = o]
    /\ base' = [base EXCEPT ![c] = b] /\ made' = [made EXCEPT ![c] = m]
    /\ restsOn' = [restsOn EXCEPT ![c] = rs]

LEMMA CallTyped ==
    ASSUME NEW k, NEW o, NEW b, NEW m, NEW rs, CallOK(k, o, b, m, rs)
    PROVE  /\ k \in Call /\ k.plan \in DOMAIN Plan /\ k.step \in 1..Len(Plan[k.plan])
           /\ PlanOK(k.plan, Plan[k.plan], Limit(k.plan)) /\ RequestsOK(k.plan, Plan[k.plan])
           /\ k.tries \in Nat
           /\ o \in 0..2 /\ b \in {"none", "begun", "complete"} /\ m \in Nat
           /\ rs \subseteq {"complete"}
  <1>1. k \in Call /\ k.plan \in DOMAIN Plan /\ k.step \in 1..4 /\ k.tries \in Nat
    BY AttemptsAssumption DEF CallOK, Call, Most
  <1>2. PlanOK(k.plan, Plan[k.plan], Limit(k.plan)) /\ RequestsOK(k.plan, Plan[k.plan])
    BY <1>1, PlansOK
  <1> QED BY <1>1, <1>2 DEF CallOK, PlanOK

\* It is enough to show that the call which took the step is still as it should be.
LEMMA OneCall ==
    ASSUME ProviderInv, NEW c \in Calls, NEW k, NEW o, NEW b, NEW m, NEW rs,
           Becomes(c, k, o, b, m, rs), CallOK(k, o, b, m, rs),
           known \subseteq known', known' \subseteq Crms,
           knew' = knew \/ knew' = [knew EXCEPT ![c] = known],
           k.plan = "create" => k.service \notin knew'[c]
    PROVE  ProviderInv'
  <1>1. \A d \in Calls : /\ CallOK(call[d], orphan[d], base[d], made[d], restsOn[d])
                         /\ knew[d] \subseteq known /\ knew[d] \subseteq Crms
                         /\ call[d].plan = "create" => call[d].service \notin knew[d]
    BY DEF ProviderInv, LaterUpsertsUpdate
  <1>2. \A d \in Calls :
           /\ call'[d] = IF d = c THEN k ELSE call[d]
           /\ orphan'[d] = IF d = c THEN o ELSE orphan[d]
           /\ base'[d] = IF d = c THEN b ELSE base[d]
           /\ made'[d] = IF d = c THEN m ELSE made[d]
           /\ restsOn'[d] = IF d = c THEN rs ELSE restsOn[d]
           /\ knew'[d] \in {knew[d], IF d = c THEN known ELSE knew[d]}
    BY DEF Becomes, ProviderInv
  <1>3. \A d \in Calls : CallOK(call'[d], orphan'[d], base'[d], made'[d], restsOn'[d])
    BY <1>1, <1>2
  <1>4. \A d \in Calls : /\ knew'[d] \subseteq known'
                         /\ call'[d].plan = "create" => call'[d].service \notin knew'[d]
    <2> TAKE d \in Calls
    <2>1. CASE d = c
      BY <1>1, <1>2, <2>1
    <2>2. CASE d # c
      BY <1>1, <1>2, <2>2
    <2> QED BY <2>1, <2>2
  <1>5. /\ call' \in [Calls -> Call] /\ orphan' \in [Calls -> 0..2]
        /\ base' \in [Calls -> {"none", "begun", "complete"}]
        /\ made' \in [Calls -> Nat] /\ restsOn' \in [Calls -> SUBSET {"complete"}]
    <2>1. /\ k \in Call /\ o \in 0..2 /\ b \in {"none", "begun", "complete"} /\ m \in Nat
          /\ rs \in SUBSET {"complete"}
      BY CallTyped
    <2> QED BY <2>1 DEF Becomes, ProviderInv
  <1>6. knew' \in [Calls -> SUBSET Crms]
    BY DEF ProviderInv
  <1> QED BY <1>3, <1>4, <1>5, <1>6 DEF ProviderInv, LaterUpsertsUpdate

\* A call may not have changed in some respect.
LEMMA SameOf ==
    ASSUME ProviderInv, NEW c \in Calls
    PROVE  /\ call = [call EXCEPT ![c] = call[c]] /\ orphan = [orphan EXCEPT ![c] = orphan[c]]
           /\ base = [base EXCEPT ![c] = base[c]] /\ made = [made EXCEPT ![c] = made[c]]
           /\ restsOn = [restsOn EXCEPT ![c] = restsOn[c]]
           /\ CallOK(call[c], orphan[c], base[c], made[c], restsOn[c])
  BY DEF ProviderInv

LEMMA BeginKeeps ==
    ASSUME ProviderInv, NEW c \in Calls, NEW plan \in DOMAIN Plan,
           NEW service \in Crms \cup {"other"}, Begins(c, plan, service),
           plan # "create", plan = "search" => service \in Crms
    PROVE  ProviderInv'
  <1> DEFINE k == [status |-> "running", plan |-> plan, service |-> service,
                   step |-> 1, tries |-> 0]
  <1>1. Becomes(c, k, orphan[c], base[c], made[c], restsOn[c])
    BY SameOf DEF Begins, Becomes
  <1>2. PlanOK(plan, Plan[plan], Limit(plan))
    BY PlansOK
  <1>3. k \in Call
    BY AttemptsAssumption DEF Call, Most
  <1>4. CallOK(k, orphan[c], base[c], made[c], restsOn[c])
    <2>1. orphan[c] = 0 /\ made[c] = 0
      BY SameOf DEF CallOK, Begins
    <2>2. Due(plan) \in Nat /\ Due(plan) \notin 1..0 /\ One(FALSE) = 0
      BY <1>2 DEF PlanOK, One
    <2>3. /\ k.status = "running" /\ k.plan = plan /\ k.step = 1 /\ k.tries = 0
          /\ k.service = service
      OBVIOUS
    <2>4. base[c] \in {"none", "begun", "complete"} /\ restsOn[c] \subseteq {"complete"}
      BY DEF ProviderInv
    <2> HIDE DEF k
    <2>5. Due(k.plan) \notin 1..(k.step - 1) /\ ~Ready(k.plan, k.step)
      BY <1>2, <2>2, <2>3 DEF PlanOK
    <2>6. One(orphan[c] # 0 /\ Due(k.plan) # 0) = 0
      BY <2>1 DEF One
    <2>7. k.step =< Len(Plan[k.plan]) /\ k.tries < Limit(k.plan)
      <3>1. 1 =< Len(Plan[plan]) /\ 0 < Limit(plan)
        BY <1>2 DEF PlanOK
      <3> QED BY <2>3, <3>1
    <2> QED BY <1>3, <2>1, <2>3, <2>4, <2>5, <2>6, <2>7 DEF CallOK, One
  <1> QED BY <1>1, <1>4, OneCall DEF Begins, ProviderInv

\* What a request of call c changes at the service, as request i of its plan.
LEMMA AppliedIs ==
    ASSUME ProviderInv, NEW c \in Calls, NEW i \in 1..Len(Plan[call[c].plan]),
           Applied(c, Plan[call[c].plan][i]),
           Ready(call[c].plan, i) => base[c] = "complete"
    PROVE  /\ made' = [made EXCEPT ![c] = made[c] + One(i = Due(call[c].plan))]
           /\ \E rs \in SUBSET {"complete"} : restsOn' = [restsOn EXCEPT ![c] = rs]
           /\ known \subseteq known' /\ known' \subseteq Crms
  <1> DEFINE r == Plan[call[c].plan][i]
  <1>1. CallOK(call[c], orphan[c], base[c], made[c], restsOn[c]) /\ known \subseteq Crms
    BY DEF ProviderInv
  <1>2. RequestsOK(call[c].plan, Plan[call[c].plan])
    BY <1>1, CallTyped
  <1>3. /\ Counts(r) <=> i = Due(call[c].plan)
        /\ r = "rest" => Ready(call[c].plan, i)
        /\ r = "contact" => call[c].plan = "create"
    BY <1>2 DEF RequestsOK
  <1> HIDE DEF r
  <1>4. made' = [made EXCEPT ![c] = made[c] + One(i = Due(call[c].plan))]
    BY <1>3 DEF Applied, One, Counts, r
  <1>5. restsOn' = [restsOn EXCEPT ![c] = restsOn[c] \cup IF r = "rest" THEN {base[c]} ELSE {}]
    BY DEF Applied, r
  <1>6. (restsOn[c] \cup IF r = "rest" THEN {base[c]} ELSE {}) \in SUBSET {"complete"}
    BY <1>1, <1>3 DEF CallOK
  <1>7. known \subseteq known' /\ known' \subseteq Crms
    BY <1>1, <1>3 DEF Applied, CallOK, r
  <1> QED BY <1>4, <1>5, <1>6, <1>7

\* What is known of a call that is running: its plan p, the request s it is at, its t
\* failed attempts, the request that counts, and the length of the plan.
RunningOK(c, p, s, t, due, len) ==
    /\ p = call[c].plan /\ s = call[c].step /\ t = call[c].tries
    /\ due = Due(p) /\ len = Len(Plan[p]) /\ p \in DOMAIN Plan
    /\ call[c] \in Call /\ call[c].status = "running"
    /\ t \in Nat /\ t < Limit(p) /\ Limit(p) \in Nat
    /\ len \in Nat /\ s \in 1..len /\ due \in 0..len /\ len =< 4
    /\ made[c] \in Nat /\ orphan[c] \in 0..2 /\ orphan[c] =< len
    /\ orphan[c] # 0 => p \in WooPlans /\ t > 0
    /\ due = 0 => made[c] = 0
    /\ made[c] + One(orphan[c] # 0 /\ due # 0) =< t + One(due \in 1..(s - 1))
    /\ due \in 1..(s - 1) => made[c] > 0
    /\ Ready(p, s) => base[c] = "complete"
    /\ base[c] \in {"none", "begun", "complete"} /\ restsOn[c] \subseteq {"complete"}
    /\ p \in {"search", "create"} => call[c].service \in Crms
    /\ p = "create" => call[c].service \notin knew[c]
    /\ PlanOK(p, Plan[p], Limit(p)) /\ RequestsOK(p, Plan[p])

LEMMA RunningIs ==
    ASSUME ProviderInv, NEW c \in Calls, Running(c)
    PROVE  \E p, s, t, due, len : RunningOK(c, p, s, t, due, len)
  <1> DEFINE p == call[c].plan
             s == call[c].step
             t == call[c].tries
             due == Due(p)
             len == Len(Plan[p])
  <1>1. CallOK(call[c], orphan[c], base[c], made[c], restsOn[c])
    BY DEF ProviderInv
  <1>2. /\ call[c] \in Call /\ p \in DOMAIN Plan /\ s \in 1..len /\ t \in Nat
        /\ PlanOK(p, Plan[p], Limit(p)) /\ RequestsOK(p, Plan[p])
    BY <1>1, CallTyped
  <1>3. len \in Nat /\ len =< 4 /\ due \in 0..len /\ Limit(p) \in Nat
    BY <1>2 DEF PlanOK
  <1>4. RunningOK(c, p, s, t, due, len)
    BY <1>1, <1>2, <1>3 DEF CallOK, Running, One, RunningOK, ProviderInv, LaterUpsertsUpdate
  <1> HIDE DEF p, s, t, due, len
  <1> QED BY <1>4

LEMMA ContinueKeeps ==
    ASSUME ProviderInv, NEW c \in Calls, Continues(c)
    PROVE  ProviderInv'
  <1>1. PICK p, s, t, due, len : RunningOK(c, p, s, t, due, len)
    BY RunningIs DEF Continues
  <1> DEFINE k == [call[c] EXCEPT !.step = s + 1]
             b == IF Request(c) = "prepare" THEN "begun"
                  ELSE IF Request(c) = "complete" THEN "complete" ELSE base[c]
             m == made[c] + One(s = due)
  <1>2. /\ made' = [made EXCEPT ![c] = m]
        /\ \E rs \in SUBSET {"complete"} : restsOn' = [restsOn EXCEPT ![c] = rs]
        /\ known \subseteq known' /\ known' \subseteq Crms
    BY <1>1, AppliedIs DEF Continues, Request, RunningOK
  <1>3. PICK rs \in SUBSET {"complete"} : Becomes(c, k, orphan[c], b, m, rs)
    BY <1>1, <1>2, SameOf DEF Continues, Prepared, Becomes, RunningOK
  <1>4. /\ k.step = s + 1 /\ k.plan = p /\ k.tries = t /\ k.status = "running"
        /\ k.service = call[c].service /\ s # len /\ k \in Call
    BY <1>1 DEF Continues, Running, LastRequest, Call, RunningOK
  <1>5. (Ready(p, s + 1) => b = "complete") /\ b \in {"none", "begun", "complete"}
    BY <1>1 DEF RequestsOK, Request, RunningOK
  <1>6. /\ m \in Nat /\ (due = 0 => m = 0)
        /\ m + One(orphan[c] # 0 /\ due # 0) =< t + One(due \in 1..s)
        /\ due \in 1..s => m > 0
    <2> DEFINE pending == One(orphan[c] # 0 /\ due # 0)
    <2>1. /\ s \in Nat /\ s > 0 /\ due \in Nat /\ made[c] \in Nat /\ t \in Nat
          /\ pending \in {0, 1} /\ (due = 0 => made[c] = 0)
          /\ made[c] + pending =< t + One(due \in 1..(s - 1))
          /\ due \in 1..(s - 1) => made[c] > 0
      BY <1>1 DEF RunningOK, One
    <2> HIDE DEF pending
    <2>2. CASE s = due
      <3>1. due \notin 1..(s - 1) /\ due \in 1..s
        BY <2>1, <2>2
      <3>2. One(due \in 1..(s - 1)) = 0 /\ One(due \in 1..s) = 1 /\ m = made[c] + 1
        BY <2>2, <3>1 DEF One
      <3> QED BY <2>1, <2>2, <3>2 DEF pending
    <2>3. CASE s # due
      <3>1. due \in 1..(s - 1) <=> due \in 1..s
        BY <2>1, <2>3
      <3>2. One(due \in 1..(s - 1)) = One(due \in 1..s) /\ m = made[c]
        BY <2>1, <2>3, <3>1 DEF One
      <3> QED BY <2>1, <3>1, <3>2 DEF pending
    <2> QED BY <2>2, <2>3
  <1> HIDE DEF k, b, m
  <1>7. CallOK(k, orphan[c], b, m, rs)
    <2>1. /\ Due(k.plan) = due /\ Len(Plan[k.plan]) = len /\ k.step - 1 = s
          /\ k.status # "running" \/ Due(k.plan) \in 1..(k.step - 1) <=> due \in 1..s
      BY <1>1, <1>4 DEF RunningOK
    <2>2. /\ One(orphan[c] # 0 /\ Due(k.plan) # 0) = One(orphan[c] # 0 /\ due # 0)
          /\ One(k.status # "running" \/ Due(k.plan) \in 1..(k.step - 1)) = One(due \in 1..s)
      BY <2>1 DEF One
    <2>3. /\ m + One(orphan[c] # 0 /\ Due(k.plan) # 0)
                =< k.tries + One(k.status # "running" \/ Due(k.plan) \in 1..(k.step - 1))
          /\ k.status = "running" /\ Due(k.plan) \in 1..(k.step - 1) => m > 0
          /\ Due(k.plan) = 0 => m = 0
      BY <1>4, <1>6, <2>1, <2>2
    <2>4. /\ k.step =< Len(Plan[k.plan]) /\ k.tries < Limit(k.plan)
          /\ k.plan \in {"search", "create"} => k.service \in Crms
          /\ orphan[c] \in 0..2 /\ orphan[c] =< Len(Plan[k.plan])
          /\ orphan[c] # 0 => k.plan \in WooPlans /\ k.tries > 0
      BY <1>1, <1>4, <2>1 DEF RunningOK
    <2> QED BY <1>4, <1>5, <1>6, <2>3, <2>4 DEF CallOK
  <1>8. k.plan = "create" => k.service \notin knew'[c]
    BY <1>1, <1>4 DEF Continues, RunningOK
  <1> QED BY <1>2, <1>3, <1>7, <1>8, OneCall DEF Continues

\* The numbers of a call whose attempt ends, when its last request made something or
\* not: they are within one attempt more.
LEMMA AttemptEnds ==
    ASSUME NEW c \in Calls, NEW p, NEW s, NEW t, NEW due, NEW len,
           RunningOK(c, p, s, t, due, len), NEW m \in {made[c], made[c] + One(s = due)}
    PROVE  /\ m \in Nat /\ (due = 0 => m = 0)
           /\ m + One(orphan[c] # 0 /\ due # 0) =< t + 1
  <1> DEFINE pending == One(orphan[c] # 0 /\ due # 0)
  <1>1. /\ s \in Nat /\ s > 0 /\ due \in Nat /\ made[c] \in Nat /\ t \in Nat
        /\ pending \in {0, 1} /\ (due = 0 => made[c] = 0) /\ One(s = due) \in {0, 1}
        /\ made[c] + pending =< t + One(due \in 1..(s - 1))
    BY DEF RunningOK, One
  <1> HIDE DEF pending
  <1>2. CASE s = due
    <2>1. due \notin 1..(s - 1)
      BY <1>1, <1>2
    <2>2. One(due \in 1..(s - 1)) = 0
      BY <2>1 DEF One
    <2> QED BY <1>1, <1>2, <2>2 DEF pending
  <1>3. CASE s # due
    <2>1. One(s = due) = 0 /\ One(due \in 1..(s - 1)) \in {0, 1}
      BY <1>3 DEF One
    <2> QED BY <1>1, <2>1 DEF pending
  <1> QED BY <1>2, <1>3

EndedWith(c, status) == [call[c] EXCEPT !.status = status]

\* A call that has ended, by an answer or a failure.
LEMMA EndKeeps ==
    ASSUME ProviderInv, NEW c \in Calls, NEW p, NEW s, NEW t, NEW due, NEW len,
           RunningOK(c, p, s, t, due, len), NEW m \in {made[c], made[c] + One(s = due)},
           NEW status \in {"answered", "failed"},
           NEW b \in {"none", "begun", "complete"}, NEW rs \in SUBSET {"complete"},
           Becomes(c, EndedWith(c, status), orphan[c], b, m, rs),
           status = "answered" =>
              p # "search" /\ ("read" # Plan[p][len] => m > 0),
           UNCHANGED knew, known \subseteq known', known' \subseteq Crms
    PROVE  ProviderInv'
  <1> DEFINE k == EndedWith(c, status)
  <1>1. /\ k.step = s /\ k.plan = p /\ k.tries = t /\ k.status = status
        /\ k.service = call[c].service /\ k \in Call
    BY DEF Call, RunningOK, EndedWith
  <1>2. /\ m \in Nat /\ (due = 0 => m = 0)
        /\ m + One(orphan[c] # 0 /\ due # 0) =< t + 1
    BY AttemptEnds
  <1>3. Becomes(c, k, orphan[c], b, m, rs)
    OBVIOUS
  <1> HIDE DEF k
  <1>4. CallOK(k, orphan[c], b, m, rs)
    BY <1>1, <1>2 DEF CallOK, One, RunningOK
  <1>5. k.plan = "create" => k.service \notin knew'[c]
    BY <1>1 DEF RunningOK
  <1> QED BY <1>3, <1>4, <1>5, OneCall

LEMMA AnsweredKeeps ==
    ASSUME ProviderInv, NEW c \in Calls, Answered(c)
    PROVE  ProviderInv'
  <1>1. PICK p, s, t, due, len : RunningOK(c, p, s, t, due, len)
    BY RunningIs DEF Answered
  <1> DEFINE m == made[c] + One(s = due)
  <1>2. /\ made' = [made EXCEPT ![c] = m]
        /\ \E rs \in SUBSET {"complete"} : restsOn' = [restsOn EXCEPT ![c] = rs]
        /\ known \subseteq known' /\ known' \subseteq Crms
    BY <1>1, AppliedIs DEF Answered, Request, RunningOK
  <1>3. PICK rs \in SUBSET {"complete"} : Becomes(c, EndedWith(c, "answered"), orphan[c], base[c], m, rs)
    BY <1>1, <1>2, SameOf DEF Answered, Becomes, RunningOK, EndedWith
  <1>4. p # "search" /\ s = len /\ base[c] \in {"none", "begun", "complete"}
    BY <1>1 DEF Answered, LastRequest, RunningOK
  <1>5. "read" # Plan[p][len] => m > 0
    <2> SUFFICES ASSUME "read" # Plan[p][len] PROVE m > 0
      OBVIOUS
    <2>1. due > 0 /\ due \in Nat /\ s \in Nat /\ due =< s /\ made[c] \in Nat
      BY <1>1, <1>4 DEF RunningOK, PlanOK
    <2>2. CASE due = s
      BY <2>1, <2>2 DEF One
    <2>3. CASE due # s
      <3>1. made[c] > 0 /\ One(s = due) = 0
        BY <1>1, <2>1, <2>3 DEF RunningOK, One
      <3> QED BY <2>1, <3>1
    <2> QED BY <2>2, <2>3
  <1>6. m \in {made[c], made[c] + One(s = due)}
    OBVIOUS
  <1> HIDE DEF m
  <1> QED BY <1>1, <1>2, <1>3, <1>4, <1>5, <1>6, EndKeeps DEF Answered

\* A request fails that has made nothing, and the call ends.
LEMMA StopKeeps ==
    ASSUME ProviderInv, NEW c \in Calls, NoteFails(c) \/ Refused(c)
    PROVE  ProviderInv'
  <1>1. PICK p, s, t, due, len : RunningOK(c, p, s, t, due, len)
    BY RunningIs DEF NoteFails, Refused
  <1>2. PICK status \in {"answered", "failed"} :
           /\ call' = [call EXCEPT ![c] = [call[c] EXCEPT !.status = status]]
           /\ status = "answered" => Request(c) = "note"
           /\ UNCHANGED <<orphan, base, made, restsOn, known, knew>>
    <2>1. call \in [Calls -> Call]
      BY DEF ProviderInv
    <2>2. CASE NoteFails(c)
      BY <2>1, <2>2 DEF NoteFails
    <2>3. CASE Refused(c)
      BY <2>1, <2>3 DEF Refused
    <2> QED BY <2>2, <2>3
  <1>3. /\ base[c] \in {"none", "begun", "complete"}
        /\ restsOn[c] \in SUBSET {"complete"}
    BY <1>1 DEF RunningOK
  <1>4. Becomes(c, EndedWith(c, status), orphan[c], base[c], made[c], restsOn[c])
    BY <1>2, <1>3, SameOf DEF Becomes, EndedWith
  <1>5. status = "answered" => p # "search" /\ made[c] > 0
    BY <1>1, <1>2, <1>3 DEF RunningOK, RequestsOK, Request
  <1>6. known \subseteq known' /\ known' \subseteq Crms /\ UNCHANGED knew
    BY <1>2 DEF ProviderInv
  <1> QED BY <1>1, <1>3, <1>4, <1>5, <1>6, EndKeeps

\* The wrapper repeats a failed attempt, or ends the call; o is its abandoned attempt,
\* if it has one afterwards.
LEMMA RepeatKeeps ==
    ASSUME ProviderInv, NEW c \in Calls, NEW p, NEW s, NEW t, NEW due, NEW len,
           RunningOK(c, p, s, t, due, len), NEW m \in {made[c], made[c] + One(s = due)},
           NEW o \in 0..2, o = orphan[c] \/ (p \in WooPlans /\ t = 0 /\ m = made[c] /\ o = s),
           NEW b \in {"none", "begun", "complete"}, NEW rs \in SUBSET {"complete"},
           Becomes(c, Repeats(c), o, b, m, rs),
           UNCHANGED knew, known \subseteq known', known' \subseteq Crms
    PROVE  ProviderInv'
  <1>1. /\ m \in Nat /\ (due = 0 => m = 0)
        /\ m + One(orphan[c] # 0 /\ due # 0) =< t + 1
    BY AttemptEnds
  <1>2. /\ m + One(o # 0 /\ due # 0) =< t + 1
        /\ o =< len /\ (o # 0 => p \in WooPlans)
    <2>1. CASE o = orphan[c]
      BY <1>1, <2>1 DEF RunningOK
    <2>2. CASE p \in WooPlans /\ t = 0 /\ m = made[c] /\ o = s
      <3>1. due \notin 1..(s - 1) /\ s \in Nat /\ s =< len /\ made[c] \in Nat
        BY <2>2 DEF RunningOK, PlanOK
      <3>2. One(due \in 1..(s - 1)) = 0 /\ One(orphan[c] # 0 /\ due # 0) \in {0, 1}
        BY <3>1 DEF One
      <3>3. made[c] = 0
        BY <2>2, <3>1, <3>2 DEF RunningOK
      <3> QED BY <2>2, <3>1, <3>3 DEF One
    <2> QED BY <2>1, <2>2
  <1>4. \/ /\ Repeats(c) = [call[c] EXCEPT !.step = 1, !.tries = t + 1] /\ t + 1 < Limit(p)
        \/ /\ Repeats(c) = [call[c] EXCEPT !.status = "failed"] /\ ~(t + 1 < Limit(p))
    BY DEF RunningOK, Repeats
  <1>5. CASE /\ Repeats(c) = [call[c] EXCEPT !.step = 1, !.tries = t + 1] /\ t + 1 < Limit(p)
    <2> DEFINE k == [call[c] EXCEPT !.step = 1, !.tries = t + 1]
    <2>1. /\ k.step = 1 /\ k.plan = p /\ k.tries = t + 1 /\ k.status = "running"
          /\ k.service = call[c].service
      BY DEF Call, RunningOK
    <2>2. t + 1 \in 0..Most
      <3>1. t \in Nat /\ Limit(p) \in Nat /\ Limit(p) =< Most
        BY DEF RunningOK, PlanOK
      <3>2. Most \in Nat
        BY AttemptsAssumption DEF Most
      <3> QED BY <1>5, <3>1, <3>2
    <2>3. k \in Call
      <3> DEFINE e == [call[c] EXCEPT !.step = 1]
                 u == t + 1
      <3>1. e \in Call
        BY DEF Call, RunningOK
      <3>2. k = [e EXCEPT !.tries = u]
        OBVIOUS
      <3> HIDE DEF e, u, k
      <3>3. [e EXCEPT !.tries = u] \in Call
        BY <2>2, <3>1 DEF Call, u
      <3> QED BY <3>2, <3>3
    <2>4. due \notin 1..(1 - 1) /\ 1 =< len /\ t + 1 > 0 /\ ~Ready(p, 1)
      BY DEF RunningOK, PlanOK
    <2> HIDE DEF k
    <2>5. CallOK(k, o, b, m, rs)
      BY <1>1, <1>2, <1>5, <2>1, <2>3, <2>4 DEF CallOK, One, RunningOK
    <2>6. k.plan = "create" => k.service \notin knew'[c]
      BY <2>1 DEF RunningOK
    <2> QED BY <1>5, <2>5, <2>6, OneCall DEF k
  <1>6. CASE /\ Repeats(c) = [call[c] EXCEPT !.status = "failed"] /\ ~(t + 1 < Limit(p))
    <2> DEFINE k == [call[c] EXCEPT !.status = "failed"]
    <2>1. /\ k.step = s /\ k.plan = p /\ k.tries = t /\ k.status = "failed"
          /\ k.service = call[c].service /\ k \in Call
      BY DEF Call, RunningOK
    <2>2. o # 0 => t > 0
      BY <1>6 DEF RunningOK, PlanOK
    <2> HIDE DEF k
    <2>3. CallOK(k, o, b, m, rs)
      BY <1>1, <1>2, <2>1, <2>2 DEF CallOK, One, RunningOK
    <2>4. k.plan = "create" => k.service \notin knew'[c]
      BY <2>1 DEF RunningOK
    <2> QED BY <1>6, <2>3, <2>4, OneCall DEF k
  <1> QED BY <1>4, <1>5, <1>6

\* An attempt fails, whether or not its last request has had its effect.
LEMMA FailKeeps ==
    ASSUME ProviderInv, NEW c \in Calls, Fails(c)
    PROVE  ProviderInv'
  <1>1. PICK p, s, t, due, len : RunningOK(c, p, s, t, due, len)
    BY RunningIs DEF Fails
  <1>2. PICK m \in {made[c], made[c] + One(s = due)}, rs \in SUBSET {"complete"} :
           /\ made' = [made EXCEPT ![c] = m]
           /\ restsOn' = [restsOn EXCEPT ![c] = rs]
           /\ known \subseteq known' /\ known' \subseteq Crms
    <2>1. CASE Applied(c, Request(c))
      <3>1. /\ made' = [made EXCEPT ![c] = made[c] + One(s = due)]
            /\ \E rs \in SUBSET {"complete"} : restsOn' = [restsOn EXCEPT ![c] = rs]
            /\ known \subseteq known' /\ known' \subseteq Crms
        BY <1>1, <2>1, AppliedIs DEF Request, RunningOK
      <3> QED BY <3>1
    <2>2. CASE NotApplied
      <3>1. restsOn[c] \in SUBSET {"complete"}
        BY <1>1 DEF RunningOK
      <3>2. /\ made' = [made EXCEPT ![c] = made[c]]
            /\ restsOn' = [restsOn EXCEPT ![c] = restsOn[c]]
            /\ known \subseteq known' /\ known' \subseteq Crms
        BY <2>2, <3>1, SameOf DEF NotApplied, ProviderInv
      <3> QED BY <3>1, <3>2
    <2> QED BY <2>1, <2>2 DEF Fails
  <1>3. Becomes(c, Repeats(c), orphan[c], "none", m, rs)
    BY <1>2, SameOf DEF Becomes, Fails
  <1>4. orphan[c] \in 0..2 /\ UNCHANGED knew
    BY <1>1 DEF RunningOK, Fails
  <1> QED BY <1>1, <1>2, <1>3, <1>4, RepeatKeeps

LEMMA TimeoutKeeps ==
    ASSUME ProviderInv, NEW c \in Calls, BreakerTimesOut(c)
    PROVE  ProviderInv'
  <1>1. PICK p, s, t, due, len : RunningOK(c, p, s, t, due, len)
    BY RunningIs DEF BreakerTimesOut
  <1>2. /\ base[c] \in {"none", "begun", "complete"}
        /\ restsOn[c] \in SUBSET {"complete"}
    BY <1>1 DEF RunningOK
  <1>3. Becomes(c, Repeats(c), s, base[c], made[c], restsOn[c])
    BY <1>1, <1>2, SameOf DEF Becomes, BreakerTimesOut, RunningOK
  <1>4. s \in 0..2 /\ p \in WooPlans /\ t = 0
    BY <1>1 DEF BreakerTimesOut, RunningOK, PlanOK
  <1>5. known \subseteq known' /\ known' \subseteq Crms /\ UNCHANGED knew
    BY DEF BreakerTimesOut, ProviderInv
  <1> QED BY <1>1, <1>2, <1>3, <1>4, <1>5, RepeatKeeps

\* The search has an answer: nothing has been made yet, and a contact is created only
\* where none was known, now or when the call began.
LEMMA FindKeeps ==
    ASSUME ProviderInv, NEW c \in Calls, Found(c)
    PROVE  ProviderInv'
  <1>1. PICK p, s, t, due, len : RunningOK(c, p, s, t, due, len)
    BY RunningIs DEF Found
  <1> DEFINE plan == IF call[c].service \in known THEN "update" ELSE "create"
             e == [call[c] EXCEPT !.plan = plan]
             k == [e EXCEPT !.tries = 0]
  <1>2. Becomes(c, k, orphan[c], base[c], made[c], restsOn[c])
    BY SameOf DEF Becomes, Found
  <1>3. plan \in {"update", "create"} /\ plan \in DOMAIN Plan
    BY DEF Plan
  <1>4. /\ k.step = s /\ k.plan = plan /\ k.tries = 0 /\ k.status = "running"
        /\ k.service = call[c].service
    BY <1>1 DEF Call, RunningOK
  <1>5. k \in Call
    <2>1. e \in Call
      BY <1>1, <1>3 DEF Call, RunningOK
    <2>2. 0 \in 0..Most
      BY AttemptsAssumption DEF Most
    <2> HIDE DEF e
    <2> QED BY <2>1, <2>2 DEF Call
  <1>6. plan = "create" => call[c].service \notin known /\ call[c].service \notin knew[c]
    BY DEF ProviderInv
  <1> HIDE DEF k, e, plan
  <1>7. p = "search" /\ s = 1 /\ made[c] = 0 /\ orphan[c] = 0 /\ call[c].service \in Crms
    <2>1. p = "search"
      BY <1>1 DEF Found, RunningOK
    <2>2. due = 0 /\ len = 1
      BY <1>1, <2>1 DEF RunningOK, PlanOK
    <2>3. s \in 1..len /\ made[c] = 0 /\ call[c].service \in Crms
      BY <1>1, <2>1, <2>2 DEF RunningOK
    <2>4. orphan[c] = 0
      BY <1>1, <2>1 DEF RunningOK, WooPlans
    <2> QED BY <2>1, <2>2, <2>3, <2>4
  <1>8. /\ PlanOK(plan, Plan[plan], Limit(plan)) /\ Due(plan) = 1
        /\ ~Ready(plan, 1) /\ plan # "search"
    BY <1>3, PlansOK DEF Due, Ready
  <1>9. CallOK(k, orphan[c], base[c], made[c], restsOn[c])
    <2>1. 1 =< Len(Plan[plan]) /\ 0 < Limit(plan) /\ 1 \notin 1..(1 - 1)
      BY <1>8 DEF PlanOK
    <2>2. base[c] \in {"none", "begun", "complete"} /\ restsOn[c] \subseteq {"complete"}
      BY <1>1 DEF RunningOK
    <2> QED BY <1>4, <1>5, <1>7, <1>8, <2>1, <2>2 DEF CallOK, One
  <1>10. known \subseteq known' /\ known' \subseteq Crms /\ knew' = knew
    BY DEF Found, ProviderInv
  <1> QED BY <1>2, <1>4, <1>6, <1>9, <1>10, OneCall

\* The abandoned attempt makes what it was counted for, or nothing.
LEMMA OrphanKeeps ==
    ASSUME ProviderInv, NEW c \in Calls, OrphanGoesOn(c) \/ OrphanFails(c)
    PROVE  ProviderInv'
  <1> DEFINE k == call[c]
             p == k.plan
             due == Due(p)
             len == Len(Plan[p])
             past == One(k.status # "running" \/ due \in 1..(k.step - 1))
  <1>1. CallOK(k, orphan[c], base[c], made[c], restsOn[c]) /\ orphan[c] # 0
    BY DEF ProviderInv, OrphanGoesOn, OrphanFails
  <1>2. /\ p \in WooPlans /\ PlanOK(p, Plan[p], Limit(p)) /\ orphan[c] \in 1..len
        /\ orphan[c] \in 1..2 /\ made[c] \in Nat /\ k.status # "idle"
        /\ k.tries \in Nat
    <2>1. /\ k \in Call /\ PlanOK(p, Plan[p], Limit(p)) /\ k.tries \in Nat
          /\ orphan[c] \in 0..2 /\ made[c] \in Nat
      BY <1>1, CallTyped
    <2>2. /\ p \in WooPlans /\ orphan[c] =< len /\ k.status # "idle"
      BY <1>1 DEF CallOK
    <2>3. len \in Nat
      BY <2>1 DEF PlanOK
    <2> HIDE DEF k, p, len
    <2> QED BY <1>1, <2>1, <2>2, <2>3
  <1>3. /\ ~Ready(p, orphan[c]) /\ p # "create"
    BY <1>2 DEF Ready, WooPlans
  <1>4. PICK o \in 0..2, m \in Nat, rs \in SUBSET {"complete"} :
           /\ Becomes(c, k, o, base[c], m, rs)
           /\ o =< len /\ (due = 0 => m = 0) /\ made[c] =< m
           /\ m + One(o # 0 /\ due # 0) =< made[c] + One(orphan[c] # 0 /\ due # 0)
           /\ known \subseteq known' /\ known' \subseteq Crms /\ knew' = knew
    <2>1. CASE OrphanGoesOn(c)
      <3> DEFINE o == IF orphan[c] < len THEN orphan[c] + 1 ELSE 0
                 m == made[c] + One(orphan[c] = due)
      <3>1. /\ made' = [made EXCEPT ![c] = m]
            /\ \E rs \in SUBSET {"complete"} : restsOn' = [restsOn EXCEPT ![c] = rs]
            /\ known \subseteq known' /\ known' \subseteq Crms
        BY <1>2, <1>3, <2>1, AppliedIs DEF OrphanGoesOn
      <3>2. PICK rs \in SUBSET {"complete"} : Becomes(c, k, o, base[c], m, rs)
        BY <2>1, <3>1, SameOf DEF Becomes, OrphanGoesOn
      <3>3. /\ o \in 0..2 /\ o =< len /\ m \in Nat /\ (due = 0 => m = 0) /\ made[c] =< m
            /\ m + One(o # 0 /\ due # 0) =< made[c] + One(orphan[c] # 0 /\ due # 0)
        BY <1>1, <1>2 DEF PlanOK, One, CallOK
      <3> HIDE DEF o, m
      <3> QED BY <2>1, <3>1, <3>2, <3>3 DEF OrphanGoesOn
    <2>2. CASE OrphanFails(c)
      <3> DEFINE o == 0
      <3>1. Becomes(c, k, o, base[c], made[c], restsOn[c])
        BY <2>2, SameOf DEF Becomes, OrphanFails
      <3>2. /\ restsOn[c] \in SUBSET {"complete"} /\ o =< len /\ (due = 0 => made[c] = 0)
            /\ made[c] =< made[c] /\ o \in 0..2
            /\ made[c] + One(o # 0 /\ due # 0) =< made[c] + One(orphan[c] # 0 /\ due # 0)
        BY <1>1, <1>2 DEF CallOK, One, PlanOK
      <3> HIDE DEF o
      <3> QED BY <1>2, <2>2, <3>1, <3>2 DEF OrphanFails, ProviderInv
    <2> QED BY <2>1, <2>2
  <1>5. m + One(o # 0 /\ due # 0) =< k.tries + past
    <2>1. made[c] + One(orphan[c] # 0 /\ due # 0) =< k.tries + past
      BY <1>1 DEF CallOK
    <2>2. /\ One(o # 0 /\ due # 0) \in {0, 1} /\ One(orphan[c] # 0 /\ due # 0) \in {0, 1}
          /\ past \in {0, 1}
      BY DEF One
    <2> HIDE DEF past
    <2> QED BY <1>2, <1>4, <2>1, <2>2
  <1>6. m > 0 \/ ~(made[c] > 0)
    BY <1>2, <1>4
  <1>7. CallOK(k, o, base[c], m, rs)
    BY <1>1, <1>2, <1>4, <1>5, <1>6 DEF CallOK
  <1> HIDE DEF k, p
  <1>8. k.plan # "create"
    BY <1>3 DEF p
  <1> QED BY <1>4, <1>7, <1>8, OneCall

LEMMA CallsStart == ProviderInit => ProviderInv
  <1> SUFFICES ASSUME ProviderInit PROVE ProviderInv
    OBVIOUS
  <1> DEFINE k == [status |-> "idle", plan |-> "read", service |-> "other",
                   step |-> 1, tries |-> 0]
  <1>1. "read" \in DOMAIN Plan
    BY DEF Plan
  <1>2. k \in Call
    BY <1>1, AttemptsAssumption DEF Call, Most
  <1>3. CallOK(k, 0, "none", 0, {})
    <2>1. PlanOK("read", Plan["read"], Limit("read")) /\ Due("read") = 0
      BY <1>1, PlansOK DEF Due
    <2>2. 1 =< Len(Plan["read"]) /\ 0 =< Len(Plan["read"]) /\ 0 < Limit("read")
      BY <2>1 DEF PlanOK
    <2> QED BY <1>2, <2>1, <2>2 DEF CallOK, One
  <1> HIDE DEF k
  <1>4. \A c \in Calls : /\ call[c] = k /\ orphan[c] = 0 /\ base[c] = "none" /\ made[c] = 0
                         /\ restsOn[c] = {} /\ knew[c] = {}
    BY DEF ProviderInit, k
  <1>5. \A c \in Calls : call[c].plan # "create"
    <2>1. k.plan = "read"
      BY DEF k
    <2> QED BY <1>4, <2>1
  <1>6. /\ call \in [Calls -> Call] /\ orphan \in [Calls -> 0..2]
        /\ base \in [Calls -> {"none", "begun", "complete"}]
        /\ made \in [Calls -> Nat] /\ restsOn \in [Calls -> SUBSET {"complete"}]
        /\ known \subseteq Crms /\ knew \in [Calls -> SUBSET Crms]
    BY <1>2 DEF ProviderInit, k
  <1> QED BY <1>3, <1>4, <1>5, <1>6 DEF ProviderInv, LaterUpsertsUpdate

LEMMA CallsKeep == ProviderInv /\ [ProviderNext]_callState => ProviderInv'
  <1> SUFFICES ASSUME ProviderInv, [ProviderNext]_callState PROVE ProviderInv'
    OBVIOUS
  <1>1. ASSUME NEW c \in Calls,
               \/ HubspotUpsert(c) \/ HubspotDeal(c) \/ ZohoUpsert(c) \/ ZohoDeal(c)
               \/ GetCatalogItem(c) \/ ListOrders(c) \/ GetAmazonOrder(c) \/ GetFeedStatus(c)
               \/ SubmitFeed(c) \/ GetWooOrder(c) \/ CreateWooOrder(c) \/ UpdateInventory(c)
               \/ CallText(c) \/ Embed(c) \/ Checkout(c)
        PROVE  ProviderInv'
    <2>1. PICK plan \in DOMAIN Plan \ {"create"}, service \in Crms \cup {"other"} :
             Begins(c, plan, service) /\ (plan = "search" => service \in Crms)
      <3>1. /\ {"search", "deal", "spRead", "spFeed", "wooRead", "wooOrder", "wooStock", "read",
                "checkout"} \subseteq DOMAIN Plan \ {"create"}
            /\ Crms = {"hubspot", "zoho"}
        BY DEF Plan, Crms
      <3> QED BY <1>1, <3>1
            DEF HubspotUpsert, HubspotDeal, ZohoUpsert, ZohoDeal, GetCatalogItem, ListOrders,
                GetAmazonOrder, GetFeedStatus, SubmitFeed, GetWooOrder, CreateWooOrder,
                UpdateInventory, CallText, Embed, Checkout
    <2> QED BY <2>1, BeginKeeps
  <1>2. ASSUME NEW c \in Calls, Continues(c) PROVE ProviderInv'
    BY <1>2, ContinueKeeps
  <1>3. ASSUME NEW c \in Calls, Answered(c) PROVE ProviderInv'
    BY <1>3, AnsweredKeeps
  <1>4. ASSUME NEW c \in Calls, Found(c) PROVE ProviderInv'
    BY <1>4, FindKeeps
  <1>5. ASSUME NEW c \in Calls, Fails(c) PROVE ProviderInv'
    BY <1>5, FailKeeps
  <1>6. ASSUME NEW c \in Calls, NoteFails(c) \/ Refused(c) PROVE ProviderInv'
    BY <1>6, StopKeeps
  <1>7. ASSUME NEW c \in Calls, BreakerTimesOut(c) PROVE ProviderInv'
    BY <1>7, TimeoutKeeps
  <1>8. ASSUME NEW c \in Calls, OrphanGoesOn(c) \/ OrphanFails(c) PROVE ProviderInv'
    BY <1>8, OrphanKeeps
  <1>9. CASE UNCHANGED callState
    BY <1>9 DEF callState, ProviderInv, LaterUpsertsUpdate
  <1> QED BY <1>1, <1>2, <1>3, <1>4, <1>5, <1>6, <1>7, <1>8, <1>9 DEF ProviderNext

LEMMA RecordsFollow == ProviderInv => RecordsAccounted
  <1> SUFFICES ASSUME ProviderInv PROVE RecordsAccounted
    OBVIOUS
  <1>1. ASSUME NEW c \in Calls
        PROVE  /\ made[c] =< Limit(call[c].plan) /\ made[c] \in 0..Most
               /\ /\ call[c].status = "answered"
                  /\ "read" # Plan[call[c].plan][Len(Plan[call[c].plan])]
                  => made[c] > 0
               /\ restsOn[c] \subseteq {"complete"}
    <2>1. CallOK(call[c], orphan[c], base[c], made[c], restsOn[c])
      BY DEF ProviderInv
    <2> DEFINE k == call[c]
               limit == Limit(k.plan)
               pending == One(orphan[c] # 0 /\ Due(k.plan) # 0)
               past == One(k.status # "running" \/ Due(k.plan) \in 1..(k.step - 1))
    <2>2. /\ PlanOK(k.plan, Plan[k.plan], limit) /\ k.tries \in Nat /\ made[c] \in Nat
      BY <2>1, CallTyped
    <2>3. limit \in Nat /\ limit =< Most
      BY <2>2 DEF PlanOK
    <2>4. pending \in {0, 1} /\ past \in {0, 1}
      BY DEF One
    <2>5. made[c] + pending =< k.tries + past /\ k.tries < limit
      BY <2>1 DEF CallOK
    <2>6. Most \in Nat
      BY AttemptsAssumption DEF Most
    <2> HIDE DEF pending, past, limit
    <2>7. made[c] =< limit /\ made[c] \in 0..Most
      BY <2>2, <2>3, <2>4, <2>5, <2>6
    <2> QED BY <2>1, <2>7 DEF CallOK, limit
  <1>2. ProviderTypeOK
    <2>1. made \in [Calls -> 0..Most]
      BY <1>1 DEF ProviderInv
    <2>2. restsOn \in [Calls -> SUBSET {"none", "begun", "complete"}]
      BY DEF ProviderInv
    <2> QED BY <2>1, <2>2 DEF ProviderInv, ProviderTypeOK
  <1> QED BY <1>1, <1>2
        DEF ProviderInv, RecordsAccounted, DoneWithinAttempts, NothingRestsOnAir

\* For any calls and numbers of attempts, whatever is lost, late or repeated: an answered
\* call has done its work, none has done it more often than it may be attempted, what it
\* made rests on something complete, and a later upsert updates.
THEOREM CallsAreAccounted == ProviderSpec => []RecordsAccounted
  BY CallsStart, CallsKeep, RecordsFollow, PTL DEF ProviderSpec

-----------------------------------------------------------------------------
(* The token budget of a context                                           *)

Source == [doc: Nat, chars: Nat]

\* Each excerpt is of a document looked at, whole unless it used up the budget.
SourcesOK(taking, last, left) ==
    \A i \in 1..Len(taking) :
       /\ taking[i].doc \in 1..last
       /\ taking[i].chars = found[taking[i].doc] \/ (i = Len(taking) /\ left = 0)

RagInv ==
    /\ found \in Seq(Nat) /\ sources \in Seq(Source)
    /\ tokenBudget \in Nat /\ remainingTokens \in Nat /\ remainingTokens =< tokenBudget
    /\ seen \in Nat /\ seen =< Len(found) /\ taken \in Nat
    /\ assembling \in {"idle", "searching"} => seen = 0 /\ taken = 0 /\ found = <<>> /\ sources = <<>>
    /\ SourcesOK(sources, seen, remainingTokens)
    /\ BudgetSpentInOrder

\* The lesser of two numbers.
LEMMA LesserOfTwo ==
    ASSUME NEW a \in Nat, NEW b \in Nat
    PROVE  Min({a, b}) = IF a =< b THEN a ELSE b
  <1> DEFINE m == IF a =< b THEN a ELSE b
  <1>1. m \in {a, b} /\ \A y \in {a, b} : m =< y
    OBVIOUS
  <1>2. \A x \in {a, b} : (\A y \in {a, b} : x =< y) => x = m
    OBVIOUS
  <1>3. Min({a, b}) = CHOOSE x \in {a, b} : \A y \in {a, b} : x =< y
    BY DEF Min
  <1> HIDE DEF m
  <1>4. Min({a, b}) = m
    BY <1>1, <1>2, <1>3
  <1> QED BY <1>4 DEF m

LEMMA TakeKeeps ==
    ASSUME RagInv, Take
    PROVE  RagInv'
  <1> DEFINE estimate == EstimateTokens(Current)
             take == Min({remainingTokens, estimate})
             chars == TruncateToTokens(Current, take)
  <1>0. /\ found \in Seq(Nat) /\ sources \in Seq(Source) /\ Len(found) \in Nat /\ Len(sources) \in Nat
        /\ tokenBudget \in Nat /\ remainingTokens \in Nat /\ remainingTokens =< tokenBudget
        /\ seen \in Nat /\ seen =< Len(found) /\ taken \in Nat
    BY LenProperties DEF RagInv
  <1>1. /\ assembling = "taking" /\ seen + 1 =< Len(found) /\ Current > 0 /\ remainingTokens > 0
        /\ Current \in Nat /\ Current = found[seen + 1]
    <2>1. assembling = "taking" /\ seen < Len(found) /\ Current > 0 /\ remainingTokens > 0
      BY DEF Take, Excerpt, Looking
    <2>2. seen + 1 \in 1..Len(found)
      BY <1>0, <2>1
    <2>3. found[seen + 1] \in Nat
      BY <1>0, <2>2, ElementOfSeq
    <2> QED BY <1>0, <2>1, <2>2, <2>3 DEF Current
  <1>2. estimate \in Nat /\ Current =< 4 * estimate
    BY <1>1 DEF EstimateTokens, CharsPerToken
  <1> HIDE DEF estimate
  <1>3. take = IF remainingTokens =< estimate THEN remainingTokens ELSE estimate
    BY <1>0, <1>2, LesserOfTwo
  <1>4. take \in Nat /\ take =< remainingTokens /\ 4 * take \in Nat
    BY <1>0, <1>2, <1>3
  <1> HIDE DEF take
  <1>5. chars = IF Current =< 4 * take THEN Current ELSE 4 * take
    <2>1. chars = Min({Current, take * 4})
      BY DEF TruncateToTokens, CharsPerToken
    <2>2. take * 4 = 4 * take
      BY <1>4
    <2> QED BY <1>1, <1>4, <2>1, <2>2, LesserOfTwo
  <1>6. chars \in Nat /\ chars =< 4 * take /\ (chars = Current \/ take = remainingTokens)
    BY <1>1, <1>2, <1>3, <1>4, <1>5
  <1>7. /\ sources' = Append(sources, [doc |-> seen + 1, chars |-> chars])
        /\ taken' = taken + chars /\ remainingTokens' = remainingTokens - take
        /\ seen' = seen + 1 /\ found' = found /\ tokenBudget' = tokenBudget /\ assembling' = assembling
    BY DEF Take, Excerpt, take, estimate
  <1> HIDE DEF chars
  <1>8. /\ sources' \in Seq(Source) /\ Len(sources') = Len(sources) + 1
        /\ \A i \in 1..Len(sources) : sources'[i] = sources[i]
        /\ sources'[Len(sources) + 1] = [doc |-> seen + 1, chars |-> chars]
    <2>1. [doc |-> seen + 1, chars |-> chars] \in Source
      BY <1>0, <1>6 DEF Source
    <2> QED BY <1>0, <1>7, <2>1
  <1>9. remainingTokens' \in Nat /\ (remainingTokens' = 0 \/ chars = Current)
    BY <1>0, <1>4, <1>6, <1>7
  <1>10. SourcesOK(sources, seen, remainingTokens)'
    <2> SUFFICES ASSUME NEW i \in 1..Len(sources')
                 PROVE  /\ sources'[i].doc \in 1..(seen + 1)
                        /\ \/ sources'[i].chars = found[sources'[i].doc]
                           \/ i = Len(sources') /\ remainingTokens' = 0
      BY <1>7 DEF SourcesOK
    <2>1. CASE i \in 1..Len(sources)
      <3>1. sources[i].doc \in 1..seen /\ sources[i].chars = found[sources[i].doc]
        BY <1>1, <2>1 DEF RagInv, SourcesOK
      <3> QED BY <1>0, <1>8, <2>1, <3>1
    <2>2. CASE i = Len(sources) + 1
      <3>1. sources'[i].doc = seen + 1 /\ sources'[i].chars = chars
        BY <1>8, <2>2
      <3>2. seen + 1 \in 1..(seen + 1)
        BY <1>0
      <3> QED BY <1>1, <1>8, <1>9, <2>2, <3>1, <3>2
    <2>3. i \in 1..(Len(sources) + 1)
      BY <1>8
    <2> QED BY <1>0, <2>1, <2>2, <2>3
  <1>11. taken' =< 4 * (tokenBudget - remainingTokens')
    <2>1. taken =< 4 * (tokenBudget - remainingTokens)
      BY DEF RagInv, BudgetSpentInOrder, CharsPerToken
    <2> QED BY <1>0, <1>4, <1>6, <1>7, <2>1
  <1>12. \A i, j \in 1..Len(sources') : i < j => sources'[i].doc < sources'[j].doc
    <2> SUFFICES ASSUME NEW i \in 1..Len(sources'), NEW j \in 1..Len(sources'), i < j
                 PROVE  sources'[i].doc < sources'[j].doc
      OBVIOUS
    <2>1. i \in 1..Len(sources) /\ sources[i].doc \in 1..seen
      BY <1>0, <1>8 DEF RagInv, SourcesOK
    <2>2. CASE j \in 1..Len(sources)
      BY <1>8, <2>1, <2>2 DEF RagInv, BudgetSpentInOrder
    <2>3. CASE j = Len(sources) + 1
      BY <1>0, <1>8, <2>1, <2>3
    <2>4. j \in 1..(Len(sources) + 1)
      BY <1>8
    <2>5. j \in 1..Len(sources) \/ j = Len(sources) + 1
      BY <1>0, <2>4
    <2> QED BY <2>2, <2>3, <2>5
  <1>13. ASSUME NEW d \in 1..seen', found[d] > 0
         PROVE  \E i \in 1..Len(sources') : sources'[i].doc = d
    <2>1. CASE d \in 1..seen
      <3>1. PICK i \in 1..Len(sources) : sources[i].doc = d
        BY <1>13, <2>1 DEF RagInv, BudgetSpentInOrder
      <3>2. i \in 1..Len(sources')
        BY <1>0, <1>8
      <3> QED BY <1>8, <3>1, <3>2
    <2>2. CASE d = seen + 1
      <3>1. Len(sources) + 1 \in 1..Len(sources')
        BY <1>0, <1>8
      <3> QED BY <1>8, <2>2, <3>1
    <2> QED BY <1>0, <1>7, <2>1, <2>2
  <1>14. BudgetSpentInOrder'
    BY <1>1, <1>7, <1>10, <1>11, <1>12, <1>13 DEF BudgetSpentInOrder, SourcesOK, CharsPerToken
  <1>15. /\ found' \in Seq(Nat) /\ tokenBudget' \in Nat /\ remainingTokens' =< tokenBudget'
         /\ seen' \in Nat /\ seen' =< Len(found') /\ taken' \in Nat
    BY <1>0, <1>1, <1>4, <1>6, <1>7
  <1> QED BY <1>1, <1>7, <1>8, <1>9, <1>10, <1>14, <1>15 DEF RagInv

LEMMA RagStep ==
    ASSUME RagInv, [RagNext]_ragState
    PROVE  RagInv'
  <1>0. /\ found \in Seq(Nat) /\ sources \in Seq(Source) /\ Len(found) \in Nat /\ Len(sources) \in Nat
        /\ seen \in Nat /\ seen =< Len(found)
    BY LenProperties DEF RagInv
  <1>1. CASE AssembleRagContext
    <2>1. seen = 0 /\ found = <<>> /\ sources = <<>>
      BY <1>1 DEF AssembleRagContext, RagInv
    <2>2. tokenBudget' \in Nat /\ remainingTokens' = tokenBudget' /\ taken = 0
      <3>1. MaxBudget \in Nat
        BY RagAssumption
      <3> QED BY <1>1, <3>1 DEF AssembleRagContext, RagInv
    <2>3. taken' =< CharsPerToken * (tokenBudget' - remainingTokens')
      <3>1. taken' = 0 /\ tokenBudget' \in Nat /\ remainingTokens' = tokenBudget'
        BY <1>1, <2>2 DEF AssembleRagContext
      <3>2. tokenBudget' - remainingTokens' = 0
        <4>1. remainingTokens' \in Nat
          BY <3>1
        <4>2. \A b, r \in Nat : r = b => b - r = 0
          OBVIOUS
        <4> QED BY <3>1, <4>1, <4>2
      <3>3. CharsPerToken * 0 = 0
        BY DEF CharsPerToken
      <3> QED BY <3>1, <3>2, <3>3
    <2>4. /\ seen' = 0 /\ found' = <<>> /\ sources' = <<>> /\ taken' = 0 /\ assembling' = "searching"
          /\ remainingTokens' \in Nat /\ remainingTokens' =< tokenBudget'
      BY <1>1, <2>1, <2>2 DEF AssembleRagContext
    <2>5. SourcesOK(sources, seen, remainingTokens)' /\ BudgetSpentInOrder'
      BY <2>3, <2>4 DEF SourcesOK, BudgetSpentInOrder
    <2>6. found' \in Seq(Nat) /\ sources' \in Seq(Source) /\ Len(found') = 0
      BY <2>4
    <2> QED BY <2>2, <2>4, <2>5, <2>6 DEF RagInv
  <1>2. CASE Search
    <2>1. seen = 0 /\ sources = <<>>
      BY <1>2 DEF Search, RagInv
    <2>2. found' \in Seq(Nat)
      BY <1>2, RagAssumption DEF Search, SeqOf
    <2>3. Len(found') \in Nat
      BY <2>2, LenProperties
    <2> QED BY <1>2, <2>1, <2>2, <2>3 DEF Search, RagInv, BudgetSpentInOrder, SourcesOK
  <1>3. CASE SearchFails
    <2>1. Len(found) = 0 /\ seen = 0
      BY <1>3 DEF SearchFails, RagInv
    <2> QED BY <1>3, <2>1 DEF SearchFails, RagInv, BudgetSpentInOrder, SourcesOK
  <1>4. CASE SkipEmpty
    <2>1. /\ assembling = "taking" /\ seen < Len(found) /\ found[seen + 1] = 0 /\ seen' = seen + 1
          /\ UNCHANGED <<found, tokenBudget, remainingTokens, sources, taken, assembling>>
      BY <1>4 DEF SkipEmpty, Looking, Current
    <2>2. \A d \in 1..seen' : d \in 1..seen \/ d = seen + 1
      BY <1>0, <2>1
    <2>3. \A d \in 1..seen : d \in 1..seen'
      BY <1>0, <2>1
    <2>4. seen' \in Nat /\ seen' =< Len(found)
      BY <1>0, <2>1
    <2>5. SourcesOK(sources, seen, remainingTokens)'
      BY <2>1, <2>3 DEF RagInv, SourcesOK
    <2>6. \A d \in 1..seen' : found[d] > 0 => \E i \in 1..Len(sources) : sources[i].doc = d
      BY <2>1, <2>2 DEF RagInv, BudgetSpentInOrder
    <2>7. BudgetSpentInOrder'
      BY <2>1, <2>6 DEF RagInv, BudgetSpentInOrder
    <2> QED BY <2>1, <2>4, <2>5, <2>7 DEF RagInv
  <1>5. CASE Assembled
    <2>1. remainingTokens > 0 => seen = Len(found)
      <3>1. seen < Len(found) => remainingTokens = 0
        BY <1>5 DEF Assembled, Looking
      <3> QED BY <1>0, <3>1
    <2> QED BY <1>5, <2>1 DEF Assembled, RagInv, BudgetSpentInOrder, SourcesOK
  <1>6. CASE UNCHANGED ragState
    BY <1>6 DEF ragState, RagInv, BudgetSpentInOrder, SourcesOK
  <1> QED BY <1>1, <1>2, <1>3, <1>4, <1>5, <1>6, TakeKeeps DEF RagNext

\* However many documents a search returns and however long they are, the
\* excerpts stay within the token budget, and nothing is cut or left out while
\* there is budget left.
THEOREM BudgetIsSpentInOrder == RagSpec => []BudgetSpentInOrder
  <1>1. RagInit => RagInv
    BY DEF RagInit, RagInv, BudgetSpentInOrder, SourcesOK, CharsPerToken
  <1>2. RagInv /\ [RagNext]_ragState => RagInv'
    BY RagStep
  <1>3. RagInv => BudgetSpentInOrder
    BY DEF RagInv
  <1> QED BY <1>1, <1>2, <1>3, PTL DEF RagSpec

-----------------------------------------------------------------------------
(* Chunks of a text                                                        *)

\* Every set of numbers has a least element, as < is well-founded on them; and
\* a greatest one if it has a bound.
LEMMA LeastNumber ==
    ASSUME NEW T \in SUBSET Nat, T # {}
    PROVE  Min(T) \in T /\ \A y \in T : Min(T) =< y
  <1> DEFINE less == OpToRel(<, Nat)
  <1>1. IsWellFoundedOn(less, Nat)
    BY NatLessThanWellFounded, Zenon
  <1>2. \A x, y \in Nat : y < x => <<y, x>> \in less
    BY DEF OpToRel
  <1> HIDE DEF less
  <1>3. PICK x \in T : \A y \in T : ~(<<y, x>> \in less)
    BY <1>1, WFMin
  <1>4. ASSUME NEW y \in T PROVE x =< y
    <2>1. x \in Nat /\ y \in Nat /\ ~(y < x)
      BY <1>2, <1>3
    <2> QED BY <2>1
  <1> QED BY <1>4 DEF Min

LEMMA GreatestNumber ==
    ASSUME NEW n \in Nat, NEW T \in SUBSET (0..n), T # {}
    PROVE  Max(T) \in T /\ \A y \in T : y =< Max(T)
  <1> DEFINE far == {n - x : x \in T}
  <1>1. far \in SUBSET Nat /\ far # {}
    <2>1. \A x \in T : n - x \in Nat
      OBVIOUS
    <2>2. far \subseteq Nat
      BY <2>1
    <2>3. PICK x \in T : TRUE
      OBVIOUS
    <2>4. n - x \in far
      OBVIOUS
    <2> QED BY <2>2, <2>4
  <1>2. Min(far) \in far /\ \A y \in far : Min(far) =< y
    <2> HIDE DEF far
    <2> QED BY <1>1, LeastNumber
  <1>3. PICK x \in T : Min(far) = n - x
    BY <1>2
  <1>4. ASSUME NEW y \in T PROVE y =< x
    <2>1. n - x =< n - y
      BY <1>2, <1>3
    <2> QED BY <2>1
  <1> QED BY <1>4 DEF Max

-----------------------------------------------------------------------------
\* s is the n positions from a on.
Stretch(s, a, n) ==
    /\ s \in Seq(Nat) /\ a \in Nat /\ n \in Nat
    /\ Len(s) = n
    /\ \A i \in 1..n : s[i] = a + i - 1

LEMMA MadeStretch ==
    ASSUME NEW a \in Nat, NEW n \in Nat
    PROVE  Stretch([i \in 1..n |-> a + i - 1], a, n)
  <1>1. \A i \in 1..n : a + i - 1 \in Nat
    OBVIOUS
  <1> QED BY <1>1 DEF Stretch

LEMMA PartOfStretch ==
    ASSUME NEW s, NEW a, NEW n, Stretch(s, a, n),
           NEW p \in Nat \ {0}, NEW q \in Nat, q =< n, p =< q + 1
    PROVE  Stretch(SubSeq(s, p, q), a + p - 1, q - p + 1)
  <1>1. \A i \in p..q : s[i] \in Nat
    BY DEF Stretch
  <1>2. /\ SubSeq(s, p, q) \in Seq(Nat)
        /\ Len(SubSeq(s, p, q)) = IF p =< q THEN q - p + 1 ELSE 0
        /\ \A i \in 1..(q - p + 1) : SubSeq(s, p, q)[i] = s[p + i - 1]
    BY <1>1, SubSeqProperties
  <1>3. a \in Nat /\ n \in Nat /\ a + p - 1 \in Nat /\ q - p + 1 \in Nat
    BY DEF Stretch
  <1>4. Len(SubSeq(s, p, q)) = q - p + 1
    BY <1>2, <1>3
  <1>5. ASSUME NEW i \in 1..(q - p + 1) PROVE SubSeq(s, p, q)[i] = a + p - 1 + i - 1
    <2>1. p + i - 1 \in 1..n /\ a + (p + i - 1) - 1 = a + p - 1 + i - 1
      BY <1>3
    <2>2. s[p + i - 1] = a + (p + i - 1) - 1
      BY <2>1 DEF Stretch
    <2> QED BY <1>2, <2>1, <2>2
  <1> QED BY <1>2, <1>3, <1>4, <1>5 DEF Stretch

\* Two stretches and the position between them.
LEMMA JoinedStretches ==
    ASSUME NEW s, NEW a, NEW n, Stretch(s, a, n), NEW b, b = a + n,
           NEW t, NEW m, Stretch(t, b + 1, m)
    PROVE  Stretch(s \o <<b>> \o t, a, n + 1 + m)
  <1>1. s \in Seq(Nat) /\ t \in Seq(Nat) /\ a \in Nat /\ n \in Nat /\ m \in Nat /\ b \in Nat
        /\ Len(s) = n /\ Len(t) = m
    BY DEF Stretch
  <1> DEFINE h == s \o <<b>>
             r == h \o t
  <1>2. /\ h \in Seq(Nat) /\ Len(h) = n + 1
        /\ \A i \in 1..(n + 1) : h[i] = IF i <= n THEN s[i] ELSE b
    BY <1>1
  <1> HIDE DEF h
  <1>3. /\ r \in Seq(Nat) /\ Len(r) = n + 1 + m
        /\ \A i \in 1..(n + 1 + m) : r[i] = IF i <= n + 1 THEN h[i] ELSE t[i - (n + 1)]
    <2>1. h \in Seq(Nat) /\ t \in Seq(Nat)
      BY <1>1, <1>2
    <2>2. /\ h \o t \in Seq(Nat) /\ Len(h \o t) = Len(h) + Len(t)
          /\ \A i \in 1..(Len(h) + Len(t)) :
                (h \o t)[i] = IF i <= Len(h) THEN h[i] ELSE t[i - Len(h)]
      BY <2>1, ConcatProperties, Zenon
    <2>3. /\ r \in Seq(Nat) /\ Len(r) = Len(h) + Len(t)
          /\ \A i \in 1..(Len(h) + Len(t)) : r[i] = IF i <= Len(h) THEN h[i] ELSE t[i - Len(h)]
      BY <2>2
    <2> HIDE DEF r
    <2> QED BY <1>1, <1>2, <2>3
  <1> HIDE DEF r
  <1>4. ASSUME NEW i \in 1..(n + 1 + m) PROVE r[i] = a + i - 1
    <2>1. CASE i <= n
      <3>1. i \in 1..n /\ i <= n + 1
        BY <1>1, <2>1
      <3> QED BY <1>2, <1>3, <2>1, <3>1 DEF Stretch
    <2>2. CASE i = n + 1
      <3>1. r[i] = b /\ a + i - 1 = b
        BY <1>1, <1>2, <1>3, <2>2
      <3> QED BY <3>1
    <2>3. CASE i > n + 1
      <3>1. i - (n + 1) \in 1..m /\ ~(i <= n + 1)
        BY <1>1, <2>3
      <3>2. r[i] = b + 1 + (i - (n + 1)) - 1
        BY <1>3, <3>1 DEF Stretch
      <3> QED BY <1>1, <3>2
    <2> QED BY <1>1, <2>1, <2>2, <2>3
  <1>5. n + 1 + m \in Nat
    BY <1>1
  <1>6. Stretch(r, a, n + 1 + m)
    BY <1>1, <1>3, <1>4, <1>5 DEF Stretch
  <1> QED BY <1>6 DEF r, h

LEMMA PositionsOfStretch ==
    ASSUME NEW s, NEW a, NEW n, Stretch(s, a, n), NEW p \in Nat, a =< p, p < a + n
    PROVE  p \in Positions(s)
  <1>1. p - a + 1 \in 1..Len(s) /\ a + (p - a + 1) - 1 = p
    BY DEF Stretch
  <1>2. s[p - a + 1] = p
    BY <1>1 DEF Stretch
  <1> QED BY <1>1, <1>2 DEF Positions

LEMMA PositionsInStretch ==
    ASSUME NEW s, NEW a, NEW n, Stretch(s, a, n), NEW p \in Positions(s)
    PROVE  p \in Nat /\ a =< p /\ p < a + n
  BY DEF Positions, Stretch

-----------------------------------------------------------------------------
DocOK ==
    /\ doc.length \in Nat \ {0} /\ doc.blanks \in SUBSET Nat /\ doc.breaks \subseteq doc.blanks
    /\ \A b \in doc.blanks : 2 =< b /\ b < doc.length /\ (b + 1) \notin doc.blanks

OptsOK == opts.size \in Nat \ {0} /\ opts.overlap \in Nat

\* What may be in a buffer of n characters, or in a chunk.
Room(n) ==
    opts.overlap > 0 => \/ n =< opts.size
                        \/ \E l \in SentenceLengths : n =< opts.overlap + 1 + l

LEMMA LessRoom ==
    ASSUME OptsOK, NEW n \in Nat, Room(n), NEW k \in Nat, k =< n
    PROVE  Room(k)
  <1>1. SentenceLengths \subseteq Nat
    BY DEF SentenceLengths
  <1> QED BY <1>1 DEF OptsOK, Room

\* Where a sentence may begin: after a break, which comes after no other blank.
MayBegin(n) ==
    /\ n \in Nat \ {0}
    /\ n =< doc.length => n = 1 \/ (n - 1) \in doc.breaks
    /\ (n - 2) \notin doc.blanks

LEMMA SentenceIs ==
    ASSUME DocOK, MayBegin(at), at =< doc.length
    PROVE  /\ SentenceEnd \in Nat /\ at =< SentenceEnd /\ SentenceEnd =< doc.length
           /\ Stretch(Sentence, at, SentenceEnd - at + 1)
           /\ SentenceEnd - at + 1 \in SentenceLengths
           /\ SentenceEnd + 1 \in doc.blanks \/ SentenceEnd = doc.length
           /\ MayBegin(SentenceEnd + 2)
  <1> DEFINE later == {b \in doc.breaks : b > at}
             last == SentenceEnd
             m == last - at + 1
  <1>0. at \in Nat \ {0} /\ doc.length \in Nat \ {0} /\ doc.breaks \in SUBSET Nat
        /\ \A b \in doc.breaks : b \in doc.blanks /\ 2 =< b /\ b < doc.length
    BY DEF DocOK, MayBegin
  <1>1. at \notin doc.blanks
    <2>1. CASE at = 1
      BY <2>1 DEF DocOK
    <2>2. CASE at # 1
      <3>1. at - 1 \in doc.blanks /\ at - 1 + 1 = at
        BY <1>0, <2>2 DEF MayBegin
      <3> QED BY <3>1 DEF DocOK
    <2> QED BY <2>1, <2>2
  <1>2. /\ last \in Nat /\ at =< last /\ last =< doc.length
        /\ last + 1 \in doc.breaks \/ last = doc.length
        /\ \A k \in doc.breaks : k =< at \/ k >= last + 1
    <2>1. CASE later = {}
      <3>1. last = doc.length
        BY <2>1 DEF SentenceEnd
      <3>2. \A k \in doc.breaks : k =< at
        BY <1>0, <2>1
      <3> QED BY <1>0, <3>1, <3>2
    <2>2. CASE later # {}
      <3>1. Min(later) \in later /\ \A k \in later : Min(later) =< k
        <4>1. later \in SUBSET Nat
          BY <1>0
        <4> HIDE DEF later
        <4> QED BY <2>2, <4>1, LeastNumber
      <3>2. last = Min(later) - 1
        BY <2>2 DEF SentenceEnd
      <3>3. Min(later) \in Nat /\ Min(later) > at /\ Min(later) \in doc.breaks /\ Min(later) < doc.length
        BY <1>0, <3>1
      <3>4. \A k \in doc.breaks : k =< at \/ k >= Min(later)
        BY <1>0, <3>1
      <3> HIDE DEF later, last
      <3> QED BY <1>0, <3>2, <3>3, <3>4
    <2> QED BY <2>1, <2>2
  <1>3. Sentence = [i \in 1..m |-> at + i - 1]
    BY DEF Sentence
  <1> HIDE DEF last
  <1>4. m \in Nat /\ m \in 0..doc.length
    BY <1>0, <1>2
  <1>5. Stretch(Sentence, at, m)
    <2> HIDE DEF m
    <2> QED BY <1>0, <1>3, <1>4, MadeStretch
  <1>6. m \in SentenceLengths
    <2>1. \A k \in doc.breaks : k <= at - 1 \/ k >= last + 1
      <3> TAKE k \in doc.breaks
      <3>1. k # at /\ k \in Nat
        BY <1>0, <1>1
      <3> QED BY <1>0, <1>2, <3>1
    <2>2. at - 1 \in {0} \cup doc.breaks
      BY <1>0 DEF MayBegin
    <2>3. last + 1 \in doc.breaks \cup {doc.length + 1}
      BY <1>2
    <2>4. m = (last + 1) - (at - 1) - 1 /\ at - 1 < last + 1
      BY <1>0, <1>2
    <2> QED BY <1>4, <2>1, <2>2, <2>3, <2>4 DEF SentenceLengths
  <1>7. MayBegin(last + 2)
    <2>1. last + 2 \in Nat \ {0} /\ last + 2 - 1 = last + 1 /\ last + 2 - 2 = last
      BY <1>2
    <2>2. last + 2 =< doc.length => last + 1 \in doc.breaks
      BY <1>0, <1>2
    <2>3. last \notin doc.blanks
      <3>1. CASE last = doc.length
        BY <1>0, <3>1 DEF DocOK
      <3>2. CASE last + 1 \in doc.breaks
        BY <1>0, <3>2 DEF DocOK
      <3> QED BY <1>2, <3>1, <3>2
    <2>4. PICK nxt \in Nat \ {0} : nxt = last + 2 /\ nxt - 1 = last + 1 /\ nxt - 2 = last
      BY <1>2, <2>1
    <2>5. nxt =< doc.length => (nxt - 1) \in doc.breaks
      BY <2>2, <2>4
    <2>6. (nxt - 2) \notin doc.blanks
      BY <2>3, <2>4
    <2>7. MayBegin(nxt)
      BY <2>4, <2>5, <2>6 DEF MayBegin
    <2> QED BY <2>4, <2>7
  <1> QED BY <1>0, <1>2, <1>5, <1>6, <1>7 DEF last

\* Blanks go from the front only, as the end of a sentence is none.
LEMMA TrimmedStretch ==
    ASSUME DocOK, NEW s, NEW a, NEW n, Stretch(s, a, n), n >= 1, (a + n - 1) \notin doc.blanks
    PROVE  \E b, k \in Nat : /\ Stretch(Trimmed(s), b, k)
                             /\ a =< b /\ b + k = a + n /\ k >= 1 /\ k =< n
                             /\ \A p \in Nat : a =< p /\ p < b => p \in doc.blanks
  <1> DEFINE solid == {i \in 1..Len(s) : s[i] \notin doc.blanks}
             m == Min(solid)
  <1>0. a \in Nat /\ n \in Nat /\ Len(s) = n /\ \A i \in 1..n : s[i] = a + i - 1
    BY DEF Stretch
  <1>1. n \in solid
    BY <1>0
  <1>2. solid \in SUBSET Nat /\ solid \in SUBSET (0..n) /\ solid # {}
    BY <1>0, <1>1
  <1>3. \A i \in solid : i \in 1..n
    BY <1>0
  <1>3a. \A i \in 1..n : i \notin solid => a + i - 1 \in doc.blanks
    BY <1>0
  <1>4. m \in solid /\ \A i \in solid : m =< i
    <2> HIDE DEF solid
    <2> QED BY <1>2, LeastNumber
  <1>5. Max(solid) = n
    <2> HIDE DEF solid
    <2>1. Max(solid) \in solid /\ \A i \in solid : i =< Max(solid)
      BY <1>0, <1>2, GreatestNumber
    <2>2. Max(solid) \in 1..n /\ n =< Max(solid)
      BY <1>1, <1>3, <2>1
    <2> QED BY <1>0, <2>2
  <1>6. Trimmed(s) = SubSeq(s, m, n)
    BY <1>2, <1>5 DEF Trimmed
  <1> HIDE DEF solid, m
  <1>7. m \in 1..n
    BY <1>3, <1>4
  <1>8. Stretch(Trimmed(s), a + m - 1, n - m + 1)
    <2>1. m \in Nat \ {0} /\ n =< n /\ m =< n + 1
      BY <1>0, <1>7
    <2> QED BY <1>0, <1>6, <2>1, PartOfStretch
  <1>9. ASSUME NEW p \in Nat, a =< p, p < a + m - 1 PROVE p \in doc.blanks
    <2>1. p - a + 1 \in 1..n /\ ~(m =< p - a + 1) /\ a + (p - a + 1) - 1 = p
      BY <1>0, <1>7, <1>9
    <2> QED BY <1>3a, <1>4, <2>1
  <1>10. /\ a + m - 1 \in Nat /\ n - m + 1 \in Nat /\ a =< a + m - 1
         /\ a + m - 1 + (n - m + 1) = a + n /\ n - m + 1 >= 1 /\ n - m + 1 =< n
    BY <1>0, <1>7
  <1> QED BY <1>8, <1>9, <1>10

LEMMA LastOfStretch ==
    ASSUME OptsOK, NEW s, NEW a, NEW n, Stretch(s, a, n), n >= 1
    PROVE  \E b, k \in Nat : /\ Stretch(LastOf(s), b, k)
                             /\ a =< b /\ b + k = a + n /\ k >= 1 /\ k =< n
                             /\ opts.overlap > 0 => k =< opts.overlap
  <1>0. a \in Nat /\ n \in Nat /\ Len(s) = n /\ opts.overlap \in Nat
    BY DEF Stretch, OptsOK
  <1>1. CASE opts.overlap \in 1..n
    <2> DEFINE p == n - opts.overlap + 1
    <2>1. p \in Nat \ {0} /\ n =< n /\ p =< n + 1 /\ n - p + 1 = opts.overlap
      BY <1>0, <1>1
    <2>2. LastOf(s) = SubSeq(s, p, n)
      BY <1>0, <1>1 DEF LastOf
    <2> HIDE DEF p
    <2>3. Stretch(LastOf(s), a + p - 1, n - p + 1)
      BY <1>0, <2>1, <2>2, PartOfStretch
    <2>4. /\ a + p - 1 \in Nat /\ n - p + 1 \in Nat /\ a =< a + p - 1
          /\ a + p - 1 + (n - p + 1) = a + n /\ n - p + 1 >= 1 /\ n - p + 1 =< n
          /\ n - p + 1 =< opts.overlap
      BY <1>0, <1>1, <2>1
    <2> QED BY <2>3, <2>4
  <1>2. CASE opts.overlap \notin 1..n
    <2>1. LastOf(s) = s
      BY <1>0, <1>2 DEF LastOf
    <2>2. opts.overlap > 0 => n =< opts.overlap
      BY <1>0, <1>2
    <2> QED BY <1>0, <2>1, <2>2
  <1> QED BY <1>1, <1>2

-----------------------------------------------------------------------------
Piece == [text: Seq(Nat), start: Nat, end: Nat]

PieceOK(chunk) ==
    /\ chunk \in Piece
    /\ \E a, n \in Nat : /\ Stretch(chunk.text, a, n) /\ n >= 1 /\ Room(n)
                         /\ chunk.start < a /\ chunk.end = chunk.start + n

PiecesOK(cut) == \A i \in 1..Len(cut) : PieceOK(cut[i])

\* The buffer ends before the blank that precedes the next sentence.
BufferOK(chars, start, next) ==
    /\ start \in Nat
    /\ IF chars = <<>> THEN start < next
       ELSE \E a, n \in Nat : /\ Stretch(chars, a, n) /\ n >= 1 /\ Room(n)
                              /\ start < a /\ a + n = next - 1

\* Every character before the next sentence is in a chunk or in the buffer.
Reached(cut, chars, next) ==
    \A p \in 1..doc.length :
       p < next /\ p \notin doc.blanks =>
          (\E i \in 1..Len(cut) : p \in Positions(cut[i].text)) \/ p \in Positions(chars)

ChunkInv ==
    /\ DocOK /\ OptsOK
    /\ chunking \in {"idle", "going", "done"}
    /\ pieces \in Seq(Piece) /\ PiecesOK(pieces)
    /\ chunking = "idle" => at = 1 /\ buffer = <<>> /\ startIdx = 0 /\ pieces = <<>>
    /\ chunking = "going" =>
          MayBegin(at) /\ BufferOK(buffer, startIdx, at) /\ Reached(pieces, buffer, at)
    /\ chunking = "done" => Reached(pieces, <<>>, doc.length + 1)

LEMMA ChunkInitOK == ChunkInit => ChunkInv
  BY DEF ChunkInit, NoText, ChunkInv, DocOK, OptsOK, PiecesOK

\* What is kept of a text carries over a step that leaves text and options.
LEMMA PiecesCarry ==
    ASSUME UNCHANGED <<doc, opts>>, PiecesOK(pieces')
    PROVE  PiecesOK(pieces)'
  <1>1. \A n : Room(n)' <=> Room(n)
    BY DEF Room, SentenceLengths
  <1> QED BY <1>1 DEF PiecesOK, PieceOK

LEMMA GoingKeeps ==
    ASSUME ChunkInv, UNCHANGED <<doc, opts>>, chunking' = "going",
           pieces' \in Seq(Piece), PiecesOK(pieces'),
           MayBegin(at'), BufferOK(buffer', startIdx', at'), Reached(pieces', buffer', at')
    PROVE  ChunkInv'
  <1>1. DocOK' /\ OptsOK'
    BY DEF ChunkInv, DocOK, OptsOK
  <1>2. PiecesOK(pieces)'
    BY PiecesCarry
  <1>3. MayBegin(at)'
    BY DEF MayBegin
  <1>4. BufferOK(buffer, startIdx, at)'
    <2>1. \A n : Room(n)' <=> Room(n)
      BY DEF Room, SentenceLengths
    <2> QED BY <2>1 DEF BufferOK
  <1>5. Reached(pieces, buffer, at)'
    BY DEF Reached
  <1> QED BY <1>1, <1>2, <1>3, <1>4, <1>5 DEF ChunkInv

LEMMA DoneKeeps ==
    ASSUME ChunkInv, UNCHANGED <<doc, opts>>, chunking' = "done",
           pieces' \in Seq(Piece), PiecesOK(pieces'), Reached(pieces', <<>>, doc.length + 1)
    PROVE  ChunkInv'
  <1>1. DocOK' /\ OptsOK'
    BY DEF ChunkInv, DocOK, OptsOK
  <1>2. PiecesOK(pieces)'
    BY PiecesCarry
  <1>3. Reached(pieces, <<>>, doc.length + 1)'
    BY DEF Reached
  <1> QED BY <1>1, <1>2, <1>3 DEF ChunkInv

\* One more chunk, of the buffer or of a sentence, reported where it begins or before.
LEMMA OneMore ==
    ASSUME ChunkInv, startIdx \in Nat,
           NEW s, NEW a, NEW n, Stretch(s, a, n), n >= 1, Room(n), startIdx < a
    PROVE  LET cut == Append(pieces, Chunk(s)) IN
           /\ cut \in Seq(Piece) /\ PiecesOK(cut) /\ Len(cut) = Len(pieces) + 1
           /\ \A i \in 1..Len(pieces) : cut[i] = pieces[i]
           /\ cut[Len(cut)].text = s
  <1> DEFINE cut == Append(pieces, Chunk(s))
  <1>1. /\ Chunk(s) \in Piece /\ Chunk(s).text = s
        /\ Chunk(s).start = startIdx /\ Chunk(s).end = startIdx + n
    BY DEF Chunk, Piece, Stretch
  <1>2. PieceOK(Chunk(s))
    <2>1. a \in Nat /\ n \in Nat
      BY DEF Stretch
    <2> QED BY <1>1, <2>1 DEF PieceOK
  <1>3. pieces \in Seq(Piece) /\ PiecesOK(pieces)
    BY DEF ChunkInv
  <1>4. /\ cut \in Seq(Piece) /\ Len(cut) = Len(pieces) + 1
        /\ \A i \in 1..Len(pieces) : cut[i] = pieces[i]
        /\ cut[Len(cut)] = Chunk(s)
    <2> HIDE DEF Piece
    <2> QED BY <1>1, <1>3
  <1>5. Len(pieces) \in Nat
    BY <1>3
  <1> HIDE DEF cut
  <1>6. PiecesOK(cut)
    <2> SUFFICES ASSUME NEW i \in 1..Len(cut) PROVE PieceOK(cut[i])
      BY DEF PiecesOK
    <2>1. i \in 1..Len(pieces) \/ i = Len(cut)
      BY <1>4, <1>5
    <2> QED BY <1>2, <1>3, <1>4, <2>1 DEF PiecesOK
  <1> QED BY <1>1, <1>4, <1>6 DEF cut

-----------------------------------------------------------------------------
LEMMA ChunkTextKeeps ==
    ASSUME ChunkInv, ChunkText
    PROVE  ChunkInv'
  <1>1. at' = 1 /\ buffer' = <<>> /\ startIdx' = 0 /\ pieces' = <<>> /\ chunking' = "going"
    BY DEF ChunkInv, ChunkText
  <1>2. DocOK'
    <2>1. /\ doc'.length \in 1..MaxLength /\ doc'.blanks \in SUBSET (2..(MaxLength - 1))
          /\ doc'.breaks \subseteq doc'.blanks
          /\ \A b \in doc'.blanks : b < doc'.length /\ (b + 1) \notin doc'.blanks
      BY DEF ChunkText, Texts
    <2> QED BY <2>1, ChunkAssumption DEF DocOK
  <1>3. OptsOK'
    BY ChunkAssumption DEF OptsOK, ChunkText
  <1>4. MayBegin(at)'
    <2>1. \A b \in doc.blanks' : b >= 2
      BY <1>2 DEF DocOK
    <2> QED BY <1>1, <2>1 DEF MayBegin
  <1>5. BufferOK(buffer, startIdx, at)'
    BY <1>1 DEF BufferOK
  <1>6. Reached(pieces, buffer, at)'
    BY <1>1 DEF Reached
  <1> QED BY <1>1, <1>2, <1>3, <1>4, <1>5, <1>6 DEF ChunkInv, PiecesOK

LEMMA ShortKeeps ==
    ASSUME ChunkInv, Short
    PROVE  ChunkInv'
  <1> DEFINE whole == [i \in 1..doc.length |-> i]
             cut == Append(pieces, Chunk(whole))
  <1>1. DocOK /\ OptsOK /\ at = 1 /\ doc.length =< opts.size
        /\ BufferOK(buffer, startIdx, at)
    BY DEF ChunkInv, Short, Remaining
  <1>2. doc.length \in Nat \ {0} /\ opts.size \in Nat
    BY <1>1 DEF DocOK, OptsOK
  <1>3. Stretch(whole, 1, doc.length)
    BY <1>2 DEF Stretch
  <1>4. startIdx \in Nat /\ startIdx < 1
    <2>1. CASE buffer = <<>>
      BY <1>1, <2>1 DEF BufferOK
    <2>2. CASE buffer # <<>>
      <3>1. PICK a, n \in Nat : n >= 1 /\ startIdx < a /\ a + n = at - 1
        BY <1>1, <2>2 DEF BufferOK
      <3> QED BY <1>1, <3>1
    <2> QED BY <2>1, <2>2
  <1>5. Room(doc.length)
    BY <1>1 DEF Room
  <1> HIDE DEF whole
  <1>6. PieceOK(Chunk(whole)) /\ Chunk(whole) \in Piece /\ Chunk(whole).text = whole
    <2>1. /\ Chunk(whole) \in Piece /\ Chunk(whole).text = whole
          /\ Chunk(whole).start = startIdx /\ Chunk(whole).end = startIdx + doc.length
      BY <1>2, <1>3, <1>4 DEF Chunk, Piece, Stretch
    <2> QED BY <1>2, <1>3, <1>4, <1>5, <2>1 DEF PieceOK
  <1>7. pieces' = <<Chunk(whole)>> /\ chunking' = "done" /\ UNCHANGED <<doc, opts>>
    BY DEF Short, whole
  <1>8. pieces' \in Seq(Piece) /\ PiecesOK(pieces') /\ Len(pieces') = 1 /\ pieces'[1].text = whole
    <2> HIDE DEF Piece
    <2> QED BY <1>6, <1>7 DEF PiecesOK
  <1>9. Reached(pieces', <<>>, doc.length + 1)
    <2>1. ASSUME NEW p \in 1..doc.length PROVE p \in Positions(pieces'[1].text)
      <3>1. p \in Nat /\ 1 =< p /\ p < 1 + doc.length
        BY <1>2
      <3> QED BY <1>3, <1>8, <3>1, PositionsOfStretch
    <2>2. 1 \in 1..Len(pieces')
      BY <1>8
    <2> QED BY <2>1, <2>2 DEF Reached
  <1> QED BY <1>7, <1>8, <1>9, DoneKeeps

\* What is reached by the sentence taken up and its blank.
LEMMA NextReached ==
    ASSUME DocOK, MayBegin(at), at =< doc.length, Reached(pieces, buffer, at),
           NEW cut, NEW chars,
           \A p \in 1..doc.length : p \in Positions(buffer) /\ p \notin doc.blanks =>
              (\E i \in 1..Len(cut) : p \in Positions(cut[i].text)) \/ p \in Positions(chars),
           \A p \in Nat : at =< p /\ p =< SentenceEnd =>
              (\E i \in 1..Len(cut) : p \in Positions(cut[i].text)) \/ p \in Positions(chars),
           \A i \in 1..Len(pieces) : \E j \in 1..Len(cut) : cut[j] = pieces[i]
    PROVE  Reached(cut, chars, SentenceEnd + 2)
  <1>1. /\ SentenceEnd \in Nat /\ at \in Nat /\ doc.length \in Nat
        /\ SentenceEnd + 1 \in doc.blanks \/ SentenceEnd = doc.length
    BY SentenceIs DEF MayBegin, DocOK
  <1> SUFFICES ASSUME NEW p \in 1..doc.length, p < SentenceEnd + 2, p \notin doc.blanks
               PROVE  (\E i \in 1..Len(cut) : p \in Positions(cut[i].text)) \/ p \in Positions(chars)
    BY DEF Reached
  <1>2. CASE p < at
    <2>1. (\E i \in 1..Len(pieces) : p \in Positions(pieces[i].text)) \/ p \in Positions(buffer)
      BY <1>2 DEF Reached
    <2> QED BY <2>1
  <1>3. CASE at =< p
    <2>1. p # SentenceEnd + 1
      BY <1>1
    <2>2. p \in Nat /\ p =< SentenceEnd
      BY <1>1, <2>1
    <2> QED BY <1>3, <2>2
  <1> QED BY <1>1, <1>2, <1>3

LEMMA ExtendKeeps ==
    ASSUME ChunkInv, Extend
    PROVE  ChunkInv'
  <1>1. DocOK /\ OptsOK /\ MayBegin(at) /\ BufferOK(buffer, startIdx, at) /\ Reached(pieces, buffer, at)
        /\ pieces \in Seq(Piece) /\ PiecesOK(pieces) /\ at =< doc.length
    BY DEF ChunkInv, Extend, Remaining
  <1>2. /\ UNCHANGED <<doc, opts, startIdx, pieces>> /\ chunking' = "going"
        /\ at' = SentenceEnd + 2 /\ Len(buffer) + Len(Sentence) + 1 <= opts.size
        /\ buffer' = IF buffer = <<>> THEN Sentence ELSE buffer \o <<at - 1>> \o Sentence
    BY DEF Extend, Remaining, NextSentence, Fits
  <1>3. PICK last \in Nat : last = SentenceEnd
    BY <1>1, SentenceIs
  <1>4. PICK m \in Nat : m = last - at + 1 /\ m >= 1
    BY <1>1, <1>3, SentenceIs DEF MayBegin
  <1>5. Stretch(Sentence, at, m) /\ MayBegin(last + 2) /\ at \in Nat /\ startIdx \in Nat
        /\ Len(Sentence) = m /\ opts.size \in Nat
    BY <1>1, <1>3, <1>4, SentenceIs DEF Stretch, BufferOK, OptsOK
  <1>6. \A k \in Nat : k =< opts.size => Room(k)
    BY DEF Room
  <1>7. \E a, n \in Nat : /\ Stretch(buffer', a, n) /\ n >= 1 /\ Room(n)
                          /\ startIdx < a /\ a + n = last + 1
                          /\ a =< at /\ \A p \in Positions(buffer) : a =< p /\ p < at
    <2>1. CASE buffer = <<>>
      <3>1. m =< opts.size /\ startIdx < at /\ at + m = last + 1
        BY <1>1, <1>2, <1>4, <1>5, <2>1 DEF BufferOK
      <3>2. Positions(buffer) = {}
        BY <2>1 DEF Positions
      <3> QED BY <1>2, <1>4, <1>5, <1>6, <2>1, <3>1, <3>2
    <2>2. CASE buffer # <<>>
      <3>1. PICK a, n \in Nat : Stretch(buffer, a, n) /\ n >= 1 /\ startIdx < a /\ a + n = at - 1
        BY <1>1, <2>2 DEF BufferOK
      <3>2. PICK b \in Nat : b = at - 1 /\ b + 1 = at /\ b = a + n
        BY <1>5, <3>1
      <3>3. Stretch(buffer', a, n + 1 + m)
        BY <1>2, <1>5, <2>2, <3>1, <3>2, JoinedStretches
      <3>4. Len(buffer) = n
        BY <3>1 DEF Stretch
      <3>5. /\ n + 1 + m \in Nat /\ n + 1 + m >= 1 /\ n + 1 + m =< opts.size
            /\ a + (n + 1 + m) = last + 1 /\ a =< at
        BY <1>2, <1>4, <1>5, <3>1, <3>2, <3>4
      <3>6. ASSUME NEW p \in Positions(buffer) PROVE a =< p /\ p < at
        <4>1. p \in Nat /\ a =< p /\ p < a + n
          BY <3>1, PositionsInStretch
        <4> QED BY <1>5, <3>2, <4>1
      <3> QED BY <1>6, <3>1, <3>3, <3>5, <3>6
    <2> QED BY <2>1, <2>2
  <1>8. PICK a, n \in Nat : /\ Stretch(buffer', a, n) /\ n >= 1 /\ Room(n)
                            /\ startIdx < a /\ a + n = last + 1
                            /\ a =< at /\ \A p \in Positions(buffer) : a =< p /\ p < at
    BY <1>7
  <1>9. BufferOK(buffer', startIdx', at')
    <2>1. buffer' # <<>>
      BY <1>8 DEF Stretch
    <2>2. at' = last + 2 /\ last + 2 - 1 = last + 1
      BY <1>2, <1>3
    <2>3. a + n = at' - 1
      BY <1>8, <2>2
    <2> QED BY <1>2, <1>5, <1>8, <2>1, <2>3 DEF BufferOK
  <1>10. Reached(pieces', buffer', at')
    <2>1. ASSUME NEW p \in Nat, a =< p, p =< last PROVE p \in Positions(buffer')
      <3>1. p < a + n
        BY <1>8, <2>1
      <3> QED BY <1>8, <2>1, <3>1, PositionsOfStretch
    <2>2. ASSUME NEW p \in 1..doc.length, p \in Positions(buffer) PROVE p \in Positions(buffer')
      <3>1. p \in Nat /\ a =< p /\ p =< last
        BY <1>4, <1>5, <1>8, <2>2
      <3> QED BY <2>1, <3>1
    <2>3. ASSUME NEW p \in Nat, at =< p, p =< last PROVE p \in Positions(buffer')
      <3>1. a =< p
        BY <1>5, <1>8, <2>3
      <3> QED BY <2>1, <2>3, <3>1
    <2>4. Reached(pieces, buffer', SentenceEnd + 2)
      BY <1>1, <1>3, <2>2, <2>3, NextReached
    <2> QED BY <1>2, <2>4
  <1>11. MayBegin(at')
    BY <1>2, <1>3, <1>5
  <1>12. pieces' \in Seq(Piece) /\ PiecesOK(pieces')
    BY <1>1, <1>2
  <1> QED BY <1>2, <1>9, <1>10, <1>11, <1>12, GoingKeeps

LEMMA FlushKeeps ==
    ASSUME ChunkInv, Flush
    PROVE  ChunkInv'
  <1> DEFINE text == Trimmed(buffer)
             rest == LastOf(text)
             cut == Append(pieces, Chunk(text))
  <1>1. DocOK /\ OptsOK /\ MayBegin(at) /\ BufferOK(buffer, startIdx, at) /\ Reached(pieces, buffer, at)
        /\ pieces \in Seq(Piece) /\ at =< doc.length /\ buffer # <<>>
    BY DEF ChunkInv, Flush, Remaining
  <1>2. /\ UNCHANGED <<doc, opts>> /\ chunking' = "going"
        /\ at' = SentenceEnd + 2 /\ pieces' = cut
        /\ buffer' = rest \o <<at - 1>> \o Sentence
        /\ startIdx' = Chunk(text).end - Len(rest) /\ Chunk(text).end = startIdx + Len(text)
    <2>1. Chunk(text).text = text /\ Chunk(text).end = startIdx + Len(text)
      BY DEF Chunk
    <2> HIDE DEF text
    <2>2. /\ Remaining /\ NextSentence /\ pieces' = Append(pieces, Chunk(text))
          /\ buffer' = LastOf(Chunk(text).text) \o <<at - 1>> \o Sentence
          /\ startIdx' = Chunk(text).end - Len(LastOf(Chunk(text).text))
      BY DEF Flush, text
    <2>3. UNCHANGED <<doc, opts>> /\ chunking' = "going" /\ at' = SentenceEnd + 2
      BY <2>2 DEF Remaining, NextSentence
    <2>4. pieces' = cut /\ buffer' = rest \o <<at - 1>> \o Sentence
      BY <2>1, <2>2
    <2>5. startIdx' = Chunk(text).end - Len(rest) /\ Chunk(text).end = startIdx + Len(text)
      BY <2>1, <2>2
    <2> QED BY <2>3, <2>4, <2>5
  <1> HIDE DEF cut, rest, text
  <1>3. PICK last \in Nat : last = SentenceEnd
    BY <1>1, SentenceIs
  <1>4. PICK m \in Nat : m = last - at + 1 /\ m >= 1
    BY <1>1, <1>3, SentenceIs DEF MayBegin
  <1>5. Stretch(Sentence, at, m) /\ MayBegin(last + 2) /\ at \in Nat /\ startIdx \in Nat
        /\ m \in SentenceLengths
    BY <1>1, <1>3, <1>4, SentenceIs DEF BufferOK, MayBegin
  <1>6. PICK a, n \in Nat : /\ Stretch(buffer, a, n) /\ n >= 1 /\ Room(n)
                            /\ startIdx < a /\ a + n = at - 1
    BY <1>1 DEF BufferOK
  <1>7. (a + n - 1) \notin doc.blanks
    <2>1. a + n - 1 = at - 2
      BY <1>5, <1>6
    <2> QED BY <1>1, <2>1 DEF MayBegin
  <1>8. PICK b, k \in Nat : /\ Stretch(text, b, k)
                            /\ a =< b /\ b + k = a + n /\ k >= 1 /\ k =< n
                            /\ \A p \in Nat : a =< p /\ p < b => p \in doc.blanks
    BY <1>1, <1>6, <1>7, TrimmedStretch DEF text
  <1>9. PICK c, l \in Nat : /\ Stretch(rest, c, l)
                            /\ b =< c /\ c + l = b + k /\ l >= 1 /\ l =< k
                            /\ opts.overlap > 0 => l =< opts.overlap
    BY <1>1, <1>8, LastOfStretch DEF rest
  <1>10. /\ cut \in Seq(Piece) /\ PiecesOK(cut) /\ Len(cut) = Len(pieces) + 1
         /\ \A i \in 1..Len(pieces) : cut[i] = pieces[i]
         /\ cut[Len(cut)].text = text
    <2>1. Room(k)
      BY <1>1, <1>6, <1>8, LessRoom
    <2>2. startIdx < b
      BY <1>5, <1>6, <1>8
    <2> QED BY <1>5, <1>8, <2>1, <2>2, OneMore DEF cut
  <1>11. PICK before \in Nat : before = at - 1 /\ before + 1 = at /\ before = c + l
    BY <1>5, <1>6, <1>8, <1>9
  <1>12. Stretch(buffer', c, l + 1 + m)
    BY <1>2, <1>5, <1>9, <1>11, JoinedStretches
  <1>13. /\ l + 1 + m \in Nat /\ l + 1 + m >= 1 /\ c + (l + 1 + m) = last + 1 /\ c =< at
         /\ startIdx' = startIdx + k - l /\ startIdx + k - l \in Nat /\ startIdx + k - l < c
    <2>1. Len(text) = k /\ Len(rest) = l
      BY <1>8, <1>9 DEF Stretch
    <2> QED BY <1>2, <1>4, <1>5, <1>6, <1>8, <1>9, <1>11, <2>1
  <1>14. BufferOK(buffer', startIdx', at')
    <2>1. buffer' # <<>>
      BY <1>12, <1>13 DEF Stretch
    <2>2. at' = last + 2 /\ last + 2 - 1 = last + 1
      BY <1>2, <1>3
    <2>3. c + (l + 1 + m) = at' - 1
      BY <1>13, <2>2
    <2>4. Room(l + 1 + m)
      <3> SUFFICES ASSUME opts.overlap > 0 PROVE l + 1 + m =< opts.overlap + 1 + m
        BY <1>5 DEF Room
      <3> QED BY <1>1, <1>9 DEF OptsOK
    <2>5. startIdx' \in Nat /\ startIdx' < c
      BY <1>13
    <2> QED BY <1>12, <1>13, <2>1, <2>3, <2>4, <2>5 DEF BufferOK
  <1>15. Reached(pieces', buffer', at')
    <2>1. ASSUME NEW p \in Nat, at =< p, p =< last PROVE p \in Positions(buffer')
      <3>1. c =< p /\ p < c + (l + 1 + m)
        BY <1>5, <1>13, <2>1
      <3> QED BY <1>12, <3>1, PositionsOfStretch
    <2>2. ASSUME NEW p \in 1..doc.length, p \in Positions(buffer), p \notin doc.blanks
          PROVE  p \in Positions(cut[Len(cut)].text)
      <3>1. p \in Nat /\ a =< p /\ p < a + n
        BY <1>6, <2>2, PositionsInStretch
      <3>2. b =< p /\ p < b + k
        BY <1>8, <2>2, <3>1
      <3>3. p \in Positions(text)
        BY <1>8, <3>1, <3>2, PositionsOfStretch
      <3> QED BY <1>10, <3>3
    <2>3. Len(cut) \in 1..Len(cut) /\ \A i \in 1..Len(pieces) : i \in 1..Len(cut)
      <3>1. Len(pieces) \in Nat
        BY <1>1
      <3> QED BY <1>10, <3>1
    <2>4. \A i \in 1..Len(pieces) : \E j \in 1..Len(cut) : cut[j] = pieces[i]
      BY <1>10, <2>3
    <2>5. Reached(cut, buffer', SentenceEnd + 2)
      BY <1>1, <1>3, <2>1, <2>2, <2>3, <2>4, NextReached
    <2> QED BY <1>2, <2>5
  <1>16. MayBegin(at')
    BY <1>2, <1>3, <1>5
  <1>17. pieces' \in Seq(Piece) /\ PiecesOK(pieces')
    BY <1>2, <1>10
  <1> QED BY <1>2, <1>14, <1>15, <1>16, <1>17, GoingKeeps

LEMMA ForceBreakKeeps ==
    ASSUME ChunkInv, ForceBreak
    PROVE  ChunkInv'
  <1> DEFINE size == opts.size
             text == SubSeq(Sentence, 1, Min({size, Len(Sentence)}))
             cut == Append(pieces, Chunk(text))
  <1>1. DocOK /\ OptsOK /\ MayBegin(at) /\ BufferOK(buffer, startIdx, at) /\ Reached(pieces, buffer, at)
        /\ pieces \in Seq(Piece) /\ at =< doc.length /\ buffer = <<>>
    BY DEF ChunkInv, ForceBreak, Remaining
  <1>2. /\ UNCHANGED <<doc, opts>> /\ chunking' = "going"
        /\ at' = SentenceEnd + 2 /\ pieces' = cut
        /\ buffer' = SubSeq(Sentence, size + 1, Len(Sentence))
        /\ startIdx' = startIdx + Len(text)
        /\ ~(Len(buffer) + Len(Sentence) + 1 <= size)
    BY DEF ForceBreak, Remaining, NextSentence, Chunk, Fits
  <1>3. PICK last \in Nat : last = SentenceEnd
    BY <1>1, SentenceIs
  <1>4. PICK m \in Nat : m = last - at + 1 /\ m >= 1
    BY <1>1, <1>3, SentenceIs DEF MayBegin
  <1>5. Stretch(Sentence, at, m) /\ MayBegin(last + 2) /\ at \in Nat
        /\ startIdx \in Nat /\ startIdx < at /\ m \in SentenceLengths
    BY <1>1, <1>3, <1>4, SentenceIs DEF BufferOK, MayBegin
  <1>6. Len(Sentence) = m /\ size \in Nat \ {0} /\ size =< m
    <2>1. Len(Sentence) = m /\ Len(buffer) = 0 /\ size \in Nat \ {0}
      BY <1>1, <1>5 DEF Stretch, OptsOK
    <2> QED BY <1>2, <2>1
  <1>7. Min({size, Len(Sentence)}) = size
    BY <1>6 DEF Min
  <1> HIDE DEF cut, size
  <1>8. Stretch(text, at, size)
    <2>1. Stretch(SubSeq(Sentence, 1, size), at + 1 - 1, size - 1 + 1)
      <3>1. 1 \in Nat \ {0} /\ size \in Nat /\ size =< m /\ 1 =< size + 1
        BY <1>6
      <3> QED BY <1>5, <3>1, PartOfStretch
    <2>2. at + 1 - 1 = at /\ size - 1 + 1 = size
      BY <1>5, <1>6
    <2> QED BY <1>7, <2>1, <2>2
  <1>9. Stretch(buffer', at + size, m - size)
    <2>1. Stretch(SubSeq(Sentence, size + 1, m), at + (size + 1) - 1, m - (size + 1) + 1)
      <3>1. size + 1 \in Nat \ {0} /\ m \in Nat /\ m =< m /\ size + 1 =< m + 1
        BY <1>6
      <3> QED BY <1>5, <3>1, PartOfStretch
    <2>2. at + (size + 1) - 1 = at + size /\ m - (size + 1) + 1 = m - size
      BY <1>5, <1>6
    <2> QED BY <1>2, <1>6, <2>1, <2>2
  <1> HIDE DEF text
  <1>10. /\ cut \in Seq(Piece) /\ PiecesOK(cut) /\ Len(cut) = Len(pieces) + 1
         /\ \A i \in 1..Len(pieces) : cut[i] = pieces[i]
         /\ cut[Len(cut)].text = text
    <2>1. Room(size) /\ size >= 1
      BY <1>6 DEF Room, size
    <2> QED BY <1>5, <1>8, <2>1, OneMore DEF cut
  <1>11. Len(text) = size /\ startIdx' = startIdx + size
    BY <1>2, <1>8 DEF Stretch
  <1>12. PICK a, n \in Nat : /\ a = at + size /\ n = m - size /\ a + n = last + 1
                             /\ startIdx' \in Nat /\ startIdx' < a /\ n =< m
    BY <1>4, <1>5, <1>6, <1>11
  <1>13. Stretch(buffer', a, n)
    BY <1>9, <1>12
  <1>14. at' = last + 2 /\ a + n = at' - 1 /\ startIdx' < at'
    <2>1. at' = last + 2
      BY <1>2, <1>3
    <2> QED BY <1>12, <2>1
  <1>15. BufferOK(buffer', startIdx', at')
    <2>1. CASE n = 0
      <3>1. buffer' = <<>>
        BY <1>13, <2>1 DEF Stretch
      <3> QED BY <1>12, <1>14, <3>1 DEF BufferOK
    <2>2. CASE n # 0
      <3>1. buffer' # <<>> /\ n >= 1
        BY <1>12, <1>13, <2>2 DEF Stretch
      <3>2. Room(n)
        <4> SUFFICES ASSUME opts.overlap > 0 PROVE n =< opts.overlap + 1 + m
          BY <1>5 DEF Room
        <4> QED BY <1>1, <1>12 DEF OptsOK
      <3> QED BY <1>12, <1>13, <1>14, <3>1, <3>2 DEF BufferOK
    <2> QED BY <2>1, <2>2
  <1>16. Reached(pieces', buffer', at')
    <2>1. ASSUME NEW p \in Nat, at =< p, p =< last
          PROVE  p \in Positions(cut[Len(cut)].text) \/ p \in Positions(buffer')
      <3>1. CASE p < at + size
        <4>1. p \in Positions(text)
          BY <1>5, <1>6, <1>8, <2>1, <3>1, PositionsOfStretch
        <4> QED BY <1>10, <4>1
      <3>2. CASE ~(p < at + size)
        <4>1. a =< p /\ p < a + n
          BY <1>5, <1>6, <1>12, <2>1, <3>2
        <4> QED BY <1>13, <2>1, <4>1, PositionsOfStretch
      <3> QED BY <3>1, <3>2
    <2>2. Positions(buffer) = {}
      BY <1>1 DEF Positions
    <2>3. Len(cut) \in 1..Len(cut) /\ \A i \in 1..Len(pieces) : i \in 1..Len(cut)
      <3>1. Len(pieces) \in Nat
        BY <1>1
      <3> QED BY <1>10, <3>1
    <2>4. \A i \in 1..Len(pieces) : \E j \in 1..Len(cut) : cut[j] = pieces[i]
      BY <1>10, <2>3
    <2>5. Reached(cut, buffer', SentenceEnd + 2)
      BY <1>1, <1>3, <2>1, <2>2, <2>3, <2>4, NextReached
    <2> QED BY <1>2, <2>5
  <1>17. MayBegin(at')
    BY <1>2, <1>3, <1>5
  <1>18. pieces' \in Seq(Piece) /\ PiecesOK(pieces')
    BY <1>2, <1>10
  <1> QED BY <1>2, <1>15, <1>16, <1>17, <1>18, GoingKeeps

LEMMA FlushRestKeeps ==
    ASSUME ChunkInv, FlushRest
    PROVE  ChunkInv'
  <1> DEFINE text == Trimmed(buffer)
             cut == Append(pieces, Chunk(text))
  <1>1. DocOK /\ OptsOK /\ MayBegin(at) /\ BufferOK(buffer, startIdx, at) /\ Reached(pieces, buffer, at)
        /\ pieces \in Seq(Piece) /\ PiecesOK(pieces) /\ at > doc.length
        /\ at \in Nat /\ doc.length \in Nat
    BY DEF ChunkInv, FlushRest, MayBegin, DocOK
  <1>2. /\ UNCHANGED <<doc, opts>> /\ chunking' = "done"
        /\ pieces' = IF text = <<>> THEN pieces ELSE cut
    BY DEF FlushRest
  <1>3. CASE buffer = <<>>
    <2>1. text = <<>>
      BY <1>3 DEF Trimmed
    <2>2. Positions(buffer) = {} /\ Positions(<<>>) = {}
      BY <1>3 DEF Positions
    <2>3. Reached(pieces, <<>>, doc.length + 1)
      BY <1>1, <2>2 DEF Reached
    <2> QED BY <1>1, <1>2, <2>1, <2>3, DoneKeeps
  <1>4. CASE buffer # <<>>
    <2> HIDE DEF text, cut
    <2>1. PICK a, n \in Nat : /\ Stretch(buffer, a, n) /\ n >= 1 /\ Room(n)
                              /\ startIdx < a /\ a + n = at - 1
      BY <1>1, <1>4 DEF BufferOK
    <2>2. (a + n - 1) \notin doc.blanks
      <3>1. a + n - 1 = at - 2
        BY <1>1, <2>1
      <3> QED BY <1>1, <3>1 DEF MayBegin
    <2>3. PICK b, k \in Nat : /\ Stretch(text, b, k)
                              /\ a =< b /\ b + k = a + n /\ k >= 1 /\ k =< n
                              /\ \A p \in Nat : a =< p /\ p < b => p \in doc.blanks
      BY <1>1, <2>1, <2>2, TrimmedStretch DEF text
    <2>4. /\ cut \in Seq(Piece) /\ PiecesOK(cut) /\ Len(cut) = Len(pieces) + 1
          /\ \A i \in 1..Len(pieces) : cut[i] = pieces[i]
          /\ cut[Len(cut)].text = text
      <3>1. Room(k)
        BY <1>1, <2>1, <2>3, LessRoom
      <3>2. startIdx \in Nat /\ startIdx < b
        BY <1>1, <2>1, <2>3 DEF BufferOK
      <3> QED BY <2>3, <3>1, <3>2, OneMore DEF cut
    <2>5. pieces' = cut
      BY <1>2, <2>3 DEF Stretch
    <2>6. Reached(cut, <<>>, doc.length + 1)
      <3> SUFFICES ASSUME NEW p \in 1..doc.length, p \notin doc.blanks
                   PROVE  \E i \in 1..Len(cut) : p \in Positions(cut[i].text)
        BY DEF Reached
      <3>1. (\E i \in 1..Len(pieces) : p \in Positions(pieces[i].text)) \/ p \in Positions(buffer)
        BY <1>1 DEF Reached
      <3>2. Len(cut) \in 1..Len(cut) /\ \A i \in 1..Len(pieces) : i \in 1..Len(cut)
        <4>1. Len(pieces) \in Nat
          BY <1>1
        <4> QED BY <2>4, <4>1
      <3>3. CASE p \in Positions(buffer)
        <4>1. p \in Nat /\ a =< p /\ p < a + n
          BY <2>1, <3>3, PositionsInStretch
        <4>2. b =< p /\ p < b + k
          BY <2>3, <4>1
        <4>3. p \in Positions(text)
          BY <2>3, <4>1, <4>2, PositionsOfStretch
        <4> QED BY <2>4, <3>2, <4>3
      <3>4. CASE \E i \in 1..Len(pieces) : p \in Positions(pieces[i].text)
        BY <2>4, <3>2, <3>4
      <3> QED BY <3>1, <3>3, <3>4
    <2> QED BY <1>2, <2>4, <2>5, <2>6, DoneKeeps
  <1> QED BY <1>3, <1>4

-----------------------------------------------------------------------------
LEMMA SomeSentence ==
    ASSUME DocOK
    PROVE  SentenceLengths # {}
  <1> DEFINE T == {0} \cup doc.breaks
  <1>1. doc.length \in Nat \ {0} /\ \A b \in doc.breaks : b \in Nat /\ b < doc.length
    BY DEF DocOK
  <1>2. T \in SUBSET (0..doc.length) /\ T # {}
    BY <1>1
  <1>3. Max(T) \in T /\ \A y \in T : y =< Max(T)
    <2> HIDE DEF T
    <2> QED BY <1>1, <1>2, GreatestNumber
  <1>4. PICK b \in T : \A k \in doc.breaks : k =< b
    BY <1>3
  <1>5. b \in Nat /\ b < doc.length + 1
    BY <1>1, <1>4
  <1>6. PICK e \in doc.breaks \cup {doc.length + 1} : e = doc.length + 1
    OBVIOUS
  <1>7. PICK n \in 0..doc.length : n = e - b - 1
    BY <1>1, <1>5, <1>6
  <1>8. b < e /\ \A k \in doc.breaks : k <= b \/ k >= e
    BY <1>4, <1>5, <1>6
  <1>9. n \in SentenceLengths
    BY <1>4, <1>6, <1>7, <1>8 DEF SentenceLengths
  <1> QED BY <1>9

LEMMA ChunkInvIsEnough ==
    ASSUME ChunkInv
    PROVE  ChunksFaithful
  <1>1. DocOK /\ OptsOK /\ PiecesOK(pieces)
    BY DEF ChunkInv
  <1>2. ASSUME NEW i \in 1..Len(pieces)
        PROVE  /\ PieceOfText(pieces[i])
               /\ opts.overlap > 0 =>
                     Len(pieces[i].text) <= Max({opts.size, opts.overlap + 1 + Max(SentenceLengths)})
    <2> DEFINE chunk == pieces[i]
    <2>1. PICK a, n \in Nat : /\ Stretch(chunk.text, a, n) /\ n >= 1 /\ Room(n)
                              /\ chunk.start < a /\ chunk.end = chunk.start + n
      BY <1>1, <1>2 DEF PiecesOK, PieceOK
    <2> HIDE DEF chunk
    <2>2. PieceOfText(chunk)
      <3>1. Len(chunk.text) = n /\ chunk.text[1] = a
        BY <2>1 DEF Stretch
      <3>2. ASSUME NEW j \in 2..n PROVE chunk.text[j] = chunk.text[j - 1] + 1
        <4>1. j \in 1..n /\ j - 1 \in 1..n
          BY <3>2
        <4>2. chunk.text[j] = a + j - 1 /\ chunk.text[j - 1] = a + (j - 1) - 1
          BY <2>1, <4>1 DEF Stretch
        <4> QED BY <4>1, <4>2
      <3> QED BY <2>1, <3>1, <3>2 DEF PieceOfText
    <2>3. ASSUME opts.overlap > 0
          PROVE  Len(chunk.text) <= Max({opts.size, opts.overlap + 1 + Max(SentenceLengths)})
      <3> DEFINE most == Max(SentenceLengths)
      <3>1. most \in Nat /\ \A l \in SentenceLengths : l \in Nat /\ l =< most
        <4>1. SentenceLengths \in SUBSET (0..doc.length) /\ doc.length \in Nat
          BY <1>1 DEF SentenceLengths, DocOK
        <4>2. Max(SentenceLengths) \in SentenceLengths /\ \A l \in SentenceLengths : l =< Max(SentenceLengths)
          BY <1>1, <4>1, GreatestNumber, SomeSentence
        <4>3. \A l \in SentenceLengths : l \in Nat
          BY <4>1
        <4> QED BY <4>2, <4>3
      <3> HIDE DEF most
      <3>2. opts.size \in Nat /\ opts.overlap \in Nat /\ Len(chunk.text) = n
        BY <1>1, <2>1 DEF OptsOK, Stretch
      <3> DEFINE y == opts.overlap + 1 + most
                 T == {opts.size, y}
      <3>3. T \in SUBSET (0..(opts.size + y)) /\ opts.size + y \in Nat /\ T # {}
        BY <3>1, <3>2
      <3>4. Max(T) \in T /\ \A z \in T : z =< Max(T)
        <4> HIDE DEF T, y
        <4> QED BY <3>3, GreatestNumber
      <3>5. opts.size =< Max(T) /\ y =< Max(T) /\ Max(T) \in Nat
        BY <3>1, <3>2, <3>4
      <3>6. n =< opts.size \/ n =< y
        BY <2>1, <2>3, <3>1, <3>2 DEF Room
      <3>7. n =< Max(T)
        <4> y \in Nat
          BY <3>1, <3>2
        <4> HIDE DEF T, y
        <4> QED BY <3>2, <3>5, <3>6
      <3> QED BY <3>2, <3>7 DEF most
    <2> QED BY <2>2, <2>3 DEF chunk
  <1>3. ASSUME chunking = "done", NEW p \in 1..doc.length, p \notin doc.blanks
        PROVE  p \in UNION {Positions(pieces[i].text) : i \in 1..Len(pieces)}
    <2>1. Reached(pieces, <<>>, doc.length + 1) /\ doc.length \in Nat
      BY <1>1, <1>3 DEF ChunkInv, DocOK
    <2>2. Positions(<<>>) = {} /\ p < doc.length + 1
      BY <2>1 DEF Positions
    <2>3. PICK i \in 1..Len(pieces) : p \in Positions(pieces[i].text)
      BY <1>3, <2>1, <2>2 DEF Reached
    <2> QED BY <2>3
  <1> QED BY <1>2, <1>3 DEF ChunksFaithful

\* chunkText() loses no character of a text but spaces, mixes no distant parts of
\* it in a chunk, and exceeds the size asked for by no more than a sentence when
\* there is an overlap, for texts and options of any size.
THEOREM ChunksAreFaithful == ChunkSpec => []ChunksFaithful
  <1>1. ChunkInit => ChunkInv
    BY ChunkInitOK
  <1>2. ChunkInv /\ [ChunkNext]_chunkState => ChunkInv'
    <2> SUFFICES ASSUME ChunkInv, [ChunkNext]_chunkState PROVE ChunkInv'
      OBVIOUS
    <2>1. CASE UNCHANGED chunkState
      <3>1. \A n : Room(n)' <=> Room(n)
        BY <2>1 DEF chunkState, Room, SentenceLengths
      <3>2. UNCHANGED <<doc, opts, pieces, at, buffer, startIdx, chunking>>
        BY <2>1 DEF chunkState
      <3>3. CASE chunking = "idle"
        <4>1. PiecesOK(pieces)'
          BY <3>2, <3>3 DEF ChunkInv, PiecesOK
        <4> QED BY <3>2, <3>3, <4>1 DEF ChunkInv, DocOK, OptsOK
      <3>4. CASE chunking = "going"
        BY <3>2, <3>4, GoingKeeps DEF ChunkInv
      <3>5. CASE chunking = "done"
        BY <3>2, <3>5, DoneKeeps DEF ChunkInv
      <3> QED BY <3>3, <3>4, <3>5 DEF ChunkInv
    <2> QED BY <2>1, ChunkTextKeeps, ShortKeeps, ExtendKeeps, FlushKeeps, ForceBreakKeeps,
               FlushRestKeeps DEF ChunkNext
  <1>3. ChunkInv => ChunksFaithful
    BY ChunkInvIsEnough
  <1> QED BY <1>1, <1>2, <1>3, PTL DEF ChunkSpec

-----------------------------------------------------------------------------
(* The lines of a stream                                                   *)

\* Induction, for the numbers in a set.
LEMMA UpFromZero ==
    ASSUME NEW n \in Nat, NEW T, 0 \in T, \A i \in 1..n : (i - 1) \in T => i \in T
    PROVE  \A i \in 0..n : i \in T
  <1> DEFINE out == {i \in 0..n : i \notin T}
  <1> SUFFICES ASSUME out # {} PROVE FALSE
    OBVIOUS
  <1>1. out \in SUBSET Nat
    OBVIOUS
  <1>2. PICK i \in out : \A y \in out : i =< y
    <2> HIDE DEF out
    <2> QED BY <1>1, LeastNumber
  <1>3. i \in 0..n /\ i \notin T /\ i # 0
    BY <1>2
  <1>4. i \in 1..n /\ i - 1 \in 0..n /\ ~(i =< i - 1)
    BY <1>3
  <1>5. (i - 1) \in T
    BY <1>2, <1>4
  <1> QED BY <1>3, <1>4, <1>5

\* What Without() keeps of the first n places.
RestOK(f, s, x, n) ==
    f = [i \in 0..n |-> IF i = 0 THEN <<>>
                        ELSE IF s[i] = x THEN f[i - 1] ELSE Append(f[i - 1], s[i])]

LEMMA SomeRest ==
    ASSUME NEW n \in Nat, NEW s, NEW x
    PROVE  \E f : RestOK(f, s, x, n)
  <1> DEFINE T == {i \in 0..n : \E f : RestOK(f, s, x, i)}
  <1>1. 0 \in T
    <2> DEFINE f == [i \in 0..0 |-> <<>>]
    <2>1. f = [i \in 0..0 |-> IF i = 0 THEN <<>>
                              ELSE IF s[i] = x THEN f[i - 1] ELSE Append(f[i - 1], s[i])]
      OBVIOUS
    <2>2. RestOK(f, s, x, 0)
      BY <2>1 DEF RestOK
    <2> QED BY <2>2
  <1>2. ASSUME NEW i \in 1..n, (i - 1) \in T PROVE i \in T
    <2>1. PICK g : RestOK(g, s, x, i - 1)
      BY <1>2
    <2>2. i \in Nat /\ i - 1 \in Nat /\ i \in 0..n
      OBVIOUS
    <2> DEFINE f == [j \in 0..i |-> IF j < i THEN g[j]
                                    ELSE IF s[i] = x THEN g[i - 1] ELSE Append(g[i - 1], s[i])]
    <2>3. ASSUME NEW j \in 0..i
          PROVE  f[j] = IF j = 0 THEN <<>>
                        ELSE IF s[j] = x THEN f[j - 1] ELSE Append(f[j - 1], s[j])
      <3>1. CASE j = i
        <4>1. f[i] = (IF s[i] = x THEN g[i - 1] ELSE Append(g[i - 1], s[i])) /\ f[i - 1] = g[i - 1]
          BY <2>2
        <4>2. j # 0
          BY <2>2, <3>1
        <4> HIDE DEF f
        <4> QED BY <3>1, <4>1, <4>2
      <3>2. CASE j # i
        <4>1. j \in 0..(i - 1) /\ j < i /\ (j # 0 => j - 1 \in 0..i /\ j - 1 < i)
          BY <2>2, <3>2
        <4>2. f[j] = g[j] /\ (j # 0 => f[j - 1] = g[j - 1])
          BY <4>1
        <4>3. g[j] = IF j = 0 THEN <<>>
                     ELSE IF s[j] = x THEN g[j - 1] ELSE Append(g[j - 1], s[j])
          BY <2>1, <4>1 DEF RestOK
        <4> HIDE DEF f
        <4> QED BY <4>2, <4>3
      <3> QED BY <3>1, <3>2
    <2>4. RestOK(f, s, x, i)
      <3>1. f = [j \in 0..i |-> f[j]]
        OBVIOUS
      <3> HIDE DEF f
      <3>2. f = [j \in 0..i |-> IF j = 0 THEN <<>>
                                ELSE IF s[j] = x THEN f[j - 1] ELSE Append(f[j - 1], s[j])]
        BY <2>3, <3>1
      <3> QED BY <3>2 DEF RestOK
    <2> QED BY <2>2, <2>4
  <1>3. n \in 0..n
    OBVIOUS
  <1> HIDE DEF T
  <1>4. n \in T
    BY <1>1, <1>2, <1>3, UpFromZero
  <1> QED BY <1>4 DEF T

LEMMA WithoutIs ==
    ASSUME NEW s, Len(s) \in Nat, NEW x
    PROVE  \E f : RestOK(f, s, x, Len(s)) /\ Without(s, x) = f[Len(s)]
  <1> DEFINE f == CHOOSE f : f = [n \in 0..Len(s) |->
                        IF n = 0 THEN <<>>
                        ELSE IF s[n] = x THEN f[n - 1] ELSE Append(f[n - 1], s[n])]
  <1>1. \E g : g = [n \in 0..Len(s) |->
                        IF n = 0 THEN <<>>
                        ELSE IF s[n] = x THEN g[n - 1] ELSE Append(g[n - 1], s[n])]
    <2> HIDE DEF f
    <2>1. PICK g : RestOK(g, s, x, Len(s))
      BY SomeRest
    <2> QED BY <2>1 DEF RestOK
  <1>2. f = [n \in 0..Len(s) |->
                        IF n = 0 THEN <<>>
                        ELSE IF s[n] = x THEN f[n - 1] ELSE Append(f[n - 1], s[n])]
    BY <1>1
  <1>3. Without(s, x) = f[Len(s)]
    BY DEF Without
  <1> HIDE DEF f
  <1> QED BY <1>2, <1>3 DEF RestOK

LEMMA RestStep ==
    ASSUME NEW n \in Nat, NEW f, NEW s, NEW x, RestOK(f, s, x, n)
    PROVE  /\ f[0] = <<>>
           /\ \A i \in 1..n : f[i] = IF s[i] = x THEN f[i - 1] ELSE Append(f[i - 1], s[i])
  <1>1. 0 \in 0..n /\ \A i \in 1..n : i \in 0..n /\ i # 0
    OBVIOUS
  <1> QED BY <1>1 DEF RestOK

LEMMA WithoutTyped ==
    ASSUME NEW S, NEW s \in Seq(S), NEW x
    PROVE  Without(s, x) \in Seq(S)
  <1>1. Len(s) \in Nat /\ \A i \in 1..Len(s) : s[i] \in S
    OBVIOUS
  <1>2. PICK f : RestOK(f, s, x, Len(s)) /\ Without(s, x) = f[Len(s)]
    BY <1>1, WithoutIs
  <1>3. /\ f[0] = <<>>
        /\ \A i \in 1..Len(s) : f[i] = IF s[i] = x THEN f[i - 1] ELSE Append(f[i - 1], s[i])
    BY <1>1, <1>2, RestStep
  <1> DEFINE T == {i \in 0..Len(s) : f[i] \in Seq(S)}
  <1>4. 0 \in T
    <2>1. f[0] \in Seq(S)
      BY <1>3, EmptySeq
    <2> QED BY <1>1, <2>1
  <1>5. ASSUME NEW i \in 1..Len(s), (i - 1) \in T PROVE i \in T
    <2>1. f[i - 1] \in Seq(S) /\ i \in 0..Len(s) /\ s[i] \in S
      BY <1>1, <1>5
    <2>2. Append(f[i - 1], s[i]) \in Seq(S)
      BY <2>1
    <2>3. f[i] \in Seq(S)
      BY <1>3, <2>1, <2>2
    <2> QED BY <2>1, <2>3
  <1>6. Len(s) \in 0..Len(s)
    BY <1>1
  <1> HIDE DEF T
  <1>7. Len(s) \in T
    BY <1>1, <1>4, <1>5, <1>6, UpFromZero
  <1> QED BY <1>2, <1>7 DEF T

LEMMA WithoutAny ==
    ASSUME NEW s, Len(s) \in Nat, NEW x, \A i \in 1..Len(s) : s[i] = x
    PROVE  Without(s, x) = <<>>
  <1>2. PICK f : RestOK(f, s, x, Len(s)) /\ Without(s, x) = f[Len(s)]
    BY WithoutIs
  <1>3. /\ f[0] = <<>>
        /\ \A i \in 1..Len(s) : f[i] = IF s[i] = x THEN f[i - 1] ELSE Append(f[i - 1], s[i])
    BY <1>2, RestStep
  <1> DEFINE T == {i \in 0..Len(s) : f[i] = <<>>}
  <1>4. 0 \in T
    BY <1>3
  <1>5. ASSUME NEW i \in 1..Len(s), (i - 1) \in T PROVE i \in T
    BY <1>3, <1>5
  <1>6. Len(s) \in 0..Len(s)
    OBVIOUS
  <1> HIDE DEF T
  <1>7. Len(s) \in T
    BY <1>4, <1>5, <1>6, UpFromZero
  <1> QED BY <1>2, <1>7 DEF T

\* v is p followed by q.
Joins(p, q, v) ==
    /\ Len(v) = Len(p) + Len(q)
    /\ \A k \in 1..Len(p) : v[k] = p[k]
    /\ \A k \in 1..Len(q) : v[Len(p) + k] = q[k]

LEMMA JoinsIs ==
    ASSUME NEW S, NEW p \in Seq(S), NEW q \in Seq(S), NEW v \in Seq(S), Joins(p, q, v)
    PROVE  v = p \o q
  <1> DEFINE c == p \o q
  <1>1. /\ c \in Seq(S) /\ Len(c) = Len(p) + Len(q)
        /\ \A i \in 1..(Len(p) + Len(q)) : c[i] = IF i <= Len(p) THEN p[i] ELSE q[i - Len(p)]
    BY ConcatProperties, Zenon
  <1>2. Len(p) \in Nat /\ Len(q) \in Nat
    OBVIOUS
  <1> HIDE DEF c
  <1>3. ASSUME NEW i \in 1..Len(v) PROVE v[i] = c[i]
    <2>1. i \in 1..(Len(p) + Len(q)) /\ i \in Int
      BY DEF Joins
    <2>2. CASE i <= Len(p)
      <3>1. i \in 1..Len(p)
        BY <1>2, <2>1, <2>2
      <3> QED BY <1>1, <2>1, <2>2, <3>1 DEF Joins
    <2>3. CASE ~(i <= Len(p))
      <3>1. i - Len(p) \in 1..Len(q) /\ Len(p) + (i - Len(p)) = i
        BY <1>2, <2>1, <2>3
      <3>2. v[Len(p) + (i - Len(p))] = q[i - Len(p)]
        BY <3>1 DEF Joins
      <3> QED BY <1>1, <2>1, <2>3, <3>1, <3>2
    <2> QED BY <2>2, <2>3
  <1>4. Len(v) = Len(c)
    BY <1>1 DEF Joins
  <1>5. v = c
    BY <1>1, <1>3, <1>4, SeqEqual
  <1> QED BY <1>5 DEF c

LEMMA JoinsMore ==
    ASSUME NEW S, NEW p \in Seq(S), NEW q \in Seq(S), NEW v \in Seq(S), Joins(p, q, v), NEW e \in S
    PROVE  Append(q, e) \in Seq(S) /\ Append(v, e) \in Seq(S) /\ Joins(p, Append(q, e), Append(v, e))
  <1> DEFINE w == Append(v, e)
             r == Append(q, e)
  <1>1. /\ w \in Seq(S) /\ Len(w) = Len(v) + 1 /\ w[Len(v) + 1] = e
        /\ \A k \in 1..Len(v) : w[k] = v[k]
    OBVIOUS
  <1>2. /\ r \in Seq(S) /\ Len(r) = Len(q) + 1 /\ r[Len(q) + 1] = e
        /\ \A k \in 1..Len(q) : r[k] = q[k]
    OBVIOUS
  <1>3. Len(p) \in Nat /\ Len(q) \in Nat /\ Len(v) = Len(p) + Len(q)
    BY DEF Joins
  <1> HIDE DEF w, r
  <1>4. ASSUME NEW k \in 1..Len(p) PROVE w[k] = p[k]
    <2>1. k \in 1..Len(v)
      BY <1>3
    <2> QED BY <1>1, <2>1 DEF Joins
  <1>5. ASSUME NEW k \in 1..Len(r) PROVE w[Len(p) + k] = r[k]
    <2>1. CASE k = Len(q) + 1
      <3>1. Len(p) + k = Len(v) + 1
        BY <1>3, <2>1
      <3> QED BY <1>1, <1>2, <2>1, <3>1
    <2>2. CASE k # Len(q) + 1
      <3>1. k \in 1..Len(q) /\ Len(p) + k \in 1..Len(v)
        BY <1>2, <1>3, <2>2
      <3> QED BY <1>1, <1>2, <3>1 DEF Joins
    <2> QED BY <2>1, <2>2
  <1>6. Joins(p, r, w)
    <2>1. Len(w) = Len(p) + Len(r)
      BY <1>1, <1>2, <1>3
    <2> QED BY <1>4, <1>5, <2>1 DEF Joins
  <1> QED BY <1>1, <1>2, <1>6 DEF w, r

\* What is kept of two sequences in a row.
LEMMA WithoutJoined ==
    ASSUME NEW S, NEW s \in Seq(S), NEW t \in Seq(S), NEW u \in Seq(S), NEW x, Joins(s, t, u)
    PROVE  Without(u, x) = Without(s, x) \o Without(t, x)
  <1> DEFINE n == Len(s)
             m == Len(t)
  <1>0. /\ n \in Nat /\ m \in Nat /\ Len(u) = n + m /\ n + m \in Nat
        /\ \A i \in 1..n : i \in 1..(n + m) /\ u[i] = s[i] /\ i - 1 \in 0..n
        /\ \A i \in 1..m : n + i \in 1..(n + m) /\ u[n + i] = t[i] /\ (n + i) - 1 = n + (i - 1)
    BY DEF Joins
  <1>1. PICK f : RestOK(f, s, x, n) /\ Without(s, x) = f[n]
    BY <1>0, WithoutIs
  <1>2. PICK g : RestOK(g, t, x, m) /\ Without(t, x) = g[m]
    BY <1>0, WithoutIs
  <1>3. PICK h : RestOK(h, u, x, n + m) /\ Without(u, x) = h[n + m]
    <2>1. PICK h : RestOK(h, u, x, Len(u)) /\ Without(u, x) = h[Len(u)]
      BY <1>0, WithoutIs
    <2>2. Len(u) = n + m
      BY <1>0
    <2> HIDE DEF n, m
    <2>3. RestOK(h, u, x, n + m) /\ Without(u, x) = h[n + m]
      BY <2>1, <2>2
    <2> QED BY <2>3
  <1>4. \A i \in 1..m : t[i] \in S
    OBVIOUS
  <1> HIDE DEF n, m
  <1>5. /\ f[0] = <<>>
        /\ \A i \in 1..n : f[i] = IF s[i] = x THEN f[i - 1] ELSE Append(f[i - 1], s[i])
    BY <1>0, <1>1, RestStep
  <1>6. /\ g[0] = <<>>
        /\ \A i \in 1..m : g[i] = IF t[i] = x THEN g[i - 1] ELSE Append(g[i - 1], t[i])
    BY <1>0, <1>2, RestStep
  <1>7. /\ h[0] = <<>>
        /\ \A i \in 1..(n + m) : h[i] = IF u[i] = x THEN h[i - 1] ELSE Append(h[i - 1], u[i])
    BY <1>0, <1>3, RestStep
  <1>8. h[n] = f[n]
    <2> DEFINE T == {i \in 0..n : h[i] = f[i]}
    <2>1. 0 \in T
      BY <1>0, <1>5, <1>7
    <2>2. ASSUME NEW i \in 1..n, (i - 1) \in T PROVE i \in T
      <3>1. i \in 1..(n + m) /\ u[i] = s[i] /\ i \in 0..n
        BY <1>0
      <3>2. h[i - 1] = f[i - 1]
        BY <2>2
      <3>3. h[i] = f[i]
        BY <1>5, <1>7, <3>1, <3>2
      <3> QED BY <3>1, <3>3
    <2>3. n \in 0..n
      BY <1>0
    <2> HIDE DEF T
    <2>4. n \in T
      BY <1>0, <2>1, <2>2, <2>3, UpFromZero
    <2> QED BY <2>4 DEF T
  <1>9. PICK p \in Seq(S) : p = f[n]
    BY <1>1, WithoutTyped
  <1>10. g[m] \in Seq(S) /\ h[n + m] \in Seq(S) /\ Joins(p, g[m], h[n + m])
    <2> DEFINE T == {i \in 0..m : /\ g[i] \in Seq(S) /\ h[n + i] \in Seq(S)
                                  /\ Joins(p, g[i], h[n + i])}
    <2>1. 0 \in T
      <3>1. Joins(p, <<>>, p) /\ <<>> \in Seq(S)
        BY <1>9, EmptySeq DEF Joins
      <3>2. n + 0 = n /\ 0 \in 0..m
        BY <1>0
      <3>3. g[0] = <<>> /\ h[n + 0] = p
        BY <1>6, <1>8, <1>9, <3>2
      <3> QED BY <1>9, <3>1, <3>2, <3>3
    <2>2. ASSUME NEW i \in 1..m, (i - 1) \in T PROVE i \in T
      <3>1. PICK q \in Seq(S), v \in Seq(S) :
                q = g[i - 1] /\ v = h[n + (i - 1)] /\ Joins(p, q, v)
        BY <2>2
      <3>2. PICK e \in S : e = t[i]
        BY <1>4
      <3>3. n + i \in 1..(n + m) /\ u[n + i] = e /\ i \in 0..m /\ (n + i) - 1 = n + (i - 1)
        BY <1>0, <3>2
      <3>4. h[n + i] = IF e = x THEN v ELSE Append(v, e)
        BY <1>7, <3>1, <3>3
      <3>5. g[i] = IF e = x THEN q ELSE Append(q, e)
        BY <1>6, <3>1, <3>2
      <3>6. Append(q, e) \in Seq(S) /\ Append(v, e) \in Seq(S) /\ Joins(p, Append(q, e), Append(v, e))
        BY <1>9, <3>1, <3>2, JoinsMore
      <3>7. g[i] \in Seq(S) /\ h[n + i] \in Seq(S) /\ Joins(p, g[i], h[n + i])
        BY <3>1, <3>4, <3>5, <3>6
      <3> QED BY <3>3, <3>7
    <2>3. m \in 0..m
      BY <1>0
    <2> HIDE DEF T
    <2>4. m \in T
      BY <1>0, <2>1, <2>2, <2>3, UpFromZero
    <2> QED BY <2>4 DEF T
  <1>11. h[n + m] = p \o g[m]
    BY <1>9, <1>10, JoinsIs
  <1> QED BY <1>1, <1>2, <1>3, <1>9, <1>11

-----------------------------------------------------------------------------
LEMMA SameParts ==
    ASSUME NEW S, NEW u \in Seq(S), NEW v \in Seq(S), NEW d \in Nat,
           NEW a \in Nat \ {0}, NEW c \in Nat,
           \A p \in a..c : p \in 1..Len(v) /\ d + p \in 1..Len(u) /\ u[d + p] = v[p]
    PROVE  SubSeq(u, d + a, d + c) = SubSeq(v, a, c) /\ SubSeq(v, a, c) \in Seq(S)
  <1> DEFINE left == SubSeq(u, d + a, d + c)
             right == SubSeq(v, a, c)
  <1>1. \A p \in a..c : v[p] \in S
    OBVIOUS
  <1>2. \A q \in (d + a)..(d + c) : u[q] \in S
    <2> TAKE q \in (d + a)..(d + c)
    <2>1. q - d \in a..c /\ d + (q - d) = q
      OBVIOUS
    <2>2. q \in 1..Len(u)
      BY <2>1
    <2> QED BY <2>2
  <1>3. /\ right \in Seq(S) /\ Len(right) = IF a <= c THEN c - a + 1 ELSE 0
        /\ \A i \in 1..(c - a + 1) : right[i] = v[a + i - 1]
    BY <1>1, SubSeqProperties
  <1>4. /\ left \in Seq(S)
        /\ Len(left) = IF d + a <= d + c THEN (d + c) - (d + a) + 1 ELSE 0
        /\ \A i \in 1..((d + c) - (d + a) + 1) : left[i] = u[(d + a) + i - 1]
    <2>1. d + a \in Int /\ d + c \in Int
      OBVIOUS
    <2> QED BY <1>2, <2>1, SubSeqProperties
  <1> HIDE DEF left, right
  <1>5. Len(left) = Len(right) /\ (d + c) - (d + a) + 1 = c - a + 1
    BY <1>3, <1>4
  <1>6. ASSUME NEW i \in 1..Len(left) PROVE left[i] = right[i]
    <2>1. i \in 1..(c - a + 1) /\ a + i - 1 \in a..c /\ (d + a) + i - 1 = d + (a + i - 1)
      BY <1>3, <1>5
    <2>2. left[i] = u[d + (a + i - 1)] /\ right[i] = v[a + i - 1]
      BY <1>3, <1>4, <1>5, <2>1
    <2> QED BY <2>1, <2>2
  <1>7. left = right
    BY <1>3, <1>4, <1>5, <1>6, SeqEqual
  <1> QED BY <1>3, <1>7 DEF left, right

\* The places at which a line may begin.
LineStarts(text, i) == {0} \cup {j \in 1..Len(text) : j < i /\ text[j] = "newline"}

LEMMA NewlineIs ==
    ASSUME NEW text, Len(text) \in Nat, NEW i \in Nat
    PROVE  /\ NewlineBefore(text, i) \in LineStarts(text, i) /\ NewlineBefore(text, i) \in 0..Len(text)
           /\ \A j \in LineStarts(text, i) : j =< NewlineBefore(text, i)
  <1> DEFINE T == LineStarts(text, i)
  <1>1. T \in SUBSET (0..Len(text)) /\ T # {}
    BY DEF LineStarts
  <1>2. NewlineBefore(text, i) = Max(T)
    BY DEF NewlineBefore, LineStarts
  <1> HIDE DEF T
  <1>3. Max(T) \in T /\ \A j \in T : j =< Max(T)
    BY <1>1, GreatestNumber
  <1> QED BY <1>1, <1>2, <1>3 DEF T

LEMMA NewlineIsAt ==
    ASSUME NEW text, Len(text) \in Nat, NEW i \in Nat,
           NEW b \in LineStarts(text, i), \A j \in LineStarts(text, i) : j =< b
    PROVE  NewlineBefore(text, i) = b
  <1>1. b \in Nat
    BY DEF LineStarts
  <1>2. NewlineBefore(text, i) \in Nat /\ b =< NewlineBefore(text, i) /\ NewlineBefore(text, i) =< b
    BY NewlineIs
  <1> QED BY <1>1, <1>2

\* v is what follows a place of u at which a line may begin.
Follows(u, d, v) ==
    /\ d \in LineStarts(u, Len(u) + 1) /\ Len(u) = d + Len(v)
    /\ \A p \in 1..Len(v) : u[d + p] = v[p]

LEMMA NewlineShifts ==
    ASSUME NEW u, NEW d, NEW v, Len(u) \in Nat, Len(v) \in Nat, Follows(u, d, v),
           NEW p \in 1..(Len(v) + 1)
    PROVE  NewlineBefore(u, d + p) = d + NewlineBefore(v, p)
  <1> DEFINE b == NewlineBefore(v, p)
  <1>1. d \in 0..Len(u) /\ (d = 0 \/ (d \in 1..Len(u) /\ u[d] = "newline")) /\ Len(u) = d + Len(v)
    BY DEF Follows, LineStarts
  <1>2. p \in Nat /\ d + p \in Nat
    BY <1>1
  <1>3. b \in LineStarts(v, p) /\ b \in 0..Len(v) /\ \A j \in LineStarts(v, p) : j =< b
    BY <1>2, NewlineIs
  <1> HIDE DEF b
  <1>4. d + b \in LineStarts(u, d + p)
    <2>1. CASE b = 0
      <3>1. d < d + p /\ d + b = d
        BY <1>1, <1>2, <2>1
      <3> QED BY <1>1, <3>1 DEF LineStarts
    <2>2. CASE b # 0
      <3>1. b \in 1..Len(v) /\ b < p /\ v[b] = "newline"
        BY <1>3, <2>2 DEF LineStarts
      <3>2. d + b \in 1..Len(u) /\ d + b < d + p
        BY <1>1, <1>2, <3>1
      <3>3. u[d + b] = "newline"
        BY <3>1 DEF Follows
      <3> QED BY <3>2, <3>3 DEF LineStarts
    <2> QED BY <2>1, <2>2
  <1>5. ASSUME NEW j \in LineStarts(u, d + p) PROVE j =< d + b
    <2> SUFFICES ASSUME ~(j =< d + b) PROVE FALSE
      OBVIOUS
    <2>1. j \in Nat
      BY DEF LineStarts
    <2>2. j \in 1..Len(u) /\ j < d + p /\ u[j] = "newline"
      <3>1. j # 0
        BY <1>1, <1>3, <2>1
      <3> QED BY <3>1 DEF LineStarts
    <2>3. j - d \in 1..Len(v) /\ j - d < p /\ d + (j - d) = j /\ ~(j - d =< b)
      BY <1>1, <1>2, <1>3, <2>1, <2>2
    <2>4. v[j - d] = "newline"
      BY <2>2, <2>3 DEF Follows
    <2>5. (j - d) \in LineStarts(v, p)
      BY <2>3, <2>4 DEF LineStarts
    <2> QED BY <1>3, <2>3, <2>5
  <1>6. NewlineBefore(u, d + p) = d + b
    BY <1>2, <1>4, <1>5, NewlineIsAt
  <1> QED BY <1>6 DEF b

\* What ends at a place does not depend on what is before the line, or after it.
LEMMA EndingShifts ==
    ASSUME NEW S, NEW u \in Seq(S), NEW d, NEW v \in Seq(S), Follows(u, d, v), NEW p \in 1..Len(v)
    PROVE  LineEnding(u, d + p) = LineEnding(v, p)
  <1>1. Len(u) \in Nat /\ Len(v) \in Nat /\ p \in 1..(Len(v) + 1) /\ p \in Nat
    OBVIOUS
  <1>2. d \in Nat /\ Len(u) = d + Len(v) /\ u[d + p] = v[p]
    BY DEF Follows, LineStarts
  <1>3. PICK b \in 0..Len(v) : b = NewlineBefore(v, p)
    BY <1>1, NewlineIs
  <1>4. NewlineBefore(u, d + p) = d + b
    BY <1>1, <1>3, NewlineShifts
  <1>5. SubSeq(u, d + (b + 1), d + (p - 1)) = SubSeq(v, b + 1, p - 1)
    <2>1. PICK e \in Nat \ {0}, l \in Nat : e = b + 1 /\ l = p - 1
      <3>1. b + 1 \in Nat \ {0} /\ p - 1 \in Nat
        BY <1>1
      <3> QED BY <3>1
    <2>2. ASSUME NEW q \in e..l
          PROVE  q \in 1..Len(v) /\ d + q \in 1..Len(u) /\ u[d + q] = v[q]
      <3>1. q \in 1..Len(v) /\ d + q \in 1..Len(u)
        BY <1>1, <1>2, <2>1, <2>2
      <3> QED BY <3>1 DEF Follows
    <2>3. SubSeq(u, d + e, d + l) = SubSeq(v, e, l)
      <3>1. u \in Seq(S) /\ v \in Seq(S) /\ d \in Nat /\ e \in Nat \ {0} /\ l \in Nat
        BY <1>2, <2>1
      <3> QED BY <2>2, <3>1, SameParts
    <2> QED BY <2>1, <2>3
  <1>6. d + (b + 1) = (d + b) + 1 /\ d + (p - 1) = (d + p) - 1
    BY <1>1, <1>2
  <1>7. SubSeq(u, NewlineBefore(u, d + p) + 1, (d + p) - 1) = SubSeq(v, NewlineBefore(v, p) + 1, p - 1)
    BY <1>3, <1>4, <1>5, <1>6
  <1> QED BY <1>2, <1>7 DEF LineEnding

LEMMA EndingOfPrefix ==
    ASSUME NEW S, NEW u \in Seq(S), NEW x \in Seq(S), Len(x) =< Len(u),
           \A k \in 1..Len(x) : u[k] = x[k], NEW i \in 1..Len(x)
    PROVE  LineEnding(u, i) = LineEnding(x, i)
  <1>1. Len(u) \in Nat /\ Len(x) \in Nat /\ i \in Nat /\ i =< Len(x)
    OBVIOUS
  <1>2. LineStarts(u, i) = LineStarts(x, i)
    <2>1. \A j \in 1..Len(u) : j < i => j \in 1..Len(x)
      BY <1>1
    <2>2. \A j \in 1..Len(x) : j \in 1..Len(u)
      BY <1>1
    <2> QED BY <2>1, <2>2 DEF LineStarts
  <1>3. PICK b \in 0..Len(x) : b = NewlineBefore(x, i)
    BY <1>1, NewlineIs
  <1>4. NewlineBefore(u, i) = b
    BY <1>2, <1>3 DEF NewlineBefore, LineStarts
  <1>5. PICK z \in Nat : z = 0
    OBVIOUS
  <1>6. SubSeq(u, z + (b + 1), z + (i - 1)) = SubSeq(x, b + 1, i - 1)
    <2>1. PICK e \in Nat \ {0}, l \in Nat : e = b + 1 /\ l = i - 1
      <3>1. b + 1 \in Nat \ {0} /\ i - 1 \in Nat
        BY <1>1
      <3> QED BY <3>1
    <2>2. ASSUME NEW q \in e..l
          PROVE  q \in 1..Len(x) /\ z + q \in 1..Len(u) /\ u[z + q] = x[q]
      <3>1. q \in 1..Len(x) /\ q \in 1..Len(u) /\ z + q = q
        BY <1>1, <1>5, <2>1, <2>2
      <3> QED BY <3>1
    <2>3. SubSeq(u, z + e, z + l) = SubSeq(x, e, l)
      <3>1. u \in Seq(S) /\ x \in Seq(S) /\ z \in Nat /\ e \in Nat \ {0} /\ l \in Nat
        BY <1>5, <2>1
      <3> QED BY <2>2, <3>1, SameParts
    <2> QED BY <2>1, <2>3
  <1>7. z + (b + 1) = b + 1 /\ z + (i - 1) = i - 1
    BY <1>1, <1>5
  <1>8. SubSeq(u, b + 1, i - 1) = SubSeq(x, b + 1, i - 1)
    BY <1>6, <1>7
  <1> QED BY <1>3, <1>4, <1>8 DEF LineEnding

LEMMA EndingTyped ==
    ASSUME NEW S, NEW u \in Seq(S), NEW i \in 1..Len(u)
    PROVE  LineEnding(u, i) \in Seq(S)
  <1> DEFINE l == SubSeq(u, NewlineBefore(u, i) + 1, i - 1)
             solid == {k \in 1..Len(l) : l[k] # " "}
  <1>1. Len(u) \in Nat /\ i \in Nat
    OBVIOUS
  <1>2. PICK b \in 0..Len(u) : b = NewlineBefore(u, i)
    BY <1>1, NewlineIs
  <1>3. l \in Seq(S)
    <2>1. b + 1 \in Int /\ i - 1 \in Int /\ \A q \in (b + 1)..(i - 1) : q \in 1..Len(u)
      BY <1>1
    <2>2. \A q \in (b + 1)..(i - 1) : u[q] \in S
      BY <2>1
    <2>3. SubSeq(u, b + 1, i - 1) \in Seq(S)
      BY <2>1, <2>2, SubSeqProperties
    <2> QED BY <1>2, <2>3
  <1> HIDE DEF l
  <1>4. Trim(l) \in Seq(S)
    <2>1. CASE solid = {}
      BY <2>1, EmptySeq DEF Trim
    <2>2. CASE solid # {}
      <3>1. Len(l) \in Nat
        BY <1>3
      <3>2. solid \in SUBSET (0..Len(l)) /\ solid \in SUBSET Nat
        <4>1. solid \subseteq 1..Len(l)
          OBVIOUS
        <4>2. 1..Len(l) \subseteq 0..Len(l) /\ 1..Len(l) \subseteq Nat
          BY <3>1
        <4> QED BY <4>1, <4>2
      <3>3. \A k \in solid : k \in 1..Len(l)
        OBVIOUS
      <3>4. Trim(l) = SubSeq(l, Min(solid), Max(solid))
        BY <2>2 DEF Trim
      <3> HIDE DEF solid
      <3>5. PICK a \in 1..Len(l), c \in 1..Len(l) : a = Min(solid) /\ c = Max(solid)
        BY <2>2, <3>1, <3>2, <3>3, LeastNumber, GreatestNumber
      <3>6. \A q \in a..c : q \in 1..Len(l)
        BY <3>1
      <3>7. \A q \in a..c : l[q] \in S
        BY <1>3, <3>6
      <3>8. SubSeq(l, a, c) \in Seq(S)
        BY <3>7, SubSeqProperties
      <3> QED BY <3>4, <3>5, <3>8
    <2> QED BY <2>1, <2>2
  <1> QED BY <1>4, EmptySeq DEF LineEnding, l

-----------------------------------------------------------------------------
Endings(text) == [i \in 1..Len(text) |-> LineEnding(text, i)]

LEMMA LinesJoined ==
    ASSUME NEW S, NEW x \in Seq(S), NEW c \in Seq(S)
    PROVE  /\ AfterLines(x) \in Seq(S)
           /\ Lines(x \o c) = Lines(x) \o Lines(AfterLines(x) \o c)
           /\ AfterLines(x \o c) = AfterLines(AfterLines(x) \o c)
           /\ Lines(x) \in Seq(Seq(S)) /\ Lines(AfterLines(x) \o c) \in Seq(Seq(S))
  <1> DEFINE r == AfterLines(x)
             u == x \o c
             v == r \o c
             n == Len(x)
             m == Len(c)
  <1>1. n \in Nat /\ m \in Nat
    OBVIOUS
  <1>2. PICK d \in 0..n : /\ d = NewlineBefore(x, n + 1)
                          /\ d \in LineStarts(x, n + 1) /\ \A j \in LineStarts(x, n + 1) : j =< d
    <2>1. Len(x) \in Nat /\ Len(x) + 1 \in Nat
      BY <1>1
    <2> QED BY <2>1, NewlineIs
  <1>3. r \in Seq(S) /\ Len(r) = n - d /\ \A p \in 1..(n - d) : r[p] = x[d + p]
    <2>1. r = SubSeq(x, d + 1, n)
      BY <1>2 DEF AfterLines
    <2>2. d + 1 \in Int /\ n \in Int /\ \A q \in (d + 1)..n : q \in 1..n
      BY <1>1
    <2>3. \A q \in (d + 1)..n : x[q] \in S
      BY <2>2
    <2> HIDE DEF r, n
    <2>4. /\ r \in Seq(S) /\ Len(r) = IF d + 1 <= n THEN n - (d + 1) + 1 ELSE 0
          /\ \A p \in 1..(n - (d + 1) + 1) : r[p] = x[d + 1 + p - 1]
      BY <2>1, <2>2, <2>3, SubSeqProperties
    <2>5. n - (d + 1) + 1 = n - d /\ (~(d + 1 <= n) => n - d = 0)
          /\ \A p \in 1..(n - d) : d + 1 + p - 1 = d + p
      BY <1>1
    <2> QED BY <2>4, <2>5
  <1> HIDE DEF r
  <1>4. /\ u \in Seq(S) /\ Len(u) = n + m
        /\ \A i \in 1..(n + m) : u[i] = IF i <= n THEN x[i] ELSE c[i - n]
    BY ConcatProperties, Zenon
  <1>5. /\ v \in Seq(S) /\ Len(v) = Len(r) + m
        /\ \A i \in 1..(Len(r) + m) : v[i] = IF i <= Len(r) THEN r[i] ELSE c[i - Len(r)]
    BY <1>3, ConcatProperties, Zenon
  <1> HIDE DEF u, v, n, m
  <1>6. Follows(u, d, v)
    <2>1. d \in LineStarts(u, Len(u) + 1)
      <3>1. CASE d = 0
        BY <3>1 DEF LineStarts
      <3>2. CASE d # 0
        <4>1. d \in 1..n /\ x[d] = "newline"
          BY <1>2, <3>2 DEF LineStarts, n
        <4>2. d \in 1..(n + m) /\ d <= n /\ d < n + m + 1
          BY <1>1, <4>1
        <4>3. u[d] = "newline"
          BY <1>4, <4>1, <4>2
        <4> QED BY <1>4, <4>2, <4>3 DEF LineStarts
      <3> QED BY <3>1, <3>2
    <2>2. Len(u) = d + Len(v)
      BY <1>1, <1>3, <1>4, <1>5
    <2>3. ASSUME NEW p \in 1..Len(v) PROVE u[d + p] = v[p]
      <3>1. p \in 1..(Len(r) + m) /\ d + p \in 1..(n + m) /\ Len(r) = n - d
        BY <1>1, <1>3, <1>5
      <3>2. CASE p <= Len(r)
        <4>1. p \in 1..(n - d) /\ d + p <= n
          BY <1>1, <3>1, <3>2
        <4> QED BY <1>3, <1>4, <1>5, <3>1, <3>2, <4>1
      <3>3. CASE ~(p <= Len(r))
        <4>1. ~(d + p <= n) /\ (d + p) - n = p - Len(r)
          BY <1>1, <3>1, <3>3
        <4> QED BY <1>4, <1>5, <3>1, <3>3, <4>1
      <3> QED BY <3>2, <3>3
    <2> QED BY <2>1, <2>2, <2>3 DEF Follows
  <1> DEFINE H == [j \in 1..m |-> LineEnding(u, n + j)]
  <1>7. H \in Seq(Seq(S)) /\ Len(H) = m /\ \A j \in 1..m : H[j] = LineEnding(u, n + j)
    <2>1. \A j \in 1..m : LineEnding(u, n + j) \in Seq(S)
      <3> TAKE j \in 1..m
      <3>1. n + j \in 1..Len(u)
        BY <1>1, <1>4
      <3> QED BY <1>4, <3>1, EndingTyped
    <2> QED BY <1>1, <2>1
  <1>8. \A t \in Seq(S) : /\ Endings(t) \in Seq(Seq(S)) /\ Len(Endings(t)) = Len(t)
                          /\ \A i \in 1..Len(t) : Endings(t)[i] = LineEnding(t, i)
    <2> TAKE t \in Seq(S)
    <2>1. \A i \in 1..Len(t) : LineEnding(t, i) \in Seq(S)
      BY EndingTyped
    <2>2. Len(t) \in Nat
      OBVIOUS
    <2> QED BY <2>1, <2>2 DEF Endings
  <1> HIDE DEF H
  <1>9. Joins(Endings(x), H, Endings(u))
    <2>1. Len(Endings(x)) = n /\ Len(Endings(u)) = n + m /\ Len(x) = n
      BY <1>4, <1>8 DEF n
    <2>2. ASSUME NEW i \in 1..n PROVE Endings(u)[i] = Endings(x)[i]
      <3>1. i \in 1..Len(u) /\ i \in 1..Len(x) /\ Len(x) =< Len(u)
        BY <1>1, <1>4, <2>1
      <3>2. \A k \in 1..Len(x) : u[k] = x[k]
        <4>1. \A k \in 1..n : k \in 1..(n + m) /\ k <= n
          BY <1>1
        <4> QED BY <1>4, <2>1, <4>1
      <3>3. LineEnding(u, i) = LineEnding(x, i)
        BY <1>4, <3>1, <3>2, EndingOfPrefix
      <3> QED BY <1>4, <1>8, <3>1, <3>3
    <2>3. ASSUME NEW j \in 1..m PROVE Endings(u)[n + j] = H[j]
      <3>1. n + j \in 1..Len(u)
        BY <1>1, <1>4
      <3> QED BY <1>4, <1>7, <1>8, <3>1
    <2> QED BY <1>7, <2>1, <2>2, <2>3 DEF Joins
  <1>10. Joins(Endings(r), H, Endings(v))
    <2>1. Len(Endings(r)) = Len(r) /\ Len(Endings(v)) = Len(r) + m
      BY <1>3, <1>5, <1>8
    <2>2. ASSUME NEW i \in 1..Len(r) PROVE Endings(v)[i] = Endings(r)[i]
      <3>1. Len(r) \in Nat
        BY <1>3
      <3>2. i \in 1..Len(v) /\ Len(r) =< Len(v)
        BY <1>1, <1>5, <3>1
      <3>3. \A k \in 1..Len(r) : v[k] = r[k]
        <4>1. \A k \in 1..Len(r) : k \in 1..(Len(r) + m) /\ k <= Len(r)
          BY <1>1, <3>1
        <4> QED BY <1>5, <4>1
      <3>4. LineEnding(v, i) = LineEnding(r, i)
        BY <1>3, <1>5, <3>2, <3>3, EndingOfPrefix
      <3> QED BY <1>3, <1>5, <1>8, <3>2, <3>4
    <2>3. ASSUME NEW j \in 1..m PROVE Endings(v)[Len(r) + j] = H[j]
      <3>1. Len(r) \in Nat /\ Len(r) = n - d
        BY <1>3
      <3>2. Len(r) + j \in 1..Len(v) /\ d + (Len(r) + j) = n + j
        BY <1>1, <1>5, <3>1
      <3>3. LineEnding(u, d + (Len(r) + j)) = LineEnding(v, Len(r) + j)
        BY <1>4, <1>5, <1>6, <3>2, EndingShifts
      <3> QED BY <1>5, <1>7, <1>8, <3>2, <3>3
    <2> QED BY <1>7, <2>1, <2>2, <2>3 DEF Joins
  <1>11. Without(Endings(r), <<>>) = <<>>
    <2>1. Len(Endings(r)) \in Nat
      BY <1>3, <1>8
    <2>2. ASSUME NEW i \in 1..Len(Endings(r)) PROVE Endings(r)[i] = <<>>
      <3>1. i \in 1..Len(r) /\ i \in 1..(n - d) /\ Endings(r)[i] = LineEnding(r, i)
        BY <1>3, <1>8
      <3>2. r[i] # "newline"
        <4> SUFFICES ASSUME x[d + i] = "newline" PROVE FALSE
          BY <1>3, <3>1
        <4>1. d + i \in 1..n /\ d + i < n + 1 /\ ~(d + i =< d)
          BY <1>1, <3>1
        <4>2. d + i \in LineStarts(x, n + 1)
          BY <4>1 DEF LineStarts, n
        <4> QED BY <1>2, <4>1, <4>2
      <3> QED BY <3>1, <3>2 DEF LineEnding
    <2> QED BY <2>1, <2>2, WithoutAny
  <1>12. Lines(u) = Lines(x) \o Without(H, <<>>) /\ Lines(x) \in Seq(Seq(S))
    <2>1. Without(Endings(u), <<>>) = Without(Endings(x), <<>>) \o Without(H, <<>>)
      BY <1>4, <1>7, <1>8, <1>9, WithoutJoined
    <2>2. Without(Endings(x), <<>>) \in Seq(Seq(S))
      BY <1>8, WithoutTyped
    <2> QED BY <2>1, <2>2 DEF Lines, Endings
  <1>13. Lines(v) = Without(H, <<>>) /\ Without(H, <<>>) \in Seq(Seq(S))
    <2>1. Without(Endings(v), <<>>) = Without(Endings(r), <<>>) \o Without(H, <<>>)
      BY <1>3, <1>5, <1>7, <1>8, <1>10, WithoutJoined
    <2>2. Without(H, <<>>) \in Seq(Seq(S))
      BY <1>7, WithoutTyped
    <2>3. <<>> \o Without(H, <<>>) = Without(H, <<>>)
      BY <2>2, ConcatEmptySeq
    <2> QED BY <1>11, <2>1, <2>2, <2>3 DEF Lines, Endings
  <1>14. AfterLines(u) = AfterLines(v)
    <2>1. Len(u) \in Nat /\ Len(v) \in Nat /\ Len(v) + 1 \in 1..(Len(v) + 1) /\ Len(v) + 1 \in Nat
      BY <1>4, <1>5
    <2>2. PICK b \in 0..Len(v) : b = NewlineBefore(v, Len(v) + 1)
      BY <2>1, NewlineIs
    <2>3. NewlineBefore(u, d + (Len(v) + 1)) = d + b
      BY <1>6, <2>1, <2>2, NewlineShifts
    <2>4. d \in Nat /\ Len(u) = d + Len(v)
      BY <1>6 DEF Follows
    <2>5. d + (Len(v) + 1) = Len(u) + 1 /\ d + (b + 1) = (d + b) + 1
      BY <2>1, <2>4
    <2>6. SubSeq(u, d + (b + 1), d + Len(v)) = SubSeq(v, b + 1, Len(v))
      <3>1. PICK e \in Nat \ {0}, l \in Nat : e = b + 1 /\ l = Len(v)
        <4>1. b + 1 \in Nat \ {0}
          BY <2>1, <2>2
        <4> QED BY <2>1, <4>1
      <3>2. ASSUME NEW q \in (b + 1)..Len(v)
            PROVE  q \in 1..Len(v) /\ d + q \in 1..Len(u) /\ u[d + q] = v[q]
        <4>1. q \in 1..Len(v) /\ d + q \in 1..Len(u)
          BY <2>1, <2>4, <3>2
        <4> QED BY <1>6, <4>1 DEF Follows
      <3>3. \A q \in e..l : q \in 1..Len(v) /\ d + q \in 1..Len(u) /\ u[d + q] = v[q]
        BY <3>1, <3>2
      <3>4. SubSeq(u, d + e, d + l) = SubSeq(v, e, l)
        <4>1. u \in Seq(S) /\ v \in Seq(S) /\ d \in Nat /\ e \in Nat \ {0} /\ l \in Nat
          BY <1>4, <1>5, <2>4, <3>1
        <4> QED BY <3>3, <4>1, SameParts
      <3> QED BY <3>1, <3>4
    <2> QED BY <2>2, <2>3, <2>4, <2>5, <2>6 DEF AfterLines
  <1> QED BY <1>3, <1>12, <1>13, <1>14 DEF u, v, r

-----------------------------------------------------------------------------
Chars == Bytes \cup {"y", "?", "nothing"}
Characters(bytes) == [i \in 1..Len(bytes) |-> Character(bytes, i)]

LEMMA CharactersTyped ==
    ASSUME NEW b \in Seq(Bytes)
    PROVE  /\ Characters(b) \in Seq(Chars) /\ Len(Characters(b)) = Len(b)
           /\ \A i \in 1..Len(b) : Characters(b)[i] = Character(b, i)
  <1>1. \A i \in 1..Len(b) : b[i] \in Bytes
    OBVIOUS
  <1>2. \A i \in 1..Len(b) : Character(b, i) \in Chars
    BY <1>1 DEF Character, Chars
  <1>3. Len(b) \in Nat
    OBVIOUS
  <1> QED BY <1>2, <1>3 DEF Characters

LEMMA DecodedTyped ==
    ASSUME NEW b \in Seq(Bytes)
    PROVE  Decoded(b) \in Seq(Chars)
  <1>1. Without(Characters(b), "nothing") \in Seq(Chars)
    BY CharactersTyped, WithoutTyped
  <1> QED BY <1>1 DEF Decoded, Characters

\* A cut between two characters does not show.
LEMMA DecodedJoined ==
    ASSUME NEW a \in Seq(Bytes), NEW c \in Seq(Bytes), NEW u \in Seq(Bytes), Joins(a, c, u),
           Len(a) = 0 \/ a[Len(a)] # "half1"
    PROVE  Decoded(u) = Decoded(a) \o Decoded(c)
  <1> DEFINE n == Len(a)
             m == Len(c)
  <1>1. /\ n \in Nat /\ m \in Nat /\ Len(u) = n + m
        /\ \A i \in 1..n : u[i] = a[i]
        /\ \A i \in 1..m : u[n + i] = c[i]
        /\ n = 0 \/ a[n] # "half1"
    BY DEF Joins
  <1>2. Len(a) = n /\ Len(c) = m
    OBVIOUS
  <1> HIDE DEF n, m
  <1>3. ASSUME NEW i \in 1..n PROVE Whole(u, i) <=> Whole(a, i)
    <2>1. CASE i = n
      <3>1. a[i] # "half1"
        BY <1>1, <2>1
      <3> QED BY <1>1, <3>1 DEF Whole
    <2>2. CASE i # n
      <3>1. i + 1 \in 1..n /\ i < Len(a) /\ i < Len(u)
        BY <1>1, <1>2, <2>2
      <3> QED BY <1>1, <3>1 DEF Whole
    <2> QED BY <2>1, <2>2
  <1>4. ASSUME NEW i \in 1..m PROVE Whole(u, n + i) <=> Whole(c, i)
    <2>1. (n + i) + 1 = n + (i + 1) /\ (n + i < Len(u) <=> i < Len(c))
      BY <1>1, <1>2
    <2>2. CASE i < Len(c)
      <3>1. i + 1 \in 1..m
        BY <1>1, <1>2, <2>2
      <3>2. u[(n + i) + 1] = c[i + 1] /\ u[n + i] = c[i]
        BY <1>1, <2>1, <3>1
      <3> QED BY <2>1, <2>2, <3>2 DEF Whole
    <2>3. CASE ~(i < Len(c))
      BY <2>1, <2>3 DEF Whole
    <2> QED BY <2>2, <2>3
  <1>5. ASSUME NEW i \in 1..n PROVE Character(u, i) = Character(a, i)
    <2>1. i > 1 => i - 1 \in 1..n
      BY <1>1
    <2>2. i > 1 => (Whole(u, i - 1) <=> Whole(a, i - 1))
      BY <1>3, <2>1
    <2>3. u[i] = a[i] /\ (Whole(u, i) <=> Whole(a, i))
      BY <1>1, <1>3
    <2> QED BY <2>2, <2>3 DEF Character
  <1>6. ASSUME NEW i \in 1..m PROVE Character(u, n + i) = Character(c, i)
    <2>1. u[n + i] = c[i] /\ (Whole(u, n + i) <=> Whole(c, i))
      BY <1>1, <1>4
    <2>2. (n + i > 1 /\ Whole(u, (n + i) - 1)) <=> (i > 1 /\ Whole(c, i - 1))
      <3>1. CASE i = 1
        <4>1. ~(n + i > 1 /\ Whole(u, (n + i) - 1))
          <5> SUFFICES ASSUME n # 0 PROVE ~Whole(u, (n + i) - 1)
            BY <1>1, <3>1
          <5>1. (n + i) - 1 = n /\ n \in 1..n
            BY <1>1, <3>1
          <5>2. u[n] # "half1"
            BY <1>1, <5>1
          <5> QED BY <5>1, <5>2 DEF Whole
        <4> QED BY <3>1, <4>1
      <3>2. CASE i # 1
        <4>1. i - 1 \in 1..m /\ n + (i - 1) = (n + i) - 1 /\ i > 1 /\ n + i > 1
          BY <1>1, <3>2
        <4>2. Whole(u, n + (i - 1)) <=> Whole(c, i - 1)
          BY <1>4, <4>1
        <4> QED BY <4>1, <4>2
      <3> QED BY <3>1, <3>2
    <2> QED BY <2>1, <2>2 DEF Character
  <1>7. Joins(Characters(a), Characters(c), Characters(u))
    <2>1. /\ Len(Characters(a)) = n /\ Len(Characters(c)) = m /\ Len(Characters(u)) = n + m
          /\ \A i \in 1..n : Characters(a)[i] = Character(a, i)
          /\ \A i \in 1..m : Characters(c)[i] = Character(c, i)
          /\ \A i \in 1..(n + m) : Characters(u)[i] = Character(u, i)
      BY <1>1, <1>2, CharactersTyped
    <2>2. /\ \A i \in 1..n : i \in 1..(n + m)
          /\ \A i \in 1..m : n + i \in 1..(n + m)
      BY <1>1
    <2> QED BY <1>5, <1>6, <2>1, <2>2 DEF Joins
  <1>8. Without(Characters(u), "nothing") =
            Without(Characters(a), "nothing") \o Without(Characters(c), "nothing")
    BY <1>7, CharactersTyped, WithoutJoined
  <1> QED BY <1>8 DEF Decoded, Characters

-----------------------------------------------------------------------------
\* A cut inside a character has been noticed; without one the events are right.
StreamInv ==
    /\ answer \in Seq(Bytes) /\ sent \in 0..Len(answer) /\ torn \in BOOLEAN
    /\ streaming = "idle" => sent = 0 /\ events = <<>> /\ buffered = <<>>
    /\ torn \/ sent = 0 \/ answer[sent] # "half1"
    /\ StreamIsText

LEMMA NothingDecoded ==
    ASSUME NEW b, NEW k, k = 0
    PROVE  LET text == Decoded(SubSeq(b, 1, k)) IN Lines(text) = <<>> /\ AfterLines(text) = <<>>
  <1>1. SubSeq(b, 1, k) = <<>>
    BY SubSeqEmpty
  <1>2. Len(<<>>) = 0
    OBVIOUS
  <1>3. Decoded(<<>>) = <<>>
    <2>1. [i \in 1..Len(<<>>) |-> Character(<<>>, i)] = <<>>
      BY <1>2
    <2>2. Without(<<>>, "nothing") = <<>>
      BY <1>2, WithoutAny
    <2> QED BY <2>1, <2>2 DEF Decoded
  <1>4. Lines(<<>>) = <<>>
    <2>1. [i \in 1..Len(<<>>) |-> LineEnding(<<>>, i)] = <<>>
      BY <1>2
    <2>2. Without(<<>>, <<>>) = <<>>
      BY <1>2, WithoutAny
    <2> QED BY <2>1, <2>2 DEF Lines
  <1>5. AfterLines(<<>>) = <<>>
    <2>1. <<>> \in Seq({}) /\ <<>> \o <<>> = <<>>
      BY EmptySeq, ConcatEmptySeq
    <2>2. NewlineBefore(<<>>, 0 + 1) \in Nat
      <3>1. PICK one \in Nat : one = 0 + 1
        OBVIOUS
      <3>2. Len(<<>>) \in Nat /\ 0..Len(<<>>) \in SUBSET Nat
        BY <1>2
      <3>3. NewlineBefore(<<>>, one) \in 0..Len(<<>>)
        BY <3>1, <3>2, NewlineIs
      <3> QED BY <3>1, <3>2, <3>3
    <2>3. 0 < NewlineBefore(<<>>, 0 + 1) + 1
      BY <2>2
    <2>4. SubSeq(<<>>, NewlineBefore(<<>>, 0 + 1) + 1, 0) = <<>>
      BY <2>2, <2>3, SubSeqEmpty
    <2> QED BY <1>2, <2>4 DEF AfterLines
  <1> QED BY <1>1, <1>3, <1>4, <1>5

LEMMA StreamInitOK == StreamInit => StreamInv
  <1> SUFFICES ASSUME StreamInit PROVE StreamInv
    OBVIOUS
  <1>1. answer = <<>> /\ sent = 0 /\ buffered = <<>> /\ events = <<>> /\ torn = FALSE /\ streaming = "idle"
    BY DEF StreamInit
  <1>2. answer \in Seq(Bytes) /\ sent \in 0..Len(answer)
    BY <1>1, EmptySeq
  <1>3. StreamIsText
    BY <1>1, NothingDecoded DEF StreamIsText
  <1> QED BY <1>1, <1>2, <1>3 DEF StreamInv

LEMMA CallStreamKeeps ==
    ASSUME StreamInv, CallStream
    PROVE  StreamInv'
  <1>1. /\ sent = 0 /\ events = <<>> /\ buffered = <<>> /\ streaming' = "open"
        /\ UNCHANGED <<sent, buffered, events, torn>> /\ torn \in BOOLEAN
    BY DEF StreamInv, CallStream
  <1>2. answer' \in Seq(Bytes)
    <2>1. answer' \in SeqOf(Bytes, MaxBytes)
      BY DEF CallStream, Answers
    <2>2. PICK m \in 0..MaxBytes : answer' \in [1..m -> Bytes]
      BY <2>1 DEF SeqOf
    <2>3. m \in Nat
      BY StreamAssumption
    <2> QED BY <2>2, <2>3
  <1>3. sent' \in 0..Len(answer')
    <2>1. Len(answer') \in Nat
      BY <1>2
    <2> QED BY <1>1, <2>1
  <1>4. StreamIsText'
    BY <1>1, NothingDecoded DEF StreamIsText
  <1> QED BY <1>1, <1>2, <1>3, <1>4 DEF StreamInv

LEMMA ChunkArrivesKeeps ==
    ASSUME StreamInv, NEW k \in (sent + 1)..Len(answer), ChunkArrives(k)
    PROVE  StreamInv'
  <1> DEFINE a == SubSeq(answer, 1, sent)
             c == SubSeq(answer, sent + 1, k)
             u == SubSeq(answer, 1, k)
             x == Decoded(a)
             y == Decoded(c)
  <1>1. /\ answer \in Seq(Bytes) /\ sent \in 0..Len(answer) /\ torn \in BOOLEAN
        /\ torn \/ sent = 0 \/ answer[sent] # "half1"
        /\ Len(answer) \in Nat
    BY DEF StreamInv
  <1>2. /\ sent' = k /\ torn' = (torn \/ answer[k] = "half1") /\ answer' = answer
        /\ streaming = "open" /\ streaming' = "open"
    BY DEF ChunkArrives
  <1>3. events' = events \o Lines(buffered \o y) /\ buffered' = AfterLines(buffered \o y)
    BY DEF ChunkArrives
  <1>4. k \in Nat /\ k \in 0..Len(answer) /\ k # 0 /\ k > sent
    BY <1>1
  <1>5. answer' \in Seq(Bytes) /\ sent' \in 0..Len(answer') /\ torn' \in BOOLEAN
    BY <1>1, <1>2, <1>4
  <1>6. ASSUME ~torn' PROVE events' = Lines(Decoded(u)) /\ buffered' = AfterLines(Decoded(u))
    <2>1. ~torn /\ (sent = 0 \/ answer[sent] # "half1")
      BY <1>1, <1>2, <1>6
    <2>2. events = Lines(x) /\ buffered = AfterLines(x)
      BY <1>2, <2>1 DEF StreamInv, StreamIsText
    <2>3. a \in Seq(Bytes) /\ c \in Seq(Bytes) /\ u \in Seq(Bytes) /\ Joins(a, c, u)
          /\ (Len(a) = 0 \/ a[Len(a)] # "half1")
      <3>1. /\ \A i \in 1..sent : answer[i] \in Bytes
            /\ \A i \in (sent + 1)..k : answer[i] \in Bytes
            /\ \A i \in 1..k : answer[i] \in Bytes
        <4>1. /\ \A i \in 1..sent : i \in 1..Len(answer)
              /\ \A i \in (sent + 1)..k : i \in 1..Len(answer)
              /\ \A i \in 1..k : i \in 1..Len(answer)
          BY <1>1, <1>4
        <4> QED BY <1>1, <4>1
      <3>2. /\ a \in Seq(Bytes) /\ Len(a) = IF 1 <= sent THEN sent - 1 + 1 ELSE 0
            /\ \A i \in 1..(sent - 1 + 1) : a[i] = answer[1 + i - 1]
        BY <1>1, <3>1, SubSeqProperties
      <3>3. /\ c \in Seq(Bytes) /\ Len(c) = IF sent + 1 <= k THEN k - (sent + 1) + 1 ELSE 0
            /\ \A i \in 1..(k - (sent + 1) + 1) : c[i] = answer[(sent + 1) + i - 1]
        <4>1. sent + 1 \in Int /\ k \in Int
          BY <1>1, <1>4
        <4> QED BY <3>1, <4>1, SubSeqProperties
      <3>4. /\ u \in Seq(Bytes) /\ Len(u) = IF 1 <= k THEN k - 1 + 1 ELSE 0
            /\ \A i \in 1..(k - 1 + 1) : u[i] = answer[1 + i - 1]
        BY <1>4, <3>1, SubSeqProperties
      <3> HIDE DEF a, c, u
      <3>5. Len(a) = sent /\ \A i \in 1..sent : a[i] = answer[i]
        BY <1>1, <3>2
      <3>6. Len(c) = k - sent /\ \A i \in 1..(k - sent) : c[i] = answer[sent + i]
        <4>1. k - (sent + 1) + 1 = k - sent /\ sent + 1 <= k
              /\ \A i \in 1..(k - sent) : (sent + 1) + i - 1 = sent + i
          BY <1>1, <1>4
        <4> QED BY <3>3, <4>1
      <3>7. Len(u) = k /\ \A i \in 1..k : u[i] = answer[i]
        BY <1>4, <3>4
      <3>8. Joins(a, c, u)
        <4>1. /\ \A i \in 1..sent : i \in 1..k
              /\ \A i \in 1..(k - sent) : sent + i \in 1..k
              /\ k = sent + (k - sent)
          BY <1>1, <1>4
        <4> QED BY <3>5, <3>6, <3>7, <4>1 DEF Joins
      <3>9. Len(a) = 0 \/ a[Len(a)] # "half1"
        <4>1. CASE sent = 0
          BY <3>5, <4>1
        <4>2. CASE sent # 0
          <5>1. sent \in 1..sent
            BY <1>1, <4>2
          <5> QED BY <2>1, <3>5, <4>2, <5>1
        <4> QED BY <4>1, <4>2
      <3> QED BY <3>2, <3>3, <3>4, <3>8, <3>9
    <2> HIDE DEF a, c, u
    <2>4. Decoded(u) = x \o y /\ x \in Seq(Chars) /\ y \in Seq(Chars)
      BY <2>3, DecodedJoined, DecodedTyped
    <2> HIDE DEF x, y
    <2>5. /\ Lines(x \o y) = Lines(x) \o Lines(AfterLines(x) \o y)
          /\ AfterLines(x \o y) = AfterLines(AfterLines(x) \o y)
      BY <2>4, LinesJoined
    <2> QED BY <1>3, <2>2, <2>4, <2>5
  <1>7. StreamIsText'
    BY <1>2, <1>6 DEF StreamIsText
  <1>8. torn' \/ sent' = 0 \/ answer'[sent'] # "half1"
    BY <1>2
  <1> QED BY <1>2, <1>5, <1>7, <1>8 DEF StreamInv

LEMMA StreamEndsKeeps ==
    ASSUME StreamInv, StreamEnds
    PROVE  StreamInv'
  <1>1. /\ UNCHANGED <<answer, sent, torn>> /\ streaming = "open" /\ streaming' = "ended"
        /\ events' = IF buffered = <<>> THEN events ELSE Append(events, buffered)
    BY DEF StreamEnds
  <1> DEFINE text == Decoded(SubSeq(answer, 1, sent))
  <1>2. ASSUME ~torn
        PROVE  events' = Lines(text)
                   \o (IF AfterLines(text) = <<>> THEN <<>> ELSE <<AfterLines(text)>>)
    <2>1. events = Lines(text) /\ buffered = AfterLines(text)
      BY <1>1, <1>2 DEF StreamInv, StreamIsText
    <2>2. text \in Seq(Chars)
      <3>1. answer \in Seq(Bytes) /\ sent \in 0..Len(answer) /\ Len(answer) \in Nat
        BY DEF StreamInv
      <3>2. \A i \in 1..sent : i \in 1..Len(answer)
        BY <3>1
      <3>3. \A i \in 1..sent : answer[i] \in Bytes
        BY <3>1, <3>2
      <3>4. SubSeq(answer, 1, sent) \in Seq(Bytes)
        BY <3>1, <3>3, SubSeqProperties
      <3> QED BY <3>4, DecodedTyped
    <2> HIDE DEF text
    <2>3. Lines(text) \in Seq(Seq(Chars)) /\ AfterLines(text) \in Seq(Chars)
      BY <2>2, LinesJoined, EmptySeq
    <2>4. CASE buffered = <<>>
      <3>1. Lines(text) \o <<>> = Lines(text)
        BY <2>3, ConcatEmptySeq
      <3> QED BY <1>1, <2>1, <2>4, <3>1
    <2>5. CASE buffered # <<>>
      <3>1. PICK p \in Seq(Seq(Chars)), e \in Seq(Chars) : p = Lines(text) /\ e = AfterLines(text)
        BY <2>3
      <3>2. Append(p, e) = p \o <<e>>
        OBVIOUS
      <3> QED BY <1>1, <2>1, <2>5, <3>1, <3>2
    <2> QED BY <2>4, <2>5
  <1>3. StreamIsText'
    BY <1>1, <1>2 DEF StreamIsText
  <1> QED BY <1>1, <1>3 DEF StreamInv

\* The connection or the consumer ends it.
LEMMA StreamBreaksKeeps ==
    ASSUME StreamInv, StreamBreaks
    PROVE  StreamInv'
  <1>1. UNCHANGED <<answer, sent, buffered, events, torn>> /\ streaming = "open" /\ streaming' = "broken"
    BY DEF StreamBreaks
  <1>2. StreamIsText'
    BY <1>1 DEF StreamInv, StreamIsText
  <1> QED BY <1>1, <1>2 DEF StreamInv

\* However the network cuts an answer, callStream() yields its lines, unless a cut
\* is inside a character, for answers of any length.
THEOREM StreamYieldsText == StreamSpec => []StreamIsText
  <1>1. StreamInit => StreamInv
    BY StreamInitOK
  <1>2. StreamInv /\ [StreamNext]_streamState => StreamInv'
    <2> SUFFICES ASSUME StreamInv, [StreamNext]_streamState PROVE StreamInv'
      OBVIOUS
    <2>1. CASE UNCHANGED streamState
      <3>1. UNCHANGED <<answer, sent, buffered, events, torn, streaming>>
        BY <2>1 DEF streamState
      <3>2. StreamIsText'
        BY <3>1 DEF StreamInv, StreamIsText
      <3> QED BY <3>1, <3>2 DEF StreamInv
    <2> QED BY <2>1, CallStreamKeeps, ChunkArrivesKeeps, StreamEndsKeeps, StreamBreaksKeeps
            DEF StreamNext
  <1>3. StreamInv => StreamIsText
    BY DEF StreamInv
  <1> QED BY <1>1, <1>2, <1>3, PTL DEF StreamSpec
==============================================================================
