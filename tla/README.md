# A verification model of the WhatsApp AI backend

TLA+ modules, TLC configurations and TLAPS proofs for the parts of this
repository whose correctness depends on the order in which things happen: the
durable workflow engine with its job queue and workers, and the smaller
protocols around it (approvals, owner commands, inbound messages, payment
events, provider calls, token quota, idempotency keys and locks, caches, the
in-memory engine, log shipping, start and shutdown of the process). What is
still to come is in section 8.

Every definition is a translation of code under `src/`. What the code only
calls (MongoDB through mongoose, Redis, BullMQ, provider APIs) is modelled from
how the code uses it and marked external in `PROJECT.json`.

## 1. Inventory of the system

| Component | Source | State it keeps | Operations |
|---|---|---|---|
| Workflow documents | `models/Workflow.js` | one MongoDB document per workflow: status, task array, logs, version `__v` | `createWorkflow`, `updateTask`, `appendLog`, `markCompleted`, `markFailed` |
| Durable engine | `workflows/durableWorkflowEngine.js`, `controllers/workflowController.js` | none of its own; loaded copies of documents during a request | create, start, retry, cancel, checkAndFinalize, recoverStaleWorkflows |
| Task queue | `queue/queueManager.js`, `queue/queueUtils.js` | BullMQ jobs in Redis, keyed by the caller's id | `enqueueTask`, default job options, `shutdownAll` |
| Task worker | `workers/taskWorker.js`, `agents/agentRegistry.js` | up to `concurrency` jobs in progress, each with a job lock | `executeJob`, `startWorker`, `shutdown` |
| Approvals | `controllers/approvalController.js`, `models/Approval.js`, `services/approvalNotifier.js`, `utils/urlSigner.js` | approval documents, signed links | create, decide, accept, expire |
| Owner commands | `owner/*.js`, `workflows/{approval,financial,inventory,campaign}Workflow.js`, `agents/workflowCoordinator.js` | approvals and tracked workflows in memory | parse, execute or file, approve, reject, act on an approval |
| Inbound messages | `controllers/whatsappController.js` | none; starts workflows and jobs | webhook with repeated deliveries |
| Payments | `services/paymentService.js`, `stripeService.js`, `razorpayService.js`, `controllers/paymentWebhookController.js`, `models/PaymentRecord.js`, `OrderRecord.js` | payment events, order records | `recordEvent`, status updates, webhooks |
| Provider calls | `integrations/*.js`, `services/wooService.js`, `geminiClient.js`, `controllers/orderController.js` | what requests leave at the services | search, upsert, orders, stock, feeds, checkout, with retries and a breaker |
| AI quota and model calls | `utils/aiRateLimiter.js`, `services/geminiService.js`, `geminiClient.js` | per-user counters in Redis; the text of a stream | `checkAllowed`, `consume`, generate, `callStream` |
| Text for the model | `memory/chunker.js`, `prompts/ragAssembler.js` | none | `chunkText`, `assembleRagContext` |
| Idempotency keys, locks | `utils/idempotency.js`, `utils/distributedLock.js` | Redis keys with a time to live | reserve, release, setProcessed, `withLock` |
| Caches | `cache/cacheManager.js`, `memory/embeddingCache.js` | Redis entries, maps in memory | get, set, del, clear |
| Fetched values | `config/secretsManager.js`, `auth/oidcClient.js` | the last secret or key set, with its age | `getSecret`, `getJwks`, `verifyToken` |
| Log shipping | `logging/shipper.js`, `utils/logger.js` | an in-memory queue, a timer | ship, flush, shutdown |
| Server lifecycle | `server.js`, `queue/redisClient.js`, `controllers/adminApi.js` | process-wide singletons | start, signals, shutdown, health requests |
| In-memory engine | `engine/*.js` | a queue of functions, a map of task states | enqueue, start, transition, retry |
| Agents, prompts, CRM records, analytics, flags, roles, monitoring | the rest | mostly none | request/response calls |

Components interact in three ways: HTTP handlers and the worker run in one
Node.js process (`server.js`) or several, and interleave at every `await`;
handlers hand work to workers through BullMQ jobs; and both read and write the
same MongoDB documents with no lock and no transaction.

What is hard here, component by component, is listed with its line under
`hazards` in `PROJECT.json`. In short: documents are read, changed in memory and
written back by whoever comes last; job ids are chosen by callers and stay
occupied after a job ended; counters are checked and charged in separate calls;
keys in Redis run out under their holders; requests are repeated although the
first may have been applied; and failures of a save are caught and logged while
the work goes on.

## 2. How to run it

`tlc -config X.cfg M` checks configuration `X` of module `M` (the pairs are the
`runs` of `PROJECT.json`); `tlapm M_proofs.tla` checks the proofs of module `M`.
Each run ends within a few minutes on two workers.

The two runs marked *violation* are expected to end with a counterexample: they
state what a comment in the source says, and the code does otherwise (section 7).

## 3. Modules

| Module | Models | Kind |
|---|---|---|
| `WorkflowDocument` | `models/Workflow.js` and mongoose's versioned saves | component |
| `JobQueue` | BullMQ as `queue/*.js` uses it | component |
| `JobLifecycle` | what a job id promises | abstract specification |
| `DurableWorkflow` | engine, HTTP routes and worker over the two components | composition |
| `ExecutionQueue` | `engine/executionQueue.js` | component |
| `MemoryEngine` | `engine/workflowEngine.js`, `stateMachine.js`, `retryManager.js` over `ExecutionQueue` | composition |
| `ApprovalFlow` | approvals, notifier, expiry | component |
| `OwnerWorkflows` | the owner's commands and the workflows that wait for approvals | component |
| `InboundMessages` | the WhatsApp webhook | component |
| `PaymentEvents` | payment webhooks and records | component |
| `ProviderCalls` | calls of CRMs, shops, the model, the checkout | component |
| `Chunker`, `RagContext`, `ModelStream` | cutting texts, filling a token budget, reading a stream | algorithms, one step of their loops per action |
| `AiQuota` | token quota and its callers | component |
| `IdempotencyKeys`, `DistributedLock` | keys in Redis with a time to live | components |
| `LruCache`, `FallbackCache` | the bounded map, and the Redis cache that falls back to it | component, composition |
| `FetchedValues` | secrets and signing keys kept for a time | component |
| `LogShipper` | batching shipper with retries | component |
| `ServerLifecycle` | start, shutdown and what happens in between | component |
| `MCDurableWorkflow`, `MCMemoryEngine`, `MCAiQuota` | small instances of one module | |
| `MCFrontDoor`, `MCProviders`, `MCRedisKeys`, `MCProcess` | small instances of several components each | |
| `*_proofs` | theorems and proofs: `WorkflowDocument`, `JobQueue`, `DurableWorkflow`, `MemoryEngine` with its queue, and `FrontDoor`, `Providers`, `RedisKeys`, `Process` for the components of the instances of these names | |

The last group of instances checks components that share no state together. A
behaviour there is one of a single component, while the others stay in their
initial states: nothing is said about products of unrelated state, and each
property is checked on the behaviours of its own component. Where such a run
states fairness, nothing that is weakly fair is enabled in an initial state, so the fairness of one
component does not rule out behaviours of another. `Providers` also has strong fairness on the
delivery of payment events, which is possible from the start: there an endless behaviour of
another component does owe deliveries, which only the property about payments could notice.

### The durable workflow (`WorkflowDocument`, `JobQueue`, `DurableWorkflow`)

`doc[w]` is the stored document of workflow `w`: status, tasks, version. `view[a]`
is the copy actor `a` (a request handler or a worker slot) has loaded: values,
version, and whether a failed save has left it dirty. A save succeeds if its
where clause matches. mongoose puts the version in that clause for whole-array
writes (`updateTask`: `SaveTasks`), and not for positional `$set` or `$push`
(`retryTask`: `ResetTask`; `cancelWorkflow`: `CancelTasks`; `appendLog`); whole-array
writes and `$push` move the version, positional sets alone do not. This is why copies
can be stale without anyone noticing, and it is where most of the findings come
from.

`job[id]` is the BullMQ job: state, lock holder, failed attempts, stalls, and the
workflow it was enqueued for. `Add` ignores an id that is stored, `Complete`
removes what exceeds the retention, `Fail` counts attempts and delays, `Stall` takes a job
whose lock has expired away from its holder.

`DurableWorkflow` has one action per stretch between two awaits. The prefix
names the operation (`StartLoad`, `StartStatus`, `StartLog`, `StartEnqueue`,
`StartUpdate` are `startWorkflow`); worker slots follow `executeJob`: `PickJob`,
`LoadRunning`, `ReportRunning`, `LogReport`, `Execute`, `LoadEnd`, `ReportEnd`,
`Settle`. `Fault` lets an awaited save or enqueue fail (the catch clause of that place
decides what follows: `RequestThrows` for the saves of requests, a lost entry of the log for
`appendLog`, a lost report for the worker), `Crash` drops a process with its copies and leaves its
locks to expire. A failing database call writes nothing. The read a request begins with may fail too,
which is the request not coming; the two saves of `markCompleted`, `markFailed` and of a
cancellation fail together, as one fault, since the second makes up for the first. In the same way the save
of the error log makes up for a failing `updateTask` of a start, so that `StartUpdate` needs no fault;
that this save fails as well, and a later one writes the changed copy, is not modelled.
A task of `Unnamed` has a payload without type or agent: its job fails before it reports. Tools need no
case of their own: `createToolContext` catches what a factory throws. `done` and `runs` are history variables: whose agent returned,
and how often a job was handed out.

### The in-memory engine (`ExecutionQueue`, `MemoryEngine`)

`queue` and `running` are the fields of the class, `ticks` the callbacks of
`process.nextTick` not yet run, and `Finish` the `finally` block with the nested
`next()`. `MemoryEngine` adds the map of task states with its order of entries
(a transition takes the first workflow that has a task of the id), the loop of `start()`
(`Start`, `Continue`), and the function of a task with its retries (`Returns`,
`Throws`, `RetryReturns`). Its actions are those of the queue with what the
engine does in the same step.

### People and providers

- `ApprovalFlow`: `doc` are the approvals, `req[r]` a request with its position
  between two awaits. A save writes the fields the request has set into whatever
  is stored by then, since an approval has no array and no version check.
- `OwnerWorkflows`: `approval[f]` is an entry of the map of approvals, `tracked` the
  coordinator's workflows, `executed` and `confirmed` histories. A command is the
  set of phrases the parser looks for. Every handler is one action: what it
  awaits before its effects reads no shared state. What `HandleCommand` records as executed is the
  action the parser made of the command; the code hands over the command as it came, to a function that
  does not exist (section 7).
- `InboundMessages`: `hook[h]` is a webhook request between its awaits; a message
  may be posted again until it is answered with 200, and sometimes after. A job is
  kept under its id until it is removed.
- `PaymentEvents`: `task[d]` is a webhook request; `stored` the records in order of
  creation, so that two of one key can exist. `Updated` writes the fields that
  differ from the loaded copy, and every save may fail, that of a reconciled record included. `parsed` says whether the body was read by
  `express.json()` before the route, which is so in `server.js` (line 82) and not when
  the router is mounted alone; it is chosen once, in the initial state.
- `ProviderCalls`: a call is a `Plan` of requests and the failures it has had. A request
  may be applied although its answer is lost; a failed attempt begins the plan
  again. A breaker that times out leaves its attempt behind as an `orphan`, whose
  remaining requests happen next to those of the retries. `made` and `restsOn` are what the
  services hold in the end.
- `ModelStream`: the bytes of an answer cut into chunks anywhere, decoded chunk by chunk,
  with the rest of a line kept in `buffered`.
- `Chunker`, `RagContext`: one action per iteration of the loop. A text is its length and the
  positions of its blanks and sentence breaks; a document of the search is a length.

### Keys, caches and fetched values

- `AiQuota`: `live`, `used`, `expires` are the owner's key in Redis; a call is
  checked (`Begin`), answered at a cost known only then, and charged in two
  commands (`ReadTtl`, `Charge`).
- `IdempotencyKeys`: one request delivered several times; the handlers follow the usage
  pattern in the file's header. Both keys may run out at any time.
- `DistributedLock`: `withLock` around one resource, with attempts that fail although
  the key was set, leases that run out under the function, and failing releases.
- `LruCache`: the map as its sequence of entries; `recent` remembers the order of all uses. In `MCRedisKeys` the map
  is either the cache's fallback or that of the embeddings (`map`). `FallbackCache` adds what Redis holds; an
  operation fails over to the map when Redis fails, whether or not the command was done.
- `FetchedValues`: `served` is the version at the service, `kept` the one in the cache. Each
  await of `getSecret`, `fetchJwks` and `verifyToken` is a position of a reader; readers that find
  the value out of date all fetch it, and the answers arrive in any order.

### The process

- `LogShipper`: `queue` and the `flight`s (batches being posted), with the retries of
  `retryWrapper`. The shipper's own warnings are logged and therefore shipped;
  they are the entries `Own`.
- `ServerLifecycle`: `boot` and `stop` are the positions of `start()` and `shutdown()`, cut at
  every await. `client` is the remembered Redis client and `open` all that are connected; the
  health requests build a client, and a queue on it, whenever none is remembered. `Signal` and
  `Uncaught` come at any time, with the handlers registered by then. `StartFails` is every place
  where `start()` throws: the client cannot be built or is not ready in time, the queue cannot be
  created or the worker not started after it, the server does not listen. Closing the worker waits for its
  job (`StopWorker`) or rejects at any time (`StopWorkerFails`); then the worker is given up, a job in
  progress goes on, and the shutdown proceeds to Redis.

**Logging.** The models take a logging call as one that returns, the way all the code
around it is written. As the logger is exported it does not (section 7); nothing
is said here about the behaviour that results from that.

## 4. What the runs check

| Run | Checks | Instance and bounds |
|---|---|---|
| `DurableWorkflowRace` | `TypeOK`; copies never ahead of the document; a save changes one task | 1 workflow, 2 tasks, 2 slots, 1 handler, 2 requests, 1 failed call or lost lock |
| `DurableWorkflowRequests` | unfinished tasks of a running workflow reached the queue | all six operations, 2 handlers, 4 requests, 1 task, 1 slot |
| `DurableWorkflowFaults` | success earned, runs bounded, attempts counted, jobs implement `JobLifecycle` | 2 slots, 2 requests, 2 failed calls, crashes or lost locks; 2 attempts, 1 stall |
| `DurableWorkflowSharedId` | one slot per job | 2 workflows with the same two task ids, one of an agent that is not registered, ad-hoc jobs of that agent and of none, completed jobs removed at once, 4 requests |
| `DurableWorkflowLiveness` | jobs end, requests return | fair, 2 crashes or failures |
| `MemoryEngine` | limit kept, no lost wakeup, states tell what happened, tasks in order, every call ends | 3 calls with 4 tasks on 2 places, a shared task id and a shared workflow id, 1 retry, fair |
| `FrontDoor` | approvals: one decision per record, log tells the truth, never pending again, every request answered; owner: executed was approved; messages: answers of 200 are accounted for | 3 requests of any kind on 1 approval, 2 users, 3 send attempts, fair; 1 filed approval, an owner and another; 3 messages (a command, one with and one without an id), 2 requests at a time, 2 posts each |
| `Providers` | payments: accepted is recorded, known stays known, every event recorded in the end; calls: nothing beyond their attempts, nothing rests on what is incomplete, no second contact; text: chunks faithful, stream whole, budget spent in order | 2 events of one payment, 2 requests at a time, 2 failures, 1 duplicate, fair; 2 calls, 2 attempts each; texts up to 8, chunks up to 4, overlap up to 2; streams of 5 bytes; 3 documents of up to 9 characters |
| `RedisKeys` | overshoot of the quota bounded, busy handlers hold the reservation, a lease excludes, maps evict the least recently used, the side written last is fresh | 3 clients of each; 2 calls at cost 0..2 on quota 3; 2 attempts at the lock; 3 keys over 2 places, 3 values |
| `Process` | shipper: lost only to the cap, entries arrive, shutdown returns; server: clients accounted for, start and shutdown end; keys and secrets: what was served all the time is not refused | batches of 2, 2 entries and the warnings, 2 attempts, 4 failures, 3 flushes, fair; 3 clients built, 2 health requests; 2 readers, 3 versions, 1 failed fetch |
| `DurableWorkflowRetryNoop`, `AiQuotaStuck` | *violation*, section 7 | 1 task, 2 requests; 2 clients |

Why the bounds are enough. The hazards are races between a read and a later
write of one document, key or record; two actors that have read and one that
writes in between show each of them, and the instances have that and one
more. Two tasks tell "its own task" from "another task". Two attempts and one stall
are the smallest counts at which counting them together or apart differs, and
failures are bounded so that each kind can happen once before and once after another.
Where the actors do not matter to each other (quota owners, payments of
different keys, resources, approvals of different ids), one is enough. The tasks of the engine outnumber
its places and spend ticks on a full queue, which is the case the wakeup argument is about;
its third call re-registers a workflow id while tasks of the first run. Four failures are two batches that
use up their attempts, which is what it takes to reach the shipper's cap. Three keys over two places
evict; three versions of the signing keys are an old answer, a newer one and a key that comes
back. A text of 8 positions has up to three sentences, one of them longer than a chunk and one that
begins inside an overlap. Five bytes hold a character of two bytes, a line end and a chunk boundary in every order.
Symmetry is used for slots, handlers and clients, in runs without liveness only.

Tasks without a known agent are in `DurableWorkflowSharedId` only; the theorems of section 6 cover them
everywhere.

Deadlock is not checked: in every module requests are bounded and the system may
stop when all are done. What must not stop is stated as liveness.

## 5. Fairness

- `DurableWorkflow!Fairness`: every handler and slot in the middle of an operation goes on
  (the awaited call resolves or rejects: clients have timeouts and
  reconnect), a free slot is handed a waiting job, backoff timers fire,
  and the lock of a processor that is gone expires. Requests, crashes and
  failures need not happen, and neither need a renewal come too late.
- `MemoryEngine!EngineFairSpec`: scheduled ticks and continuations run (the event loop), and the
  function of a task returns or throws. `start()` need not be called.
- `ApprovalFlow`, `PaymentEvents`, `AiQuota`: awaits end. For payments,
  each provider also repeats an event until it is accepted, which is what both
  providers document; strong fairness, because the request slots may be busy
  in between.
- `LogShipper`: the timer fires, and a post is answered or times out
  (`axios` has a timeout), as long as shutdown has not returned: afterwards flights may go on, or the
  process exit. Entries need not be shipped and shutdown need not come.
- `ServerLifecycle!ServerFairness`: the awaits of `start()` and `shutdown()` end and so do jobs.
  Connections need not end: `shutdown()` has a timer for that. Closing the worker need not fail.
- None for `FetchedValues`: the fetches have no timeout that takes effect (section 7), so
  only safety is stated. None for `OwnerWorkflows`, `InboundMessages` and the keys in Redis, which
  wait for people, providers and clients.

## 6. Proofs

TLAPS proves, for all values of the constants that satisfy the named assumptions:

| Theorem | States |
|---|---|
| `DurableWorkflow_proofs!TypeCorrect` | `[]TypeOK` |
| `CopiesNeverAhead` | `[]CopiesTrackDocument` |
| `JobsStayAccounted` | `[]JobsAccounted` |
| `JobsImplementLifecycle` | `ImplementsLifecycle`, the refinement of `JobLifecycle` |
| `SavesStayLocal` | `WritesStayLocal`, about every step |
| `SuccessIsEarned` | `[]SuccessWasEarned` |
| `JobsAreExclusive` | `[]ExclusiveJobs` |
| `RunsStayBounded` | `[]RunsBounded`, for finitely many tasks |
| `NothingLeftBehind` | `[]NoTaskLeftBehind` |
| `MemoryEngine_proofs!LimitAlwaysKept`, `WakeupsSuffice` | `[]LimitKept`, `[]NoLostWakeup` of the queue alone |
| `EngineImplementsQueue`, `EngineKeepsLimit` | the engine takes only steps of the queue, and keeps both |
| `TasksRunInOrder`, `StatesAreTrue` | `[]TasksInOrder`, `[]StatesTellOutcomes` |
| `FrontDoor_proofs!OneDecisionRecorded`, `LogsAreTrue`, `PendingOnlyOnce` | `[]RecordIsOneDecision`, `[]LogTellsSaved`, `NeverPendingAgain` |
| `SensitiveIsApproved` | `[]ExecutedWasApproved` |
| `DeliveriesAccounted` | `[]InboundAccounted` |
| `Providers_proofs!NothingAcceptedIsLost`, `NothingKnownIsForgotten` | `[]AcceptedIsRecorded`, `KnownStaysKnown` |
| `CallsAreAccounted` | `[]RecordsAccounted` |
| `BudgetIsSpentInOrder` | `[]BudgetSpentInOrder` |
| `ChunksAreFaithful` | `[]ChunksFaithful` |
| `StreamYieldsText` | `[]StreamIsText` |
| `RedisKeys_proofs!OvershootAlwaysBounded` | `[]OvershootBounded` |
| `OneHandlerBusy`, `LeaseAlwaysExcludes`, `NeverTwoInTime` | `[]BusyHoldsReservation`, `[]LeaseExcludes`, and that no two clients are inside a lock in time |
| `MapKeepsRecency`, `FallbackIsMap` | `[]RecencyKept` of the map, and that the fallback takes only the map's steps |
| `WriterSideIsFresh` | `[]WriterSideFresh` |
| `Process_proofs!ClientsAreAccounted` | `[]ClientsAccounted` |
| `KeysAreStable` | `[]StableKeysServed` |
| `EntriesLostOnlyToCap` | `[]LostOnlyToCap` |

A theorem is about a component's own specification (`Spec`, `EngineSpec`, `OwnerSpec`, `IdemSpec` and so
on). The runs that check several components run each of them with its own next-state relation.

**Durable workflow.** The inductive invariant `EngineInv` has three parts that
need each other. `CopyInv` (documents and copies are typed, a copy belongs to an
existing document, and a copy of the document's version is clean and agrees
with it up to a retry's reset) is preserved by every read and save, one lemma per
operation in `WorkflowDocument_proofs`. `QueueInv` (types, attempts and
stalls within their limits, `kept` lists exactly the completed jobs without
repetition) is preserved by every operation of the queue in `JobQueue_proofs`.
`ControlInv` types handlers and slots and says at which position which workflow and
task are set; without it a save would not know that its actor has a copy.
`DurableWorkflow_proofs` has one step per action, grouped into request
steps, handler steps, slot steps and timers, and cites the component lemmas.
Assumptions: `EngineAssumption` and those of the two components, that is, the
constants are of their kinds, and handlers and slots are distinct.

The other theorems about the engine stand on `EngineInv`. Every step of the engine is seen
as one of a few operations of the queue and as a save or a read (`QueueSteps`, `DocumentSteps`); an
operation of the queue is a step of `JobLifecycle` or a stutter under the mapping of `Phases` and
`Tries`, and a save changes one task or resets or cancels. `SuccessInv` adds to the statement about the
documents the same about every loaded copy, since copies are what saves write back, and that
a slot saves into the workflow of its job. `LocksHeld`: while nothing has failed, a busy slot holds the lock of
its job, and a lock has one holder. `RunsCounted`: while all completed jobs fit the retention, the runs
of a job are those of its one submission. `AttendedInv` is the longest: a task whose
job the queue has never seen has not been worked on, in the document and in every copy;
it is pending in every copy if it is pending in the document, unless a retry has just made it so; and
whoever counts an attempt has enqueued the task. From this it follows that a start leaves no task out.

**In-memory engine.** `LimitKept` and `NoLostWakeup` are inductive together with the types and
the fact that exactly the waiting jobs are in the queue, each once:
a call of `next()` with busy places keeps them (`NextJobKeeps`), and `Finish` is such a call
with one place fewer. Each action of the engine is one of the queue's, so the queue's theorems hold of it
(`EngineImplementsQueue`). `StatesInv` adds what the map's entries are: a workflow is listed when a call of its id has
begun, its tasks are those of calls with its id, and a transition changes the first listed
entry with the task's id. Assumptions: the limit is a positive number, each call has tasks.

**Approvals.** `RecordIsOneDecision` needs the positions: a request about to save is a
decision with a user, on an approval that exists, and has not saved yet
(`PositionInv`), so that its save makes it the one the record belongs to.
`NeverPendingAgain` follows per step from the same invariant.

**The owner's commands and messages.** What was executed names an approval that was confirmed and is filed for that action, and
a confirmed approval is never filed anew (`OwnerInv`). `InboundInv` counts the requests that handle a message by where they are: answers of
200, started and leftover workflows and the requests on their way stay within what was posted (`Balanced`), and a
step moves one request from one of these counts to another. Assumption: ids of messages are not times.

**Payments and calls.** A request past the recording has a record of its key, and one about to save holds
a copy with that key; every step keeps each stored record with its key in its place and
takes away nothing a record knows (`Kept`). So what is accepted stays recorded, and what is known stays known although copies
are saved late and twice. A call's plan tells how many things its attempts can have made: one for each that failed, one for the
abandoned attempt once it gets there, one for the present attempt once it is past the request that counts (`ProviderInv`).
Assumptions: those of the modules on their constants.

**Quota.** Every client with an admitted call that is not charged yet holds a claim of one
answer (`Claims`); the invariant says that the counter plus all claims stays within
the bound. A call is admitted only while the counter is within the quota, where
all clients may hold a claim. Assumption: the set of clients is finite and the estimate positive.

**Reservations and leases.** Both properties are inductive with the types. A handler gets busy only
by setting a key that did not exist, and until a reservation has lapsed the key can be deleted only by
the handler that holds it, which is then no longer busy. A lock is deleted only by its holder or by running out, which makes
its client late; so a client in time is the holder, and two clients in time would be one.

**Caches.** Dropping one place of a sequence keeps the order of the others (`DropIs`, `DropKeepsOrder`); a key that leaves
the history of uses and comes back at its end stays behind every other (`ForgettingKeepsOrder`, `UsingKeepsOrder`). Every operation of
the map is made of these. For the fallback, each operation tells which entries it leaves: the new one, and others of
other keys only (`FromOr`); so a local write leaves nothing older of its key. Assumption: the limits are numbers.

**The process.** `ServerInv`: what is open is the remembered client, a worker that runs or is closing has the first
client, since the shutdown forgets the client only after it has closed the worker or given it up, and a job
belongs to a worker that runs, is closing or was given up; the remembered queue has its client until Redis is shut
down. A queue that a health request creates between the two may find its client gone, and the statement ends there. `FetchInv`: what is kept and what a reader has fetched is at least as new
as the oldest version in sight when he began. `ShipperInv`: every shipped entry is in the queue, in a batch
under way or received, until the cap has cut the queue. A least version in sight exists by
`LeastNumber`, from the library's theorem that the order of the naturals is well-founded.

**Texts.** `SourcesOK`: every excerpt of a context is a whole document or all of the budget that was left, and
the latter is the last. `BufferOK`: the buffer is a stretch of neighbouring positions, which ends just before the blank that
the next sentence follows, so adding a blank and the sentence makes a stretch again; `Reached`: every character before it
that is no blank is in a chunk or in the buffer. For streams,
`DecodedJoined` says that the decoded text of two pieces is the two decoded texts in a row, unless the first ends inside
a character, and `LinesJoined` that what a chunk adds to the lines of a text depends only on what follows the last
newline, which is what `buffered` is (`StreamInv`). The empty lines and the second halves of characters are dropped by
`Without`, a recursive function on the places of a sequence. The facts about it (`WithoutJoined`) are
proved by induction in the form of sets of numbers (`UpFromZero`), from the same theorem of the library.
The texts, the documents and the chunks they are cut into have any length. Assumptions: the bounds are numbers.

**Only model-checked.** Liveness (`JobsSettle`, `RequestsFinish`, `StartsEnd` and the like), which is outside what the prover does. Every
invariant and every action property that a run checks and finds to hold has a theorem.

## 7. Where the code disagrees with its own comments

Two disagreements have a run that ends with a counterexample; `findings` in
`PROJECT.json` quotes the sentence.

| Run | What happens |
|---|---|
| `DurableWorkflowRetryNoop` | retrying a finished task enqueues nothing: its job id is still stored |
| `AiQuotaStuck` | a key that expires before it is charged comes back without a time to live, and a used-up quota stays used up |

Others met while modelling. The models do what the code does, so no property
states what the comment says:

| Code | What it does | What the source says |
|---|---|---|
| `durableWorkflowEngine.js:156` | marks a workflow completed when no task is failed, pending or running, so also when tasks were cancelled | line 143, "if all tasks are succeeded" |
| `durableWorkflowEngine.js:180` | cancels, in a save without a version check, tasks that succeeded after they were read | line 166, "mark all non-complete tasks cancelled" |
| `taskWorker.js:88`, `:119` | only log that the last report on a task could not be saved, while its job settles: the document says running from then on | line 80, "success updates" |
| `durableWorkflowEngine.js:76` | leaves a running workflow alone: one whose start was cut off after its status was saved is never enqueued | line 70, "Tasks already marked 'pending' will be enqueued" |
| `Workflow.js:113` | writes the whole task array back, with the old state of a task that a retry has reset since | line 97, "Update a single task" |
| `queueManager.js:71` | uses the caller's task id as the job id: a task whose id another workflow has used gets no job | `durableWorkflowEngine.js:70`, "will be enqueued" |
| `approvalController.js:136` | saves a decision without a condition: the second of two that read a pending approval replaces the first | line 130 answers "Approval not pending" to a second decision |
| `approvalController.js:163` | registers `/accept` after `/:id`, which answers for it | line 13, "The accept endpoint verifies token" |
| `server.js:82` | parses every JSON body before the payment routes: no signature check passes | `paymentWebhookController.js:10`, "preserve raw body" |
| `PaymentRecord.js:42` | finds, then creates, without a unique index: concurrent deliveries create two records | line 9, "provider's unique event id" |
| `paymentService.js:73` | looks orders up by a field the schema lacks and sets another: nothing is stored | line 9, "reconciliation with OrderRecord" |
| `geminiService.js:43` | charges after the call: calls admitted together overrun the quota (by how much at most: `OvershootBounded`) | `aiRateLimiter.js:8`, "block LLM calls when quota exceeded" |
| `shipper.js:86` | awaits its own flush only, not batches that earlier flushes are sending | line 78, "flush remaining logs" |
| `logger.js:145` | puts wrappers over the methods they call, so that a logging call recurses until the stack overflows and ships nothing | line 121, "Convenience wrappers that also trigger shipper" |
| `server.js:263` | a health request after `shutdownRedis` builds a client that nothing closes | line 315, "allow process to exit naturally" |
| `server.js:253` | ignores every signal after the first, also when the process does not end | line 230, "Graceful shutdown handlers" |
| `taskWorker.js:182`, `queueManager.js:136` | go on when a worker fails to close and forget queues that are still closing; Redis is quit under them | `queueManager.js:9`, "graceful shutdown" |
| `engine/stateMachine.js:15` | changes the first workflow that has a task of the id | line 6, "workflowId -> {taskId: state}" |
| `engine/workflowEngine.js:25` | leaves a task that succeeds on a retry running, and fails one whose retry returns nothing truthy | line 4, "with state and retry" |
| `cache/cacheManager.js:87` | fails over operation by operation: what was replaced or deleted on one side stays on the other and is served later | line 15, "falls back to in-memory cache" |
| `utils/idempotency.js:78`, `:105` | delete the reservation without comparing its value, also that of a later handler | line 7, "delete reservation" |
| `utils/idempotency.js:105` | removes the reservation with the result stored, so that the next delivery reserves the key and processes again | line 11, "Usage pattern for idempotent handlers" |
| `auth/oidcClient.js:46` | keeps whatever answer arrives last, older keys over newer ones | line 52, "refresh if TTL expired" |
| `auth/oidcClient.js:35`, `:42` | passes `timeout`, which node-fetch 3 ignores | the option itself |
| `memory/chunker.js:61` | takes the whole chunk for an overlap of 0 (`slice(-0)`); with an overlap the reported start does not count the inserted blank | line 31, "chunkSize, overlap measured in characters" |
| `prompts/ragAssembler.js:100` | does not count source markers in the budget | line 9, "Enforcing a token (or character) budget" |
| `services/geminiClient.js:133` | decodes each chunk by itself: a cut inside a character garbles it | `StreamIsText` holds where no cut does |
| `services/summarizerService.js:55` | goes on to combine when every chunk has failed | line 54, "Combine partial summaries" |
| `integrations/hubspotClient.js:70` | searches, then creates, and repeats a create whose answer was lost: contacts are duplicated | line 8, "upsertContact" |
| `services/wooService.js:37` | makes a breaker for each call, which never opens; a request it has given up may overwrite newer stock | line 34, "Generic call with retry and circuit breaker" |
| `owner/approvalManager.js:40`, `:49` | approves and rejects whatever the status, also what was decided | line 25 files it as `pending` |
| `owner/ownerController.js:31` and four workflows | call `orchestrator.execute`, which does not exist: they throw, and tracked workflows stay `running` | `workflowCoordinator.js`, completed by `markWorkflowCompleted` |
| `whatsappController.js:112`, `:143` | call `sendTextMessage` of a notifier that exports only `send`: no acknowledgement is sent, `POST /send` always fails | line 8, "Send outgoing messages via notifications/whatsappNotifier" |
| `whatsappController.js:51` | takes the first message of a batch and answers for all | line 50, "pick first message" |
| `whatsappController.js:34` | does not recognise a Twilio message without a text, and answers 400 | line 11, "supports multiple webhook providers (Twilio, Meta)" |
| `whatsappController.js:122` | uses the time as an id: two messages of one millisecond share a job | line 120, "enqueue quick conversational task" |
| `agents/agentRegistry.js:51` | uses `__filename`, undefined in a module: discovery throws for the first file it meets and registers no agent | line 89, "Boot: auto-discover on require" |
| `controllers/adminApi.js:34` | reports the database as connected when its query failed (`catch(() => 0) >= 0`) | line 9, "aggregated system health" |
| `featureFlags/flags.js:99` | lists file flags over environment flags | line 49, "Priority" of `getFlag` |
| `services/salesFlowManager.js:16` | puts `$push` inside `$set` | line 8, "sales flow state transitions" |
| `memory/conversationMemory.js:8`, `notifications/whatsappNotifier.js:6` | import `models/Conversation.js` and `services/whatsappService.js`, which the repository does not have | |

## 8. Plan

What remains, the most important first:

1. Extension of the core: approvals and payment events append to the log of the workflow and move its
   version under a worker's report.
2. Job ids from canonical payloads (`generateJobId`): equal ids for equal payloads only.
3. Feature flags with a provider that fails; leads and customers found and then created.

## 9. Not modelled, and why

- Agents, tools, prompts, CRM records, analytics, monitoring and notification
  clients: calls of services with no state of their own over several steps. Where
  their failure matters it is a failing call of the component that uses them.
- Roles, API keys, the URL signer, validation: checks of one request against data that does not change.
- The request rate limiter: one call of a library per request, which does the counting.
- Texts of blanks only and empty texts in `Chunker`: they give one empty chunk or none.
- Formatting: messages, templates, masking of log fields, trace ids.
- The lock renewal of BullMQ and the internals of mongoose, Redis, Redlock, opossum and axios: external, as
  far as the code relies on them.
- The logger: its exported methods do not return (section 7).
- `shipper.sendNow`, `Approval.markDecision`: see the
  notes of the components in `PROJECT.json`.
- `checkAndFinalize`, `recoverStaleWorkflows`, `expireOldApprovals`, `markReconciled`, the idempotency keys, the lock
  and the in-memory engine's `start()` have no caller in
  the code (tests call the first); the models let them be called at any time, as their
  comments intend.
