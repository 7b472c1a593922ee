-------------------------- MODULE DurableWorkflow ---------------------------
(***************************************************************************)
(* The durable workflow engine at work: request handlers of the engine's   *)
(* operations (workflows/durableWorkflowEngine.js), task workers           *)
(* (workers/taskWorker.js), the workflow documents and the task queue.     *)
(* Every await on the database or the queue ends a step, so the handlers   *)
(* and the workers interleave between a read and the save that follows it. *)
(***************************************************************************)
EXTENDS WorkflowDocument, JobQueue, FiniteSets

CONSTANTS Handlers,   \* concurrent requests to the engine
          Operations, \* the operations requested of it
          Agentless,  \* task ids whose agent is not in the agent registry
          Unnamed,    \* task ids whose payload names no agent
          AdHoc,      \* task ids enqueued without a workflow
          Processes,  \* partition of the actors: what one crash takes down
          MaxRequests,\* bound: requests served in a behaviour
          MaxFaults   \* bound: failed database and queue calls, and crashes

ASSUME EngineAssumption ==
    /\ Actors = Handlers \cup Slots
    /\ Handlers \cap Slots = {}
    /\ IdOf \in [Workflows -> [Positions -> TaskIds]]
    /\ Sources = Workflows \cup {NoWf}
    /\ Operations \subseteq {"create", "start", "retry", "cancel", "finalize",
                             "recover", "adhoc"}
    /\ Agentless \subseteq TaskIds /\ Unnamed \subseteq TaskIds
    /\ AdHoc \subseteq TaskIds
    /\ Processes \subseteq SUBSET Actors
    /\ MaxRequests \in Nat
    /\ MaxFaults \in Nat

VARIABLES slot,      \* slot[s]: what worker slot s is doing
          hnd,       \* hnd[h]: what handler h is doing
          requests,  \* requests accepted so far
          faults,    \* injected failures so far
          done,      \* history: <<workflow, task id>> whose agent returned
          runs       \* history: how often each job was taken by a slot

vars == <<doc, view, job, kept, slot, hnd, requests, faults, done, runs>>

SlotPc == {"idle", "loadRun", "saveRun", "logRun", "execute",
           "loadEnd", "saveEnd", "logEnd", "settle"}
Slot == [pc: SlotPc, id: TaskIds \cup {Nobody}, wf: Workflows \cup {NoWf}, ok: BOOLEAN]
IdleSlot == [pc |-> "idle", id |-> Nobody, wf |-> NoWf, ok |-> FALSE]

HandlerPc == {"idle", "load", "status", "log", "enqueue", "update", "save"}
Handler == [op: Operations \cup {"none"}, pc: HandlerPc, wf: Workflows \cup {NoWf},
            id: TaskIds \cup {Nobody}, todo: SUBSET Positions]
Working(op, pc, w, id, todo) == [op |-> op, pc |-> pc, wf |-> w, id |-> id, todo |-> todo]
IdleHandler == Working("none", "idle", NoWf, Nobody, {})

TypeOK ==
    /\ DocumentTypeOK
    /\ QueueTypeOK
    /\ slot \in [Slots -> Slot]
    /\ hnd \in [Handlers -> Handler]
    /\ requests \in 0..MaxRequests
    /\ faults \in 0..MaxFaults
    /\ done \subseteq Workflows \X TaskIds
    /\ runs \in [TaskIds -> Nat]

Init ==
    /\ DocumentInit
    /\ QueueInit
    /\ slot = [s \in Slots |-> IdleSlot]
    /\ hnd = [h \in Handlers |-> IdleHandler]
    /\ requests = 0
    /\ faults = 0
    /\ done = {}
    /\ runs = [id \in TaskIds |-> 0]

history == <<done, runs>>

-----------------------------------------------------------------------------
(* Handlers                                                                *)

Begin(h, op) ==
    /\ hnd[h].pc = "idle"
    /\ op \in Operations
    /\ requests < MaxRequests
    /\ requests' = requests + 1

At(h, op, pc) == hnd[h].op = op /\ hnd[h].pc = pc

Go(h, r) == hnd' = [hnd EXCEPT ![h] = r]
Step(h, pc) == Go(h, [hnd[h] EXCEPT !.pc = pc])
Finish(h) == Go(h, IdleHandler)

\* A call to the database or the queue throws.
Fault == faults < MaxFaults /\ faults' = faults + 1

\* The remaining tasks of the loop, and the first of them.
NextTodo(h, p) == p \in hnd[h].todo /\ \A q \in hnd[h].todo : p =< q

Continue(h, p) ==
    LET rest == hnd[h].todo \ {p} IN
    Go(h, IF rest = {} THEN IdleHandler ELSE [hnd[h] EXCEPT !.pc = "enqueue", !.todo = rest])

LeaveLast(h, p) ==   \* nothing left to read from the copy
    IF hnd[h].todo = {p} THEN Drop(h) ELSE UNCHANGED <<doc, view>>

\* appendLog swallows the error of its save.
LogOrNot(a) ==
    \/ AppendLog(a) /\ UNCHANGED faults
    \/ Fault /\ UNCHANGED <<doc, view>>

LogOrNotAndDrop(a) ==
    \/ AppendLogAndDrop(a) /\ UNCHANGED faults
    \/ Fault /\ Drop(a)

\* A save throws: so does the request.
RequestThrows(h) == Fault /\ Drop(h) /\ Finish(h)

\* POST / and createAndStartWorkflow: persist and log, then start or not.
Create(h, w) ==
    /\ Begin(h, "create")
    /\ CreateDocument(h, w)
    /\ Go(h, Working("create", "log", w, Nobody, {}))
    /\ UNCHANGED <<job, kept, slot, faults, history>>

CreateLog(h) ==
    /\ At(h, "create", "log")
    /\ LogOrNotAndDrop(h)
    /\ \/ "start" \in Operations /\ Go(h, Working("start", "load", hnd[h].wf, Nobody, {}))
       \/ Finish(h)
    /\ UNCHANGED <<job, kept, slot, requests, history>>

\* startWorkflow: a running workflow is left alone.
StartLoad(h, w) ==
    /\ \/ Begin(h, "start")
       \/ /\ At(h, "start", "load") /\ hnd[h].wf = w
          /\ UNCHANGED requests
    /\ IF Exists(w) /\ doc[w].status # "running"
       THEN /\ Load(h, w)
            /\ Go(h, Working("start", "status", w, Nobody, {}))
       ELSE /\ Finish(h)
            /\ UNCHANGED <<doc, view>>
    /\ UNCHANGED <<job, kept, slot, faults, history>>

StartStatus(h) ==
    /\ At(h, "start", "status")
    /\ \/ SaveStatus(h, "running") /\ Step(h, "log") /\ UNCHANGED faults
       \/ RequestThrows(h)
    /\ UNCHANGED <<job, kept, slot, requests, history>>

StartLog(h) ==
    /\ At(h, "start", "log")
    /\ LET pending == {p \in Positions : view[h].tasks[p].status = "pending"} IN
       IF pending = {}
       THEN LogOrNotAndDrop(h) /\ Finish(h)
       ELSE LogOrNot(h) /\ Go(h, [hnd[h] EXCEPT !.pc = "enqueue", !.todo = pending])
    /\ UNCHANGED <<job, kept, slot, requests, history>>

StartEnqueue(h) ==
    /\ At(h, "start", "enqueue")
    /\ \E p \in Positions :
          /\ NextTodo(h, p)
          /\ Add(IdOf[hnd[h].wf][p], hnd[h].wf)
    /\ Step(h, "update")
    /\ UNCHANGED <<doc, view, slot, requests, faults, history>>

\* The enqueue throws: it is only logged, and that save may fail too; it does on
\* a copy an earlier updateTask left dirty.
StartEnqueueFails(h) ==
    /\ At(h, "start", "enqueue")
    /\ Fault
    /\ \E p \in Positions :
          /\ NextTodo(h, p)
          /\ Continue(h, p)
          /\ \/ LeaveLast(h, p)
             \/ IF hnd[h].todo = {p} THEN AppendLogAndDrop(h) ELSE AppendLog(h)
    /\ UNCHANGED <<job, kept, slot, requests, history>>

\* updateTask(task.id, attempts + 1, pending).  On a VersionError the copy stays
\* dirty and nothing it saves later is accepted, the error log included.
StartUpdate(h) ==
    /\ At(h, "start", "update")
    /\ \E p, q \in Positions :
          /\ NextTodo(h, p)
          /\ Finds(hnd[h].wf, IdOf[hnd[h].wf][p], q)
          /\ LET t == [view[h].tasks[q] EXCEPT !.status = "pending",
                                               !.attempts = view[h].tasks[p].attempts + 1]
             IN  SaveTasks(h, q, t) \/ SpoilCopy(h, q, t)
          /\ Continue(h, p)
    /\ UNCHANGED <<job, kept, slot, requests, faults, history>>

RetryLoad(h, w, id) ==
    /\ Begin(h, "retry")
    /\ \E p \in Positions : Finds(w, id, p)
    /\ Load(h, w)
    /\ Go(h, Working("retry", "save", w, id, {}))
    /\ UNCHANGED <<job, kept, slot, faults, history>>

\* Mutant: on a VersionError the handler keeps waiting.
RetrySaveStuck(h) ==
    /\ At(h, "retry", "save")
    /\ \E p \in Positions : Finds(hnd[h].wf, hnd[h].id, p) /\ ResetTask(h, p)
    /\ Step(h, "enqueue")
    /\ UNCHANGED <<job, kept, slot, requests, faults, history>>

\* An error of the save is thrown to the caller: nothing is enqueued.
RetrySave(h) ==
    /\ At(h, "retry", "save")
    /\ \/ /\ \E p \in Positions : Finds(hnd[h].wf, hnd[h].id, p) /\ ResetTask(h, p)
          /\ Step(h, "enqueue")
          /\ UNCHANGED faults
       \/ /\ ~Fresh(h)
          /\ Drop(h)
          /\ Finish(h)
          /\ UNCHANGED faults
       \/ RequestThrows(h)
    /\ UNCHANGED <<job, kept, slot, requests, history>>

\* Mutant: a retry enqueues only for a workflow it has seen running.
RetryEnqueueIfRunning(h) ==
    /\ At(h, "retry", "enqueue")
    /\ IF view[h].status = "running" THEN Add(hnd[h].id, hnd[h].wf)
       ELSE UNCHANGED <<job, kept>>
    /\ Step(h, "log")
    /\ UNCHANGED <<doc, view, slot, requests, faults, history>>

RetryEnqueue(h) ==
    /\ At(h, "retry", "enqueue")
    /\ \/ /\ Add(hnd[h].id, hnd[h].wf)
          /\ Step(h, "log")
          /\ UNCHANGED <<doc, view, faults>>
       \/ RequestThrows(h) /\ UNCHANGED <<job, kept>>
    /\ UNCHANGED <<slot, requests, history>>

RetryLog(h) ==
    /\ At(h, "retry", "log")
    /\ LogOrNotAndDrop(h)
    /\ Finish(h)
    /\ UNCHANGED <<job, kept, slot, requests, history>>

CancelLoad(h, w) ==
    /\ Begin(h, "cancel")
    /\ Load(h, w)
    /\ Go(h, Working("cancel", "save", w, Nobody, {}))
    /\ UNCHANGED <<job, kept, slot, faults, history>>

\* The second of the two saves makes up for a failing first one; the request
\* throws when both fail.
CancelSave(h) ==
    /\ At(h, "cancel", "save")
    /\ \/ CancelTasks(h) /\ Finish(h) /\ UNCHANGED faults
       \/ RequestThrows(h)
    /\ UNCHANGED <<job, kept, slot, requests, history>>

\* checkAndFinalize: failed if a task failed, nothing while one is unfinished,
\* completed otherwise.
Verdict(tasks) ==
    LET some(st) == \E p \in Positions : tasks[p].status = st IN
    IF some("failed") THEN "failed"
    ELSE IF some("pending") \/ some("running") THEN "running" ELSE "completed"

FinalizeLoad(h, w) ==
    /\ Begin(h, "finalize")
    /\ Exists(w)
    /\ IF Verdict(doc[w].tasks) = "running"
       THEN /\ Finish(h)
            /\ UNCHANGED <<doc, view>>
       ELSE /\ Load(h, w)
            /\ Go(h, Working("finalize", "save", w, Nobody, {}))
    /\ UNCHANGED <<job, kept, slot, faults, history>>

FinalizeSave(h) ==
    /\ At(h, "finalize", "save")
    /\ \/ MarkStatus(h, Verdict(view[h].tasks)) /\ Finish(h) /\ UNCHANGED faults
       \/ RequestThrows(h)
    /\ UNCHANGED <<job, kept, slot, requests, history>>

\* recoverStaleWorkflows, for one workflow of its result: a running workflow
\* with a task started before the cutoff; old are the tasks that were.
RecoverLoad(h, w) ==
    /\ Begin(h, "recover")
    /\ doc[w].status = "running"
    /\ \E old \in SUBSET {p \in Positions : doc[w].tasks[p].started} \ {{}} :
          LET stale == {p \in Positions : \/ doc[w].tasks[p].status = "pending"
                                          \/ doc[w].tasks[p].status = "running" /\ p \in old}
          IN  IF stale = {}
              THEN Finish(h) /\ UNCHANGED <<doc, view>>
              ELSE /\ Load(h, w)
                   /\ Go(h, Working("recover", "enqueue", w, Nobody, stale))
    /\ UNCHANGED <<job, kept, slot, faults, history>>

RecoverEnqueue(h) ==
    /\ At(h, "recover", "enqueue")
    /\ \E p \in Positions :
          /\ NextTodo(h, p)
          /\ \/ /\ Add(IdOf[hnd[h].wf][p], hnd[h].wf)
                /\ Step(h, "log")
                /\ UNCHANGED <<doc, view, faults>>
             \/ /\ Fault
                /\ LeaveLast(h, p)
                /\ Continue(h, p)
                /\ UNCHANGED <<job, kept>>
    /\ UNCHANGED <<slot, requests, history>>

RecoverLog(h) ==
    /\ At(h, "recover", "log")
    /\ \E p \in Positions :
          /\ NextTodo(h, p)
          /\ IF hnd[h].todo = {p} THEN LogOrNotAndDrop(h) ELSE LogOrNot(h)
          /\ Continue(h, p)
    /\ UNCHANGED <<job, kept, slot, requests, history>>

\* orchestrator.enqueueTask and the chat path: a job with no workflow.
EnqueueAdHoc(h, id) ==
    /\ Begin(h, "adhoc")
    /\ id \in AdHoc
    /\ Add(id, NoWf)
    /\ UNCHANGED <<doc, view, slot, hnd, faults, history>>

-----------------------------------------------------------------------------
(* Worker slots: executeJob between the queue's hand-out and settlement    *)

SlotStep(s, pc) == slot' = [slot EXCEPT ![s].pc = pc]

\* Ad-hoc jobs have no document to report to; a job whose agent is unknown goes
\* straight to its failure report, and one without an agent fails unreported.
PickJob(s, id) ==
    LET wf == job[id].source IN
    /\ slot[s].pc = "idle"
    /\ Take(s, id)
    /\ slot' = [slot EXCEPT ![s] =
          [id |-> id, wf |-> wf, ok |-> FALSE,
           pc |-> IF id \in Unnamed \/ (id \in Agentless /\ wf = NoWf) THEN "settle"
                  ELSE IF wf = NoWf THEN "execute"
                  ELSE IF id \in Agentless THEN "loadEnd" ELSE "loadRun"]]
    /\ runs' = [runs EXCEPT ![id] = @ + 1]
    /\ UNCHANGED <<doc, view, hnd, requests, faults, done>>

\* findOne for a report; a database error skips the report.
LoadForReport(s, pc, loaded, skipped) ==
    /\ slot[s].pc = pc
    /\ \/ Load(s, slot[s].wf) /\ SlotStep(s, loaded) /\ UNCHANGED faults
       \/ Fault /\ SlotStep(s, skipped) /\ UNCHANGED <<doc, view>>
    /\ UNCHANGED <<job, kept, hnd, requests, history>>

LoadRunning(s) == LoadForReport(s, "loadRun", "saveRun", "execute")
LoadEnd(s) == LoadForReport(s, "loadEnd", "saveEnd", "settle")

\* updateTask of a report: an error is swallowed and the report is lost.
SaveReport(s, pc, st, logged, skipped) ==
    /\ slot[s].pc = pc
    /\ \/ /\ \E p \in Positions : /\ Finds(slot[s].wf, slot[s].id, p)
                                  /\ SaveTasks(s, p, Reported(view[s].tasks[p], st))
          /\ SlotStep(s, logged)
          /\ UNCHANGED faults
       \/ /\ (~Fresh(s) /\ UNCHANGED faults) \/ Fault
          /\ Drop(s)
          /\ SlotStep(s, skipped)
    /\ UNCHANGED <<job, kept, hnd, requests, history>>

ReportRunning(s) == SaveReport(s, "saveRun", "running", "logRun", "execute")
\* Mutants: the report uses the workflow's word for success, or always reports
\* success.
ReportEndCompleted(s) ==
    SaveReport(s, "saveEnd", IF slot[s].ok THEN "completed" ELSE "failed", "logEnd", "settle")
ReportEndAlways(s) == SaveReport(s, "saveEnd", "succeeded", "logEnd", "settle")

ReportEnd(s) == SaveReport(s, "saveEnd", IF slot[s].ok THEN "succeeded" ELSE "failed",
                           "logEnd", "settle")

LogReport(s) ==
    /\ \/ slot[s].pc = "logRun" /\ SlotStep(s, "execute")
       \/ slot[s].pc = "logEnd" /\ SlotStep(s, "settle")
    /\ LogOrNotAndDrop(s)
    /\ UNCHANGED <<job, kept, hnd, requests, history>>

\* agent.execute returns or throws.
Execute(s) ==
    /\ slot[s].pc = "execute"
    /\ \E ok \in BOOLEAN :
          /\ slot' = [slot EXCEPT ![s].ok = ok,
                        ![s].pc = IF slot[s].wf = NoWf THEN "settle" ELSE "loadEnd"]
          /\ done' = IF ok /\ slot[s].wf \in Workflows
                     THEN done \cup {<<slot[s].wf, slot[s].id>>} ELSE done
    /\ UNCHANGED <<doc, view, job, kept, hnd, requests, faults, runs>>

\* The processor's result reaches the queue; without the lock it is refused.
Settle(s) ==
    /\ slot[s].pc = "settle"
    /\ \/ slot[s].ok /\ Complete(s, slot[s].id)
       \/ ~slot[s].ok /\ Fail(s, slot[s].id)
       \/ ~Holds(s, slot[s].id) /\ UNCHANGED queueVars
    /\ slot' = [slot EXCEPT ![s] = IdleSlot]
    /\ UNCHANGED <<doc, view, hnd, requests, faults, history>>

-----------------------------------------------------------------------------
(* The queue's own timers, and crashes                                     *)

PromoteJob(id) ==
    /\ Promote(id)
    /\ UNCHANGED <<doc, view, slot, hnd, requests, faults, history>>

\* The stalled-job check finds a lock that expired: its holder died, or (a
\* fault) is alive and was too slow to renew it.
StallJob(id) ==
    /\ Stall(id)
    /\ IF job[id].holder = Nobody THEN UNCHANGED faults ELSE Fault
    /\ UNCHANGED <<doc, view, slot, hnd, requests, history>>

\* A process dies with its handlers and slots; its job locks are not released.
Crash(P) ==
    /\ Fault
    /\ Orphan(P \cap Slots)
    /\ slot' = [s \in Slots |-> IF s \in P THEN IdleSlot ELSE slot[s]]
    /\ hnd' = [h \in Handlers |-> IF h \in P THEN IdleHandler ELSE hnd[h]]
    /\ view' = [a \in Actors |-> IF a \in P THEN NoView ELSE view[a]]
    /\ UNCHANGED <<doc, requests, history>>

-----------------------------------------------------------------------------
HandlerStep(h) ==
    \/ CreateLog(h)
    \/ StartStatus(h) \/ StartLog(h) \/ StartEnqueue(h) \/ StartEnqueueFails(h) \/ StartUpdate(h)
    \/ RetrySave(h) \/ RetryEnqueue(h) \/ RetryLog(h)
    \/ CancelSave(h) \/ FinalizeSave(h)
    \/ RecoverEnqueue(h) \/ RecoverLog(h)

Request(h) ==
    \/ \E w \in Workflows : \/ Create(h, w) \/ StartLoad(h, w) \/ CancelLoad(h, w)
                            \/ FinalizeLoad(h, w) \/ RecoverLoad(h, w)
                            \/ \E id \in TaskIds : RetryLoad(h, w, id)
    \/ \E id \in TaskIds : EnqueueAdHoc(h, id)

SlotMove(s) ==
    \/ LoadRunning(s) \/ LoadEnd(s) \/ ReportRunning(s) \/ ReportEnd(s) \/ LogReport(s)
    \/ Execute(s) \/ Settle(s)

QueueTimer(id) == PromoteJob(id) \/ StallJob(id)

Next ==
    \/ \E h \in Handlers : Request(h) \/ HandlerStep(h)
    \/ \E s \in Slots : SlotMove(s) \/ \E id \in TaskIds : PickJob(s, id)
    \/ \E id \in TaskIds : QueueTimer(id)
    \/ \E P \in Processes : Crash(P)

Spec == Init /\ [][Next]_vars
\* Handlers and slots run on: their awaits return or throw.  A retained job with
\* a free slot is handed out, backoff timers fire, and locks nobody renews
\* expire.  Requests, crashes and slow lock renewals need not happen.
Fairness ==
    /\ \A h \in Handlers :
          /\ WF_vars(HandlerStep(h))
          /\ WF_vars(At(h, "start", "load") /\ \E w \in Workflows : StartLoad(h, w))
    /\ \A s \in Slots : WF_vars(SlotMove(s))
    /\ \A id \in TaskIds :
          /\ WF_vars(\E s \in Slots : PickJob(s, id))
          /\ WF_vars(PromoteJob(id))
          /\ WF_vars(job[id].holder = Nobody /\ StallJob(id))

FairSpec == Spec /\ Fairness

-----------------------------------------------------------------------------
(* Properties                                                              *)

Busy(s) == slot[s].pc # "idle"
Starting(h, w) == hnd[h].op = "start" /\ hnd[h].wf = w

\* One save changes one task of a document, although updateTask writes back the
\* whole array: other entries change only where a retry has reset them since
\* the array was read, or where cancelWorkflow cancels them.
WritesStayLocal ==
    [][\A w \in Workflows : \E q \in Positions \cup {0} : \A p \in Positions \ {q} :
          \/ doc'[w].tasks[p] = doc[w].tasks[p]
          \/ doc[w].tasks[p].status = "pending"
          \/ doc'[w].tasks[p].status = "cancelled"]_doc

\* A task is recorded (or about to be recorded) as succeeded only if its agent
\* returned for this workflow, whatever was retried, cancelled, restarted or
\* processed twice in between.
SuccessWasEarned ==
    /\ \A w \in Workflows, p \in Positions :
          doc[w].tasks[p].status = "succeeded" => <<w, IdOf[w][p]>> \in done
    /\ \A s \in Slots :
          slot[s].pc \in {"loadEnd", "saveEnd"} /\ slot[s].ok => <<slot[s].wf, slot[s].id>> \in done

\* Once startWorkflow is through and no call has failed, every unfinished task
\* of a running workflow has been handed to the queue, however starts, retries
\* and cancellations of the workflow overlapped; a retry that has reset a task
\* but not yet enqueued it is still to do so.
NoTaskLeftBehind ==
    faults = 0 =>
    \A w \in Workflows, p \in Positions :
        /\ doc[w].status = "running"
        /\ doc[w].tasks[p].status \in {"pending", "running"}
        /\ job[IdOf[w][p]].state = "none"
        => \E h \in Handlers :
              \/ Starting(h, w) /\ (hnd[h].pc = "log" \/ p \in hnd[h].todo)
              \/ At(h, "retry", "enqueue") /\ hnd[h].wf = w /\ hnd[h].id = IdOf[w][p]

\* While completed jobs are retained, a task's agent is invoked at most
\* MaxAttempts + MaxStalled times, however often the task is started, retried
\* or recovered: every further enqueue meets the stored job.
RunsBounded ==
    KeepCompleted >= Cardinality(TaskIds) =>
        \A id \in TaskIds : runs[id] =< MaxAttempts + MaxStalled

\* Unless a lock was lost, no two slots process the same job.
ExclusiveJobs ==
    faults = 0 =>
        \A s, t \in Slots : Busy(s) /\ Busy(t) /\ s # t => slot[s].id # slot[t].id

\* Through its jobs the engine keeps the promise of JobLifecycle: stalls and
\* failed attempts give a job back, duplicate enqueues are ignored.
ImplementsLifecycle == Lifecycle!Spec

\* Every job handed to the queue ends: it completes or uses up its attempts,
\* also across crashed and stalled processors.
JobsSettle ==
    \A id \in TaskIds :
        job[id].state = "waiting" ~> job[id].state \in {"completed", "failed", "gone"}

\* Every request to the engine ends, also when other saves keep overtaking it.
RequestsFinish ==
    \A h \in Handlers : hnd[h].pc # "idle" ~> hnd[h].pc = "idle"

-----------------------------------------------------------------------------
(* A statement of the code's own comments that the code does not keep      *)

\* durableWorkflowEngine.js:112, "Re-enqueue a specific task (retry)": when
\* retryTask goes on to log its success, a job of the task can still run.
RetryRequeues ==
    \A h \in Handlers : At(h, "retry", "log") =>
        \/ job[hnd[h].id].state \in {"waiting", "delayed", "active"}
        \/ runs[hnd[h].id] = 0
=============================================================================
