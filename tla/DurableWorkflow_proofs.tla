----------------------- MODULE DurableWorkflow_proofs -----------------------
(* Type correctness of the durable workflow engine, and the safety of its  *)
(* document copies and its job store, for every number of workflows,       *)
(* tasks, slots, handlers, failures and crashes.                           *)
EXTENDS DurableWorkflow, WorkflowDocument_proofs, JobQueue_proofs

ControlTypeOK ==
    /\ slot \in [Slots -> Slot]
    /\ hnd \in [Handlers -> Handler]
    /\ requests \in 0..MaxRequests
    /\ faults \in 0..MaxFaults
    /\ done \subseteq Workflows \X TaskIds
    /\ runs \in [TaskIds -> Nat]

\* A busy slot has a job, and a workflow when it reports to one; a busy handler
\* has a workflow, and a task when it retries.
RolesSet ==
    /\ \A s \in Slots : slot[s].pc # "idle" => slot[s].id \in TaskIds
    /\ \A s \in Slots : slot[s].pc \in {"loadRun", "saveRun", "loadEnd", "saveEnd"} =>
                            slot[s].wf \in Workflows
    /\ \A h \in Handlers : hnd[h].pc # "idle" => hnd[h].wf \in Workflows
    /\ \A h \in Handlers : hnd[h].op = "retry" => hnd[h].id \in TaskIds

ControlInv == ControlTypeOK /\ RolesSet

\* The inductive invariant: the three parts need each other, a save the role
\* its slot has, a processor the workflow its job is for.
EngineInv == CopyInv /\ QueueInv /\ ControlInv

-----------------------------------------------------------------------------
(* Documents and copies                                                    *)

\* A step that leaves documents and copies alone.
LEMMA CopiesUnchanged ==
    ASSUME CopyInv, doc' = doc, view' = view
    PROVE  CopyInv'
  BY DEF CopyInv, DocumentTypeOK, CopiesExist, CopiesTrackDocument, InUse, Exists

\* Handlers and slots are actors.
LEMMA Acting == Handlers \subseteq Actors /\ Slots \subseteq Actors
  BY EngineAssumption

\* The tasks of a copy, and what a report or a restart makes of one.
LEMMA CopyTasks ==
    ASSUME CopyInv, NEW a \in Actors
    PROVE  /\ view[a].tasks \in [Positions -> Task]
           /\ \A p \in Positions, st \in TaskStatus :
                 Reported(view[a].tasks[p], st) \in Task
           /\ \A p, q \in Positions :
                 [view[a].tasks[q] EXCEPT !.status = "pending",
                                          !.attempts = view[a].tasks[p].attempts + 1] \in Task
  <1>1. view[a].tasks \in [Positions -> Task]
    BY Typed DEF CopyInv, View
  <1>2. ASSUME NEW t \in Task, NEW st \in TaskStatus
        PROVE  Reported(t, st) \in Task
    BY DEF Reported, Task
  <1>3. ASSUME NEW t \in Task, NEW n \in Nat
        PROVE  [t EXCEPT !.status = "pending", !.attempts = n] \in Task
    BY DEF Task, TaskStatus
  <1>4. \A p \in Positions : view[a].tasks[p] \in Task /\ view[a].tasks[p].attempts + 1 \in Nat
    BY <1>1 DEF Task
  <1> QED BY <1>1, <1>2, <1>3, <1>4

\* Who saves what: startWorkflow the status, checkAndFinalize its verdict,
\* retryTask the task it is asked for, startWorkflow the attempt of a task it has
\* enqueued, and a slot the report on the task of its job, as succeeded only if
\* its agent returned.
Starts(a) == a \in Handlers /\ At(a, "start", "status") /\ Step(a, "log")
Finalizes(a, st) == a \in Handlers /\ At(a, "finalize", "save") /\ st = Verdict(view[a].tasks)
Resets(a, p) ==
    /\ a \in Handlers /\ At(a, "retry", "save") /\ Step(a, "enqueue")
    /\ IdOf[hnd[a].wf][p] = hnd[a].id
Counts(a, p) ==
    /\ a \in Handlers /\ At(a, "start", "update")
    /\ \E q \in Positions : NextTodo(a, q) /\ IdOf[hnd[a].wf][p] = IdOf[hnd[a].wf][q]
Reports(a, p) ==
    /\ a \in Slots /\ slot[a].pc \in {"saveRun", "saveEnd"}
    /\ IdOf[slot[a].wf][p] = slot[a].id
ReportsSuccess(a, p) == Reports(a, p) /\ slot[a].pc = "saveEnd" /\ slot[a].ok

\* The document saves a step of the engine can make.
Save ==
    \/ \E a \in Actors, w \in Workflows : CreateDocument(a, w)
    \/ \E a \in Actors : AppendLog(a) \/ AppendLogAndDrop(a) \/ CancelTasks(a)
    \/ \E a \in Actors, st \in WorkflowStatus :
          \/ SaveStatus(a, st) /\ Starts(a)
          \/ MarkStatus(a, st) /\ Finalizes(a, st)
    \/ \E a \in Actors, p \in Positions : ResetTask(a, p) /\ Resets(a, p)
    \/ \E a \in Actors, p \in Positions, t \in Task :
          /\ SaveTasks(a, p, t)
          /\ Counts(a, p) \/ Reports(a, p)
          /\ t.status = "succeeded" => ReportsSuccess(a, p)

\* What it can do to the copies without a save.
Read ==
    \/ UNCHANGED <<doc, view>>
    \/ \E a \in Actors, w \in Workflows : Load(a, w)
    \/ \E a \in Actors : Drop(a)
    \/ \E a \in Actors, p \in Positions, t \in Task :
          SpoilCopy(a, p, t) /\ Counts(a, p) /\ t.status = "pending"
    \/ \E P \in SUBSET Actors :
          /\ doc' = doc
          /\ view' = [a \in Actors |-> IF a \in P THEN NoView ELSE view[a]]

\* Every step of the engine is one of these.
LEMMA RequestOnDocuments ==
    ASSUME NEW h \in Handlers, Request(h)
    PROVE  Save \/ Read
  <1> USE Acting
  <1>1. ASSUME NEW w \in Workflows, Create(h, w) PROVE Save
    BY <1>1 DEF Create, Save
  <1>2. ASSUME NEW w \in Workflows,
               StartLoad(h, w) \/ CancelLoad(h, w) \/ FinalizeLoad(h, w) \/ RecoverLoad(h, w)
        PROVE  Read
    BY <1>2 DEF StartLoad, CancelLoad, FinalizeLoad, RecoverLoad, Read
  <1>3. ASSUME NEW w \in Workflows, NEW id \in TaskIds, RetryLoad(h, w, id) PROVE Read
    BY <1>3 DEF RetryLoad, Read
  <1>4. ASSUME NEW id \in TaskIds, EnqueueAdHoc(h, id) PROVE Read
    BY <1>4 DEF EnqueueAdHoc, Read
  <1> QED BY <1>1, <1>2, <1>3, <1>4 DEF Request

LEMMA HandlerOnDocuments ==
    ASSUME CopyInv, NEW h \in Handlers, HandlerStep(h)
    PROVE  Save \/ Read
  <1> USE Acting
  <1>1. CASE StartStatus(h)
    <2>1. "running" \in WorkflowStatus
      BY DEF WorkflowStatus
    <2> QED BY <1>1, <2>1 DEF StartStatus, Save, Read, Starts, RequestThrows
  <1>2. CASE CreateLog(h) \/ StartLog(h) \/ RecoverLog(h) \/ RetryLog(h)
    <2>1. LogOrNot(h) \/ LogOrNotAndDrop(h)
      BY <1>2 DEF CreateLog, StartLog, RecoverLog, RetryLog
    <2> QED BY <2>1 DEF LogOrNot, LogOrNotAndDrop, Save, Read
  <1>3. CASE StartEnqueue(h)
    BY <1>3 DEF StartEnqueue, Read
  <1>4. CASE StartEnqueueFails(h)
    BY <1>4 DEF StartEnqueueFails, LeaveLast, Save, Read
  <1>5. CASE StartUpdate(h)
    <2>1. PICK p \in Positions, q \in Positions :
             /\ NextTodo(h, p) /\ Finds(hnd[h].wf, IdOf[hnd[h].wf][p], q)
             /\ LET t == [view[h].tasks[q] EXCEPT !.status = "pending",
                                                  !.attempts = view[h].tasks[p].attempts + 1]
                IN  SaveTasks(h, q, t) \/ SpoilCopy(h, q, t)
      BY <1>5 DEF StartUpdate
    <2> DEFINE t == [view[h].tasks[q] EXCEPT !.status = "pending",
                                             !.attempts = view[h].tasks[p].attempts + 1]
    <2>2. t \in Task
      BY CopyTasks
    <2>3. t.status = "pending"
      <3>1. view[h].tasks[q] \in Task
        BY CopyTasks
      <3> QED BY <3>1 DEF Task
    <2> HIDE DEF t
    <2>4. SaveTasks(h, q, t) \/ SpoilCopy(h, q, t)
      BY <2>1 DEF t
    <2>5. Counts(h, q)
      BY <1>5, <2>1 DEF StartUpdate, Counts, Finds
    <2> QED BY <2>2, <2>3, <2>4, <2>5 DEF Save, Read
  <1>6. CASE RetrySave(h)
    BY <1>6 DEF RetrySave, Save, Read, Resets, Finds, RequestThrows
  <1>7. CASE RetryEnqueue(h) \/ RecoverEnqueue(h)
    BY <1>7 DEF RetryEnqueue, RecoverEnqueue, LeaveLast, Read, RequestThrows
  <1>8. CASE CancelSave(h)
    BY <1>8 DEF CancelSave, Save, Read, RequestThrows
  <1>9. CASE FinalizeSave(h)
    <2>1. Verdict(view[h].tasks) \in WorkflowStatus
      BY DEF Verdict, WorkflowStatus
    <2> QED BY <1>9, <2>1 DEF FinalizeSave, Save, Read, Finalizes, RequestThrows
  <1> QED BY <1>1, <1>2, <1>3, <1>4, <1>5, <1>6, <1>7, <1>8, <1>9 DEF HandlerStep

\* What a report makes of a task.
LEMMA ReportedStatus ==
    ASSUME NEW t \in Task, NEW st \in TaskStatus
    PROVE  Reported(t, st).status = st
  BY DEF Reported, Task

LEMMA SlotOnDocuments ==
    ASSUME CopyInv, ControlInv, NEW s \in Slots, SlotMove(s)
    PROVE  Save \/ Read
  <1> USE Acting
  <1>1. ASSUME NEW pc, NEW loaded, NEW skipped, LoadForReport(s, pc, loaded, skipped),
               pc \in {"loadRun", "loadEnd"}
        PROVE  Read
    <2>1. slot[s].wf \in Workflows
      BY <1>1 DEF ControlInv, RolesSet, LoadForReport
    <2> QED BY <1>1, <2>1 DEF LoadForReport, Read
  <1>2. ASSUME NEW pc, NEW st \in TaskStatus, NEW logged, NEW skipped,
               SaveReport(s, pc, st, logged, skipped),
               pc \in {"saveRun", "saveEnd"}, st = "succeeded" => pc = "saveEnd" /\ slot[s].ok
        PROVE  Save \/ Read
    <2>1. ASSUME NEW p \in Positions, Finds(slot[s].wf, slot[s].id, p),
                 SaveTasks(s, p, Reported(view[s].tasks[p], st)), slot[s].pc = pc
          PROVE  Save
      <3> DEFINE t == Reported(view[s].tasks[p], st)
      <3>1. t \in Task /\ t.status = st
        BY CopyTasks, ReportedStatus
      <3>2. SaveTasks(s, p, t)
        BY <2>1
      <3> HIDE DEF t
      <3>3. t.status = "succeeded" => ReportsSuccess(s, p)
        BY <1>2, <2>1, <3>1 DEF ReportsSuccess, Reports, Finds
      <3>4. Reports(s, p)
        BY <1>2, <2>1 DEF Reports, Finds
      <3> QED BY <3>1, <3>2, <3>3, <3>4 DEF Save
    <2>2. CASE Drop(s)
      BY <2>2 DEF Read
    <2> QED BY <1>2, <2>1, <2>2 DEF SaveReport, Finds
  <1>3. CASE LoadRunning(s) \/ LoadEnd(s)
    BY <1>1, <1>3 DEF LoadRunning, LoadEnd
  <1>4. CASE ReportRunning(s) \/ ReportEnd(s)
    <2>1. {"running", "succeeded", "failed"} \subseteq TaskStatus
      BY DEF TaskStatus
    <2> QED BY <1>2, <1>4, <2>1 DEF ReportRunning, ReportEnd
  <1>5. CASE LogReport(s)
    BY <1>5 DEF LogReport, Save, Read, LogOrNotAndDrop
  <1>6. CASE Execute(s) \/ Settle(s)
    BY <1>6 DEF Execute, Settle, Read
  <1> QED BY <1>3, <1>4, <1>5, <1>6 DEF SlotMove

LEMMA DocumentSteps ==
    ASSUME EngineInv, [Next]_vars
    PROVE  Save \/ Read
  <1>1. ASSUME NEW h \in Handlers, Request(h) \/ HandlerStep(h) PROVE Save \/ Read
    BY <1>1, RequestOnDocuments, HandlerOnDocuments DEF EngineInv
  <1>2. ASSUME NEW s \in Slots, SlotMove(s) PROVE Save \/ Read
    BY <1>2, SlotOnDocuments DEF EngineInv
  <1>3. ASSUME NEW P \in Processes, Crash(P) PROVE Read
    BY <1>3, EngineAssumption DEF Crash, Read
  <1>4. CASE UNCHANGED <<doc, view>>
    BY <1>4 DEF Read
  <1> QED BY <1>1, <1>2, <1>3, <1>4 DEF Next, PickJob, QueueTimer, PromoteJob, StallJob, vars

\* A crash forgets the copies of the process that died.
LEMMA CrashKeepsCopies ==
    ASSUME CopyInv, NEW P, doc' = doc,
           view' = [a \in Actors |-> IF a \in P THEN NoView ELSE view[a]]
    PROVE  CopyInv'
  <1>1. \A a \in Actors : IF a \in P THEN view'[a] = NoView ELSE view'[a] = view[a]
    OBVIOUS
  <1>2. view' \in [Actors -> View]
    BY NoViewType DEF CopyInv, DocumentTypeOK
  <1>3. \A a \in Actors : InUse(a)' => InUse(a) /\ view'[a] = view[a]
    BY <1>1, NoViewType DEF InUse
  <1>4. CopiesExist'
    BY <1>1, <1>3 DEF CopyInv, CopiesExist, InUse, Exists
  <1>5. CopiesTrackDocument'
    BY <1>1, <1>3 DEF CopyInv, CopiesTrackDocument, InUse
  <1> QED BY <1>1, <1>2, <1>4, <1>5 DEF CopyInv, DocumentTypeOK

LEMMA CopiesKept ==
    ASSUME EngineInv, [Next]_vars
    PROVE  CopyInv'
  <1> USE DEF EngineInv
  <1>1. CASE Save
    BY <1>1, CreateKeeps, AppendLogKeeps, AppendLogAndDropKeeps, CancelTasksKeeps,
       SaveStatusKeeps, MarkStatusKeeps, ResetTaskKeeps, SaveTasksKeeps DEF Save
  <1>2. CASE Read
    BY <1>2, CopiesUnchanged, LoadKeeps, DropKeeps, SpoilCopyKeeps, CrashKeepsCopies DEF Read
  <1> QED BY <1>1, <1>2, DocumentSteps

-----------------------------------------------------------------------------
(* The job store                                                           *)

\* A step that leaves the job store alone.
LEMMA QueueUnchanged ==
    ASSUME QueueInv, job' = job, kept' = kept
    PROVE  QueueInv'
  BY DEF QueueInv, QueueTypeOK, JobsSourced, AbsentUntried, Stored, JobsAccounted

\* Task ids of a workflow are job ids, and workflows are sources of jobs.
LEMMA TaskIdsOf ==
    /\ \A w \in Workflows, p \in Positions : IdOf[w][p] \in TaskIds
    /\ Workflows \subseteq Sources /\ NoWf \in Sources
  BY EngineAssumption

\* Requests and handlers add jobs or leave the store alone.
LEMMA HandlersOnlyAdd ==
    ASSUME ControlInv, NEW h \in Handlers, Request(h) \/ HandlerStep(h)
    PROVE  UNCHANGED queueVars \/ \E id \in TaskIds, src \in Sources : Add(id, src)
  <1>1. CASE Request(h)
    BY <1>1, TaskIdsOf
       DEF Request, Create, StartLoad, CancelLoad, FinalizeLoad, RecoverLoad, RetryLoad,
           EnqueueAdHoc, queueVars
  <1>2. CASE HandlerStep(h)
    <2>1. hnd[h].pc # "idle" => hnd[h].wf \in Workflows
      BY DEF ControlInv, RolesSet
    <2>2. hnd[h].op = "retry" => hnd[h].id \in TaskIds
      BY DEF ControlInv, RolesSet
    <2>3. CASE StartEnqueue(h)
      BY <2>1, <2>3, TaskIdsOf DEF StartEnqueue, At
    <2>4. CASE RetryEnqueue(h)
      BY <2>1, <2>2, <2>4, TaskIdsOf DEF RetryEnqueue, At, queueVars, RequestThrows
    <2>5. CASE RecoverEnqueue(h)
      BY <2>1, <2>5, TaskIdsOf DEF RecoverEnqueue, At, queueVars
    <2> QED BY <1>2, <2>3, <2>4, <2>5
            DEF HandlerStep, CreateLog, StartStatus, StartLog, StartEnqueueFails, StartUpdate,
                RetrySave, RetryLog, CancelSave, FinalizeSave, RecoverLog, queueVars, LogOrNot,
                LogOrNotAndDrop, RequestThrows
  <1> QED BY <1>1, <1>2

\* What a step of the engine does to the job store: one operation of the queue,
\* or nothing.
LEMMA QueueSteps ==
    ASSUME EngineInv, [Next]_vars
    PROVE  \/ UNCHANGED queueVars
           \/ \E id \in TaskIds, src \in Sources : Add(id, src)
           \/ \E s \in Slots, id \in TaskIds : PickJob(s, id) \/ Complete(s, id) \/ Fail(s, id)
           \/ \E id \in TaskIds : Promote(id) \/ Stall(id)
           \/ \E S \in SUBSET Slots : Orphan(S)
  <1> USE DEF EngineInv
  <1>1. ASSUME NEW s \in Slots, SlotMove(s)
        PROVE  \/ UNCHANGED queueVars
               \/ \E id \in TaskIds : Complete(s, id) \/ Fail(s, id)
    <2>1. CASE Settle(s)
      <3>1. slot[s].id \in TaskIds
        BY <2>1 DEF Settle, ControlInv, RolesSet
      <3> QED BY <2>1, <3>1 DEF Settle
    <2> QED BY <1>1, <2>1
            DEF SlotMove, LoadRunning, LoadEnd, LoadForReport, ReportRunning, ReportEnd, SaveReport,
                LogReport, Execute, queueVars, LogOrNotAndDrop
  <1>2. ASSUME NEW id \in TaskIds, QueueTimer(id) PROVE Promote(id) \/ Stall(id)
    BY <1>2 DEF QueueTimer, PromoteJob, StallJob
  <1>3. ASSUME NEW P \in Processes, Crash(P) PROVE \E S \in SUBSET Slots : Orphan(S)
    <2>1. P \cap Slots \in SUBSET Slots
      OBVIOUS
    <2> QED BY <1>3, <2>1 DEF Crash
  <1>4. UNCHANGED vars => UNCHANGED queueVars
    BY DEF vars, queueVars
  <1> QED BY <1>1, <1>2, <1>2, <1>3, <1>4, HandlersOnlyAdd DEF Next

LEMMA QueueKept ==
    ASSUME EngineInv, [Next]_vars
    PROVE  QueueInv'
  <1>1. QueueInv
    BY DEF EngineInv
  <1>2. CASE UNCHANGED queueVars
    BY <1>1, <1>2, QueueUnchanged DEF queueVars
  <1>3. CASE \E id \in TaskIds, src \in Sources : Add(id, src)
    BY <1>1, <1>3, AddKeeps
  <1>4. CASE \E s \in Slots, id \in TaskIds : PickJob(s, id) \/ Complete(s, id) \/ Fail(s, id)
    BY <1>1, <1>4, TakeKeeps, CompleteKeeps, FailKeeps DEF PickJob
  <1>5. CASE \E id \in TaskIds : Promote(id) \/ Stall(id)
    BY <1>1, <1>5, PromoteKeeps, StallKeeps
  <1>6. CASE \E S \in SUBSET Slots : Orphan(S)
    BY <1>1, <1>6, OrphanKeeps
  <1> QED BY <1>2, <1>3, <1>4, <1>5, <1>6, QueueSteps

-----------------------------------------------------------------------------
(* Handlers, slots and counters                                            *)

\* A step of handler h alone.
LEMMA HandlerMoves ==
    ASSUME ControlInv, NEW h \in Handlers, NEW r \in Handler, hnd' = [hnd EXCEPT ![h] = r],
           r.pc # "idle" => r.wf \in Workflows,
           r.op = "retry" => r.id \in TaskIds,
           slot' = slot, requests' \in 0..MaxRequests, faults' \in 0..MaxFaults,
           UNCHANGED history
    PROVE  ControlInv'
  <1>1. hnd' \in [Handlers -> Handler] /\ hnd'[h] = r
        /\ \A g \in Handlers : g # h => hnd'[g] = hnd[g]
    BY DEF ControlInv, ControlTypeOK
  <1>2. ControlTypeOK'
    BY <1>1 DEF ControlInv, ControlTypeOK, history
  <1>3. RolesSet'
    BY <1>1 DEF ControlInv, RolesSet
  <1> QED BY <1>2, <1>3 DEF ControlInv

\* The records a handler moves to.
LEMMA HandlerRecords ==
    ASSUME ControlInv, NEW h \in Handlers
    PROVE  /\ hnd[h] \in Handler
           /\ IdleHandler \in Handler /\ IdleHandler.pc = "idle" /\ IdleHandler.op = "none"
           /\ \A pc \in HandlerPc : LET r == [hnd[h] EXCEPT !.pc = pc] IN
                 /\ r \in Handler /\ r.pc = pc /\ r.op = hnd[h].op
                 /\ r.wf = hnd[h].wf /\ r.id = hnd[h].id
           /\ \A pc \in HandlerPc, todo \in SUBSET Positions :
                 LET r == [hnd[h] EXCEPT !.pc = pc, !.todo = todo] IN
                 /\ r \in Handler /\ r.pc = pc /\ r.op = hnd[h].op
                 /\ r.wf = hnd[h].wf /\ r.id = hnd[h].id
  <1>1. hnd[h] \in Handler
    BY DEF ControlInv, ControlTypeOK
  <1>2. IdleHandler \in Handler /\ IdleHandler.pc = "idle" /\ IdleHandler.op = "none"
    BY DEF IdleHandler, Working, Handler, HandlerPc
  <1>3. ASSUME NEW pc \in HandlerPc, NEW todo \in SUBSET Positions
        PROVE  LET r == [hnd[h] EXCEPT !.pc = pc, !.todo = todo] IN
               /\ r \in Handler /\ r.pc = pc /\ r.op = hnd[h].op
               /\ r.wf = hnd[h].wf /\ r.id = hnd[h].id
    BY <1>1 DEF Handler
  <1>4. ASSUME NEW pc \in HandlerPc
        PROVE  LET r == [hnd[h] EXCEPT !.pc = pc] IN
               /\ r \in Handler /\ r.pc = pc /\ r.op = hnd[h].op
               /\ r.wf = hnd[h].wf /\ r.id = hnd[h].id
    BY <1>1 DEF Handler
  <1> QED BY <1>1, <1>2, <1>3, <1>4

\* A request that is accepted still fits the bound, and so does a fault.
LEMMA Counted ==
    ASSUME ControlInv
    PROVE  /\ requests \in 0..MaxRequests /\ faults \in 0..MaxFaults
           /\ requests < MaxRequests => requests + 1 \in 0..MaxRequests
           /\ faults < MaxFaults => faults + 1 \in 0..MaxFaults
  BY EngineAssumption DEF ControlInv, ControlTypeOK

\* A handler that ends, or stays where it is.
LEMMA HandlerEnds ==
    ASSUME ControlInv, NEW h \in Handlers, Finish(h) \/ UNCHANGED hnd,
           slot' = slot, requests' \in 0..MaxRequests, faults' \in 0..MaxFaults,
           UNCHANGED history
    PROVE  ControlInv'
  <1>1. CASE Finish(h)
    BY <1>1, HandlerRecords, HandlerMoves DEF Finish, Go
  <1>2. CASE UNCHANGED hnd
    BY <1>2 DEF ControlInv, ControlTypeOK, RolesSet, history
  <1> QED BY <1>1, <1>2

\* A handler in its loop over tasks goes on to another step or ends.
LEMMA HandlerLoops ==
    ASSUME ControlInv, NEW h \in Handlers, hnd[h].pc # "idle",
           \/ \E pc \in HandlerPc : Step(h, pc)
           \/ \E p \in Positions : Continue(h, p)
           \/ \E todo \in SUBSET Positions :
                  Go(h, [hnd[h] EXCEPT !.pc = "enqueue", !.todo = todo]),
           slot' = slot, requests' \in 0..MaxRequests, faults' \in 0..MaxFaults,
           UNCHANGED history
    PROVE  ControlInv'
  <1>1. /\ hnd[h].wf \in Workflows
        /\ hnd[h].op = "retry" => hnd[h].id \in TaskIds
    BY DEF ControlInv, RolesSet
  <1>2. ASSUME NEW pc \in HandlerPc, Step(h, pc) PROVE ControlInv'
    <2> DEFINE r == [hnd[h] EXCEPT !.pc = pc]
    <2>1. r \in Handler /\ r.wf \in Workflows /\ (r.op = "retry" => r.id \in TaskIds)
      BY <1>1, HandlerRecords
    <2>2. hnd' = [hnd EXCEPT ![h] = r]
      BY <1>2 DEF Step, Go
    <2> HIDE DEF r
    <2> QED BY <2>1, <2>2, HandlerMoves
  <1>3. ASSUME NEW todo \in SUBSET Positions,
               Go(h, [hnd[h] EXCEPT !.pc = "enqueue", !.todo = todo])
        PROVE  ControlInv'
    <2> DEFINE r == [hnd[h] EXCEPT !.pc = "enqueue", !.todo = todo]
    <2>1. r \in Handler /\ r.wf \in Workflows /\ (r.op = "retry" => r.id \in TaskIds)
      <3>1. hnd[h] \in Handler
        BY HandlerRecords
      <3> QED BY <1>1, <3>1 DEF Handler, HandlerPc
    <2>2. hnd' = [hnd EXCEPT ![h] = r]
      BY <1>3 DEF Go
    <2> HIDE DEF r
    <2> QED BY <2>1, <2>2, HandlerMoves
  <1>4. ASSUME NEW p \in Positions, Continue(h, p) PROVE ControlInv'
    <2>1. hnd[h].todo \ {p} \in SUBSET Positions
      BY HandlerRecords DEF Handler
    <2>2. CASE hnd[h].todo \ {p} = {}
      BY <1>4, <2>2, HandlerEnds DEF Continue, Finish
    <2>3. CASE hnd[h].todo \ {p} # {}
      BY <1>3, <1>4, <2>1, <2>3 DEF Continue
    <2> QED BY <2>2, <2>3
  <1> QED BY <1>2, <1>3, <1>4

\* A handler that takes on an accepted operation on a workflow.
LEMMA HandlerBegins ==
    ASSUME ControlInv, NEW h \in Handlers, NEW op \in Operations, NEW pc \in HandlerPc,
           NEW w \in Workflows, NEW todo \in SUBSET Positions, NEW id \in TaskIds \cup {Nobody},
           op = "retry" => id \in TaskIds,
           Go(h, Working(op, pc, w, id, todo)),
           slot' = slot, requests' \in 0..MaxRequests, faults' \in 0..MaxFaults,
           UNCHANGED history
    PROVE  ControlInv'
  <1> DEFINE r == Working(op, pc, w, id, todo)
  <1>1. r \in Handler /\ r.wf = w /\ r.op = op /\ r.id = id
    BY DEF Working, Handler
  <1>2. hnd' = [hnd EXCEPT ![h] = r]
    BY DEF Go
  <1> HIDE DEF r
  <1> QED BY <1>1, <1>2, HandlerMoves

LEMMA RequestKeepsControl ==
    ASSUME EngineInv, NEW h \in Handlers, Request(h)
    PROVE  ControlInv'
  <1> USE DEF EngineInv
  <1>0. /\ Nobody \in TaskIds \cup {Nobody} /\ {} \in SUBSET Positions
        /\ {"load", "log", "status", "save", "enqueue"} \subseteq HandlerPc
    BY DEF HandlerPc
  <1>c. ASSUME NEW op, Begin(h, op)
        PROVE  op \in Operations /\ requests' \in 0..MaxRequests
    BY <1>c, Counted DEF Begin
  <1>f. faults \in 0..MaxFaults
    BY Counted
  <1>1. ASSUME NEW op, Begin(h, op), Finish(h) \/ UNCHANGED hnd, slot' = slot,
               faults' = faults, UNCHANGED history
        PROVE  ControlInv'
    BY <1>1, <1>c, <1>f, HandlerEnds
  <1>2. ASSUME NEW w \in Workflows, Create(h, w) PROVE ControlInv'
    BY <1>0, <1>1, <1>2, <1>c, <1>f, HandlerBegins DEF Create
  <1>3. ASSUME NEW w \in Workflows, StartLoad(h, w) PROVE ControlInv'
    <2>1. /\ requests' \in 0..MaxRequests /\ slot' = slot /\ faults' = faults
          /\ UNCHANGED history
      BY <1>3, <1>c, Counted DEF StartLoad
    <2>2. "start" \in Operations
      <3>1. CASE Begin(h, "start")
        BY <3>1, <1>c
      <3>2. CASE At(h, "start", "load")
        <4>1. hnd[h] \in Handler
          BY HandlerRecords
        <4>2. hnd[h].op \in Operations \cup {"none"}
          BY <4>1 DEF Handler
        <4> QED BY <3>2, <4>2 DEF At
      <3> QED BY <1>3, <3>1, <3>2 DEF StartLoad
    <2>3. CASE Finish(h)
      BY <2>1, <2>3, <1>f, HandlerEnds
    <2>4. CASE Go(h, Working("start", "status", w, Nobody, {}))
      BY <2>1, <2>2, <2>4, <1>0, <1>f, HandlerBegins
    <2> QED BY <1>3, <2>3, <2>4 DEF StartLoad
  <1>4. ASSUME NEW w \in Workflows, CancelLoad(h, w) PROVE ControlInv'
    BY <1>0, <1>4, <1>c, <1>f, HandlerBegins DEF CancelLoad
  <1>5. ASSUME NEW w \in Workflows, FinalizeLoad(h, w) PROVE ControlInv'
    BY <1>0, <1>1, <1>5, <1>c, <1>f, HandlerBegins DEF FinalizeLoad
  <1>6. ASSUME NEW w \in Workflows, RecoverLoad(h, w) PROVE ControlInv'
    <2>1. /\ Begin(h, "recover") /\ slot' = slot /\ faults' = faults /\ UNCHANGED history
          /\ \/ Finish(h)
             \/ \E todo \in SUBSET Positions :
                   Go(h, Working("recover", "enqueue", w, Nobody, todo))
      BY <1>6 DEF RecoverLoad
    <2> QED BY <2>1, <1>0, <1>1, <1>c, <1>f, HandlerBegins
  <1>7. ASSUME NEW w \in Workflows, NEW id \in TaskIds, RetryLoad(h, w, id) PROVE ControlInv'
    BY <1>0, <1>7, <1>c, <1>f, HandlerBegins DEF RetryLoad
  <1>8. ASSUME NEW id \in TaskIds, EnqueueAdHoc(h, id) PROVE ControlInv'
    BY <1>1, <1>8 DEF EnqueueAdHoc
  <1> QED BY <1>2, <1>3, <1>4, <1>5, <1>6, <1>7, <1>8 DEF Request

LEMMA HandlerKeepsControl ==
    ASSUME EngineInv, NEW h \in Handlers, HandlerStep(h)
    PROVE  ControlInv'
  <1> USE DEF EngineInv
  <1>1. /\ slot' = slot /\ requests' \in 0..MaxRequests /\ faults' \in 0..MaxFaults
        /\ UNCHANGED history /\ hnd[h].pc # "idle"
    BY Counted
       DEF HandlerStep, CreateLog, StartStatus, StartLog, StartEnqueue, StartEnqueueFails,
           StartUpdate, RetrySave, RetryEnqueue, RetryLog, CancelSave, FinalizeSave, RecoverEnqueue,
           RecoverLog, At, Fault, LogOrNot, LogOrNotAndDrop, RequestThrows
  <1>2. \/ Finish(h)
        \/ \E pc \in HandlerPc : Step(h, pc)
        \/ \E p \in Positions : Continue(h, p)
        \/ \E todo \in SUBSET Positions :
               Go(h, [hnd[h] EXCEPT !.pc = "enqueue", !.todo = todo])
        \/ "start" \in Operations /\ Go(h, Working("start", "load", hnd[h].wf, Nobody, {}))
    <2>1. "log" \in HandlerPc /\ "update" \in HandlerPc /\ "enqueue" \in HandlerPc
      BY DEF HandlerPc
    <2>2. CASE StartLog(h)
      <3> DEFINE pending == {p \in Positions : view[h].tasks[p].status = "pending"}
      <3>1. pending \in SUBSET Positions
        OBVIOUS
      <3>2. \/ Finish(h)
            \/ Go(h, [hnd[h] EXCEPT !.pc = "enqueue", !.todo = pending])
        BY <2>2 DEF StartLog, LogOrNot, LogOrNotAndDrop
      <3> QED BY <3>1, <3>2
    <2>3. CASE StartStatus(h) \/ StartEnqueue(h) \/ StartEnqueueFails(h) \/ StartUpdate(h)
      BY <2>1, <2>3 DEF StartStatus, StartEnqueue, StartEnqueueFails, StartUpdate, RequestThrows
    <2>4. CASE RetrySave(h) \/ RetryEnqueue(h) \/ RetryLog(h)
      BY <2>1, <2>4 DEF RetrySave, RetryEnqueue, RetryLog, LogOrNotAndDrop, RequestThrows
    <2>5. CASE CancelSave(h) \/ FinalizeSave(h)
      BY <2>5 DEF CancelSave, FinalizeSave, RequestThrows
    <2>6. CASE RecoverEnqueue(h) \/ RecoverLog(h)
      BY <2>1, <2>6 DEF RecoverEnqueue, RecoverLog, LogOrNot, LogOrNotAndDrop
    <2>7. CASE CreateLog(h)
      BY <2>7 DEF CreateLog
    <2> QED BY <2>2, <2>3, <2>4, <2>5, <2>6, <2>7 DEF HandlerStep
  <1>3. CASE Finish(h)
    BY <1>1, <1>3, HandlerEnds
  <1>4. CASE "start" \in Operations /\ Go(h, Working("start", "load", hnd[h].wf, Nobody, {}))
    <2>1. hnd[h].wf \in Workflows
      BY <1>1 DEF ControlInv, RolesSet
    <2>2. "load" \in HandlerPc /\ {} \in SUBSET Positions /\ Nobody \in TaskIds \cup {Nobody}
      BY DEF HandlerPc
    <2> QED BY <1>1, <1>4, <2>1, <2>2, HandlerBegins
  <1>5. CASE \/ \E pc \in HandlerPc : Step(h, pc)
             \/ \E p \in Positions : Continue(h, p)
             \/ \E todo \in SUBSET Positions :
                    Go(h, [hnd[h] EXCEPT !.pc = "enqueue", !.todo = todo])
    BY <1>1, <1>5, HandlerLoops
  <1> QED BY <1>2, <1>3, <1>4, <1>5

\* A step of slot s alone.
LEMMA SlotMoves ==
    ASSUME ControlInv, NEW s \in Slots, NEW r \in Slot, slot' = [slot EXCEPT ![s] = r],
           r.pc # "idle" => r.id \in TaskIds,
           r.pc \in {"loadRun", "saveRun", "loadEnd", "saveEnd"} => r.wf \in Workflows,
           hnd' = hnd, requests' = requests, faults' \in 0..MaxFaults,
           done' \subseteq Workflows \X TaskIds, runs' \in [TaskIds -> Nat]
    PROVE  ControlInv'
  <1>1. slot' \in [Slots -> Slot] /\ slot'[s] = r
        /\ \A t \in Slots : t # s => slot'[t] = slot[t]
    BY DEF ControlInv, ControlTypeOK
  <1>2. ControlTypeOK'
    BY <1>1 DEF ControlInv, ControlTypeOK
  <1>3. RolesSet'
    BY <1>1 DEF ControlInv, RolesSet
  <1> QED BY <1>2, <1>3 DEF ControlInv

\* A busy slot that goes on: to a report step only with a workflow.
LEMMA SlotSteps ==
    ASSUME ControlInv, NEW s \in Slots, NEW pc \in SlotPc, SlotStep(s, pc),
           slot[s].pc # "idle",
           pc \in {"loadRun", "saveRun", "loadEnd", "saveEnd"} => slot[s].wf \in Workflows,
           hnd' = hnd, requests' = requests, faults' \in 0..MaxFaults, UNCHANGED history
    PROVE  ControlInv'
  <1>1. slot[s] \in Slot /\ slot[s].id \in TaskIds
    BY DEF ControlInv, ControlTypeOK, RolesSet
  <1> DEFINE r == [slot[s] EXCEPT !.pc = pc]
  <1>2. r \in Slot /\ r.pc = pc /\ r.id = slot[s].id /\ r.wf = slot[s].wf
    BY <1>1 DEF Slot
  <1>3. slot' = [slot EXCEPT ![s] = r]
    BY DEF SlotStep
  <1> HIDE DEF r
  <1>4. done' \subseteq Workflows \X TaskIds /\ runs' \in [TaskIds -> Nat]
    BY DEF history, ControlInv, ControlTypeOK
  <1> QED BY <1>1, <1>2, <1>3, <1>4, SlotMoves

LEMMA SlotKeepsControl ==
    ASSUME EngineInv, NEW s \in Slots, SlotMove(s)
    PROVE  ControlInv'
  <1> USE DEF EngineInv
  <1>1. ASSUME NEW pc \in {"loadRun", "loadEnd"}, NEW loaded \in {"saveRun", "saveEnd"},
               NEW skipped \in {"execute", "settle"}, LoadForReport(s, pc, loaded, skipped)
        PROVE  ControlInv'
    <2>1. slot[s].wf \in Workflows /\ slot[s].pc # "idle" /\ faults' \in 0..MaxFaults
          /\ hnd' = hnd /\ requests' = requests /\ UNCHANGED history
      BY <1>1, Counted DEF LoadForReport, ControlInv, RolesSet, Fault
    <2>2. loaded \in SlotPc /\ skipped \in SlotPc
          /\ skipped \notin {"loadRun", "saveRun", "loadEnd", "saveEnd"}
      BY DEF SlotPc
    <2>3. SlotStep(s, loaded) \/ SlotStep(s, skipped)
      BY <1>1 DEF LoadForReport
    <2> QED BY <2>1, <2>2, <2>3, SlotSteps
  <1>2. CASE LoadRunning(s) \/ LoadEnd(s)
    BY <1>1, <1>2 DEF LoadRunning, LoadEnd
  <1>3. CASE ReportRunning(s) \/ ReportEnd(s) \/ LogReport(s)
    <2>1. slot[s].pc # "idle" /\ faults' \in 0..MaxFaults
          /\ hnd' = hnd /\ requests' = requests /\ UNCHANGED history
      BY <1>3, Counted
         DEF ReportRunning, ReportEnd, LogReport, SaveReport, LogOrNotAndDrop, Fault
    <2>2. \E pc \in {"logRun", "logEnd", "execute", "settle"} : SlotStep(s, pc)
      BY <1>3 DEF ReportRunning, ReportEnd, LogReport, SaveReport, LogOrNotAndDrop
    <2>3. \A pc \in {"logRun", "logEnd", "execute", "settle"} :
             pc \in SlotPc /\ pc \notin {"loadRun", "saveRun", "loadEnd", "saveEnd"}
      BY DEF SlotPc
    <2> QED BY <2>1, <2>2, <2>3, SlotSteps
  <1>4. CASE Execute(s)
    <2>1. PICK ok \in BOOLEAN :
             /\ slot' = [slot EXCEPT ![s].ok = ok,
                           ![s].pc = IF slot[s].wf = NoWf THEN "settle" ELSE "loadEnd"]
             /\ done' = IF ok /\ slot[s].wf \in Workflows
                        THEN done \cup {<<slot[s].wf, slot[s].id>>} ELSE done
      BY <1>4 DEF Execute
    <2>2. slot[s] \in Slot /\ slot[s].id \in TaskIds
          /\ slot[s].wf \in Workflows \cup {NoWf}
      BY <1>4 DEF Execute, ControlInv, ControlTypeOK, RolesSet, Slot
    <2> DEFINE pc == IF slot[s].wf = NoWf THEN "settle" ELSE "loadEnd"
               r  == [slot[s] EXCEPT !.ok = ok, !.pc = pc]
    <2>3. pc \in SlotPc /\ (pc \in {"loadRun", "saveRun", "loadEnd", "saveEnd"} =>
                               slot[s].wf \in Workflows)
      BY <2>2 DEF SlotPc
    <2>4. slot' = [slot EXCEPT ![s] = r]
      BY <2>1
    <2> HIDE DEF pc
    <2>5. r \in Slot /\ r.pc = pc /\ r.id = slot[s].id /\ r.wf = slot[s].wf
      BY <2>2, <2>3 DEF Slot
    <2>6. done' \subseteq Workflows \X TaskIds
      BY <2>1, <2>2 DEF ControlInv, ControlTypeOK
    <2>7. hnd' = hnd /\ requests' = requests /\ faults' \in 0..MaxFaults
          /\ runs' \in [TaskIds -> Nat]
      BY <1>4 DEF Execute, ControlInv, ControlTypeOK
    <2> HIDE DEF r
    <2> QED BY <2>2, <2>3, <2>4, <2>5, <2>6, <2>7, SlotMoves
  <1>5. CASE Settle(s)
    <2>1. IdleSlot \in Slot /\ IdleSlot.pc = "idle"
      BY DEF IdleSlot, Slot, SlotPc
    <2>2. /\ slot' = [slot EXCEPT ![s] = IdleSlot] /\ hnd' = hnd /\ requests' = requests
          /\ faults' \in 0..MaxFaults
          /\ done' \subseteq Workflows \X TaskIds /\ runs' \in [TaskIds -> Nat]
      BY <1>5 DEF Settle, ControlInv, ControlTypeOK, history
    <2> QED BY <2>1, <2>2, SlotMoves
  <1> QED BY <1>2, <1>3, <1>4, <1>5 DEF SlotMove

\* A job handed out is stored, so it has a source.
LEMMA PickKeepsControl ==
    ASSUME EngineInv, NEW s \in Slots, NEW id \in TaskIds, PickJob(s, id)
    PROVE  ControlInv'
  <1> USE DEF EngineInv
  <1>1. job[id].source \in Workflows \cup {NoWf}
    BY EngineAssumption DEF PickJob, Take, QueueInv, JobsSourced, Stored
  <1> DEFINE wf == job[id].source
             pc == IF id \in Unnamed \/ (id \in Agentless /\ wf = NoWf) THEN "settle"
                   ELSE IF wf = NoWf THEN "execute"
                   ELSE IF id \in Agentless THEN "loadEnd" ELSE "loadRun"
             r  == [id |-> id, wf |-> wf, ok |-> FALSE, pc |-> pc]
  <1>2. pc \in SlotPc /\ (pc \in {"loadRun", "saveRun", "loadEnd", "saveEnd"} =>
                             wf \in Workflows)
    <2>1. pc \in {"settle", "execute", "loadEnd", "loadRun"}
      OBVIOUS
    <2>2. pc \in {"loadEnd", "loadRun"} => wf # NoWf
      OBVIOUS
    <2> HIDE DEF pc
    <2> QED BY <1>1, <2>1, <2>2 DEF SlotPc
  <1>3. slot' = [slot EXCEPT ![s] = r]
    BY DEF PickJob
  <1> HIDE DEF pc
  <1>4. r \in Slot /\ r.pc = pc /\ r.id = id /\ r.wf = wf
    BY <1>1, <1>2 DEF Slot
  <1>5. hnd' = hnd /\ requests' = requests /\ faults' \in 0..MaxFaults
        /\ done' \subseteq Workflows \X TaskIds /\ runs' \in [TaskIds -> Nat]
    BY DEF PickJob, ControlInv, ControlTypeOK
  <1> HIDE DEF r
  <1> QED BY <1>2, <1>3, <1>4, <1>5, SlotMoves

LEMMA ControlKept ==
    ASSUME EngineInv, [Next]_vars
    PROVE  ControlInv'
  <1> USE DEF EngineInv
  <1>1. ASSUME NEW h \in Handlers, Request(h) \/ HandlerStep(h) PROVE ControlInv'
    BY <1>1, RequestKeepsControl, HandlerKeepsControl
  <1>2. ASSUME NEW s \in Slots, SlotMove(s) PROVE ControlInv'
    BY <1>2, SlotKeepsControl
  <1>3. ASSUME NEW s \in Slots, NEW id \in TaskIds, PickJob(s, id) PROVE ControlInv'
    BY <1>3, PickKeepsControl
  <1>4. ASSUME NEW id \in TaskIds, QueueTimer(id) PROVE ControlInv'
    <2>1. slot' = slot /\ hnd' = hnd /\ requests' = requests /\ faults' \in 0..MaxFaults
          /\ UNCHANGED history
      BY <1>4, Counted DEF QueueTimer, PromoteJob, StallJob, Fault
    <2> QED BY <2>1 DEF ControlInv, ControlTypeOK, RolesSet, history
  <1>5. ASSUME NEW P \in Processes, Crash(P) PROVE ControlInv'
    <2>1. IdleSlot \in Slot /\ IdleSlot.pc = "idle"
      BY DEF IdleSlot, Slot, SlotPc
    <2>2. IdleHandler \in Handler /\ IdleHandler.pc = "idle" /\ IdleHandler.op = "none"
      BY DEF IdleHandler, Working, Handler, HandlerPc
    <2>3. /\ \A s \in Slots : slot'[s] = IF s \in P THEN IdleSlot ELSE slot[s]
          /\ \A h \in Handlers : hnd'[h] = IF h \in P THEN IdleHandler ELSE hnd[h]
          /\ slot' \in [Slots -> Slot] /\ hnd' \in [Handlers -> Handler]
      BY <1>5, <2>1, <2>2 DEF Crash, ControlInv, ControlTypeOK
    <2>4. RolesSet'
      BY <2>1, <2>2, <2>3 DEF ControlInv, RolesSet
    <2>5. requests' = requests /\ faults' \in 0..MaxFaults /\ UNCHANGED history
      BY <1>5, Counted DEF Crash, Fault
    <2> QED BY <2>3, <2>4, <2>5 DEF ControlInv, ControlTypeOK, history
  <1>6. CASE UNCHANGED vars
    BY <1>6 DEF vars, ControlInv, ControlTypeOK, RolesSet
  <1> QED BY <1>1, <1>2, <1>3, <1>4, <1>5, <1>6 DEF Next

-----------------------------------------------------------------------------
(* The theorems                                                            *)

LEMMA InitEstablishes == Init => EngineInv
  <1> SUFFICES ASSUME Init PROVE EngineInv
    OBVIOUS
  <1>1. CopyInv
    <2>1. Absent \in Document
      BY DEF Absent, Document, Task, NewTask, TaskStatus
    <2>2. DocumentTypeOK
      BY <2>1, NoViewType DEF Init, DocumentInit, DocumentTypeOK
    <2>3. \A a \in Actors : ~InUse(a)
      BY NoViewType DEF Init, DocumentInit, InUse
    <2> QED BY <2>2, <2>3 DEF CopyInv, CopiesExist, CopiesTrackDocument
  <1>2. QueueInv
    <2>1. QueueTypeOK
      BY NoJobType DEF Init, QueueInit, QueueTypeOK
    <2>2. \A id \in TaskIds : job[id].state = "none" /\ job[id].made = 0 /\ job[id].stalls = 0
      BY DEF Init, QueueInit, NoJob
    <2>3. Len(kept) = 0
      BY DEF Init, QueueInit
    <2> QED BY <2>1, <2>2, <2>3, QueueAssumption
            DEF QueueInv, JobsSourced, AbsentUntried, Stored, JobsAccounted
  <1>3. ControlInv
    <2>1. IdleSlot \in Slot /\ IdleSlot.pc = "idle"
      BY DEF IdleSlot, Slot, SlotPc
    <2>2. IdleHandler \in Handler /\ IdleHandler.pc = "idle" /\ IdleHandler.op = "none"
      BY DEF IdleHandler, Working, Handler, HandlerPc
    <2> QED BY <2>1, <2>2, EngineAssumption DEF Init, ControlInv, ControlTypeOK, RolesSet
  <1> QED BY <1>1, <1>2, <1>3 DEF EngineInv

\* The invariant holds in every reachable state.
THEOREM EngineInvariant == Spec => []EngineInv
  <1>1. EngineInv /\ [Next]_vars => EngineInv'
    BY CopiesKept, QueueKept, ControlKept DEF EngineInv
  <1> QED BY InitEstablishes, <1>1, PTL DEF Spec

\* Every variable keeps its type, through every interleaving, failed call, lost
\* lock and crash.
THEOREM TypeCorrect == Spec => []TypeOK
  <1>1. EngineInv => TypeOK
    BY DEF EngineInv, CopyInv, QueueInv, ControlInv, ControlTypeOK, TypeOK
  <1> QED BY <1>1, EngineInvariant, PTL

\* No loaded copy runs ahead of its document, and one at the document's version
\* shows what is stored, up to resets: writing back the whole task array of such
\* a copy (Workflow.updateTask) loses nothing but a reset.
THEOREM CopiesNeverAhead == Spec => []CopiesTrackDocument
  <1>1. EngineInv => CopiesTrackDocument
    BY DEF EngineInv, CopyInv
  <1> QED BY <1>1, EngineInvariant, PTL

\* Attempts and stalls stay within their limits, and the retained completed jobs
\* are exactly those listed for removal.
THEOREM JobsStayAccounted == Spec => []JobsAccounted
  <1>1. EngineInv => JobsAccounted
    BY DEF EngineInv, QueueInv
  <1> QED BY <1>1, EngineInvariant, PTL

-----------------------------------------------------------------------------
(* The jobs implement the abstract task queue                              *)

\* Every step of the engine is a step of JobLifecycle, or leaves the
\* submissions as they are.
LEMMA LifecycleStep ==
    ASSUME EngineInv, [Next]_vars
    PROVE  [Lifecycle!Next]_<<Phases, Tries>>
  <1>1. QueueInv
    BY DEF EngineInv
  <1>2. CASE UNCHANGED queueVars
    BY <1>2 DEF queueVars, Phases, Tries
  <1>3. CASE \E id \in TaskIds, src \in Sources : Add(id, src)
    BY <1>1, <1>3, AddSubmits DEF Lifecycle!Next, SubmissionsUnchanged
  <1>4. ASSUME NEW s \in Slots, NEW id \in TaskIds, PickJob(s, id)
        PROVE  Lifecycle!Next
    BY <1>1, <1>4, TakeRuns DEF PickJob, Lifecycle!Next
  <1>5. ASSUME NEW s \in Slots, NEW id \in TaskIds, Complete(s, id)
        PROVE  Lifecycle!Next
    BY <1>1, <1>5, CompleteEnds DEF Lifecycle!Next
  <1>6. ASSUME NEW s \in Slots, NEW id \in TaskIds, Fail(s, id)
        PROVE  Lifecycle!Next
    BY <1>1, <1>6, FailGivesBackOrEnds DEF Lifecycle!Next
  <1>7. ASSUME NEW id \in TaskIds, Stall(id)
        PROVE  Lifecycle!Next
    BY <1>1, <1>7, StallGivesBackOrEnds DEF Lifecycle!Next
  <1>8. ASSUME NEW id \in TaskIds, Promote(id)
        PROVE  SubmissionsUnchanged
    BY <1>1, <1>8, PromoteStutters
  <1>9. ASSUME NEW S \in SUBSET Slots, Orphan(S)
        PROVE  SubmissionsUnchanged
    BY <1>1, <1>9, OrphanStutters
  <1> QED BY <1>2, <1>3, <1>4, <1>5, <1>6, <1>7, <1>8, <1>9, QueueSteps
          DEF SubmissionsUnchanged

\* Initially nothing is submitted.
LEMMA LifecycleInit == Init => Lifecycle!Init
  BY DEF Init, QueueInit, NoJob, Phases, Tries, Lifecycle!Init

\* The stored jobs keep the promise of JobLifecycle: an id is run by one
\* processor at a time, at most MaxAttempts + MaxStalled times per submission,
\* and one that is not forgotten is neither lost nor submitted twice.
THEOREM JobsImplementLifecycle == Spec => ImplementsLifecycle
  <1>1. EngineInv /\ [Next]_vars => [Lifecycle!Next]_<<Phases, Tries>>
    BY LifecycleStep
  <1> QED BY <1>1, LifecycleInit, EngineInvariant, PTL
          DEF Spec, ImplementsLifecycle, Lifecycle!Spec

-----------------------------------------------------------------------------
(* Saves change what they are about                                        *)

\* The condition WritesStayLocal puts on a step.
LocalWrite ==
    \A w \in Workflows : \E q \in Positions \cup {0} : \A p \in Positions \ {q} :
        \/ doc'[w].tasks[p] = doc[w].tasks[p]
        \/ doc[w].tasks[p].status = "pending"
        \/ doc'[w].tasks[p].status = "cancelled"

\* Saves that touch no task, or cancel some.
LEMMA NoTaskWritten ==
    ASSUME \A w \in Workflows, p \in Positions :
               \/ doc'[w].tasks[p] = doc[w].tasks[p]
               \/ doc'[w].tasks[p].status = "cancelled"
    PROVE  LocalWrite
  BY DEF LocalWrite

LEMMA SavesAreLocal ==
    ASSUME CopyInv, Save
    PROVE  LocalWrite
  <1> USE DEF CopyInv
  <1>1. ASSUME NEW a \in Actors, NEW w \in Workflows, CreateDocument(a, w) PROVE LocalWrite
    BY <1>1, CreateEffect, NoTaskWritten
  <1>2. ASSUME NEW a \in Actors, AppendLog(a) \/ AppendLogAndDrop(a) PROVE LocalWrite
    BY <1>2, AppendLogEffect, AppendLogAndDropEffect, NoTaskWritten
  <1>3. ASSUME NEW a \in Actors, CancelTasks(a) PROVE LocalWrite
    BY <1>3, CancelTasksEffect, NoTaskWritten
  <1>4. ASSUME NEW a \in Actors, NEW st \in WorkflowStatus, SaveStatus(a, st) \/ MarkStatus(a, st)
        PROVE  LocalWrite
    BY <1>4, SaveStatusEffect, MarkStatusEffect, NoTaskWritten
  <1>5. ASSUME NEW a \in Actors, NEW q \in Positions, ResetTask(a, q) PROVE LocalWrite
    BY <1>5, ResetTaskEffect DEF LocalWrite
  <1>6. ASSUME NEW a \in Actors, NEW q \in Positions, NEW t \in Task, SaveTasks(a, q, t)
        PROVE  LocalWrite
    <2> SUFFICES ASSUME NEW w \in Workflows, NEW p \in Positions \ {q}
                 PROVE  \/ doc'[w].tasks[p] = doc[w].tasks[p]
                        \/ doc[w].tasks[p].status = "pending"
      BY DEF LocalWrite
    <2>1. doc'[w].tasks = IF w = view[a].wf THEN [view[a].tasks EXCEPT ![q] = t]
                          ELSE doc[w].tasks
      BY <1>6, SaveTasksEffect
    <2>2. view[a].tasks \in [Positions -> Task]
      BY Typed DEF View
    <2>3. CASE w = view[a].wf
      <3>1. InUse(a) /\ view[a].ver = doc[w].ver
        BY <1>6, <2>3 DEF SaveTasks, Fresh, InUse
      <3>2. view[a].tasks[p] = doc[w].tasks[p] \/ doc[w].tasks[p].status = "pending"
        BY <2>3, <3>1 DEF CopiesTrackDocument
      <3> QED BY <2>1, <2>2, <2>3, <3>2
    <2>4. CASE w # view[a].wf
      BY <2>1, <2>4
    <2> QED BY <2>3, <2>4
  <1> QED BY <1>1, <1>2, <1>3, <1>4, <1>5, <1>6 DEF Save

\* Writing back the whole task array changes one task, but for resets made since
\* it was read and cancellations: the invariant on copies is what makes this so,
\* since a copy is only saved while it is at the document's version.
THEOREM SavesStayLocal == Spec => WritesStayLocal
  <1>1. EngineInv /\ [Next]_vars => [LocalWrite]_doc
    <2> SUFFICES ASSUME EngineInv, [Next]_vars PROVE [LocalWrite]_doc
      OBVIOUS
    <2>1. CASE Save
      BY <2>1, SavesAreLocal DEF EngineInv
    <2>2. CASE Read
      BY <2>2 DEF Read, Load, Drop, SpoilCopy
    <2> QED BY <2>1, <2>2, DocumentSteps
  <1> QED BY <1>1, EngineInvariant, PTL DEF Spec, WritesStayLocal, LocalWrite

-----------------------------------------------------------------------------
(* Success is earned                                                       *)

\* Tasks the document or copy r of workflow w shows as succeeded are in E.
EarnedIn(w, tasks, E) ==
    \A p \in Positions : tasks[p].status = "succeeded" => <<w, IdOf[w][p]>> \in E

\* Neither documents nor copies show a success that was not earned.
RecordsEarned ==
    /\ \A w \in Workflows : EarnedIn(w, doc[w].tasks, done)
    /\ \A a \in Actors : InUse(a) => EarnedIn(view[a].wf, view[a].tasks, done)

\* A slot that will report success has earned it, and a slot about to save
\* holds a copy of the document of its job.
ReportsEarned ==
    /\ \A s \in Slots : slot[s].pc \in {"loadEnd", "saveEnd"} /\ slot[s].ok =>
                            <<slot[s].wf, slot[s].id>> \in done
    /\ \A s \in Slots : slot[s].pc \in {"saveRun", "saveEnd"} => view[s].wf = slot[s].wf
    /\ \A s \in Slots : slot[s].pc \in {"loadRun", "saveRun"} => ~slot[s].ok

SuccessInv == RecordsEarned /\ ReportsEarned

\* Returns of agents are remembered.
LEMMA DoneGrows ==
    ASSUME [Next]_vars
    PROVE  done \subseteq done'
  <1>1. ASSUME NEW s \in Slots, SlotMove(s) PROVE done \subseteq done'
    BY <1>1 DEF SlotMove, LoadRunning, LoadEnd, LoadForReport, ReportRunning, ReportEnd, SaveReport,
                LogReport, Execute, Settle, history, LogOrNotAndDrop
  <1>2. ASSUME NEW h \in Handlers, Request(h) PROVE done' = done
    BY <1>2 DEF Request, Create, StartLoad, CancelLoad, FinalizeLoad, RecoverLoad, RetryLoad,
                EnqueueAdHoc, history
  <1>3. ASSUME NEW h \in Handlers, HandlerStep(h) PROVE done' = done
    BY <1>3 DEF HandlerStep, CreateLog, StartStatus, StartLog, StartEnqueue, StartEnqueueFails,
                StartUpdate, RetrySave, RetryEnqueue, RetryLog, CancelSave, FinalizeSave,
                RecoverEnqueue, RecoverLog, history, LogOrNot, LogOrNotAndDrop, RequestThrows
  <1> QED BY <1>1, <1>2, <1>3
          DEF Next, PickJob, QueueTimer, PromoteJob, StallJob, Crash, vars, history

\* Tasks that show no new success are still earned.
LEMMA StillEarned ==
    ASSUME NEW w, NEW old, NEW new, NEW E, NEW F, E \subseteq F, EarnedIn(w, old, E),
           \A p \in Positions : new[p].status = "succeeded" => old[p].status = "succeeded"
    PROVE  EarnedIn(w, new, F)
  BY DEF EarnedIn

LEMMA SavesKeepRecordsEarned ==
    ASSUME EngineInv, SuccessInv, done \subseteq done', Save
    PROVE  RecordsEarned'
  <1> USE DEF EngineInv, CopyInv
  <1> HIDE DEF EngineInv, CopyInv
  <1>0. DocumentTypeOK
    BY DEF EngineInv, CopyInv
  <1>a. /\ \A w \in Workflows : EarnedIn(w, doc[w].tasks, done')
        /\ \A a \in Actors : InUse(a) => EarnedIn(view[a].wf, view[a].tasks, done')
    BY DEF SuccessInv, RecordsEarned, EarnedIn
  <1>b. ~(NoView.wf \in Workflows)
    BY NoViewType
  \* A save that makes no task of a document or copy succeeded.
  <1>1. ASSUME \A w \in Workflows, p \in Positions :
                   doc'[w].tasks[p].status = "succeeded" => doc[w].tasks[p].status = "succeeded",
               \A b \in Actors : \/ view'[b] = NoView
                                 \/ /\ view'[b].wf = view[b].wf
                                    /\ \A p \in Positions :
                                          view'[b].tasks[p].status = "succeeded"
                                              => view[b].tasks[p].status = "succeeded"
        PROVE  RecordsEarned'
    BY <1>1, <1>a, <1>b DEF RecordsEarned, EarnedIn, InUse
  <1>2. ASSUME NEW a \in Actors, NEW w \in Workflows, CreateDocument(a, w) PROVE RecordsEarned'
    <2>1. /\ \A v \in Workflows : doc'[v].tasks = doc[v].tasks
          /\ view'[a].wf = w /\ view'[a].tasks = doc[w].tasks
          /\ \A b \in Actors : b # a => view'[b] = view[b]
      BY <1>0, <1>2, CreateEffect
    <2> QED BY <2>1, <1>a DEF RecordsEarned, InUse
  <1>3. ASSUME NEW a \in Actors, AppendLog(a) PROVE RecordsEarned'
    BY <1>0, <1>1, <1>3, AppendLogEffect
  <1>4. ASSUME NEW a \in Actors, AppendLogAndDrop(a) PROVE RecordsEarned'
    <2>1. \A b \in Actors : view'[b] = view[b] \/ view'[b] = NoView
      BY <1>0, <1>4, AppendLogAndDropEffect
    <2>2. \A w \in Workflows : doc'[w].tasks = doc[w].tasks
      BY <1>0, <1>4, AppendLogAndDropEffect
    <2> QED BY <1>1, <2>1, <2>2
  <1>5. ASSUME NEW a \in Actors, CancelTasks(a) PROVE RecordsEarned'
    <2>1. \A b \in Actors : view'[b] = view[b] \/ view'[b] = NoView
      BY <1>0, <1>5, CancelTasksEffect
    <2>2. \A w \in Workflows, p \in Positions :
             doc'[w].tasks[p] = doc[w].tasks[p] \/ doc'[w].tasks[p].status = "cancelled"
      BY <1>0, <1>5, CancelTasksEffect
    <2> QED BY <1>1, <2>1, <2>2
  <1>6. ASSUME NEW a \in Actors, NEW st \in WorkflowStatus, SaveStatus(a, st)
        PROVE  RecordsEarned'
    BY <1>0, <1>1, <1>6, SaveStatusEffect
  <1>7. ASSUME NEW a \in Actors, NEW st \in WorkflowStatus, MarkStatus(a, st)
        PROVE  RecordsEarned'
    <2>1. \A b \in Actors : view'[b] = view[b] \/ view'[b] = NoView
      BY <1>0, <1>7, MarkStatusEffect
    <2>2. \A w \in Workflows : doc'[w].tasks = doc[w].tasks
      BY <1>0, <1>7, MarkStatusEffect
    <2> QED BY <1>1, <2>1, <2>2
  <1>8. ASSUME NEW a \in Actors, NEW p \in Positions, ResetTask(a, p) PROVE RecordsEarned'
    <2>1. \A b \in Actors : /\ view'[b].wf = view[b].wf
                            /\ \A q \in Positions : \/ view'[b].tasks[q] = view[b].tasks[q]
                                                    \/ view'[b].tasks[q].status = "pending"
      BY <1>0, <1>8, ResetTaskEffect
    <2>2. \A w \in Workflows, q \in Positions :
             doc'[w].tasks[q] = doc[w].tasks[q] \/ doc'[w].tasks[q].status = "pending"
      BY <1>0, <1>8, ResetTaskEffect
    <2> QED BY <1>1, <2>1, <2>2
  <1>9. ASSUME NEW a \in Actors, NEW p \in Positions, NEW t \in Task, SaveTasks(a, p, t),
               t.status = "succeeded" => ReportsSuccess(a, p)
        PROVE  RecordsEarned'
    <2> DEFINE tasks == [view[a].tasks EXCEPT ![p] = t]
    <2>1. /\ \A v \in Workflows : doc'[v].tasks = IF v = view[a].wf THEN tasks ELSE doc[v].tasks
          /\ view'[a].wf = view[a].wf /\ view'[a].tasks = tasks
          /\ \A b \in Actors : b # a => view'[b] = view[b]
      BY <1>0, <1>9, SaveTasksEffect
    <2>2. ASSUME InUse(a) PROVE EarnedIn(view[a].wf, tasks, done')
      <3>1. t.status = "succeeded" => <<view[a].wf, IdOf[view[a].wf][p]>> \in done
        BY <1>9 DEF ReportsSuccess, Reports, SuccessInv, ReportsEarned
      <3>2. \A q \in Positions : tasks[q] = IF q = p THEN t ELSE view[a].tasks[q]
        BY <1>0, Typed DEF View
      <3> HIDE DEF tasks
      <3> QED BY <2>2, <3>1, <3>2, <1>a DEF EarnedIn
    <2> HIDE DEF tasks
    <2> QED BY <2>1, <2>2, <1>a DEF RecordsEarned, InUse
  <1> QED BY <1>2, <1>3, <1>4, <1>5, <1>6, <1>7, <1>8, <1>9 DEF Save

LEMMA ReadsKeepRecordsEarned ==
    ASSUME EngineInv, SuccessInv, done \subseteq done', Read
    PROVE  RecordsEarned'
  <1>0. DocumentTypeOK
    BY DEF EngineInv, CopyInv
  <1>a. /\ \A w \in Workflows : EarnedIn(w, doc[w].tasks, done')
        /\ \A a \in Actors : InUse(a) => EarnedIn(view[a].wf, view[a].tasks, done')
    BY DEF SuccessInv, RecordsEarned, EarnedIn
  <1>1. CASE UNCHANGED <<doc, view>>
    BY <1>1, <1>a DEF RecordsEarned, InUse
  <1>2. ASSUME NEW a \in Actors, NEW w \in Workflows, Load(a, w) PROVE RecordsEarned'
    BY <1>0, <1>2, <1>a, LoadEffect DEF RecordsEarned, InUse
  <1>3. ASSUME NEW a \in Actors, Drop(a) PROVE RecordsEarned'
    BY <1>0, <1>3, <1>a, DropEffect, NoViewType DEF RecordsEarned, InUse
  <1>4. ASSUME NEW a \in Actors, NEW p \in Positions, NEW t \in Task, SpoilCopy(a, p, t),
               t.status = "pending"
        PROVE  RecordsEarned'
    <2> DEFINE tasks == [view[a].tasks EXCEPT ![p] = t]
    <2>1. /\ doc' = doc /\ view'[a].wf = view[a].wf /\ view'[a].tasks = tasks
          /\ \A b \in Actors : b # a => view'[b] = view[b]
      BY <1>0, <1>4, SpoilCopyEffect
    <2>2. \A q \in Positions : tasks[q] = IF q = p THEN t ELSE view[a].tasks[q]
      BY <1>0, Typed DEF View
    <2> HIDE DEF tasks
    <2>3. InUse(a) => EarnedIn(view[a].wf, tasks, done')
      BY <1>4, <1>a, <2>2 DEF EarnedIn
    <2> QED BY <2>1, <2>3, <1>a DEF RecordsEarned, InUse
  <1>5. ASSUME NEW P, doc' = doc,
               view' = [a \in Actors |-> IF a \in P THEN NoView ELSE view[a]]
        PROVE  RecordsEarned'
    BY <1>5, <1>a, NoViewType DEF RecordsEarned, InUse
  <1> QED BY <1>1, <1>2, <1>3, <1>4, <1>5 DEF Read

\* A read or save by a changes no copy but its own.
LEMMA OwnCopy ==
    ASSUME DocumentTypeOK, NEW a \in Actors, NEW b \in Actors, b # a
    PROVE  /\ \A w \in Workflows : Load(a, w) \/ CreateDocument(a, w) => view'[b] = view[b]
           /\ Drop(a) \/ AppendLog(a) \/ AppendLogAndDrop(a) \/ CancelTasks(a)
                 => view'[b] = view[b]
           /\ \A st : SaveStatus(a, st) \/ MarkStatus(a, st) => view'[b] = view[b]
           /\ \A p \in Positions : \A t : SaveTasks(a, p, t) \/ SpoilCopy(a, p, t)
                 => view'[b] = view[b]
           /\ \A p \in Positions : ResetTask(a, p) => view'[b] = view[b]
  BY DEF DocumentTypeOK, Load, CreateDocument, Drop, AppendLog, AppendLogAndDrop,
         CancelTasks, SaveStatus, MarkStatus, SaveTasks, SpoilCopy, ResetTask

LEMMA HandlerOwnCopy ==
    ASSUME DocumentTypeOK, NEW h \in Handlers, Request(h) \/ HandlerStep(h),
           NEW b \in Actors, b # h
    PROVE  view'[b] = view[b]
  <1>0. h \in Actors
    BY Acting
  <1>1. CASE Request(h)
    <2>1. ASSUME NEW w \in Workflows, Create(h, w) PROVE view'[b] = view[b]
      BY <1>0, <2>1, OwnCopy DEF Create
    <2>2. ASSUME NEW w \in Workflows,
                 StartLoad(h, w) \/ CancelLoad(h, w) \/ FinalizeLoad(h, w) \/ RecoverLoad(h, w)
          PROVE  view'[b] = view[b]
      BY <1>0, <2>2, OwnCopy DEF StartLoad, CancelLoad, FinalizeLoad, RecoverLoad
    <2>3. ASSUME NEW w \in Workflows, NEW id \in TaskIds, RetryLoad(h, w, id)
          PROVE  view'[b] = view[b]
      BY <1>0, <2>3, OwnCopy DEF RetryLoad
    <2> QED BY <1>1, <2>1, <2>2, <2>3 DEF Request, EnqueueAdHoc
  <1>2. CASE HandlerStep(h)
    <2>1. CASE StartUpdate(h)
      BY <1>0, <2>1, OwnCopy DEF StartUpdate
    <2>2. CASE CreateLog(h) \/ StartStatus(h) \/ StartLog(h) \/ StartEnqueue(h)
               \/ StartEnqueueFails(h)
      BY <1>0, <2>2, OwnCopy
         DEF CreateLog, StartStatus, StartLog, StartEnqueue, StartEnqueueFails, LeaveLast, LogOrNot,
             LogOrNotAndDrop, RequestThrows
    <2>3. CASE RetrySave(h) \/ RetryEnqueue(h) \/ RetryLog(h)
      BY <1>0, <2>3, OwnCopy DEF RetrySave, RetryEnqueue, RetryLog, Finds, LogOrNotAndDrop,
                                 RequestThrows
    <2>4. CASE CancelSave(h) \/ FinalizeSave(h) \/ RecoverEnqueue(h) \/ RecoverLog(h)
      BY <1>0, <2>4, OwnCopy DEF CancelSave, FinalizeSave, RecoverEnqueue, RecoverLog, LeaveLast,
                                 LogOrNot, LogOrNotAndDrop, RequestThrows
    <2> QED BY <1>2, <2>1, <2>2, <2>3, <2>4 DEF HandlerStep
  <1> QED BY <1>1, <1>2

LEMMA SlotOwnCopy ==
    ASSUME DocumentTypeOK, ControlInv, NEW s \in Slots, SlotMove(s), NEW b \in Actors, b # s
    PROVE  view'[b] = view[b]
  <1>0. s \in Actors /\ (slot[s].pc \in {"loadRun", "loadEnd"} => slot[s].wf \in Workflows)
    BY Acting DEF ControlInv, RolesSet
  <1>1. CASE LoadRunning(s) \/ LoadEnd(s)
    BY <1>0, <1>1, OwnCopy DEF LoadRunning, LoadEnd, LoadForReport
  <1>2. CASE ReportRunning(s) \/ ReportEnd(s)
    BY <1>0, <1>2, OwnCopy DEF ReportRunning, ReportEnd, SaveReport, Finds
  <1>3. CASE LogReport(s)
    BY <1>0, <1>3, OwnCopy DEF LogReport, LogOrNotAndDrop
  <1> QED BY <1>1, <1>2, <1>3 DEF SlotMove, Execute, Settle

\* Handlers leave the slots alone.
LEMMA HandlersLeaveSlots ==
    ASSUME NEW h \in Handlers, Request(h) \/ HandlerStep(h)
    PROVE  slot' = slot
  BY DEF Request, Create, StartLoad, CancelLoad, FinalizeLoad, RecoverLoad, RetryLoad, EnqueueAdHoc,
         HandlerStep, CreateLog, StartStatus, StartLog, StartEnqueue, StartEnqueueFails,
         StartUpdate, RetrySave, RetryEnqueue, RetryLog, CancelSave, FinalizeSave, RecoverEnqueue,
         RecoverLog, LogOrNot, LogOrNotAndDrop, RequestThrows

\* Where a step leaves slots, copies of slots and history alone or forgets them.
LEMMA ReportsStillEarned ==
    ASSUME ReportsEarned, done \subseteq done',
           \A t \in Slots : \/ slot'[t] = slot[t] /\ view'[t] = view[t]
                            \/ /\ slot'[t].pc \notin {"loadRun", "saveRun", "loadEnd", "saveEnd"}
    PROVE  ReportsEarned'
  BY DEF ReportsEarned

LEMMA SlotMovesKeepReportsEarned ==
    ASSUME EngineInv, SuccessInv, done \subseteq done', NEW s \in Slots, SlotMove(s)
    PROVE  ReportsEarned'
  <1>0. /\ DocumentTypeOK /\ ControlInv /\ ReportsEarned /\ s \in Actors
        /\ slot \in [Slots -> Slot]
    BY Acting DEF EngineInv, CopyInv, SuccessInv, ControlInv, ControlTypeOK
  <1>1. \A t \in Slots : t # s => slot'[t] = slot[t] /\ view'[t] = view[t]
    <2>1. \A t \in Slots : t # s => slot'[t] = slot[t]
      BY <1>0 DEF SlotMove, LoadRunning, LoadEnd, LoadForReport, ReportRunning, ReportEnd,
                  SaveReport, LogReport, Execute, Settle, SlotStep, LogOrNotAndDrop
    <2> QED BY <1>0, <2>1, SlotOwnCopy, Acting
  <1>2. ASSUME slot'[s].pc \notin {"loadRun", "saveRun", "loadEnd", "saveEnd"}
        PROVE  ReportsEarned'
    BY <1>0, <1>1, <1>2, ReportsStillEarned
  <1>3. ASSUME NEW pc, SlotStep(s, pc)
        PROVE  slot'[s].pc = pc /\ slot'[s].wf = slot[s].wf /\ slot'[s].id = slot[s].id
               /\ slot'[s].ok = slot[s].ok
    BY <1>0, <1>3 DEF SlotStep, Slot
  <1>4. ASSUME NEW pc \in {"loadRun", "loadEnd"}, NEW loaded, NEW skipped \in {"execute", "settle"},
               LoadForReport(s, pc, loaded, skipped),
               <<pc, loaded>> \in {<<"loadRun", "saveRun">>, <<"loadEnd", "saveEnd">>}
        PROVE  ReportsEarned'
    <2>1. CASE SlotStep(s, skipped)
      BY <1>2, <1>3, <2>1
    <2>2. CASE Load(s, slot[s].wf) /\ SlotStep(s, loaded)
      <3>1. slot[s].wf \in Workflows /\ slot[s].pc = pc
        BY <1>0, <1>4 DEF LoadForReport, ControlInv, RolesSet
      <3>2. view'[s].wf = slot[s].wf
        BY <1>0, <2>2, <3>1, LoadEffect
      <3>3. /\ slot'[s].pc = loaded /\ slot'[s].wf = slot[s].wf
            /\ slot'[s].id = slot[s].id /\ slot'[s].ok = slot[s].ok
        BY <1>3, <2>2
      <3>4. /\ pc = "loadRun" => loaded = "saveRun"
            /\ pc = "loadEnd" => loaded = "saveEnd"
        BY <1>4
      <3> QED BY <1>0, <1>1, <3>1, <3>2, <3>3, <3>4 DEF ReportsEarned
    <2> QED BY <1>4, <2>1, <2>2 DEF LoadForReport
  <1>5. CASE LoadRunning(s) \/ LoadEnd(s)
    BY <1>4, <1>5 DEF LoadRunning, LoadEnd
  <1>6. CASE ReportRunning(s) \/ ReportEnd(s) \/ LogReport(s)
    <2>1. \E pc \in {"logRun", "logEnd", "execute", "settle"} : SlotStep(s, pc)
      BY <1>6 DEF ReportRunning, ReportEnd, LogReport, SaveReport, LogOrNotAndDrop
    <2> QED BY <1>2, <1>3, <2>1
  <1>7. CASE Execute(s)
    <2>1. PICK ok \in BOOLEAN :
             /\ slot' = [slot EXCEPT ![s].ok = ok,
                           ![s].pc = IF slot[s].wf = NoWf THEN "settle" ELSE "loadEnd"]
             /\ done' = IF ok /\ slot[s].wf \in Workflows
                        THEN done \cup {<<slot[s].wf, slot[s].id>>} ELSE done
      BY <1>7 DEF Execute
    <2> DEFINE pc == IF slot[s].wf = NoWf THEN "settle" ELSE "loadEnd"
               r  == [slot[s] EXCEPT !.ok = ok, !.pc = pc]
    <2>2. slot'[s] = r
      BY <1>0, <2>1
    <2>3. pc = "loadEnd" => slot[s].wf \in Workflows
      BY <1>0 DEF Slot
    <2>4. pc \in {"settle", "loadEnd"}
      OBVIOUS
    <2> HIDE DEF pc
    <2>5. r.pc = pc /\ r.ok = ok /\ r.wf = slot[s].wf /\ r.id = slot[s].id
      BY <1>0 DEF Slot
    <2> HIDE DEF r
    <2>6. slot'[s].pc \in {"loadEnd", "saveEnd"} /\ slot'[s].ok =>
              <<slot'[s].wf, slot'[s].id>> \in done'
      <3>1. slot'[s].pc = pc /\ slot'[s].ok = ok
            /\ slot'[s].wf = slot[s].wf /\ slot'[s].id = slot[s].id
        BY <2>2, <2>5
      <3>2. CASE ok = TRUE
        BY <3>1, <3>2, <2>1, <2>3, <2>4
      <3>3. CASE ok = FALSE
        BY <3>1, <3>3
      <3> QED BY <3>2, <3>3
    <2>7. slot'[s].pc \notin {"loadRun", "saveRun", "saveEnd"}
      BY <2>2, <2>4, <2>5
    <2> QED BY <1>0, <1>1, <2>6, <2>7 DEF ReportsEarned
  <1>8. CASE Settle(s)
    <2>1. slot'[s] = IdleSlot
      BY <1>0, <1>8 DEF Settle
    <2> QED BY <1>2, <2>1 DEF IdleSlot
  <1> QED BY <1>5, <1>6, <1>7, <1>8 DEF SlotMove

LEMMA SuccessKept ==
    ASSUME EngineInv, SuccessInv, [Next]_vars
    PROVE  SuccessInv'
  <1>0. /\ DocumentTypeOK /\ ControlInv /\ ReportsEarned /\ done \subseteq done'
        /\ slot \in [Slots -> Slot]
    BY DoneGrows DEF EngineInv, CopyInv, SuccessInv, ControlInv, ControlTypeOK
  <1>1. RecordsEarned'
    BY <1>0, DocumentSteps, SavesKeepRecordsEarned, ReadsKeepRecordsEarned
  <1>2. ASSUME slot' = slot, \A t \in Slots : view'[t] = view[t] PROVE ReportsEarned'
    BY <1>0, <1>2, ReportsStillEarned
  <1>3. ASSUME NEW h \in Handlers, Request(h) \/ HandlerStep(h) PROVE ReportsEarned'
    <2>1. \A t \in Slots : t # h /\ t \in Actors
      BY EngineAssumption
    <2> QED BY <1>0, <1>2, <1>3, <2>1, HandlersLeaveSlots, HandlerOwnCopy
  <1>4. ASSUME NEW s \in Slots, SlotMove(s) PROVE ReportsEarned'
    BY <1>0, <1>4, SlotMovesKeepReportsEarned
  <1>5. ASSUME NEW s \in Slots, NEW id \in TaskIds, PickJob(s, id) PROVE ReportsEarned'
    <2>1. slot'[s].ok = FALSE /\ slot'[s].pc \in {"loadEnd", "loadRun", "settle", "execute"}
      BY <1>0, <1>5 DEF PickJob
    <2>2. view' = view /\ done' = done /\ \A t \in Slots : t # s => slot'[t] = slot[t]
      BY <1>0, <1>5 DEF PickJob
    <2> QED BY <1>0, <2>1, <2>2 DEF ReportsEarned
  <1>6. ASSUME NEW id \in TaskIds, QueueTimer(id) PROVE ReportsEarned'
    BY <1>2, <1>6 DEF QueueTimer, PromoteJob, StallJob
  <1>7. ASSUME NEW P \in Processes, Crash(P) PROVE ReportsEarned'
    <2>1. \A t \in Slots : \/ slot'[t] = slot[t] /\ view'[t] = view[t]
                           \/ slot'[t] = IdleSlot
      BY <1>7, Acting DEF Crash
    <2> QED BY <1>0, <2>1, ReportsStillEarned DEF IdleSlot
  <1>8. ASSUME UNCHANGED vars PROVE ReportsEarned'
    BY <1>2, <1>8 DEF vars
  <1>9. ReportsEarned'
    BY <1>3, <1>4, <1>5, <1>6, <1>7, <1>8 DEF Next
  <1> QED BY <1>1, <1>9 DEF SuccessInv

LEMMA SuccessInvariant == Spec => []SuccessInv
  <1>1. Init => SuccessInv
    <2>1. ASSUME Init PROVE RecordsEarned
      BY <2>1, NoViewType
         DEF Init, DocumentInit, RecordsEarned, EarnedIn, Absent, NewTask, InUse
    <2>2. ASSUME Init PROVE ReportsEarned
      BY <2>2 DEF Init, ReportsEarned, IdleSlot
    <2> QED BY <2>1, <2>2 DEF SuccessInv
  <1>2. EngineInv /\ SuccessInv /\ [Next]_vars => SuccessInv'
    BY SuccessKept
  <1> QED BY <1>1, <1>2, EngineInvariant, PTL DEF Spec

\* No task is recorded as succeeded unless its agent returned for this workflow:
\* through lost saves, stale copies, retries, cancellations, crashes and double
\* processing, a copy never carries a success it was not given.
THEOREM SuccessIsEarned == Spec => []SuccessWasEarned
  <1>1. SuccessInv => SuccessWasEarned
    BY DEF SuccessInv, RecordsEarned, ReportsEarned, EarnedIn, SuccessWasEarned
  <1> QED BY <1>1, SuccessInvariant, PTL

-----------------------------------------------------------------------------
(* Locks                                                                   *)

\* Unless a lock was lost, a busy slot holds the job it works on.
LocksHeld == faults = 0 => \A s \in Slots : Busy(s) => Holds(s, slot[s].id)

\* Failures are counted, and a lock is only lost to one.
LEMMA FaultsCounted ==
    ASSUME ControlInv, [Next]_vars, faults' = 0
    PROVE  /\ faults = 0
           /\ \A P \in Processes : ~Crash(P)
           /\ \A id \in TaskIds : StallJob(id) => job[id].holder = Nobody
  <1>0. faults \in Nat /\ faults + 1 # 0
    BY EngineAssumption DEF ControlInv, ControlTypeOK
  <1>1. faults' = faults \/ faults' = faults + 1
    <2>1. ASSUME NEW h \in Handlers, Request(h) PROVE faults' = faults
      BY <2>1 DEF Request, Create, StartLoad, CancelLoad, FinalizeLoad, RecoverLoad, RetryLoad,
                  EnqueueAdHoc
    <2>2. ASSUME NEW h \in Handlers, HandlerStep(h)
          PROVE  faults' = faults \/ faults' = faults + 1
      BY <2>2 DEF HandlerStep, CreateLog, StartStatus, StartLog, StartEnqueue, StartEnqueueFails,
                  StartUpdate, RetrySave, RetryEnqueue, RetryLog, CancelSave, FinalizeSave,
                  RecoverEnqueue, RecoverLog, Fault, LogOrNot, LogOrNotAndDrop, RequestThrows
    <2>3. ASSUME NEW s \in Slots, SlotMove(s)
          PROVE  faults' = faults \/ faults' = faults + 1
      BY <2>3 DEF SlotMove, LoadRunning, LoadEnd, LoadForReport, ReportRunning, ReportEnd,
                  SaveReport, LogReport, Execute, Settle, Fault, LogOrNotAndDrop
    <2> QED BY <2>1, <2>2, <2>3
            DEF Next, PickJob, QueueTimer, PromoteJob, StallJob, Crash, Fault, vars
  <1>2. faults' # faults + 1
    BY <1>0
  <1> QED BY <1>0, <1>1, <1>2 DEF Crash, StallJob, Fault

\* A slot that moves without settling stays busy with its job.
LEMMA SlotKeepsJob ==
    ASSUME ControlInv, NEW s \in Slots, SlotMove(s)
    PROVE  /\ \A t \in Slots : t # s => slot'[t] = slot[t]
           /\ Busy(s)
           /\ \/ Settle(s) /\ slot'[s] = IdleSlot
              \/ /\ slot'[s].id = slot[s].id /\ slot'[s].wf = slot[s].wf /\ Busy(s)'
                 /\ UNCHANGED queueVars
  <1>0. slot \in [Slots -> Slot]
    BY DEF ControlInv, ControlTypeOK
  <1>1. ASSUME NEW pc, SlotStep(s, pc)
        PROVE  /\ \A t \in Slots : t # s => slot'[t] = slot[t]
               /\ slot'[s].id = slot[s].id /\ slot'[s].wf = slot[s].wf /\ slot'[s].pc = pc
    BY <1>0, <1>1 DEF SlotStep, Slot
  <1>2. CASE LoadRunning(s) \/ LoadEnd(s) \/ ReportRunning(s) \/ ReportEnd(s) \/ LogReport(s)
    <2>1. /\ UNCHANGED queueVars /\ Busy(s)
          /\ \E pc \in {"saveRun", "execute", "saveEnd", "settle", "logRun", "logEnd"} :
                SlotStep(s, pc)
      BY <1>2 DEF LoadRunning, LoadEnd, LoadForReport, ReportRunning, ReportEnd, SaveReport,
                  LogReport, Busy, queueVars, LogOrNotAndDrop
    <2> QED BY <1>1, <2>1 DEF Busy
  <1>3. CASE Execute(s)
    BY <1>0, <1>3 DEF Execute, Busy, Slot, queueVars
  <1>4. CASE Settle(s)
    BY <1>0, <1>4 DEF Settle, Busy
  <1> QED BY <1>2, <1>3, <1>4 DEF SlotMove

LEMMA LocksKept ==
    ASSUME EngineInv, LocksHeld, [Next]_vars
    PROVE  LocksHeld'
  <1> SUFFICES ASSUME faults' = 0, NEW t \in Slots, Busy(t)'
               PROVE  Holds(t, slot[t].id)'
    BY DEF LocksHeld
  <1>0. ControlInv /\ QueueInv /\ slot \in [Slots -> Slot]
    BY DEF EngineInv, ControlInv, ControlTypeOK
  <1>1. /\ faults = 0
        /\ \A P \in Processes : ~Crash(P)
        /\ \A id \in TaskIds : StallJob(id) => job[id].holder = Nobody
    BY <1>0, FaultsCounted
  <1>2. \A s \in Slots : Busy(s) => /\ slot[s].id \in TaskIds
                                    /\ job[slot[s].id].state = "active"
                                    /\ job[slot[s].id].holder = s
    BY <1>0, <1>1 DEF LocksHeld, Holds, Busy, ControlInv, RolesSet
  \* A slot that was busy and whose job is untouched.
  <1>3. ASSUME slot'[t].id = slot[t].id, Busy(t), job'[slot[t].id] = job[slot[t].id]
        PROVE  Holds(t, slot[t].id)'
    BY <1>2, <1>3 DEF Holds
  <1>4. ASSUME NEW h \in Handlers, Request(h) \/ HandlerStep(h)
        PROVE  Holds(t, slot[t].id)'
    <2>1. slot'[t] = slot[t] /\ Busy(t)
      BY <1>4, HandlersLeaveSlots DEF Busy
    <2>2. UNCHANGED queueVars \/ \E id \in TaskIds : \E src : Add(id, src)
      BY <1>0, <1>4, HandlersOnlyAdd
    <2>3. job'[slot[t].id] = job[slot[t].id]
      BY <1>0, <1>2, <2>1, <2>2, ActiveUntouched DEF queueVars
    <2> QED BY <1>3, <2>1, <2>3
  <1>5. ASSUME NEW s \in Slots, SlotMove(s)
        PROVE  Holds(t, slot[t].id)'
    <2>1. CASE UNCHANGED queueVars /\ slot'[s].id = slot[s].id
      <3>1. slot'[t].id = slot[t].id /\ Busy(t)
        BY <1>0, <1>5, <2>1, SlotKeepsJob DEF Busy
      <3> QED BY <1>3, <2>1, <3>1 DEF queueVars
    <2>2. CASE Settle(s) /\ slot'[s] = IdleSlot
      <3>1. t # s /\ slot'[t] = slot[t] /\ Busy(t) /\ Busy(s)
        BY <1>0, <1>5, <2>2, SlotKeepsJob DEF Busy, IdleSlot
      <3>2. slot[t].id # slot[s].id
        BY <1>2, <3>1
      <3>3. job'[slot[t].id] = job[slot[t].id]
        BY <1>0, <1>2, <2>2, <3>1, <3>2, ActiveUntouched DEF Settle, queueVars
      <3> QED BY <1>3, <3>1, <3>3
    <2> QED BY <1>0, <1>5, <2>1, <2>2, SlotKeepsJob
  <1>6. ASSUME NEW s \in Slots, NEW id \in TaskIds, PickJob(s, id)
        PROVE  Holds(t, slot[t].id)'
    <2>1. CASE t = s
      <3>1. slot'[t].id = id
        BY <1>0, <1>6, <2>1 DEF PickJob
      <3>2. job'[id].state = "active" /\ job'[id].holder = s
        <4>1. job[id] \in Job
          BY <1>0 DEF QueueInv, QueueTypeOK
        <4> QED BY <1>0, <1>6, <4>1 DEF PickJob, Take, QueueInv, QueueTypeOK, Job
      <3> QED BY <2>1, <3>1, <3>2 DEF Holds
    <2>2. CASE t # s
      <3>1. slot'[t] = slot[t] /\ Busy(t)
        BY <1>0, <1>6, <2>2 DEF PickJob, Busy
      <3>2. job'[slot[t].id] = job[slot[t].id]
        BY <1>0, <1>2, <1>6, <3>1, ActiveUntouched DEF PickJob
      <3> QED BY <1>3, <3>1, <3>2
    <2> QED BY <2>1, <2>2
  <1>7. ASSUME NEW id \in TaskIds, QueueTimer(id)
        PROVE  Holds(t, slot[t].id)'
    <2>1. slot'[t] = slot[t] /\ Busy(t)
      BY <1>7 DEF QueueTimer, PromoteJob, StallJob, Busy
    <2>2. Stall(id) => slot[t].id # id
      <3>1. StallJob(id) => job[id].holder = Nobody
        BY <1>1
      <3>2. PromoteJob(id) => job[id].state = "delayed"
        BY DEF PromoteJob, Promote
      <3> QED BY <1>2, <1>7, <2>1, <3>1, <3>2, QueueAssumption DEF QueueTimer
    <2>3. job'[slot[t].id] = job[slot[t].id]
      BY <1>0, <1>2, <1>7, <2>1, <2>2, ActiveUntouched DEF QueueTimer, PromoteJob, StallJob
    <2> QED BY <1>3, <2>1, <2>3
  <1>8. ASSUME UNCHANGED vars
        PROVE  Holds(t, slot[t].id)'
    BY <1>3, <1>8 DEF vars, Busy
  <1> QED BY <1>1, <1>4, <1>5, <1>6, <1>7, <1>8 DEF Next

\* While no lock was lost, a job is never processed by two slots at once.
THEOREM JobsAreExclusive == Spec => []ExclusiveJobs
  <1>1. Init => LocksHeld
    BY DEF Init, LocksHeld, Busy, IdleSlot
  <1>2. EngineInv /\ LocksHeld /\ [Next]_vars => LocksHeld'
    BY LocksKept
  <1>3. LocksHeld => ExclusiveJobs
    BY DEF LocksHeld, Holds, ExclusiveJobs
  <1> QED BY <1>1, <1>2, <1>3, EngineInvariant, PTL DEF Spec

-----------------------------------------------------------------------------
(* How often a task's agent is invoked                                     *)

\* No submission is run more often than its limit, and while every completed
\* job can be retained a job is submitted once: its runs are those of its
\* submission.
RunsCounted ==
    /\ \A id \in TaskIds : Tries[id] =< MaxAttempts + MaxStalled
    /\ KeepCompleted >= Cardinality(TaskIds) => \A id \in TaskIds : runs[id] = Tries[id]

\* Only a hand-out counts as a run.
LEMMA OnlyPicksRun ==
    ASSUME [Next]_vars
    PROVE  runs' = runs \/ \E s \in Slots, id \in TaskIds : PickJob(s, id)
  <1>1. ASSUME NEW s \in Slots, SlotMove(s) PROVE runs' = runs
    BY <1>1 DEF SlotMove, LoadRunning, LoadEnd, LoadForReport, ReportRunning, ReportEnd, SaveReport,
                LogReport, Execute, Settle, history, LogOrNotAndDrop
  <1>2. ASSUME NEW h \in Handlers, Request(h) PROVE runs' = runs
    BY <1>2 DEF Request, Create, StartLoad, CancelLoad, FinalizeLoad, RecoverLoad, RetryLoad,
                EnqueueAdHoc, history
  <1>3. ASSUME NEW h \in Handlers, HandlerStep(h) PROVE runs' = runs
    BY <1>3 DEF HandlerStep, CreateLog, StartStatus, StartLog, StartEnqueue, StartEnqueueFails,
                StartUpdate, RetrySave, RetryEnqueue, RetryLog, CancelSave, FinalizeSave,
                RecoverEnqueue, RecoverLog, history, LogOrNot, LogOrNotAndDrop, RequestThrows
  <1> QED BY <1>1, <1>2, <1>3
          DEF Next, QueueTimer, PromoteJob, StallJob, Crash, vars, history

\* The other steps of the jobs run nothing; they forget nothing while every
\* completed job can be retained.
LEMMA TriesKept ==
    ASSUME EngineInv, IsFiniteSet(TaskIds), [Next]_vars
    PROVE  \/ \E s \in Slots, id \in TaskIds : PickJob(s, id)
           \/ Tries' = Tries
           \/ /\ ~(KeepCompleted >= Cardinality(TaskIds))
              /\ \E old \in TaskIds : Tries' = [Tries EXCEPT ![old] = 0]
  <1>1. QueueInv
    BY DEF EngineInv
  <1>2. CASE UNCHANGED queueVars
    BY <1>2 DEF queueVars, Tries
  <1>3. CASE \E id \in TaskIds, src \in Sources : Add(id, src)
    BY <1>1, <1>3, AddSubmits DEF Lifecycle!Submit, SubmissionsUnchanged
  <1>4. ASSUME NEW s \in Slots, NEW id \in TaskIds, Complete(s, id),
               KeepCompleted >= Cardinality(TaskIds)
        PROVE  Tries' = Tries
    <2>1. job[id].state # "completed"
      BY <1>4 DEF Complete, Holds
    <2>2. Len(Append(kept, id)) =< KeepCompleted
      BY <1>1, <1>4, <2>1, RoomToRetain
    <2> QED BY <1>1, <1>4, <2>2, CompleteWithRoom DEF Lifecycle!End
  <1>5. ASSUME NEW s \in Slots, NEW id \in TaskIds, Complete(s, id)
        PROVE  Tries' = Tries \/ \E old \in TaskIds : Tries' = [Tries EXCEPT ![old] = 0]
    BY <1>1, <1>5, CompleteEnds DEF Lifecycle!End, Lifecycle!EndForgetting
  <1>6. ASSUME NEW s \in Slots, NEW id \in TaskIds, Fail(s, id) PROVE Tries' = Tries
    BY <1>1, <1>6, FailGivesBackOrEnds DEF Lifecycle!GiveBack, Lifecycle!End
  <1>7. ASSUME NEW id \in TaskIds, Stall(id) PROVE Tries' = Tries
    BY <1>1, <1>7, StallGivesBackOrEnds DEF Lifecycle!GiveBack, Lifecycle!End
  <1>8. ASSUME NEW id \in TaskIds, Promote(id) PROVE Tries' = Tries
    BY <1>1, <1>8, PromoteStutters DEF SubmissionsUnchanged
  <1>9. ASSUME NEW S \in SUBSET Slots, Orphan(S) PROVE Tries' = Tries
    BY <1>1, <1>9, OrphanStutters DEF SubmissionsUnchanged
  <1> QED BY <1>2, <1>3, <1>4, <1>5, <1>6, <1>7, <1>8, <1>9, QueueSteps

LEMMA RunsKept ==
    ASSUME EngineInv, IsFiniteSet(TaskIds), RunsCounted, [Next]_vars
    PROVE  RunsCounted'
  <1>0. /\ QueueInv /\ runs \in [TaskIds -> Nat] /\ Tries = [i \in TaskIds |-> Tries[i]]
        /\ MaxAttempts + MaxStalled \in Nat
    BY QueueAssumption DEF EngineInv, ControlInv, ControlTypeOK, Tries
  <1>1. CASE \E s \in Slots, id \in TaskIds : PickJob(s, id)
    <2>1. PICK s \in Slots, id \in TaskIds : PickJob(s, id)
      BY <1>1
    <2>2. Tries[id] < MaxAttempts + MaxStalled /\ Tries' = [Tries EXCEPT ![id] = @ + 1]
      BY <1>0, <2>1, TakeRuns DEF PickJob, Lifecycle!Run
    <2>3. runs' = [runs EXCEPT ![id] = @ + 1]
      BY <2>1 DEF PickJob
    <2>4. Tries[id] \in Nat
      BY <1>0 DEF QueueInv, QueueTypeOK, Tries, Job
    <2>5. Tries'[id] = Tries[id] + 1 /\ \A i \in TaskIds : i # id => Tries'[i] = Tries[i]
      BY <1>0, <2>2
    <2>6. runs'[id] = runs[id] + 1 /\ \A i \in TaskIds : i # id => runs'[i] = runs[i]
      BY <1>0, <2>3
    <2>7. Tries[id] + 1 =< MaxAttempts + MaxStalled
      BY <1>0, <2>2, <2>4
    <2> QED BY <2>5, <2>6, <2>7 DEF RunsCounted
  <1>2. CASE ~ \E s \in Slots, id \in TaskIds : PickJob(s, id)
    <2>1. runs' = runs
      BY <1>2, OnlyPicksRun
    <2>2. CASE Tries' = Tries
      BY <2>1, <2>2 DEF RunsCounted
    <2>3. ASSUME ~(KeepCompleted >= Cardinality(TaskIds)),
                 NEW old \in TaskIds, Tries' = [Tries EXCEPT ![old] = 0]
          PROVE  RunsCounted'
      <3>1. \A i \in TaskIds : Tries'[i] = IF i = old THEN 0 ELSE Tries[i]
        BY <1>0, <2>3
      <3> QED BY <1>0, <2>3, <3>1 DEF RunsCounted
    <2> QED BY <1>2, <2>2, <2>3, TriesKept
  <1> QED BY <1>1, <1>2

\* With room to retain every completed job, the agent of a task runs at most
\* MaxAttempts + MaxStalled times: whatever is started, retried or recovered,
\* crashed or stalled, an enqueue meets the stored job.
THEOREM RunsStayBounded ==
    ASSUME IsFiniteSet(TaskIds)
    PROVE  Spec => []RunsBounded
  <1>1. Init => RunsCounted
    <2> SUFFICES ASSUME Init, NEW id \in TaskIds
                 PROVE  Tries[id] =< MaxAttempts + MaxStalled /\ runs[id] = Tries[id]
      BY DEF RunsCounted
    <2>1. job[id].state = "none" /\ job[id].made = 0 /\ job[id].stalls = 0
      BY DEF Init, QueueInit, NoJob
    <2>2. Tries[id] = 0
      BY <2>1, SubmissionOf
    <2> QED BY <2>2, QueueAssumption DEF Init
  <1>2. EngineInv /\ RunsCounted /\ [Next]_vars => RunsCounted'
    BY RunsKept
  <1>3. RunsCounted => RunsBounded
    BY DEF RunsCounted, RunsBounded
  <1> QED BY <1>1, <1>2, <1>3, EngineInvariant, PTL DEF Spec

-----------------------------------------------------------------------------
(* No task is left behind                                                  *)

\* The queue has never seen the job of position p of workflow w.
Unseen(w, p) == job[IdOf[w][p]].state = "none"

\* A retry has reset the task of position p of workflow w and is to enqueue it.
Retrying(w, p) ==
    \E h \in Handlers : At(h, "retry", "enqueue") /\ hnd[h].wf = w /\ hnd[h].id = IdOf[w][p]

\* Where the handlers stand: the copy they work on is of their workflow, a start
\* that has not read it yet has nothing to enqueue and one that counts an
\* attempt has enqueued the task, and a finalization has a verdict.
HandlerInPlace(h) ==
    /\ hnd[h].pc = "idle" => hnd[h].op = "none"
    /\ hnd[h].op = "start" /\ hnd[h].pc \in {"load", "status", "log"} => hnd[h].todo = {}
    /\ hnd[h].op = "start" /\ hnd[h].pc \in {"status", "log", "enqueue", "update"}
          => view[h].wf = hnd[h].wf
    /\ At(h, "retry", "save") => view[h].wf = hnd[h].wf
    /\ At(h, "start", "update") =>
          \A p \in Positions : NextTodo(h, p) => ~Unseen(hnd[h].wf, p)
    /\ At(h, "finalize", "save") => Verdict(view[h].tasks) # "running"

HandlersInPlace == \A h \in Handlers : HandlerInPlace(h)

\* A slot works on a job the queue has handed out.
SlotsHaveJobs == \A s \in Slots : Busy(s) => job[slot[s].id].state # "none"

\* A task whose job the queue has never seen has not been worked on.
UnseenUntouched ==
    /\ \A w \in Workflows, p \in Positions :
          Unseen(w, p) => doc[w].tasks[p].status \in {"pending", "cancelled"}
    /\ \A a \in Actors, p \in Positions : InUse(a) /\ Unseen(view[a].wf, p) =>
          view[a].tasks[p].status \in {"pending", "cancelled"}

\* A pending task whose job the queue has never seen is pending in every copy,
\* unless a retry has just made it so.
PendingSeenByAll ==
    \A a \in Actors, p \in Positions :
        /\ InUse(a)
        /\ Unseen(view[a].wf, p)
        /\ doc[view[a].wf].tasks[p].status = "pending"
        /\ ~Retrying(view[a].wf, p)
        => view[a].tasks[p].status = "pending"

\* What every task of a running workflow has: a job, or somebody about to
\* enqueue it.
Attended(w, p) ==
    \E h \in Handlers : \/ Starting(h, w) /\ (hnd[h].pc = "log" \/ p \in hnd[h].todo)
                        \/ At(h, "retry", "enqueue") /\ hnd[h].wf = w /\ hnd[h].id = IdOf[w][p]

Unfinished(w, p) == doc[w].tasks[p].status \in {"pending", "running"}

AttendedInv == /\ HandlersInPlace /\ SlotsHaveJobs /\ UnseenUntouched
               /\ faults = 0 => PendingSeenByAll /\ NoTaskLeftBehind

\* A job the queue has seen stays seen.
LEMMA SeenStaysSeen ==
    ASSUME EngineInv, [Next]_vars, NEW id \in TaskIds, job'[id].state = "none"
    PROVE  job[id].state = "none"
  <1>0. QueueInv /\ QueueTypeOK
    BY DEF EngineInv, QueueInv
  <1>1. CASE UNCHANGED queueVars
    BY <1>1 DEF queueVars
  <1>2. CASE \E i \in TaskIds, src \in Sources : Add(i, src)
    BY <1>0, <1>2 DEF Add, NoJob, QueueTypeOK
  <1>3. CASE \E s \in Slots, i \in TaskIds : PickJob(s, i)
    BY <1>0, <1>3 DEF PickJob, Take, QueueTypeOK, Job
  <1>4. ASSUME NEW s \in Slots, NEW i \in TaskIds, Complete(s, i)
        PROVE  job[id].state = "none"
    <2> DEFINE all  == Append(kept, i)
               done1 == [job EXCEPT ![i].state = "completed", ![i].holder = Nobody]
               gone == [NoJob EXCEPT !.state = "gone"]
    <2>1. job' = done1 \/ job' = [done1 EXCEPT ![Head(all)] = gone]
      BY <1>4 DEF Complete
    <2>2. gone.state = "gone"
      BY DEF NoJob
    <2>3. done1 \in [TaskIds -> Job] /\ \A j \in TaskIds :
             done1[j].state = IF j = i THEN "completed" ELSE job[j].state
      BY <1>0 DEF QueueTypeOK, Job, JobState
    <2> HIDE DEF gone, done1, all
    <2> QED BY <2>1, <2>2, <2>3
  <1>5. CASE \E s \in Slots, i \in TaskIds : Fail(s, i)
    <2>1. PICK s \in Slots, i \in TaskIds : Fail(s, i)
      BY <1>5
    <2>2. job[i].state = "active" /\ job[i] \in Job
      BY <1>0, <2>1 DEF Fail, Holds, QueueTypeOK
    <2>3. id # i => job'[id] = job[id]
      BY <1>0, <2>1 DEF Fail, QueueTypeOK
    <2>4. id = i => job'[id].state \in {"delayed", "failed"}
      BY <1>0, <2>1, <2>2 DEF Fail, QueueTypeOK, Job
    <2> QED BY <2>3, <2>4
  <1>6. CASE \E i \in TaskIds : Promote(i)
    BY <1>0, <1>6 DEF Promote, QueueTypeOK, Job
  <1>7. CASE \E i \in TaskIds : Stall(i)
    BY <1>0, <1>7, StallChanges
  <1>8. CASE \E S \in SUBSET Slots : Orphan(S)
    BY <1>0, <1>8 DEF Orphan, QueueTypeOK, Job
  <1> QED BY <1>1, <1>2, <1>3, <1>4, <1>5, <1>6, <1>7, <1>8, QueueSteps

\* The queue has seen what it is given.
LEMMA AddedIsSeen ==
    ASSUME QueueInv, NEW id \in TaskIds, NEW src, Add(id, src)
    PROVE  job'[id].state # "none"
  BY DEF QueueInv, QueueTypeOK, Add, Stored, NoJob

LEMMA SlotsHaveJobsKept ==
    ASSUME EngineInv, SlotsHaveJobs, [Next]_vars
    PROVE  SlotsHaveJobs'
  <1> SUFFICES ASSUME NEW t \in Slots, Busy(t)' PROVE job'[slot'[t].id].state # "none"
    BY DEF SlotsHaveJobs
  <1>0. ControlInv /\ slot \in [Slots -> Slot]
    BY DEF EngineInv, ControlInv, ControlTypeOK
  <1>1. ASSUME slot'[t].id = slot[t].id, Busy(t) PROVE job'[slot'[t].id].state # "none"
    <2>1. slot[t].id \in TaskIds
      BY <1>0, <1>1 DEF ControlInv, RolesSet, Busy
    <2> QED BY <1>1, <2>1, SeenStaysSeen DEF SlotsHaveJobs
  <1>2. ASSUME NEW h \in Handlers, Request(h) \/ HandlerStep(h)
        PROVE  job'[slot'[t].id].state # "none"
    BY <1>1, <1>2, HandlersLeaveSlots DEF Busy
  <1>3. ASSUME NEW s \in Slots, SlotMove(s)
        PROVE  job'[slot'[t].id].state # "none"
    BY <1>0, <1>1, <1>3, SlotKeepsJob DEF Busy, IdleSlot
  <1>4. ASSUME NEW s \in Slots, NEW id \in TaskIds, PickJob(s, id)
        PROVE  job'[slot'[t].id].state # "none"
    <2>1. CASE t = s
      <3>1. slot'[t].id = id
        BY <1>0, <1>4, <2>1 DEF PickJob
      <3>2. job[id].state # "none"
        BY <1>4 DEF PickJob, Take
      <3> QED BY <3>1, <3>2, SeenStaysSeen
    <2>2. CASE t # s
      BY <1>0, <1>1, <1>4, <2>2 DEF PickJob, Busy
    <2> QED BY <2>1, <2>2
  <1>5. ASSUME NEW id \in TaskIds, QueueTimer(id)
        PROVE  job'[slot'[t].id].state # "none"
    BY <1>1, <1>5 DEF QueueTimer, PromoteJob, StallJob, Busy
  <1>6. ASSUME NEW P \in Processes, Crash(P)
        PROVE  job'[slot'[t].id].state # "none"
    BY <1>0, <1>1, <1>6 DEF Crash, Busy, IdleSlot
  <1>7. ASSUME UNCHANGED vars PROVE job'[slot'[t].id].state # "none"
    BY <1>1, <1>7 DEF vars, Busy
  <1> QED BY <1>2, <1>3, <1>4, <1>5, <1>6, <1>7 DEF Next

\* Whoever saves a task has a job for it that the queue has seen.
LEMMA SavedTaskIsSeen ==
    ASSUME EngineInv, SuccessInv, HandlersInPlace, SlotsHaveJobs,
           NEW a \in Actors, NEW p \in Positions, Counts(a, p) \/ Reports(a, p)
    PROVE  ~Unseen(view[a].wf, p)
  <1>1. CASE Counts(a, p)
    BY <1>1 DEF Counts, HandlersInPlace, HandlerInPlace, At, Unseen
  <1>2. CASE Reports(a, p)
    BY <1>2 DEF Reports, SlotsHaveJobs, Busy, SuccessInv, ReportsEarned, Unseen
  <1> QED BY <1>1, <1>2

\* The views of an unused copy do not count.
LEMMA NoViewUnused == ~(NoView.wf \in Workflows)
  BY NoViewType

LEMMA UnseenUntouchedKept ==
    ASSUME EngineInv, SuccessInv, AttendedInv, [Next]_vars
    PROVE  UnseenUntouched'
  <1>0. /\ DocumentTypeOK /\ UnseenUntouched
        /\ \A w \in Workflows, p \in Positions : Unseen(w, p)' => Unseen(w, p)
    <2>1. DocumentTypeOK /\ UnseenUntouched
      BY DEF EngineInv, CopyInv, AttendedInv
    <2> QED BY <2>1, SeenStaysSeen, TaskIdsOf DEF Unseen
  \* A step after which every task shown was shown before, or is pending or
  \* cancelled, or has a job the queue has seen.
  <1>1. ASSUME \A w \in Workflows, p \in Positions :
                   \/ doc'[w].tasks[p] = doc[w].tasks[p]
                   \/ doc'[w].tasks[p].status \in {"pending", "cancelled"}
                   \/ ~Unseen(w, p),
               \A b \in Actors : \/ view'[b] = NoView
                                 \/ view'[b].wf \in Workflows /\ view'[b].tasks = doc[view'[b].wf].tasks
                                 \/ /\ view'[b].wf = view[b].wf
                                    /\ \A p \in Positions :
                                          \/ view'[b].tasks[p] = view[b].tasks[p]
                                          \/ view'[b].tasks[p].status \in {"pending", "cancelled"}
                                          \/ ~Unseen(view[b].wf, p)
        PROVE  UnseenUntouched'
    <2>1. ASSUME NEW w \in Workflows, NEW p \in Positions, Unseen(w, p)'
          PROVE  doc'[w].tasks[p].status \in {"pending", "cancelled"}
      BY <1>0, <1>1, <2>1 DEF UnseenUntouched
    <2>2. ASSUME NEW b \in Actors, NEW p \in Positions, InUse(b)', Unseen(view'[b].wf, p)
          PROVE  view'[b].tasks[p].status \in {"pending", "cancelled"}
      BY <1>0, <1>1, <2>2, NoViewUnused DEF UnseenUntouched, InUse
    <2>3. ASSUME NEW b \in Actors, NEW p \in Positions, InUse(b)', Unseen(view[b].wf, p)'
          PROVE  Unseen(view'[b].wf, p)
      BY <1>0, <2>3 DEF Unseen, InUse
    <2> QED BY <2>1, <2>2, <2>3 DEF UnseenUntouched
  <1>2. CASE Save
    <2>1. ASSUME NEW a \in Actors, NEW w \in Workflows, CreateDocument(a, w) PROVE UnseenUntouched'
      BY <1>0, <1>1, <2>1, CreateEffect
    <2>2. ASSUME NEW a \in Actors, AppendLog(a) PROVE UnseenUntouched'
      BY <1>0, <1>1, <2>2, AppendLogEffect
    <2>3. ASSUME NEW a \in Actors, AppendLogAndDrop(a) PROVE UnseenUntouched'
      <3>1. \A b \in Actors : view'[b] = view[b] \/ view'[b] = NoView
        BY <1>0, <2>3, AppendLogAndDropEffect
      <3> QED BY <1>0, <1>1, <2>3, <3>1, AppendLogAndDropEffect
    <2>4. ASSUME NEW a \in Actors, CancelTasks(a) PROVE UnseenUntouched'
      <3>1. \A b \in Actors : view'[b] = view[b] \/ view'[b] = NoView
        BY <1>0, <2>4, CancelTasksEffect
      <3>2. \A w \in Workflows, p \in Positions :
               doc'[w].tasks[p] = doc[w].tasks[p] \/ doc'[w].tasks[p].status = "cancelled"
        BY <1>0, <2>4, CancelTasksEffect
      <3> QED BY <1>1, <3>1, <3>2
    <2>5. ASSUME NEW a \in Actors, NEW st \in WorkflowStatus, SaveStatus(a, st)
          PROVE  UnseenUntouched'
      BY <1>0, <1>1, <2>5, SaveStatusEffect
    <2>6. ASSUME NEW a \in Actors, NEW st \in WorkflowStatus, MarkStatus(a, st)
          PROVE  UnseenUntouched'
      <3>1. \A b \in Actors : view'[b] = view[b] \/ view'[b] = NoView
        BY <1>0, <2>6, MarkStatusEffect
      <3> QED BY <1>0, <1>1, <2>6, <3>1, MarkStatusEffect
    <2>7. ASSUME NEW a \in Actors, NEW q \in Positions, ResetTask(a, q) PROVE UnseenUntouched'
      <3>1. \A w \in Workflows, p \in Positions :
               doc'[w].tasks[p] = doc[w].tasks[p] \/ doc'[w].tasks[p].status = "pending"
        BY <1>0, <2>7, ResetTaskEffect
      <3>2. \A b \in Actors : /\ view'[b].wf = view[b].wf
                              /\ \A p \in Positions : \/ view'[b].tasks[p] = view[b].tasks[p]
                                                      \/ view'[b].tasks[p].status = "pending"
        BY <1>0, <2>7, ResetTaskEffect
      <3> QED BY <1>1, <3>1, <3>2
    <2>8. ASSUME NEW a \in Actors, NEW q \in Positions, NEW t \in Task, SaveTasks(a, q, t),
                 Counts(a, q) \/ Reports(a, q)
          PROVE  UnseenUntouched'
      <3>1. ~Unseen(view[a].wf, q)
        BY <2>8, SavedTaskIsSeen DEF AttendedInv
      <3>2. view[a].tasks \in [Positions -> Task]
        BY <1>0, Typed DEF View
      <3> DEFINE tasks == [view[a].tasks EXCEPT ![q] = t]
      <3>3. \A p \in Positions : p = q \/ tasks[p] = view[a].tasks[p]
        BY <3>2
      <3>4. /\ \A w \in Workflows : doc'[w].tasks = IF w = view[a].wf THEN tasks ELSE doc[w].tasks
            /\ view'[a].wf = view[a].wf /\ view'[a].tasks = tasks
            /\ \A b \in Actors : b # a => view'[b] = view[b]
        BY <1>0, <2>8, SaveTasksEffect
      <3> HIDE DEF tasks
      <3>5. \A p \in Positions : InUse(a) /\ Unseen(view[a].wf, p) =>
               view[a].tasks[p].status \in {"pending", "cancelled"}
        BY <1>0 DEF UnseenUntouched
      <3>6. \A w \in Workflows, p \in Positions :
                   \/ doc'[w].tasks[p] = doc[w].tasks[p]
                   \/ doc'[w].tasks[p].status \in {"pending", "cancelled"}
                   \/ ~Unseen(w, p)
        BY <3>1, <3>3, <3>4, <3>5 DEF InUse
      <3>7. \A b \in Actors :
                /\ view'[b].wf = view[b].wf
                /\ \A p \in Positions : \/ view'[b].tasks[p] = view[b].tasks[p]
                                        \/ ~Unseen(view[b].wf, p)
        BY <3>1, <3>3, <3>4
      <3> QED BY <1>1, <3>6, <3>7
    <2> QED BY <1>2, <2>1, <2>2, <2>3, <2>4, <2>5, <2>6, <2>7, <2>8 DEF Save
  <1>3. CASE Read
    <2>1. CASE UNCHANGED <<doc, view>>
      BY <1>1, <2>1
    <2>2. ASSUME NEW a \in Actors, NEW w \in Workflows, Load(a, w) PROVE UnseenUntouched'
      <3>1. /\ doc' = doc /\ view'[a].wf = w /\ view'[a].tasks = doc[w].tasks
            /\ \A b \in Actors : b # a => view'[b] = view[b]
        BY <1>0, <2>2, LoadEffect
      <3> QED BY <1>1, <3>1
    <2>3. ASSUME NEW a \in Actors, Drop(a) PROVE UnseenUntouched'
      <3>1. doc' = doc /\ \A b \in Actors : view'[b] = view[b] \/ view'[b] = NoView
        BY <1>0, <2>3, DropEffect
      <3> QED BY <1>1, <3>1
    <2>4. ASSUME NEW a \in Actors, NEW q \in Positions, NEW t \in Task, SpoilCopy(a, q, t),
                 Counts(a, q)
          PROVE  UnseenUntouched'
      <3>1. ~Unseen(view[a].wf, q)
        BY <2>4, SavedTaskIsSeen DEF AttendedInv
      <3>2. view[a].tasks \in [Positions -> Task]
        BY <1>0, Typed DEF View
      <3> DEFINE tasks == [view[a].tasks EXCEPT ![q] = t]
      <3>3. \A p \in Positions : p = q \/ tasks[p] = view[a].tasks[p]
        BY <3>2
      <3>4. /\ doc' = doc /\ view'[a].wf = view[a].wf /\ view'[a].tasks = tasks
            /\ \A b \in Actors : b # a => view'[b] = view[b]
        BY <1>0, <2>4, SpoilCopyEffect
      <3> HIDE DEF tasks
      <3> QED BY <1>1, <3>1, <3>3, <3>4
    <2>5. ASSUME NEW P, doc' = doc,
                 view' = [a \in Actors |-> IF a \in P THEN NoView ELSE view[a]]
          PROVE  UnseenUntouched'
      BY <1>1, <2>5
    <2> QED BY <1>3, <2>1, <2>2, <2>3, <2>4, <2>5 DEF Read
  <1> QED BY <1>2, <1>3, DocumentSteps

\* A handler's step is its own.
LEMMA HandlersAlone ==
    ASSUME ControlInv, NEW h \in Handlers, Request(h) \/ HandlerStep(h), NEW g \in Handlers, g # h
    PROVE  hnd'[g] = hnd[g]
  <1>1. hnd \in [Handlers -> Handler]
    BY DEF ControlInv, ControlTypeOK
  <1>2. ASSUME NEW r, Go(h, r) PROVE hnd'[g] = hnd[g]
    BY <1>1, <1>2 DEF Go
  <1>3. CASE Request(h)
    BY <1>2, <1>3 DEF Request, Create, StartLoad, CancelLoad, FinalizeLoad, RecoverLoad, RetryLoad,
                      EnqueueAdHoc, Finish
  <1>4. CASE HandlerStep(h)
    BY <1>2, <1>4 DEF HandlerStep, CreateLog, StartStatus, StartLog, StartEnqueue,
                      StartEnqueueFails, StartUpdate, RetrySave, RetryEnqueue, RetryLog, CancelSave,
                      FinalizeSave, RecoverEnqueue, RecoverLog, Finish, Step, Continue, LogOrNot,
                      LogOrNotAndDrop, RequestThrows
  <1> QED BY <1>3, <1>4

\* Slots and timers leave the handlers alone.
LEMMA OnlyHandlersAndCrashes ==
    ASSUME [Next]_vars, hnd' # hnd
    PROVE  \/ \E h \in Handlers : Request(h) \/ HandlerStep(h)
           \/ \E P \in Processes : Crash(P)
  BY DEF Next, SlotMove, LoadRunning, LoadEnd, LoadForReport, ReportRunning, ReportEnd, SaveReport,
         LogReport, Execute, Settle, PickJob, QueueTimer, PromoteJob, StallJob, vars,
         LogOrNotAndDrop

\* A retry that has reset a task goes on to enqueue it, unless the call fails.
LEMMA RetryingKept ==
    ASSUME EngineInv, HandlersInPlace, [Next]_vars, faults' = 0,
           NEW w \in Workflows, NEW p \in Positions, Retrying(w, p), Unseen(w, p)'
    PROVE  Retrying(w, p)'
  <1>0. ControlInv /\ QueueInv /\ hnd \in [Handlers -> Handler]
    BY DEF EngineInv, ControlInv, ControlTypeOK
  <1>1. PICK h \in Handlers : At(h, "retry", "enqueue") /\ hnd[h].wf = w /\ hnd[h].id = IdOf[w][p]
    BY DEF Retrying
  <1>2. CASE hnd'[h] = hnd[h]
    BY <1>1, <1>2 DEF Retrying, At
  <1>3. CASE hnd'[h] # hnd[h]
    <2>1. Request(h) \/ HandlerStep(h)
      BY <1>0, <1>3, FaultsCounted, HandlersAlone, OnlyHandlersAndCrashes
    <2>2. ~Request(h)
      BY <1>1 DEF Request, Create, StartLoad, CancelLoad, FinalizeLoad, RecoverLoad, RetryLoad,
                  EnqueueAdHoc, Begin, At
    <2>3. RetryEnqueue(h)
      BY <1>1, <2>1, <2>2
         DEF HandlerStep, CreateLog, StartStatus, StartLog, StartEnqueue, StartEnqueueFails,
             StartUpdate, RetrySave, RetryLog, CancelSave, FinalizeSave, RecoverEnqueue, RecoverLog,
             At, LogOrNot, LogOrNotAndDrop, RequestThrows
    <2>4. faults \in Nat /\ ~Fault
      <3>1. faults \in Nat
        BY <1>0, EngineAssumption DEF ControlInv, ControlTypeOK
      <3> QED BY <3>1 DEF Fault
    <2>5. Add(IdOf[w][p], w)
      BY <1>1, <2>3, <2>4 DEF RetryEnqueue, RequestThrows
    <2> QED BY <1>0, <2>5, TaskIdsOf, AddedIsSeen DEF Unseen
  <1> QED BY <1>2, <1>3

\* A reset is made by a retry that goes on to enqueue the task.
LEMMA ResetRetries ==
    ASSUME EngineInv, HandlersInPlace, NEW a \in Actors, NEW p \in Positions, Resets(a, p),
           NEW w, w = view[a].wf
    PROVE  Retrying(w, p)'
  <1>1. hnd \in [Handlers -> Handler]
    BY DEF EngineInv, ControlInv, ControlTypeOK
  <1>2. a \in Handlers /\ At(a, "retry", "save") /\ Step(a, "enqueue")
        /\ IdOf[hnd[a].wf][p] = hnd[a].id
    BY DEF Resets
  <1>3. view[a].wf = hnd[a].wf
    BY <1>2 DEF HandlersInPlace, HandlerInPlace
  <1>4. hnd'[a].op = "retry" /\ hnd'[a].pc = "enqueue" /\ hnd'[a].wf = hnd[a].wf
        /\ hnd'[a].id = hnd[a].id
    BY <1>1, <1>2 DEF Step, Go, At, Handler
  <1> QED BY <1>2, <1>3, <1>4 DEF Retrying, At

\* What the saves do to tasks whose job the queue has not seen: they cancel
\* them, or a retry resets them; and copies of a pending one stay as they were.
LEMMA UnseenTasksSaved ==
    ASSUME EngineInv, SuccessInv, AttendedInv, Save,
           NEW w \in Workflows, NEW p \in Positions, Unseen(w, p), Unfinished(w, p)'
    PROVE  Unfinished(w, p) \/ Retrying(w, p)'
  <1>0. DocumentTypeOK /\ CopiesTrackDocument
    BY DEF EngineInv, CopyInv
  <1>1. ASSUME doc'[w].tasks[p] = doc[w].tasks[p]
        PROVE  Unfinished(w, p)
    BY <1>1 DEF Unfinished
  <1>2. ASSUME NEW a \in Actors, CancelTasks(a) PROVE Unfinished(w, p)
    BY <1>0, <1>1, <1>2, CancelTasksEffect DEF Unfinished
  <1>3. ASSUME NEW a \in Actors, NEW q \in Positions, ResetTask(a, q), Resets(a, q)
        PROVE  Unfinished(w, p) \/ Retrying(w, p)'
    <2>1. CASE w = view[a].wf /\ p = q
      BY <1>3, <2>1, ResetRetries DEF AttendedInv
    <2>2. CASE ~(w = view[a].wf /\ p = q)
      BY <1>0, <1>1, <1>3, <2>2, ResetTaskEffect
    <2> QED BY <2>1, <2>2
  <1>4. ASSUME NEW a \in Actors, NEW q \in Positions, NEW t \in Task, SaveTasks(a, q, t),
               Counts(a, q) \/ Reports(a, q)
        PROVE  Unfinished(w, p)
    <2>1. CASE w # view[a].wf
      <3>1. doc'[w].tasks = doc[w].tasks
        BY <1>0, <1>4, <2>1, SaveTasksEffect
      <3> QED BY <1>1, <3>1
    <2>2. CASE w = view[a].wf
      <3>1. p # q
        BY <1>4, <2>2, SavedTaskIsSeen DEF AttendedInv
      <3>2. view[a].tasks \in [Positions -> Task]
        BY <1>0, Typed DEF View
      <3>3. doc'[w].tasks[p] = view[a].tasks[p]
        BY <1>0, <1>4, <2>2, <3>1, <3>2, SaveTasksEffect
      <3>4. InUse(a) /\ view[a].ver = doc[w].ver
        BY <1>4, <2>2 DEF SaveTasks, Fresh, InUse
      <3>5. view[a].tasks[p] = doc[w].tasks[p] \/ doc[w].tasks[p].status = "pending"
        BY <1>0, <2>2, <3>4 DEF CopiesTrackDocument
      <3> QED BY <3>3, <3>5 DEF Unfinished
    <2> QED BY <2>1, <2>2
  <1>5. CASE \A v \in Workflows : doc'[v].tasks = doc[v].tasks
    BY <1>1, <1>5
  <1> QED BY <1>0, <1>2, <1>3, <1>4, <1>5, CreateEffect, AppendLogEffect, AppendLogAndDropEffect,
             SaveStatusEffect, MarkStatusEffect DEF Save

\* A save or read leaves a copy alone where its task is pending in the document
\* and has a job the queue has not seen.
LEMMA PendingSeenKept ==
    ASSUME EngineInv, SuccessInv, AttendedInv, [Next]_vars, faults' = 0
    PROVE  PendingSeenByAll'
  <1> SUFFICES ASSUME NEW b \in Actors, NEW p \in Positions, NEW w \in Workflows,
                      w = view'[b].wf, Unseen(w, p)', doc'[w].tasks[p].status = "pending",
                      ~Retrying(w, p)'
               PROVE  view'[b].tasks[p].status = "pending"
    BY DEF PendingSeenByAll, InUse
  <1>0. /\ DocumentTypeOK /\ CopiesTrackDocument /\ faults = 0 /\ PendingSeenByAll
        /\ HandlersInPlace /\ SlotsHaveJobs
    BY FaultsCounted DEF EngineInv, CopyInv, AttendedInv
  <1>1. Unseen(w, p) /\ ~Retrying(w, p)
    BY <1>0, SeenStaysSeen, TaskIdsOf, RetryingKept DEF Unseen
  \* The document showed the task pending, and the copy is as it was.
  <1>2. ASSUME doc[w].tasks[p].status = "pending", view'[b].wf = view[b].wf,
               view'[b].tasks[p] = view[b].tasks[p]
        PROVE  view'[b].tasks[p].status = "pending"
    BY <1>0, <1>1, <1>2 DEF PendingSeenByAll, InUse
  <1>3. view'[b] # NoView
    BY NoViewUnused
  <1>4. CASE Save
    <2>1. ASSUME NEW a \in Actors, NEW v \in Workflows, CreateDocument(a, v)
          PROVE  view'[b].tasks[p].status = "pending"
      BY <1>0, <1>2, <2>1, CreateEffect
    <2>2. ASSUME NEW a \in Actors, AppendLog(a) PROVE view'[b].tasks[p].status = "pending"
      BY <1>0, <1>2, <2>2, AppendLogEffect
    <2>3. ASSUME NEW a \in Actors, AppendLogAndDrop(a)
          PROVE  view'[b].tasks[p].status = "pending"
      BY <1>0, <1>2, <1>3, <2>3, AppendLogAndDropEffect
    <2>4. ASSUME NEW a \in Actors, CancelTasks(a) PROVE view'[b].tasks[p].status = "pending"
      <3>1. view'[b] = view[b]
        BY <1>0, <1>3, <2>4, CancelTasksEffect
      <3>2. doc'[w].tasks[p] = doc[w].tasks[p] \/ doc'[w].tasks[p].status = "cancelled"
        BY <1>0, <2>4, CancelTasksEffect
      <3> QED BY <1>2, <3>1, <3>2
    <2>5. ASSUME NEW a \in Actors, NEW st \in WorkflowStatus, SaveStatus(a, st)
          PROVE  view'[b].tasks[p].status = "pending"
      BY <1>0, <1>2, <2>5, SaveStatusEffect
    <2>6. ASSUME NEW a \in Actors, NEW st \in WorkflowStatus, MarkStatus(a, st)
          PROVE  view'[b].tasks[p].status = "pending"
      BY <1>0, <1>2, <1>3, <2>6, MarkStatusEffect
    <2>7. ASSUME NEW a \in Actors, NEW q \in Positions, ResetTask(a, q), Resets(a, q)
          PROVE  view'[b].tasks[p].status = "pending"
      <3>1. CASE w = view[a].wf /\ p = q
        BY <1>0, <2>7, <3>1, ResetRetries
      <3>2. CASE ~(w = view[a].wf /\ p = q)
        <4>1. doc'[w].tasks[p] = doc[w].tasks[p]
          BY <1>0, <2>7, <3>2, ResetTaskEffect
        <4>2. view'[b].wf = view[b].wf /\ view'[b].tasks[p] = view[b].tasks[p]
          BY <1>0, <2>7, <3>2, ResetTaskEffect
        <4> QED BY <1>2, <4>1, <4>2
      <3> QED BY <3>1, <3>2
    <2>8. ASSUME NEW a \in Actors, NEW q \in Positions, NEW t \in Task, SaveTasks(a, q, t),
                 Counts(a, q) \/ Reports(a, q)
          PROVE  view'[b].tasks[p].status = "pending"
      <3> DEFINE tasks == [view[a].tasks EXCEPT ![q] = t]
      <3>1. /\ doc'[w].tasks = IF w = view[a].wf THEN tasks ELSE doc[w].tasks
            /\ view'[a].wf = view[a].wf /\ view'[a].tasks = tasks
            /\ \A c \in Actors : c # a => view'[c] = view[c]
        BY <1>0, <2>8, SaveTasksEffect
      <3>2. p = q \/ tasks[p] = view[a].tasks[p]
        BY <1>0, Typed DEF View
      <3> HIDE DEF tasks
      <3>3. CASE w # view[a].wf
        BY <1>2, <3>1, <3>3
      <3>4. CASE w = view[a].wf
        <4>1. CASE b = a
          BY <3>1, <3>4, <4>1
        <4>2. CASE b # a
          <5>1. p # q
            BY <1>0, <1>1, <2>8, <3>4, SavedTaskIsSeen
          <5>2. InUse(a) /\ view[a].ver = doc[w].ver
            BY <2>8, <3>4 DEF SaveTasks, Fresh, InUse
          <5>3. view[a].tasks[p] = doc[w].tasks[p] \/ doc[w].tasks[p].status = "pending"
            BY <1>0, <3>4, <5>2 DEF CopiesTrackDocument
          <5> QED BY <1>2, <3>1, <3>2, <3>4, <4>2, <5>1, <5>3
        <4> QED BY <4>1, <4>2
      <3> QED BY <3>3, <3>4
    <2> QED BY <1>4, <2>1, <2>2, <2>3, <2>4, <2>5, <2>6, <2>7, <2>8 DEF Save
  <1>5. CASE Read
    <2>1. CASE UNCHANGED <<doc, view>>
      BY <1>2, <2>1
    <2>2. ASSUME NEW a \in Actors, NEW v \in Workflows, Load(a, v)
          PROVE  view'[b].tasks[p].status = "pending"
      BY <1>0, <1>2, <2>2, LoadEffect
    <2>3. ASSUME NEW a \in Actors, Drop(a) PROVE view'[b].tasks[p].status = "pending"
      BY <1>0, <1>2, <1>3, <2>3, DropEffect
    <2>4. ASSUME NEW a \in Actors, NEW q \in Positions, NEW t \in Task, SpoilCopy(a, q, t),
                 Counts(a, q)
          PROVE  view'[b].tasks[p].status = "pending"
      <3> DEFINE tasks == [view[a].tasks EXCEPT ![q] = t]
      <3>1. /\ doc' = doc /\ view'[a].wf = view[a].wf /\ view'[a].tasks = tasks
            /\ \A c \in Actors : c # a => view'[c] = view[c]
        BY <1>0, <2>4, SpoilCopyEffect
      <3>2. p = q \/ tasks[p] = view[a].tasks[p]
        BY <1>0, Typed DEF View
      <3> HIDE DEF tasks
      <3>3. w = view[a].wf => p # q
        BY <1>0, <1>1, <2>4, SavedTaskIsSeen
      <3> QED BY <1>2, <3>1, <3>2, <3>3
    <2>5. ASSUME NEW P, doc' = doc,
                 view' = [a \in Actors |-> IF a \in P THEN NoView ELSE view[a]]
          PROVE  view'[b].tasks[p].status = "pending"
      <3>1. view'[b] = view[b]
        BY <1>3, <2>5
      <3> QED BY <1>2, <2>5, <3>1
    <2> QED BY <1>5, <2>1, <2>2, <2>3, <2>4, <2>5 DEF Read
  <1> QED BY <1>4, <1>5, DocumentSteps

\* What a handler goes on to: nothing, another step of what it does, or the rest
\* of its loop.
LEMMA HandlerGoes ==
    ASSUME ControlInv, NEW h \in Handlers
    PROVE  /\ \A r : Go(h, r) => hnd'[h] = r
           /\ Finish(h) => hnd'[h] = IdleHandler
           /\ \A pc : Step(h, pc) =>
                 /\ hnd'[h].pc = pc /\ hnd'[h].op = hnd[h].op /\ hnd'[h].wf = hnd[h].wf
                 /\ hnd'[h].id = hnd[h].id /\ hnd'[h].todo = hnd[h].todo
           /\ \A p : Continue(h, p) =>
                 \/ hnd[h].todo \ {p} = {} /\ hnd'[h] = IdleHandler
                 \/ /\ hnd[h].todo # {p} /\ hnd'[h].todo = hnd[h].todo \ {p}
                    /\ hnd'[h].pc = "enqueue" /\ hnd'[h].op = hnd[h].op
                    /\ hnd'[h].wf = hnd[h].wf
  <1>1. hnd \in [Handlers -> Handler]
    BY DEF ControlInv, ControlTypeOK
  <1>2. \A r : Go(h, r) => hnd'[h] = r
    BY <1>1 DEF Go
  <1>3. ASSUME NEW pc, Step(h, pc)
        PROVE  /\ hnd'[h].pc = pc /\ hnd'[h].op = hnd[h].op /\ hnd'[h].wf = hnd[h].wf
               /\ hnd'[h].id = hnd[h].id /\ hnd'[h].todo = hnd[h].todo
    BY <1>1, <1>3 DEF Step, Go, Handler
  <1>4. ASSUME NEW p, Continue(h, p)
        PROVE  \/ hnd[h].todo \ {p} = {} /\ hnd'[h] = IdleHandler
               \/ /\ hnd[h].todo # {p} /\ hnd'[h].todo = hnd[h].todo \ {p}
                  /\ hnd'[h].pc = "enqueue" /\ hnd'[h].op = hnd[h].op
                  /\ hnd'[h].wf = hnd[h].wf
    <2> DEFINE rest == hnd[h].todo \ {p}
    <2>1. hnd'[h] = IF rest = {} THEN IdleHandler
                    ELSE [hnd[h] EXCEPT !.pc = "enqueue", !.todo = rest]
      BY <1>2, <1>4 DEF Continue
    <2>2. CASE rest = {}
      BY <2>1, <2>2
    <2>3. CASE rest # {}
      <3>1. hnd[h].todo # {p}
        BY <2>3
      <3> HIDE DEF rest
      <3>2. hnd'[h] = [hnd[h] EXCEPT !.pc = "enqueue", !.todo = rest]
        BY <2>1, <2>3
      <3>3. hnd'[h].todo = rest /\ hnd'[h].pc = "enqueue" /\ hnd'[h].op = hnd[h].op
            /\ hnd'[h].wf = hnd[h].wf
        BY <1>1, <3>2 DEF Handler
      <3> QED BY <3>1, <3>3 DEF rest
    <2> QED BY <2>2, <2>3
  <1> QED BY <1>2, <1>3, <1>4 DEF Finish

\* A save of a handler that keeps its copy keeps it for the same workflow.
LEMMA CopyStays ==
    ASSUME DocumentTypeOK, NEW a \in Actors
    PROVE  /\ AppendLog(a) => view'[a].wf = view[a].wf
           /\ \A st \in WorkflowStatus : SaveStatus(a, st) => view'[a].wf = view[a].wf
           /\ \A p \in Positions, t \in Task :
                 SaveTasks(a, p, t) \/ SpoilCopy(a, p, t) => view'[a].wf = view[a].wf
  BY AppendLogEffect, SaveStatusEffect, SaveTasksEffect, SpoilCopyEffect

\* Handlers with no demand on their place.
LEMMA PlainPlaces ==
    ASSUME NEW h \in Handlers,
           \/ hnd'[h] = IdleHandler
           \/ hnd'[h].op \in {"create", "cancel", "recover"} /\ hnd'[h].pc # "idle"
           \/ hnd'[h].op = "retry" /\ hnd'[h].pc \in {"enqueue", "log"}
    PROVE  HandlerInPlace(h)'
  BY DEF HandlerInPlace, At, IdleHandler, Working

\* Where a step leaves a handler alone.
LEMMA PlaceKept ==
    ASSUME EngineInv, [Next]_vars, NEW h \in Handlers, HandlerInPlace(h),
           hnd'[h] = hnd[h], view'[h] = view[h]
    PROVE  HandlerInPlace(h)'
  <1>1. ASSUME NEW p \in Positions, hnd[h].pc # "idle", Unseen(hnd[h].wf, p)'
        PROVE  Unseen(hnd[h].wf, p)
    <2>1. hnd[h].wf \in Workflows
      BY <1>1 DEF EngineInv, ControlInv, RolesSet
    <2> QED BY <1>1, <2>1, SeenStaysSeen, TaskIdsOf DEF Unseen
  <1>2. At(h, "start", "update")' =>
            \A p \in Positions : NextTodo(h, p)' => ~Unseen(hnd[h].wf, p)'
    BY <1>1 DEF HandlerInPlace, At, NextTodo
  <1> QED BY <1>2 DEF HandlerInPlace, At

LEMMA RequestKeepsPlace ==
    ASSUME EngineInv, NEW h \in Handlers, HandlerInPlace(h), Request(h)
    PROVE  HandlerInPlace(h)'
  <1>0. DocumentTypeOK /\ ControlInv /\ h \in Actors
    BY Acting DEF EngineInv, CopyInv
  <1>1. ASSUME NEW w \in Workflows, Create(h, w) PROVE HandlerInPlace(h)'
    <2>1. hnd'[h] = Working("create", "log", w, Nobody, {})
      BY <1>0, <1>1, HandlerGoes DEF Create
    <2> QED BY <2>1, PlainPlaces DEF Working
  <1>2. ASSUME NEW w \in Workflows, StartLoad(h, w) PROVE HandlerInPlace(h)'
    <2>1. CASE Load(h, w) /\ Go(h, Working("start", "status", w, Nobody, {}))
      <3>1. hnd'[h] = Working("start", "status", w, Nobody, {}) /\ view'[h].wf = w
        BY <1>0, <2>1, HandlerGoes, LoadEffect
      <3> QED BY <3>1 DEF HandlerInPlace, At, Working
    <2>2. CASE Finish(h)
      BY <1>0, <2>2, HandlerGoes, PlainPlaces
    <2> QED BY <1>2, <2>1, <2>2 DEF StartLoad
  <1>3. ASSUME NEW w \in Workflows, CancelLoad(h, w) PROVE HandlerInPlace(h)'
    <2>1. hnd'[h] = Working("cancel", "save", w, Nobody, {})
      BY <1>0, <1>3, HandlerGoes DEF CancelLoad
    <2> QED BY <2>1, PlainPlaces DEF Working
  <1>4. ASSUME NEW w \in Workflows, RecoverLoad(h, w) PROVE HandlerInPlace(h)'
    <2>1. CASE Finish(h)
      BY <1>0, <2>1, HandlerGoes, PlainPlaces
    <2>2. ASSUME NEW stale, Go(h, Working("recover", "enqueue", w, Nobody, stale))
          PROVE  HandlerInPlace(h)'
      <3>1. hnd'[h] = Working("recover", "enqueue", w, Nobody, stale)
        BY <1>0, <2>2, HandlerGoes
      <3> QED BY <3>1, PlainPlaces DEF Working
    <2> QED BY <1>4, <2>1, <2>2 DEF RecoverLoad
  <1>5. ASSUME NEW w \in Workflows, FinalizeLoad(h, w) PROVE HandlerInPlace(h)'
    <2>1. CASE Finish(h)
      BY <1>0, <2>1, HandlerGoes, PlainPlaces
    <2>2. CASE /\ Verdict(doc[w].tasks) # "running" /\ Load(h, w)
               /\ Go(h, Working("finalize", "save", w, Nobody, {}))
      <3>1. hnd'[h] = Working("finalize", "save", w, Nobody, {}) /\ view'[h].tasks = doc[w].tasks
        BY <1>0, <2>2, HandlerGoes, LoadEffect
      <3>2. Verdict(view'[h].tasks) # "running"
        BY <2>2, <3>1
      <3>3. Verdict(view[h].tasks)' = Verdict(view'[h].tasks)
        BY DEF Verdict
      <3> QED BY <3>1, <3>2, <3>3 DEF HandlerInPlace, At, Working
    <2> QED BY <1>5, <2>1, <2>2 DEF FinalizeLoad
  <1>6. ASSUME NEW w \in Workflows, NEW id \in TaskIds, RetryLoad(h, w, id)
        PROVE  HandlerInPlace(h)'
    <2>1. hnd'[h] = Working("retry", "save", w, id, {}) /\ view'[h].wf = w
      BY <1>0, <1>6, HandlerGoes, LoadEffect DEF RetryLoad
    <2> QED BY <2>1 DEF HandlerInPlace, At, Working
  <1>7. ASSUME NEW id \in TaskIds, EnqueueAdHoc(h, id) PROVE HandlerInPlace(h)'
    BY <1>7 DEF EnqueueAdHoc, Begin, HandlerInPlace, At
  <1> QED BY <1>1, <1>2, <1>3, <1>4, <1>5, <1>6, <1>7 DEF Request

LEMMA HandlerStepKeepsPlace ==
    ASSUME EngineInv, NEW h \in Handlers, HandlerInPlace(h), HandlerStep(h)
    PROVE  HandlerInPlace(h)'
  <1>0. DocumentTypeOK /\ ControlInv /\ QueueInv /\ h \in Actors
    BY Acting DEF EngineInv, CopyInv
  <1>a. hnd[h].todo \subseteq Positions /\ Positions \subseteq Nat
    BY <1>0, DocumentAssumption DEF ControlInv, ControlTypeOK, Handler, Positions
  \* The rest of a start's loop, with its copy.
  <1>1. ASSUME NEW p, Continue(h, p), hnd[h].op = "start", hnd[h].pc \in {"enqueue", "update"},
               hnd[h].todo = {p} \/ view'[h].wf = view[h].wf
        PROVE  HandlerInPlace(h)'
    <2>1. CASE hnd'[h] = IdleHandler
      BY <2>1, PlainPlaces
    <2>2. CASE /\ hnd[h].todo # {p} /\ hnd'[h].pc = "enqueue" /\ hnd'[h].op = hnd[h].op
               /\ hnd'[h].wf = hnd[h].wf
      BY <1>1, <2>2 DEF HandlerInPlace, At
    <2> QED BY <1>0, <1>1, <2>1, <2>2, HandlerGoes
  <1>b. CASE CreateLog(h)
    <2>1. CASE Finish(h)
      BY <1>0, <2>1, HandlerGoes, PlainPlaces
    <2>2. CASE Go(h, Working("start", "load", hnd[h].wf, Nobody, {}))
      <3>1. hnd'[h] = Working("start", "load", hnd[h].wf, Nobody, {})
        BY <1>0, <2>2, HandlerGoes
      <3> QED BY <3>1 DEF HandlerInPlace, At, Working
    <2> QED BY <1>b, <2>1, <2>2 DEF CreateLog
  <1>2. CASE StartStatus(h)
    <2>1. CASE Finish(h)
      BY <1>0, <2>1, HandlerGoes, PlainPlaces
    <2>2. CASE SaveStatus(h, "running") /\ Step(h, "log")
      <3>1. view'[h].wf = view[h].wf
        BY <1>0, <2>2, CopyStays DEF WorkflowStatus
      <3>2. hnd'[h].pc = "log" /\ hnd'[h].op = "start" /\ hnd'[h].wf = hnd[h].wf
            /\ hnd'[h].todo = hnd[h].todo
        BY <1>0, <1>2, <2>2, HandlerGoes DEF StartStatus, At
      <3> QED BY <1>2, <3>1, <3>2 DEF StartStatus, HandlerInPlace, At
    <2> QED BY <1>2, <2>1, <2>2 DEF StartStatus, RequestThrows
  <1>3. CASE StartLog(h)
    <2>1. CASE Finish(h)
      BY <1>0, <2>1, HandlerGoes, PlainPlaces
    <2>2. ASSUME NEW pending, LogOrNot(h), Go(h, [hnd[h] EXCEPT !.pc = "enqueue", !.todo = pending])
          PROVE  HandlerInPlace(h)'
      <3>1. hnd'[h] = [hnd[h] EXCEPT !.pc = "enqueue", !.todo = pending]
        BY <1>0, <2>2, HandlerGoes
      <3>2. hnd'[h].pc = "enqueue" /\ hnd'[h].op = hnd[h].op /\ hnd'[h].wf = hnd[h].wf
        BY <1>0, <3>1 DEF ControlInv, ControlTypeOK, Handler
      <3>3. view'[h].wf = view[h].wf
        BY <1>0, <2>2, CopyStays DEF LogOrNot
      <3> QED BY <1>3, <3>2, <3>3 DEF StartLog, HandlerInPlace, At, LogOrNot, LogOrNotAndDrop
    <2> QED BY <1>3, <2>1, <2>2 DEF StartLog, LogOrNot, LogOrNotAndDrop
  <1>4. CASE StartEnqueue(h)
    <2>1. PICK p \in Positions : NextTodo(h, p) /\ Add(IdOf[hnd[h].wf][p], hnd[h].wf)
      BY <1>4 DEF StartEnqueue
    <2>2. hnd'[h].pc = "update" /\ hnd'[h].op = "start" /\ hnd'[h].wf = hnd[h].wf
          /\ hnd'[h].todo = hnd[h].todo /\ view' = view
      BY <1>0, <1>4, HandlerGoes DEF StartEnqueue, At
    <2>3. hnd[h].wf \in Workflows
      BY <1>0, <1>4 DEF StartEnqueue, At, ControlInv, RolesSet
    <2>4. ~Unseen(hnd[h].wf, p)'
      BY <1>0, <2>1, <2>2, <2>3, TaskIdsOf, AddedIsSeen DEF Unseen
    <2>5. \A q \in Positions : NextTodo(h, q)' => q = p
      <3> SUFFICES ASSUME NEW q \in Positions, NextTodo(h, q)' PROVE q = p
        OBVIOUS
      <3>1. p =< q /\ q =< p
        BY <2>1, <2>2 DEF NextTodo
      <3>2. p \in Nat /\ q \in Nat
        BY <1>a
      <3> QED BY <3>1, <3>2
    <2> QED BY <1>4, <2>2, <2>4, <2>5 DEF StartEnqueue, HandlerInPlace, At
  <1>5. CASE StartEnqueueFails(h)
    <2>1. PICK p \in Positions :
             /\ Continue(h, p)
             /\ \/ LeaveLast(h, p)
                \/ IF hnd[h].todo = {p} THEN AppendLogAndDrop(h) ELSE AppendLog(h)
      BY <1>5 DEF StartEnqueueFails
    <2>2. hnd[h].todo = {p} \/ view'[h].wf = view[h].wf
      BY <1>0, <2>1, CopyStays DEF LeaveLast
    <2> QED BY <1>1, <1>5, <2>1, <2>2 DEF StartEnqueueFails, At
  <1>6. CASE StartUpdate(h)
    <2>1. PICK p \in Positions, q \in Positions :
             /\ NextTodo(h, p) /\ Continue(h, p)
             /\ LET t == [view[h].tasks[q] EXCEPT !.status = "pending",
                                                  !.attempts = view[h].tasks[p].attempts + 1]
                IN  SaveTasks(h, q, t) \/ SpoilCopy(h, q, t)
      BY <1>6 DEF StartUpdate
    <2> DEFINE t == [view[h].tasks[q] EXCEPT !.status = "pending",
                                             !.attempts = view[h].tasks[p].attempts + 1]
    <2>2. t \in Task
      BY <1>0, CopyTasks DEF EngineInv
    <2>3. SaveTasks(h, q, t) \/ SpoilCopy(h, q, t)
      BY <2>1
    <2> HIDE DEF t
    <2>4. view'[h].wf = view[h].wf
      BY <1>0, <2>2, <2>3, CopyStays
    <2> QED BY <1>1, <1>6, <2>1, <2>4 DEF StartUpdate, At
  <1>7. CASE RetrySave(h)
    <2>1. CASE Step(h, "enqueue")
      BY <1>0, <1>7, <2>1, HandlerGoes, PlainPlaces DEF RetrySave, At, RequestThrows
    <2>2. CASE Finish(h)
      BY <1>0, <2>2, HandlerGoes, PlainPlaces
    <2> QED BY <1>7, <2>1, <2>2 DEF RetrySave, RequestThrows
  <1>8. CASE RetryEnqueue(h)
    <2>1. CASE Step(h, "log")
      BY <1>0, <1>8, <2>1, HandlerGoes, PlainPlaces DEF RetryEnqueue, At, RequestThrows
    <2>2. CASE Finish(h)
      BY <1>0, <2>2, HandlerGoes, PlainPlaces
    <2> QED BY <1>8, <2>1, <2>2 DEF RetryEnqueue, RequestThrows
  <1>9. CASE RetryLog(h) \/ CancelSave(h) \/ FinalizeSave(h)
    BY <1>0, <1>9, HandlerGoes, PlainPlaces
       DEF RetryLog, CancelSave, FinalizeSave, LogOrNotAndDrop, RequestThrows
  <1>10. CASE RecoverEnqueue(h) \/ RecoverLog(h)
    <2>1. hnd[h].op = "recover" /\ (Step(h, "log") \/ \E p \in Positions : Continue(h, p))
      BY <1>10 DEF RecoverEnqueue, RecoverLog, At, LogOrNot, LogOrNotAndDrop
    <2>2. \/ hnd'[h] = IdleHandler
          \/ hnd'[h].op = "recover" /\ hnd'[h].pc # "idle"
      BY <1>0, <2>1, HandlerGoes
    <2> QED BY <2>2, PlainPlaces
  <1> QED BY <1>b, <1>2, <1>3, <1>4, <1>5, <1>6, <1>7, <1>8, <1>9, <1>10 DEF HandlerStep

LEMMA HandlersInPlaceKept ==
    ASSUME EngineInv, HandlersInPlace, [Next]_vars
    PROVE  HandlersInPlace'
  <1> SUFFICES ASSUME NEW h \in Handlers PROVE HandlerInPlace(h)'
    BY DEF HandlersInPlace
  <1>0. DocumentTypeOK /\ ControlInv /\ HandlerInPlace(h) /\ h \in Actors
    BY Acting DEF EngineInv, CopyInv, HandlersInPlace
  <1>1. ASSUME NEW g \in Handlers, Request(g) \/ HandlerStep(g) PROVE HandlerInPlace(h)'
    <2>1. CASE g = h
      BY <1>0, <1>1, <2>1, RequestKeepsPlace, HandlerStepKeepsPlace
    <2>2. CASE g # h
      BY <1>0, <1>1, <2>2, HandlersAlone, HandlerOwnCopy, PlaceKept
    <2> QED BY <2>1, <2>2
  <1>2. ASSUME NEW s \in Slots, SlotMove(s) PROVE HandlerInPlace(h)'
    <2>1. h # s
      BY EngineAssumption
    <2>2. hnd' = hnd
      BY <1>2 DEF SlotMove, LoadRunning, LoadEnd, LoadForReport, ReportRunning, ReportEnd,
                  SaveReport, LogReport, Execute, Settle, LogOrNotAndDrop
    <2> QED BY <1>0, <1>2, <2>1, <2>2, SlotOwnCopy, PlaceKept
  <1>3. ASSUME NEW P \in Processes, Crash(P) PROVE HandlerInPlace(h)'
    <2>1. CASE h \in P
      BY <1>3, <2>1, PlainPlaces DEF Crash
    <2>2. CASE h \notin P
      <3>1. hnd'[h] = hnd[h] /\ view'[h] = view[h]
        BY <1>0, <1>3, <2>2 DEF Crash
      <3> QED BY <1>0, <3>1, PlaceKept
    <2> QED BY <2>1, <2>2
  <1>4. CASE hnd' = hnd /\ view' = view
    BY <1>0, <1>4, PlaceKept
  <1> QED BY <1>1, <1>2, <1>3, <1>4 DEF Next, PickJob, QueueTimer, PromoteJob, StallJob, vars

\* Only a start makes a workflow running.
LEMMA RunningStarts ==
    ASSUME EngineInv, HandlersInPlace, Save \/ Read,
           NEW w \in Workflows, doc'[w].status = "running", doc[w].status # "running"
    PROVE  \E h \in Handlers : Starting(h, w)' /\ hnd'[h].pc = "log"
  <1>0. DocumentTypeOK /\ ControlInv
    BY DEF EngineInv, CopyInv
  <1>1. ASSUME NEW a \in Actors, NEW v \in Workflows, CreateDocument(a, v) PROVE FALSE
    BY <1>0, <1>1, CreateEffect
  <1>2. ASSUME NEW a \in Actors, AppendLog(a) \/ AppendLogAndDrop(a) \/ CancelTasks(a)
        PROVE  FALSE
    <2>1. doc'[w].status = doc[w].status \/ doc'[w].status = "cancelled"
      BY <1>0, <1>2, AppendLogEffect, AppendLogAndDropEffect, CancelTasksEffect
    <2> QED BY <2>1
  <1>3. ASSUME NEW a \in Actors, NEW st \in WorkflowStatus, SaveStatus(a, st), Starts(a)
        PROVE  \E h \in Handlers : Starting(h, w)' /\ hnd'[h].pc = "log"
    <2>1. w = view[a].wf
      BY <1>0, <1>3, SaveStatusEffect
    <2>2. a \in Handlers /\ view[a].wf = hnd[a].wf /\ hnd[a].op = "start"
      BY <1>3 DEF Starts, At, HandlersInPlace, HandlerInPlace
    <2>3. hnd'[a].pc = "log" /\ hnd'[a].op = hnd[a].op /\ hnd'[a].wf = hnd[a].wf
      BY <1>0, <1>3, <2>2, HandlerGoes DEF Starts
    <2> QED BY <2>1, <2>2, <2>3 DEF Starting
  <1>4. ASSUME NEW a \in Actors, NEW st \in WorkflowStatus, MarkStatus(a, st), Finalizes(a, st)
        PROVE  FALSE
    <2>1. st # "running"
      BY <1>4 DEF Finalizes, HandlersInPlace, HandlerInPlace
    <2> QED BY <1>0, <1>4, <2>1, MarkStatusEffect
  <1>5. ASSUME NEW a \in Actors, NEW q \in Positions, ResetTask(a, q) PROVE FALSE
    BY <1>0, <1>5, ResetTaskEffect
  <1>6. ASSUME NEW a \in Actors, NEW q \in Positions, NEW t \in Task, SaveTasks(a, q, t) PROVE FALSE
    BY <1>0, <1>6, SaveTasksEffect
  <1>7. CASE Read
    BY <1>7 DEF Read, Load, Drop, SpoilCopy
  <1> QED BY <1>1, <1>2, <1>3, <1>4, <1>5, <1>6, <1>7 DEF Save

\* Whoever attends to a task that was unfinished already goes on to do so.
LEMMA AttendedKept ==
    ASSUME EngineInv, AttendedInv, [Next]_vars, faults' = 0,
           NEW w \in Workflows, NEW p \in Positions, Unseen(w, p)', Attended(w, p),
           doc[w].tasks[p].status = "pending"
    PROVE  Attended(w, p)'
  <1>0. /\ DocumentTypeOK /\ ControlInv /\ QueueInv /\ faults = 0 /\ HandlersInPlace
        /\ PendingSeenByAll /\ Unseen(w, p)
    BY FaultsCounted, SeenStaysSeen, TaskIdsOf DEF EngineInv, CopyInv, AttendedInv, Unseen
  <1>1. CASE Retrying(w, p)
    BY <1>0, <1>1, RetryingKept DEF Retrying, Attended
  <1>2. ASSUME NEW h \in Handlers, Starting(h, w), hnd[h].pc = "log" \/ p \in hnd[h].todo,
               ~Retrying(w, p)
        PROVE  Attended(w, p)'
    <2>1. CASE hnd'[h] = hnd[h]
      BY <1>2, <2>1 DEF Attended, Starting
    <2>2. CASE hnd'[h] # hnd[h]
      <3>1. Request(h) \/ HandlerStep(h)
        BY <1>0, <2>2, FaultsCounted, HandlersAlone, OnlyHandlersAndCrashes
      <3>2. hnd[h].pc \notin {"idle", "load", "status"}
        BY <1>0, <1>2 DEF Starting, HandlersInPlace, HandlerInPlace
      <3>3. ~Request(h)
        BY <1>2, <3>2 DEF Request, Create, StartLoad, CancelLoad, FinalizeLoad, RecoverLoad,
                          RetryLoad, EnqueueAdHoc, Begin, At
      <3>4. ~Fault
        BY <1>0, EngineAssumption DEF Fault, ControlInv, ControlTypeOK
      <3>5. StartLog(h) \/ StartEnqueue(h) \/ StartUpdate(h)
        BY <1>2, <3>1, <3>2, <3>3, <3>4
           DEF Starting, HandlerStep, CreateLog, StartStatus, StartEnqueueFails, RetrySave,
               RetryEnqueue, RetryLog, CancelSave, FinalizeSave, RecoverEnqueue, RecoverLog, At,
               LogOrNot, LogOrNotAndDrop, RequestThrows
      <3>6. CASE StartLog(h)
        <4>1. view[h].wf = w /\ h \in Actors
          BY <1>0, <1>2, <3>6, Acting DEF StartLog, At, Starting, HandlersInPlace, HandlerInPlace,
                                          LogOrNot, LogOrNotAndDrop
        <4>2. view[h].tasks[p].status = "pending"
          BY <1>0, <1>2, <4>1 DEF PendingSeenByAll, InUse
        <4> DEFINE pending == {q \in Positions : view[h].tasks[q].status = "pending"}
        <4>3. p \in pending
          BY <4>2
        <4>4. Go(h, [hnd[h] EXCEPT !.pc = "enqueue", !.todo = pending])
          BY <3>6, <4>3 DEF StartLog, LogOrNot, LogOrNotAndDrop
        <4> HIDE DEF pending
        <4>5. hnd'[h].todo = pending /\ hnd'[h].op = hnd[h].op /\ hnd'[h].wf = hnd[h].wf
          BY <1>0, <4>4 DEF Go, ControlInv, ControlTypeOK, Handler
        <4> QED BY <1>2, <4>3, <4>5 DEF Attended, Starting
      <3>7. CASE StartEnqueue(h)
        <4>1. hnd'[h].todo = hnd[h].todo /\ hnd'[h].op = hnd[h].op /\ hnd'[h].wf = hnd[h].wf
          BY <1>0, <3>7, HandlerGoes DEF StartEnqueue
        <4> QED BY <1>2, <3>7, <4>1 DEF Attended, Starting, StartEnqueue, At
      <3>8. CASE StartUpdate(h)
        <4>1. PICK q \in Positions : NextTodo(h, q) /\ Continue(h, q)
          BY <3>8 DEF StartUpdate
        <4>2. p # q /\ p \in hnd[h].todo
          BY <1>0, <1>2, <3>8, <4>1 DEF StartUpdate, HandlersInPlace, HandlerInPlace, At, Starting
        <4>3. hnd'[h].todo = hnd[h].todo \ {q} /\ hnd'[h].op = hnd[h].op
              /\ hnd'[h].wf = hnd[h].wf
          BY <1>0, <4>1, <4>2, HandlerGoes
        <4> QED BY <1>2, <4>2, <4>3 DEF Attended, Starting
      <3> QED BY <3>5, <3>6, <3>7, <3>8
    <2> QED BY <2>1, <2>2
  <1> QED BY <1>1, <1>2 DEF Attended, Retrying

LEMMA AttendedInvKept ==
    ASSUME EngineInv, SuccessInv, AttendedInv, [Next]_vars
    PROVE  AttendedInv'
  <1>1. HandlersInPlace' /\ SlotsHaveJobs' /\ UnseenUntouched'
    BY HandlersInPlaceKept, SlotsHaveJobsKept, UnseenUntouchedKept DEF AttendedInv
  <1>2. ASSUME faults' = 0, NEW w \in Workflows, NEW p \in Positions,
               doc'[w].status = "running", Unfinished(w, p)', Unseen(w, p)'
        PROVE  Attended(w, p)'
    <2>1. faults = 0 /\ Unseen(w, p) /\ (Save \/ Read)
      BY <1>2, FaultsCounted, SeenStaysSeen, TaskIdsOf, DocumentSteps DEF Unseen, EngineInv
    <2>2. Unfinished(w, p) \/ Retrying(w, p)'
      <3>1. Read => doc' = doc
        BY DEF Read, Load, Drop, SpoilCopy
      <3> QED BY <1>2, <2>1, <3>1, UnseenTasksSaved DEF Unfinished
    <2>3. CASE Retrying(w, p)'
      BY <2>3 DEF Retrying, Attended
    <2>4. CASE doc[w].status # "running"
      <3>1. \E h \in Handlers : Starting(h, w)' /\ hnd'[h].pc = "log"
        BY <1>2, <2>1, <2>4, RunningStarts DEF AttendedInv
      <3> QED BY <3>1 DEF Attended
    <2>5. CASE doc[w].status = "running" /\ Unfinished(w, p)
      <3>1. doc[w].tasks[p].status = "pending"
        BY <2>1, <2>5 DEF AttendedInv, UnseenUntouched, Unfinished
      <3>2. Attended(w, p)
        BY <2>1, <2>5 DEF AttendedInv, NoTaskLeftBehind, Unfinished, Unseen, Attended
      <3> QED BY <1>2, <3>1, <3>2, AttendedKept
    <2> QED BY <2>2, <2>3, <2>4, <2>5
  <1>3. faults' = 0 => NoTaskLeftBehind'
    BY <1>2 DEF NoTaskLeftBehind, Unfinished, Unseen, Attended
  <1>4. faults' = 0 => PendingSeenByAll'
    BY PendingSeenKept
  <1> QED BY <1>1, <1>3, <1>4 DEF AttendedInv

\* Unless a call has failed, no unfinished task of a running workflow is
\* forgotten, however its starts, retries, cancellations and reports overlap:
\* it has a job, or a handler is still to enqueue it.
THEOREM NothingLeftBehind == Spec => []NoTaskLeftBehind
  <1>1. Init => AttendedInv
    <2> SUFFICES ASSUME Init PROVE AttendedInv
      OBVIOUS
    <2>1. HandlersInPlace
      BY DEF Init, HandlersInPlace, HandlerInPlace, At, IdleHandler, Working
    <2>2. SlotsHaveJobs
      BY DEF Init, SlotsHaveJobs, Busy, IdleSlot
    <2>3. UnseenUntouched /\ PendingSeenByAll
      BY NoViewUnused DEF Init, DocumentInit, UnseenUntouched, PendingSeenByAll, Absent, NewTask,
                          InUse
    <2>4. NoTaskLeftBehind
      BY DEF Init, DocumentInit, NoTaskLeftBehind, Absent
    <2> QED BY <2>1, <2>2, <2>3, <2>4 DEF AttendedInv
  <1>2. EngineInv /\ SuccessInv /\ AttendedInv /\ [Next]_vars => AttendedInv'
    BY AttendedInvKept
  <1>3. AttendedInv => NoTaskLeftBehind
    BY DEF AttendedInv, NoTaskLeftBehind
  <1> QED BY <1>1, <1>2, <1>3, EngineInvariant, SuccessInvariant, PTL DEF Spec
=============================================================================
