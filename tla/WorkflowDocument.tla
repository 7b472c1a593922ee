-------------------------- MODULE WorkflowDocument --------------------------
(***************************************************************************)
(* One workflow document per id (models/Workflow.js) and the copies of it  *)
(* that request handlers and worker jobs hold between their findOne and    *)
(* their saves.  A copy remembers the document version (__v) it was read   *)
(* at.  The three kinds of save the code issues differ in how the ODM      *)
(* treats that version:                                                    *)
(*   whole task array  (updateTask)  write only if the version matches,    *)
(*                                   then increment it;                    *)
(*   one array slot    (retryTask)   write only if the version matches,    *)
(*                                   leave it as it is;                    *)
(*   a push to logs    (appendLog)   write unconditionally, increment it,  *)
(*                                   together with any field changed since.*)
(* A change of a top-level field (status) alone neither checks the version *)
(* nor increments it.                                                      *)
(***************************************************************************)
EXTENDS Naturals

CONSTANTS Workflows,  \* ids of workflow documents
          NumTasks,   \* length of each document's task array
          IdOf,       \* IdOf[w][p]: the id at position p of workflow w
          Actors,     \* whoever can hold a loaded copy of a document
          NoWf        \* "no workflow": an unused copy, an ad-hoc job

Positions == 1..NumTasks

ASSUME DocumentAssumption ==
    /\ NumTasks \in Nat
    /\ NoWf \notin Workflows

VARIABLES doc,   \* doc[w]: the stored document
          view   \* view[a]: the copy actor a works on

TaskStatus == {"pending", "running", "succeeded", "failed", "cancelled"}
WorkflowStatus == {"pending", "running", "completed", "failed", "cancelled"}

Task == [status: TaskStatus, attempts: Nat, started: BOOLEAN]

Document == [status: WorkflowStatus \cup {"absent"},
             tasks: [Positions -> Task],
             ver: Nat]

View == [wf: Workflows \cup {NoWf},
         status: WorkflowStatus \cup {"absent"},
         tasks: [Positions -> Task],
         ver: Nat,
         dirty: BOOLEAN]   \* the task array is modified and not yet saved

NewTask == [status |-> "pending", attempts |-> 0, started |-> FALSE]

Absent == [status |-> "absent", tasks |-> [p \in Positions |-> NewTask], ver |-> 0]

NoView == [wf |-> NoWf, status |-> "absent",
           tasks |-> [p \in Positions |-> NewTask], ver |-> 0, dirty |-> FALSE]

DocumentTypeOK ==
    /\ doc \in [Workflows -> Document]
    /\ view \in [Actors -> View]

DocumentInit ==
    /\ doc = [w \in Workflows |-> Absent]
    /\ view = [a \in Actors |-> NoView]

-----------------------------------------------------------------------------
(* Lookups                                                                 *)

Exists(w) == doc[w].status # "absent"

\* tasks.find / findIndex: the first position whose task has this id.
Finds(w, id, p) ==
    /\ p \in Positions
    /\ IdOf[w][p] = id
    /\ \A q \in Positions : q < p => IdOf[w][q] # id

\* The copy was read at the version the document still has.
Fresh(a) == view[a].ver = doc[view[a].wf].ver

\* What updateTask's Object.assign makes of a task for a worker's report:
\* only the 'running' report carries startedAt.
Reported(t, st) ==
    IF st = "running" THEN [t EXCEPT !.status = st, !.started = TRUE]
    ELSE [t EXCEPT !.status = st]

-----------------------------------------------------------------------------
(* Reads and saves, each by the actor a that holds the copy                *)

\* What a save makes of the document, or of the copy: its version incremented,
\* its task array or its status replaced.
Bumped(r) == [r EXCEPT !.ver = @ + 1]
WithTasks(r, tasks) == [r EXCEPT !.tasks = tasks]
WithStatus(r, st) == [r EXCEPT !.status = st]
WithDirty(v, dirty) == [v EXCEPT !.dirty = dirty]

\* create() returns the document it has inserted.
CreateDocument(a, w) ==
    /\ ~Exists(w)
    /\ doc' = [doc EXCEPT ![w] = WithStatus(@, "pending")]
    /\ view' = [view EXCEPT ![a] =
                  [wf |-> w, status |-> "pending", tasks |-> doc[w].tasks,
                   ver |-> doc[w].ver, dirty |-> FALSE]]

Load(a, w) ==
    /\ Exists(w)
    /\ view' = [view EXCEPT ![a] =
                  [wf |-> w, status |-> doc[w].status, tasks |-> doc[w].tasks,
                   ver |-> doc[w].ver, dirty |-> FALSE]]
    /\ UNCHANGED doc

Drop(a) ==
    /\ view' = [view EXCEPT ![a] = NoView]
    /\ UNCHANGED doc

\* Mutant: the save does not check the version.
SaveTasksUnchecked(a, p, t) ==
    LET tasks == [view[a].tasks EXCEPT ![p] = t] IN
    /\ doc' = [doc EXCEPT ![view[a].wf] = Bumped(WithTasks(@, tasks))]
    /\ view' = [view EXCEPT ![a] = WithDirty(Bumped(WithTasks(@, tasks)), FALSE)]

\* Mutant: the save checks the version and forgets to increment it.
SaveTasksKeepingVersion(a, p, t) ==
    LET tasks == [view[a].tasks EXCEPT ![p] = t] IN
    /\ Fresh(a)
    /\ doc' = [doc EXCEPT ![view[a].wf] = WithTasks(@, tasks)]
    /\ view' = [view EXCEPT ![a] = WithDirty(WithTasks(@, tasks), FALSE)]

\* updateTask: the whole array of the copy replaces the stored one.
SaveTasks(a, p, t) ==
    LET tasks == [view[a].tasks EXCEPT ![p] = t] IN
    /\ Fresh(a)
    /\ doc' = [doc EXCEPT ![view[a].wf] = Bumped(WithTasks(@, tasks))]
    /\ view' = [view EXCEPT ![a] = WithDirty(Bumped(WithTasks(@, tasks)), FALSE)]

\* updateTask whose save throws a VersionError: the copy keeps the change.
SpoilCopy(a, p, t) ==
    LET tasks == [view[a].tasks EXCEPT ![p] = t] IN
    /\ ~Fresh(a)
    /\ view' = [view EXCEPT ![a] = WithDirty(WithTasks(@, tasks), TRUE)]
    /\ UNCHANGED doc

\* startWorkflow's first save: only the top-level status is modified.
SaveStatus(a, st) ==
    /\ doc' = [doc EXCEPT ![view[a].wf] = WithStatus(@, st)]
    /\ view' = [view EXCEPT ![a] = WithStatus(@, st)]

\* appendLog on a copy whose task array is clean.
AppendLog(a) ==
    /\ ~view[a].dirty
    /\ doc' = [doc EXCEPT ![view[a].wf] = Bumped(@)]
    /\ view' = [view EXCEPT ![a] = Bumped(@)]

\* appendLog as the last use of the copy.
AppendLogAndDrop(a) ==
    /\ ~view[a].dirty
    /\ doc' = [doc EXCEPT ![view[a].wf] = Bumped(@)]
    /\ view' = [view EXCEPT ![a] = NoView]

\* retryTask's save: the modified fields of one slot, version checked only.
\* The status is sent only if the copy had another one; attempts always is.
ResetTask(a, p) ==
    /\ Fresh(a)
    /\ LET t == [status |-> "pending", attempts |-> view[a].tasks[p].attempts + 1,
                 started |-> FALSE]
           reset(d) == [d EXCEPT !.tasks = [@ EXCEPT ![p] = t]]
       IN  /\ doc' = [doc EXCEPT ![view[a].wf] = reset(@)]
           /\ view' = [view EXCEPT ![a] = reset(@)]

\* Of the stored tasks, those the copy v shows unfinished become cancelled.
CancelledTasks(v, tasks) ==
    [p \in Positions |-> IF v.tasks[p].status \in {"pending", "running"}
                         THEN [tasks[p] EXCEPT !.status = "cancelled"] ELSE tasks[p]]

\* A status is sent only if it differs from the one in the copy v.
Marked(v, d, st) == IF v.status = st THEN d ELSE WithStatus(d, st)

\* cancelWorkflow's save: one slot per task the COPY shows unfinished, sent
\* with the log push, so nothing checks the version.
CancelTasks(a) ==
    /\ doc' = [doc EXCEPT ![view[a].wf] =
                 Bumped(Marked(view[a], WithTasks(@, CancelledTasks(view[a], @.tasks)),
                               "cancelled"))]
    /\ view' = [view EXCEPT ![a] = NoView]

\* markCompleted / markFailed: the status with the log push.
MarkStatus(a, st) ==
    /\ doc' = [doc EXCEPT ![view[a].wf] = Bumped(Marked(view[a], @, st))]
    /\ view' = [view EXCEPT ![a] = NoView]

-----------------------------------------------------------------------------
(* What the version numbers guarantee                                      *)

InUse(a) == view[a].wf \in Workflows

\* No copy is ahead of the document it was read from, and a clean copy at the
\* document's own version shows every task as stored, except tasks a retry has
\* reset to pending since: that save leaves the version alone.  This is what
\* lets updateTask write back the whole array.
CopiesTrackDocument ==
    \A a \in Actors : InUse(a) =>
        LET d == doc[view[a].wf] IN
        /\ view[a].ver =< d.ver
        /\ view[a].ver = d.ver =>
              /\ ~view[a].dirty
              /\ \A p \in Positions : \/ view[a].tasks[p] = d.tasks[p]
                                      \/ d.tasks[p].status = "pending"
=============================================================================
