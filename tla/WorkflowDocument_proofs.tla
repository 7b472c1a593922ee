----------------------- MODULE WorkflowDocument_proofs ----------------------
(* What each read and save keeps true of the documents and their copies.   *)
EXTENDS WorkflowDocument, TLAPS

\* A copy in use was read from a document that exists (documents are never
\* deleted).
CopiesExist == \A a \in Actors : InUse(a) => Exists(view[a].wf)

CopyInv == DocumentTypeOK /\ CopiesExist /\ CopiesTrackDocument

\* An unused copy is well typed.
LEMMA NoViewType == NoView \in View /\ NoView.wf \notin Workflows
  BY DocumentAssumption DEF NoView, View, Task, NewTask, TaskStatus, WorkflowStatus

\* Replacing one document by a well-typed one.
LEMMA WriteDoc ==
    ASSUME DocumentTypeOK, NEW w, NEW d, w \in Workflows => d \in Document,
           doc' = [doc EXCEPT ![w] = d]
    PROVE  /\ doc' \in [Workflows -> Document]
           /\ \A v \in Workflows : v # w => doc'[v] = doc[v]
           /\ w \in Workflows => doc'[w] = d
  BY DEF DocumentTypeOK

\* Replacing one copy by a well-typed one.
LEMMA WriteView ==
    ASSUME DocumentTypeOK, NEW a \in Actors, NEW v \in View,
           view' = [view EXCEPT ![a] = v]
    PROVE  /\ view' \in [Actors -> View]
           /\ \A b \in Actors : b # a => view'[b] = view[b]
           /\ view'[a] = v
  BY DEF DocumentTypeOK

\* Documents and copies are records of the right kind.
LEMMA Typed ==
    ASSUME DocumentTypeOK
    PROVE  /\ \A v \in Workflows : doc[v] \in Document
           /\ \A b \in Actors : view[b] \in View
  BY DEF DocumentTypeOK

\* Creating a document: nobody holds a copy of it yet but its creator.
LEMMA CreateKeeps ==
    ASSUME CopyInv, NEW a \in Actors, NEW w \in Workflows, CreateDocument(a, w)
    PROVE  CopyInv'
  <1> USE DEF CopyInv
  <1> DEFINE d == WithStatus(doc[w], "pending")
             new == [wf |-> w, status |-> "pending", tasks |-> doc[w].tasks,
                     ver |-> doc[w].ver, dirty |-> FALSE]
  <1>1. doc[w] \in Document
    BY Typed
  <1>2. /\ d \in Document /\ d.status = "pending"
        /\ d.tasks = doc[w].tasks /\ d.ver = doc[w].ver
    BY <1>1 DEF WithStatus, Document, WorkflowStatus
  <1>3. new \in View /\ new.wf = w /\ new.tasks = d.tasks /\ new.ver = d.ver /\ ~new.dirty
    BY <1>1, <1>2 DEF Document, View, WorkflowStatus
  <1>4. doc' = [doc EXCEPT ![w] = d] /\ view' = [view EXCEPT ![a] = new]
    BY DEF CreateDocument
  <1> HIDE DEF d, new
  <1>5. /\ doc' \in [Workflows -> Document] /\ doc'[w] = d
        /\ \A v \in Workflows : v # w => doc'[v] = doc[v]
    BY <1>2, <1>4, WriteDoc
  <1>6. /\ view' \in [Actors -> View] /\ view'[a] = new
        /\ \A b \in Actors : b # a => view'[b] = view[b]
    BY <1>3, <1>4, WriteView
  <1>7. \A b \in Actors : InUse(b) => view[b].wf # w
    BY DEF CopiesExist, CreateDocument
  <1>8. CopiesExist'
    BY <1>2, <1>3, <1>5, <1>6 DEF CopiesExist, InUse, Exists
  <1>9. d.ver \in Nat
    BY <1>2 DEF Document
  <1>10. CopiesTrackDocument'
    <2> SUFFICES ASSUME NEW b \in Actors, InUse(b)'
                 PROVE  /\ view'[b].ver =< doc'[view'[b].wf].ver
                        /\ view'[b].ver = doc'[view'[b].wf].ver =>
                              /\ ~view'[b].dirty
                              /\ \A p \in Positions :
                                    \/ view'[b].tasks[p] = doc'[view'[b].wf].tasks[p]
                                    \/ doc'[view'[b].wf].tasks[p].status = "pending"
      BY DEF CopiesTrackDocument
    <2>1. CASE b = a
      BY <2>1, <1>3, <1>5, <1>6, <1>9
    <2>2. CASE b # a
      <3>1. view'[b] = view[b] /\ InUse(b)
        BY <2>2, <1>6 DEF InUse
      <3>2. doc'[view[b].wf] = doc[view[b].wf]
        BY <3>1, <1>5, <1>7 DEF InUse
      <3> QED BY <3>1, <3>2 DEF CopiesTrackDocument
    <2> QED BY <2>1, <2>2
  <1> QED BY <1>5, <1>6, <1>8, <1>10 DEF DocumentTypeOK

\* findOne gives a clean copy at the document's version.
LEMMA LoadKeeps ==
    ASSUME CopyInv, NEW a \in Actors, NEW w \in Workflows, Load(a, w)
    PROVE  CopyInv'
  <1> USE DEF CopyInv, Load
  <1> DEFINE new == [wf |-> w, status |-> doc[w].status, tasks |-> doc[w].tasks,
                     ver |-> doc[w].ver, dirty |-> FALSE]
  <1>1. new \in View
    BY DEF DocumentTypeOK, Document, View
  <1>2. doc' = doc /\ view' = [view EXCEPT ![a] = new]
    OBVIOUS
  <1>3. view' \in [Actors -> View] /\ view'[a] = new
        /\ \A b \in Actors : b # a => view'[b] = view[b]
    BY <1>1, <1>2 DEF DocumentTypeOK
  <1>4. CopiesExist'
    BY <1>2, <1>3 DEF CopiesExist, InUse, Exists
  <1>5. doc[w].ver \in Nat
    BY DEF DocumentTypeOK, Document
  <1>6. CopiesTrackDocument'
    BY <1>2, <1>3, <1>5 DEF CopiesTrackDocument, InUse
  <1> QED BY <1>2, <1>3, <1>4, <1>6 DEF DocumentTypeOK

\* Forgetting a copy.
LEMMA DropKeeps ==
    ASSUME CopyInv, NEW a \in Actors, Drop(a)
    PROVE  CopyInv'
  <1> USE DEF CopyInv, Drop
  <1>1. view' \in [Actors -> View] /\ ~InUse(a)'
        /\ \A b \in Actors : b # a => view'[b] = view[b]
    BY NoViewType DEF DocumentTypeOK, InUse
  <1>2. CopiesExist'
    BY <1>1 DEF CopiesExist, InUse, Exists
  <1>3. CopiesTrackDocument'
    BY <1>1 DEF CopiesTrackDocument, InUse
  <1> QED BY <1>1, <1>2, <1>3 DEF DocumentTypeOK

\* What the field updates of a save make of a document.
LEMMA DocumentUpdates ==
    ASSUME NEW d \in Document
    PROVE  /\ Bumped(d) \in Document
           /\ Bumped(d).ver = d.ver + 1
           /\ Bumped(d).status = d.status
           /\ Bumped(d).tasks = d.tasks
           /\ \A tasks \in [Positions -> Task] :
                 /\ WithTasks(d, tasks) \in Document
                 /\ WithTasks(d, tasks).ver = d.ver
                 /\ WithTasks(d, tasks).status = d.status
                 /\ WithTasks(d, tasks).tasks = tasks
           /\ \A st \in WorkflowStatus :
                 /\ WithStatus(d, st) \in Document
                 /\ WithStatus(d, st).ver = d.ver
                 /\ WithStatus(d, st).status = st
                 /\ WithStatus(d, st).tasks = d.tasks
  BY DEF Bumped, WithTasks, WithStatus, Document

\* The same for a copy.
LEMMA ViewUpdates ==
    ASSUME NEW v \in View
    PROVE  /\ Bumped(v) \in View
           /\ Bumped(v).wf = v.wf
           /\ Bumped(v).ver = v.ver + 1
           /\ Bumped(v).tasks = v.tasks
           /\ Bumped(v).dirty = v.dirty
           /\ \A tasks \in [Positions -> Task] :
                 /\ WithTasks(v, tasks) \in View
                 /\ WithTasks(v, tasks).wf = v.wf
                 /\ WithTasks(v, tasks).ver = v.ver
                 /\ WithTasks(v, tasks).tasks = tasks
           /\ \A st \in WorkflowStatus :
                 /\ WithStatus(v, st) \in View
                 /\ WithStatus(v, st).wf = v.wf
                 /\ WithStatus(v, st).ver = v.ver
                 /\ WithStatus(v, st).tasks = v.tasks
                 /\ WithStatus(v, st).dirty = v.dirty
  BY DEF Bumped, WithTasks, WithStatus, View

LEMMA DirtyUpdates ==
    ASSUME NEW v \in View
    PROVE  /\ WithDirty(v, TRUE) \in View
           /\ WithDirty(v, TRUE).wf = v.wf
           /\ WithDirty(v, TRUE).ver = v.ver
           /\ WithDirty(v, TRUE).tasks = v.tasks
           /\ WithDirty(v, FALSE) \in View
           /\ WithDirty(v, FALSE).wf = v.wf
           /\ WithDirty(v, FALSE).ver = v.ver
           /\ WithDirty(v, FALSE).tasks = v.tasks
           /\ WithDirty(v, FALSE).dirty = FALSE
  BY DEF WithDirty, View

\* A push to the log of a clean copy: copies of others at the old version are
\* left behind, the pushing copy keeps its distance.
LEMMA AppendLogKeeps ==
    ASSUME CopyInv, NEW a \in Actors, AppendLog(a)
    PROVE  CopyInv'
  <1> USE DEF CopyInv
  <1> DEFINE w == view[a].wf
  <1>1. w \in Workflows => Bumped(doc[w]) \in Document
    BY Typed, DocumentUpdates
  <1>2. /\ doc' \in [Workflows -> Document]
        /\ \A v \in Workflows : v # w => doc'[v] = doc[v]
        /\ w \in Workflows => doc'[w] = Bumped(doc[w])
    BY <1>1, WriteDoc DEF AppendLog
  <1>3. ASSUME NEW v \in Workflows
        PROVE  /\ doc'[v].tasks = doc[v].tasks
               /\ doc'[v].status = doc[v].status
               /\ doc'[v].ver = IF v = w THEN doc[v].ver + 1 ELSE doc[v].ver
               /\ doc[v].ver \in Nat
    <2>1. doc[v] \in Document /\ doc[v].ver \in Nat
      BY Typed DEF Document
    <2>2. CASE v = w
      BY <1>2, <2>1, <2>2, DocumentUpdates
    <2>3. CASE v # w
      BY <1>2, <2>1, <2>3
    <2> QED BY <2>2, <2>3
  <1> DEFINE new == Bumped(view[a])
  <1>4. new \in View /\ new.wf = w /\ new.tasks = view[a].tasks
        /\ new.dirty = view[a].dirty /\ new.ver = view[a].ver + 1
    BY Typed, ViewUpdates
  <1>5. view' = [view EXCEPT ![a] = new]
    BY DEF AppendLog
  <1> HIDE DEF new
  <1>6. view' \in [Actors -> View]
        /\ (\A b \in Actors : b # a => view'[b] = view[b]) /\ view'[a] = new
    BY <1>4, <1>5, WriteView
  <1>7. \A b \in Actors : /\ view'[b].wf = view[b].wf
                          /\ view'[b].tasks = view[b].tasks
                          /\ view'[b].dirty = view[b].dirty
                          /\ view'[b].ver = IF b = a THEN view[b].ver + 1 ELSE view[b].ver
                          /\ view[b].ver \in Nat
    BY <1>4, <1>6, Typed DEF View
  <1>8. CopiesExist'
    BY <1>3, <1>7 DEF CopiesExist, InUse, Exists
  <1>9. CopiesTrackDocument'
    <2> SUFFICES ASSUME NEW b \in Actors, view[b].wf \in Workflows
                 PROVE  /\ view'[b].ver =< doc'[view[b].wf].ver
                        /\ view'[b].ver = doc'[view[b].wf].ver =>
                             /\ ~view[b].dirty
                             /\ \A p \in Positions :
                                   \/ view[b].tasks[p] = doc[view[b].wf].tasks[p]
                                   \/ doc[view[b].wf].tasks[p].status = "pending"
      BY <1>3, <1>7 DEF CopiesTrackDocument, InUse
    <2>1. /\ view[b].ver =< doc[view[b].wf].ver
          /\ view[b].ver = doc[view[b].wf].ver =>
               /\ ~view[b].dirty
               /\ \A p \in Positions :
                     \/ view[b].tasks[p] = doc[view[b].wf].tasks[p]
                     \/ doc[view[b].wf].tasks[p].status = "pending"
      BY DEF CopiesTrackDocument, InUse
    <2>2. /\ view[b].ver \in Nat /\ doc[view[b].wf].ver \in Nat
          /\ view'[b].ver = IF b = a THEN view[b].ver + 1 ELSE view[b].ver
          /\ doc'[view[b].wf].ver = IF view[b].wf = w THEN doc[view[b].wf].ver + 1
                                    ELSE doc[view[b].wf].ver
      BY <1>3, <1>7
    <2>3. /\ view'[b].ver =< doc'[view[b].wf].ver
          /\ view'[b].ver = doc'[view[b].wf].ver => view[b].ver = doc[view[b].wf].ver
      BY <2>1, <2>2
    <2> QED BY <2>1, <2>3
  <1> QED BY <1>2, <1>6, <1>8, <1>9 DEF DocumentTypeOK

\* Saves whose copy is dropped: whatever they write, the version moves on.
LEMMA BumpAndDropKeeps ==
    ASSUME CopyInv, NEW a \in Actors, NEW d,
           InUse(a) => d \in Document /\ d.status # "absent",
           doc' = [doc EXCEPT ![view[a].wf] = Bumped(d)],
           InUse(a) => d.ver = doc[view[a].wf].ver,
           view' = [view EXCEPT ![a] = NoView]
    PROVE  CopyInv'
  <1> USE DEF CopyInv
  <1> DEFINE w == view[a].wf
  <1>1. /\ doc' \in [Workflows -> Document]
        /\ \A v \in Workflows : v # w => doc'[v] = doc[v]
        /\ w \in Workflows => doc'[w] = Bumped(d)
    BY DocumentUpdates, WriteDoc DEF InUse
  <1>2. w \in Workflows => doc'[w].ver = doc[w].ver + 1 /\ doc'[w].status # "absent"
    BY <1>1, DocumentUpdates DEF InUse
  <1>3. view' \in [Actors -> View] /\ ~InUse(a)'
        /\ \A b \in Actors : b # a => view'[b] = view[b]
    BY NoViewType DEF DocumentTypeOK, InUse
  <1>4. CopiesExist'
    BY <1>1, <1>2, <1>3 DEF CopiesExist, InUse, Exists
  <1>5. /\ \A b \in Actors : view[b].ver \in Nat
        /\ \A v \in Workflows : doc[v].ver \in Nat
    BY Typed DEF View, Document
  <1>6. CopiesTrackDocument'
    BY <1>1, <1>2, <1>3, <1>5 DEF CopiesTrackDocument, InUse
  <1> QED BY <1>1, <1>3, <1>4, <1>6 DEF DocumentTypeOK

LEMMA AppendLogAndDropKeeps ==
    ASSUME CopyInv, NEW a \in Actors, AppendLogAndDrop(a)
    PROVE  CopyInv'
  <1>1. InUse(a) => doc[view[a].wf] \in Document /\ doc[view[a].wf].status # "absent"
    BY Typed DEF CopyInv, CopiesExist, InUse, Exists
  <1> QED BY <1>1, BumpAndDropKeeps DEF AppendLogAndDrop

\* A status marked on a document leaves its version alone.
LEMMA MarkedType ==
    ASSUME NEW v, NEW d \in Document, d.status # "absent", NEW st \in WorkflowStatus
    PROVE  /\ Marked(v, d, st) \in Document
           /\ Marked(v, d, st).ver = d.ver
           /\ Marked(v, d, st).status # "absent"
           /\ Marked(v, d, st).tasks = d.tasks
  <1>1. "absent" \notin WorkflowStatus
    BY DEF WorkflowStatus
  <1> QED BY <1>1, DocumentUpdates DEF Marked

\* Cancelling keeps the tasks well typed.
LEMMA CancelledType ==
    ASSUME NEW v, NEW tasks \in [Positions -> Task]
    PROVE  CancelledTasks(v, tasks) \in [Positions -> Task]
  BY DEF CancelledTasks, Task, TaskStatus

LEMMA CancelTasksKeeps ==
    ASSUME CopyInv, NEW a \in Actors, CancelTasks(a)
    PROVE  CopyInv'
  <1> DEFINE d == doc[view[a].wf]
             mid == WithTasks(d, CancelledTasks(view[a], d.tasks))
             new == Marked(view[a], mid, "cancelled")
  <1>1. ASSUME InUse(a)
        PROVE  new \in Document /\ new.status # "absent" /\ new.ver = d.ver
    <2>1. d \in Document /\ d.status # "absent" /\ d.tasks \in [Positions -> Task]
      BY <1>1, Typed DEF CopyInv, CopiesExist, InUse, Exists, Document
    <2>2. mid \in Document /\ mid.status # "absent" /\ mid.ver = d.ver
      BY <2>1, CancelledType, DocumentUpdates
    <2>3. "cancelled" \in WorkflowStatus
      BY DEF WorkflowStatus
    <2> QED BY <2>2, <2>3, MarkedType
  <1>2. doc' = [doc EXCEPT ![view[a].wf] = Bumped(new)] /\ view' = [view EXCEPT ![a] = NoView]
    BY DEF CancelTasks
  <1> HIDE DEF new
  <1> QED BY <1>1, <1>2, BumpAndDropKeeps

LEMMA MarkStatusKeeps ==
    ASSUME CopyInv, NEW a \in Actors, NEW st \in WorkflowStatus, MarkStatus(a, st)
    PROVE  CopyInv'
  <1> DEFINE d == doc[view[a].wf]
             new == Marked(view[a], d, st)
  <1>1. ASSUME InUse(a)
        PROVE  new \in Document /\ new.status # "absent" /\ new.ver = d.ver
    BY <1>1, Typed, MarkedType DEF CopyInv, CopiesExist, InUse, Exists
  <1>2. doc' = [doc EXCEPT ![view[a].wf] = Bumped(new)] /\ view' = [view EXCEPT ![a] = NoView]
    BY DEF MarkStatus
  <1> HIDE DEF new
  <1> QED BY <1>1, <1>2, BumpAndDropKeeps

\* startWorkflow's status save touches neither versions nor tasks.
LEMMA SaveStatusKeeps ==
    ASSUME CopyInv, NEW a \in Actors, NEW st \in WorkflowStatus, SaveStatus(a, st)
    PROVE  CopyInv'
  <1> USE DEF CopyInv
  <1> DEFINE w == view[a].wf
             newDoc == WithStatus(doc[w], st)
             new == WithStatus(view[a], st)
  <1>1. w \in Workflows =>
          /\ newDoc \in Document /\ newDoc.status # "absent"
          /\ newDoc.tasks = doc[w].tasks /\ newDoc.ver = doc[w].ver
    <2>1. "absent" \notin WorkflowStatus
      BY DEF WorkflowStatus
    <2> QED BY <2>1, Typed, DocumentUpdates
  <1>2. new \in View /\ new.wf = w /\ new.tasks = view[a].tasks
        /\ new.dirty = view[a].dirty /\ new.ver = view[a].ver
    BY Typed, ViewUpdates
  <1>3. doc' = [doc EXCEPT ![w] = newDoc] /\ view' = [view EXCEPT ![a] = new]
    BY DEF SaveStatus
  <1> HIDE DEF newDoc, new
  <1>4. /\ doc' \in [Workflows -> Document]
        /\ \A v \in Workflows : v # w => doc'[v] = doc[v]
        /\ w \in Workflows => doc'[w] = newDoc
    BY <1>1, <1>3, WriteDoc
  <1>5. view' \in [Actors -> View]
        /\ (\A b \in Actors : b # a => view'[b] = view[b]) /\ view'[a] = new
    BY <1>2, <1>3, WriteView
  <1>6. \A v \in Workflows : /\ doc'[v].tasks = doc[v].tasks
                             /\ doc'[v].ver = doc[v].ver
                             /\ doc[v].status # "absent" => doc'[v].status # "absent"
    BY <1>1, <1>4
  <1>7. \A b \in Actors : /\ view'[b].wf = view[b].wf
                          /\ view'[b].tasks = view[b].tasks
                          /\ view'[b].dirty = view[b].dirty
                          /\ view'[b].ver = view[b].ver
    BY <1>2, <1>5
  <1>8. CopiesExist'
    <2> SUFFICES ASSUME NEW b \in Actors, view'[b].wf \in Workflows
                 PROVE  doc'[view'[b].wf].status # "absent"
      BY DEF CopiesExist, InUse, Exists
    <2>1. view'[b].wf = view[b].wf /\ view[b].wf \in Workflows
      BY <1>7
    <2>2. doc[view[b].wf].status # "absent"
      BY <2>1 DEF CopiesExist, InUse, Exists
    <2>3. doc'[view[b].wf].status # "absent"
      BY <1>6, <2>1, <2>2
    <2> QED BY <2>1, <2>3
  <1>9. CopiesTrackDocument'
    <2> SUFFICES ASSUME NEW b \in Actors, view'[b].wf \in Workflows
                 PROVE  LET d == doc'[view'[b].wf] IN
                        /\ view'[b].ver =< d.ver
                        /\ view'[b].ver = d.ver =>
                              /\ ~view'[b].dirty
                              /\ \A q \in Positions :
                                    \/ view'[b].tasks[q] = d.tasks[q]
                                    \/ d.tasks[q].status = "pending"
      BY DEF CopiesTrackDocument, InUse
    <2> DEFINE u == view[b].wf
    <2>1. view'[b].wf = u /\ u \in Workflows
      BY <1>7
    <2>2. doc'[u].tasks = doc[u].tasks /\ doc'[u].ver = doc[u].ver
      BY <1>6, <2>1
    <2>3. /\ view'[b].tasks = view[b].tasks
          /\ view'[b].dirty = view[b].dirty
          /\ view'[b].ver = view[b].ver
      BY <1>7
    <2>4. /\ view[b].ver =< doc[u].ver
          /\ view[b].ver = doc[u].ver =>
                /\ ~view[b].dirty
                /\ \A q \in Positions : \/ view[b].tasks[q] = doc[u].tasks[q]
                                        \/ doc[u].tasks[q].status = "pending"
      BY <2>1 DEF CopiesTrackDocument, InUse
    <2> HIDE DEF CopyInv, u
    <2> QED BY <2>1, <2>2, <2>3, <2>4
  <1> QED BY <1>4, <1>5, <1>8, <1>9 DEF DocumentTypeOK

\* updateTask: the writer's copy becomes the document, all others fall behind.
LEMMA SaveTasksKeeps ==
    ASSUME CopyInv, NEW a \in Actors, NEW p \in Positions, NEW t \in Task, SaveTasks(a, p, t)
    PROVE  CopyInv'
  <1> USE DEF CopyInv
  <1> DEFINE w == view[a].wf
             tasks == [view[a].tasks EXCEPT ![p] = t]
             mid == WithTasks(doc[w], tasks)
             new == WithDirty(Bumped(WithTasks(view[a], tasks)), FALSE)
  <1>1. tasks \in [Positions -> Task]
    BY Typed DEF View
  <1> HIDE DEF tasks
  <1>2. w \in Workflows => mid \in Document /\ mid.tasks = tasks
                            /\ mid.ver = doc[w].ver /\ mid.status = doc[w].status
    BY <1>1, Typed, DocumentUpdates
  <1>3. new \in View /\ new.wf = w /\ new.tasks = tasks
        /\ new.dirty = FALSE /\ new.ver = view[a].ver + 1
    <2>1. view[a] \in View
      BY Typed
    <2>2. WithTasks(view[a], tasks) \in View /\ WithTasks(view[a], tasks).wf = w
          /\ WithTasks(view[a], tasks).ver = view[a].ver
          /\ WithTasks(view[a], tasks).tasks = tasks
      BY <1>1, <2>1, ViewUpdates
    <2> DEFINE mine == Bumped(WithTasks(view[a], tasks))
    <2>3. mine \in View /\ mine.wf = w /\ mine.tasks = tasks /\ mine.ver = view[a].ver + 1
      BY <2>2, ViewUpdates
    <2> HIDE DEF mine
    <2>4. /\ WithDirty(mine, FALSE) \in View /\ WithDirty(mine, FALSE).wf = w
          /\ WithDirty(mine, FALSE).tasks = tasks
          /\ WithDirty(mine, FALSE).dirty = FALSE
          /\ WithDirty(mine, FALSE).ver = view[a].ver + 1
      BY <2>3, DirtyUpdates
    <2> QED BY <2>4 DEF mine
  <1>4. /\ doc' = [doc EXCEPT ![w] = Bumped(mid)] /\ view' = [view EXCEPT ![a] = new]
        /\ view[a].ver = doc[w].ver
    BY DEF SaveTasks, Fresh, tasks
  <1> HIDE DEF mid, new
  <1>5. /\ doc' \in [Workflows -> Document]
        /\ \A v \in Workflows : v # w => doc'[v] = doc[v]
        /\ w \in Workflows => doc'[w] = Bumped(mid)
    BY <1>2, <1>4, WriteDoc, DocumentUpdates
  <1>6. w \in Workflows => /\ doc'[w].tasks = tasks /\ doc'[w].ver = doc[w].ver + 1
                           /\ doc'[w].status = doc[w].status
    BY <1>2, <1>5, DocumentUpdates
  <1>7. view' \in [Actors -> View]
        /\ (\A b \in Actors : b # a => view'[b] = view[b]) /\ view'[a] = new
    BY <1>3, <1>4, WriteView
  <1>8. CopiesExist'
    BY <1>3, <1>5, <1>6, <1>7 DEF CopiesExist, InUse, Exists
  <1>9. /\ \A b \in Actors : view[b].ver \in Nat
        /\ \A v \in Workflows : doc[v].ver \in Nat
    BY Typed DEF View, Document
  <1>10. CopiesTrackDocument'
    <2> SUFFICES ASSUME NEW b \in Actors, view'[b].wf \in Workflows
                 PROVE  LET d == doc'[view'[b].wf] IN
                        /\ view'[b].ver =< d.ver
                        /\ view'[b].ver = d.ver =>
                              /\ ~view'[b].dirty
                              /\ \A q \in Positions :
                                    \/ view'[b].tasks[q] = d.tasks[q]
                                    \/ d.tasks[q].status = "pending"
      BY DEF CopiesTrackDocument, InUse
    <2>1. CASE b = a
      BY <2>1, <1>3, <1>4, <1>6, <1>7, <1>9
    <2>2. CASE b # a /\ view[b].wf = w
      <3>1. view[b].ver =< doc[w].ver /\ doc'[w].ver = doc[w].ver + 1
        BY <2>2, <1>6, <1>7 DEF CopiesTrackDocument, InUse
      <3> QED BY <2>2, <3>1, <1>7, <1>9
    <2>3. CASE b # a /\ view[b].wf # w
      BY <2>3, <1>5, <1>7 DEF CopiesTrackDocument, InUse
    <2> QED BY <2>1, <2>2, <2>3
  <1> QED BY <1>5, <1>7, <1>8, <1>10 DEF DocumentTypeOK

\* A failed updateTask: the copy was, and stays, behind its document.
LEMMA SpoilCopyKeeps ==
    ASSUME CopyInv, NEW a \in Actors, NEW p \in Positions, NEW t \in Task, SpoilCopy(a, p, t)
    PROVE  CopyInv'
  <1> USE DEF CopyInv
  <1> DEFINE tasks == [view[a].tasks EXCEPT ![p] = t]
             new == WithDirty(WithTasks(view[a], tasks), TRUE)
  <1>0. tasks \in [Positions -> Task]
    BY Typed DEF View
  <1> HIDE DEF tasks
  <1>1. new \in View /\ new.wf = view[a].wf /\ new.ver = view[a].ver
    <2>1. view[a] \in View
      BY Typed
    <2>2. WithTasks(view[a], tasks) \in View
          /\ WithTasks(view[a], tasks).wf = view[a].wf
          /\ WithTasks(view[a], tasks).ver = view[a].ver
      BY <1>0, <2>1, ViewUpdates
    <2> QED BY <2>2, DirtyUpdates
  <1>2. /\ view' = [view EXCEPT ![a] = new] /\ doc' = doc
        /\ view[a].ver # doc[view[a].wf].ver
    BY DEF SpoilCopy, Fresh, tasks
  <1> HIDE DEF new
  <1>3. view' \in [Actors -> View]
        /\ (\A b \in Actors : b # a => view'[b] = view[b]) /\ view'[a] = new
    BY <1>1, <1>2, WriteView
  <1>4. CopiesExist'
    BY <1>1, <1>2, <1>3 DEF CopiesExist, InUse, Exists
  <1>5. CopiesTrackDocument'
    BY <1>1, <1>2, <1>3 DEF CopiesTrackDocument, InUse
  <1> QED BY <1>2, <1>3, <1>4, <1>5 DEF DocumentTypeOK

\* A retry's reset leaves the version: every copy at it sees a pending task.
LEMMA ResetTaskKeeps ==
    ASSUME CopyInv, NEW a \in Actors, NEW p \in Positions, ResetTask(a, p)
    PROVE  CopyInv'
  <1> USE DEF CopyInv
  <1> DEFINE w == view[a].wf
             t == [status |-> "pending", attempts |-> view[a].tasks[p].attempts + 1,
                   started |-> FALSE]
             newDoc == [doc[w] EXCEPT !.tasks = [@ EXCEPT ![p] = t]]
             new == [view[a] EXCEPT !.tasks = [@ EXCEPT ![p] = t]]
  <1>1. t \in Task /\ t.status = "pending"
    <2>1. view[a].tasks[p] \in Task
      BY Typed DEF View
    <2> QED BY <2>1 DEF Task, TaskStatus
  <1> HIDE DEF t
  <1>2. w \in Workflows => /\ newDoc \in Document /\ newDoc.ver = doc[w].ver
                           /\ newDoc.status = doc[w].status
                           /\ newDoc.tasks = [doc[w].tasks EXCEPT ![p] = t]
                           /\ doc[w].tasks \in [Positions -> Task]
    BY <1>1, Typed DEF Document
  <1>3. /\ new \in View /\ new.wf = w /\ new.ver = view[a].ver
        /\ new.dirty = view[a].dirty
        /\ new.tasks = [view[a].tasks EXCEPT ![p] = t]
        /\ view[a].tasks \in [Positions -> Task]
    BY <1>1, Typed DEF View
  <1>4. doc' = [doc EXCEPT ![w] = newDoc] /\ view' = [view EXCEPT ![a] = new]
    BY DEF ResetTask, t
  <1> HIDE DEF newDoc, new
  <1>5. /\ doc' \in [Workflows -> Document]
        /\ \A v \in Workflows : v # w => doc'[v] = doc[v]
        /\ w \in Workflows => doc'[w] = newDoc
    BY <1>2, <1>4, WriteDoc
  <1>6. view' \in [Actors -> View]
        /\ (\A b \in Actors : b # a => view'[b] = view[b]) /\ view'[a] = new
    BY <1>3, <1>4, WriteView
  <1>7. CopiesExist'
    BY <1>2, <1>3, <1>5, <1>6 DEF CopiesExist, InUse, Exists
  <1>8. CopiesTrackDocument'
    <2> SUFFICES ASSUME NEW b \in Actors, view'[b].wf \in Workflows
                 PROVE  LET d == doc'[view'[b].wf] IN
                        /\ view'[b].ver =< d.ver
                        /\ view'[b].ver = d.ver =>
                              /\ ~view'[b].dirty
                              /\ \A q \in Positions :
                                    \/ view'[b].tasks[q] = d.tasks[q]
                                    \/ d.tasks[q].status = "pending"
      BY DEF CopiesTrackDocument, InUse
    <2>1. CASE b = a
      BY <2>1, <1>1, <1>2, <1>3, <1>5, <1>6 DEF CopiesTrackDocument, InUse
    <2>2. CASE b # a /\ view[b].wf = w
      BY <2>2, <1>1, <1>2, <1>5, <1>6 DEF CopiesTrackDocument, InUse
    <2>3. CASE b # a /\ view[b].wf # w
      BY <2>3, <1>5, <1>6 DEF CopiesTrackDocument, InUse
    <2> QED BY <2>1, <2>2, <2>3
  <1> QED BY <1>5, <1>6, <1>7, <1>8 DEF DocumentTypeOK

-----------------------------------------------------------------------------
(* What each read and save does to statuses and tasks                      *)

LEMMA CreateEffect ==
    ASSUME DocumentTypeOK, NEW a \in Actors, NEW w \in Workflows, CreateDocument(a, w)
    PROVE  /\ \A v \in Workflows : doc'[v].tasks = doc[v].tasks
           /\ \A v \in Workflows : v # w => doc'[v].status = doc[v].status
           /\ doc'[w].status = "pending"
           /\ view'[a].wf = w /\ view'[a].status = "pending"
           /\ view'[a].tasks = doc[w].tasks
           /\ \A b \in Actors : b # a => view'[b] = view[b]
  <1>1. doc[w] \in Document
    BY Typed
  <1> DEFINE d == WithStatus(doc[w], "pending")
             new == [wf |-> w, status |-> "pending", tasks |-> doc[w].tasks,
                     ver |-> doc[w].ver, dirty |-> FALSE]
  <1>2. d.tasks = doc[w].tasks /\ d.status = "pending"
    BY <1>1 DEF Document, WithStatus
  <1>3. new.wf = w /\ new.status = "pending" /\ new.tasks = doc[w].tasks
    OBVIOUS
  <1>4. doc' = [doc EXCEPT ![w] = d] /\ view' = [view EXCEPT ![a] = new]
    BY DEF CreateDocument
  <1> HIDE DEF d, new
  <1> QED BY <1>2, <1>3, <1>4 DEF DocumentTypeOK

LEMMA LoadEffect ==
    ASSUME DocumentTypeOK, NEW a \in Actors, NEW w \in Workflows, Load(a, w)
    PROVE  /\ doc' = doc /\ doc[w].status # "absent"
           /\ view'[a].wf = w /\ view'[a].status = doc[w].status
           /\ view'[a].tasks = doc[w].tasks
           /\ \A b \in Actors : b # a => view'[b] = view[b]
  BY DEF DocumentTypeOK, Load, Exists

LEMMA DropEffect ==
    ASSUME DocumentTypeOK, NEW a \in Actors, Drop(a)
    PROVE  /\ doc' = doc /\ view'[a] = NoView
           /\ \A b \in Actors : b # a => view'[b] = view[b]
  BY DEF DocumentTypeOK, Drop

\* A push to the log shows nothing of tasks or status.
LEMMA AppendLogEffect ==
    ASSUME DocumentTypeOK, NEW a \in Actors, AppendLog(a)
    PROVE  /\ \A v \in Workflows : doc'[v].tasks = doc[v].tasks /\ doc'[v].status = doc[v].status
           /\ \A b \in Actors : view'[b].wf = view[b].wf /\ view'[b].tasks = view[b].tasks
  <1> DEFINE w == view[a].wf
             new == Bumped(view[a])
  <1>1. w \in Workflows => /\ Bumped(doc[w]) \in Document
                           /\ Bumped(doc[w]).tasks = doc[w].tasks
                           /\ Bumped(doc[w]).status = doc[w].status
    BY Typed, DocumentUpdates
  <1>2. /\ \A v \in Workflows : v # w => doc'[v] = doc[v]
        /\ w \in Workflows => doc'[w] = Bumped(doc[w])
    BY <1>1, WriteDoc DEF AppendLog
  <1>3. new \in View /\ new.wf = w /\ new.tasks = view[a].tasks
    BY Typed, ViewUpdates
  <1>4. view' = [view EXCEPT ![a] = new]
    BY DEF AppendLog
  <1> HIDE DEF new
  <1>5. (\A b \in Actors : b # a => view'[b] = view[b]) /\ view'[a] = new
    BY <1>3, <1>4, WriteView
  <1> QED BY <1>1, <1>2, <1>3, <1>5

LEMMA AppendLogAndDropEffect ==
    ASSUME DocumentTypeOK, NEW a \in Actors, AppendLogAndDrop(a)
    PROVE  /\ \A v \in Workflows : doc'[v].tasks = doc[v].tasks /\ doc'[v].status = doc[v].status
           /\ view'[a] = NoView
           /\ \A b \in Actors : b # a => view'[b] = view[b]
  <1> DEFINE w == view[a].wf
  <1>1. w \in Workflows => /\ Bumped(doc[w]) \in Document
                           /\ Bumped(doc[w]).tasks = doc[w].tasks
                           /\ Bumped(doc[w]).status = doc[w].status
    BY Typed, DocumentUpdates
  <1>2. /\ \A v \in Workflows : v # w => doc'[v] = doc[v]
        /\ w \in Workflows => doc'[w] = Bumped(doc[w])
    BY <1>1, WriteDoc DEF AppendLogAndDrop
  <1>3. view'[a] = NoView /\ \A b \in Actors : b # a => view'[b] = view[b]
    BY DEF AppendLogAndDrop, DocumentTypeOK
  <1> QED BY <1>1, <1>2, <1>3

\* startWorkflow's status save.
LEMMA SaveStatusEffect ==
    ASSUME DocumentTypeOK, NEW a \in Actors, NEW st \in WorkflowStatus, SaveStatus(a, st)
    PROVE  /\ \A v \in Workflows : doc'[v].tasks = doc[v].tasks
           /\ \A v \in Workflows : v # view[a].wf => doc'[v].status = doc[v].status
           /\ \A b \in Actors : view'[b].wf = view[b].wf /\ view'[b].tasks = view[b].tasks
  <1> DEFINE w == view[a].wf
             new == WithStatus(view[a], st)
  <1>1. w \in Workflows => /\ WithStatus(doc[w], st) \in Document
                           /\ WithStatus(doc[w], st).tasks = doc[w].tasks
    BY Typed, DocumentUpdates
  <1>2. /\ \A v \in Workflows : v # w => doc'[v] = doc[v]
        /\ w \in Workflows => doc'[w] = WithStatus(doc[w], st)
    BY <1>1, WriteDoc DEF SaveStatus
  <1>3. new \in View /\ new.wf = w /\ new.tasks = view[a].tasks
    BY Typed, ViewUpdates
  <1>4. view' = [view EXCEPT ![a] = new]
    BY DEF SaveStatus
  <1> HIDE DEF new
  <1>5. (\A b \in Actors : b # a => view'[b] = view[b]) /\ view'[a] = new
    BY <1>3, <1>4, WriteView
  <1> QED BY <1>1, <1>2, <1>3, <1>5

\* updateTask: document and copy get the copy's array with one task changed.
LEMMA SaveTasksEffect ==
    ASSUME DocumentTypeOK, NEW a \in Actors, NEW p \in Positions, NEW t \in Task,
           SaveTasks(a, p, t)
    PROVE  /\ \A v \in Workflows :
                 /\ doc'[v].status = doc[v].status
                 /\ doc'[v].tasks = IF v = view[a].wf THEN [view[a].tasks EXCEPT ![p] = t]
                                    ELSE doc[v].tasks
           /\ view'[a].wf = view[a].wf /\ view'[a].tasks = [view[a].tasks EXCEPT ![p] = t]
           /\ \A b \in Actors : b # a => view'[b] = view[b]
  <1> DEFINE w == view[a].wf
             tasks == [view[a].tasks EXCEPT ![p] = t]
             mid == WithTasks(doc[w], tasks)
             mine == WithTasks(view[a], tasks)
             new == WithDirty(Bumped(mine), FALSE)
  <1>1. tasks \in [Positions -> Task]
    BY Typed DEF View
  <1>2. doc' = [doc EXCEPT ![w] = Bumped(mid)] /\ view' = [view EXCEPT ![a] = new]
    BY DEF SaveTasks
  <1> HIDE DEF tasks
  <1>3. w \in Workflows => mid \in Document /\ mid.tasks = tasks /\ mid.status = doc[w].status
    BY <1>1, Typed, DocumentUpdates
  <1> HIDE DEF mid
  <1>4. w \in Workflows => /\ Bumped(mid) \in Document /\ Bumped(mid).tasks = tasks
                           /\ Bumped(mid).status = doc[w].status
    BY <1>3, DocumentUpdates
  <1>5. mine \in View /\ mine.wf = w /\ mine.tasks = tasks
    BY <1>1, Typed, ViewUpdates
  <1> HIDE DEF mine
  <1>6. Bumped(mine) \in View /\ Bumped(mine).wf = w /\ Bumped(mine).tasks = tasks
    BY <1>5, ViewUpdates
  <1>7. new \in View /\ new.wf = w /\ new.tasks = tasks
    BY <1>6, DirtyUpdates
  <1> HIDE DEF new
  <1>8. /\ \A v \in Workflows : v # w => doc'[v] = doc[v]
        /\ w \in Workflows => doc'[w] = Bumped(mid)
    BY <1>2, <1>4, WriteDoc
  <1>9. (\A b \in Actors : b # a => view'[b] = view[b]) /\ view'[a] = new
    BY <1>2, <1>7, WriteView
  <1> QED BY <1>4, <1>7, <1>8, <1>9 DEF tasks

\* A failed updateTask changes the copy alone.
LEMMA SpoilCopyEffect ==
    ASSUME DocumentTypeOK, NEW a \in Actors, NEW p \in Positions, NEW t \in Task,
           SpoilCopy(a, p, t)
    PROVE  /\ doc' = doc
           /\ view'[a].wf = view[a].wf /\ view'[a].tasks = [view[a].tasks EXCEPT ![p] = t]
           /\ \A b \in Actors : b # a => view'[b] = view[b]
  <1> DEFINE tasks == [view[a].tasks EXCEPT ![p] = t]
             mine == WithTasks(view[a], tasks)
             new == WithDirty(mine, TRUE)
  <1>1. tasks \in [Positions -> Task]
    BY Typed DEF View
  <1>2. doc' = doc /\ view' = [view EXCEPT ![a] = new]
    BY DEF SpoilCopy
  <1> HIDE DEF tasks
  <1>3. mine \in View /\ mine.wf = view[a].wf /\ mine.tasks = tasks
    BY <1>1, Typed, ViewUpdates
  <1> HIDE DEF mine
  <1>4. new \in View /\ new.wf = view[a].wf /\ new.tasks = tasks
    BY <1>3, DirtyUpdates
  <1> HIDE DEF new
  <1>5. (\A b \in Actors : b # a => view'[b] = view[b]) /\ view'[a] = new
    BY <1>2, <1>4, WriteView
  <1> QED BY <1>2, <1>4, <1>5 DEF tasks

\* A retry's reset makes one task of document and copy pending.
LEMMA ResetTaskEffect ==
    ASSUME DocumentTypeOK, NEW a \in Actors, NEW p \in Positions, ResetTask(a, p)
    PROVE  /\ \A v \in Workflows :
                 /\ doc'[v].status = doc[v].status
                 /\ \A q \in Positions :
                       IF v = view[a].wf /\ q = p THEN doc'[v].tasks[q].status = "pending"
                       ELSE doc'[v].tasks[q] = doc[v].tasks[q]
           /\ view'[a].wf = view[a].wf
           /\ \A q \in Positions : IF q = p THEN view'[a].tasks[q].status = "pending"
                                   ELSE view'[a].tasks[q] = view[a].tasks[q]
           /\ \A b \in Actors : b # a => view'[b] = view[b]
  <1> DEFINE w == view[a].wf
             t == [status |-> "pending", attempts |-> view[a].tasks[p].attempts + 1,
                   started |-> FALSE]
             newDoc == [doc[w] EXCEPT !.tasks = [@ EXCEPT ![p] = t]]
             new == [view[a] EXCEPT !.tasks = [@ EXCEPT ![p] = t]]
  <1>1. doc' = [doc EXCEPT ![w] = newDoc] /\ view' = [view EXCEPT ![a] = new]
    BY DEF ResetTask
  <1>2. t.status = "pending"
    OBVIOUS
  <1> HIDE DEF t
  <1>3. w \in Workflows => /\ newDoc.status = doc[w].status
                           /\ newDoc.tasks = [doc[w].tasks EXCEPT ![p] = t]
                           /\ doc[w].tasks \in [Positions -> Task]
    BY Typed DEF Document
  <1>4. /\ new.wf = w /\ new.tasks = [view[a].tasks EXCEPT ![p] = t]
        /\ view[a].tasks \in [Positions -> Task]
    BY Typed DEF View
  <1> HIDE DEF newDoc, new
  <1>5. /\ \A v \in Workflows : v # w => doc'[v] = doc[v]
        /\ w \in Workflows => doc'[w] = newDoc
    BY <1>1 DEF DocumentTypeOK
  <1>6. (\A b \in Actors : b # a => view'[b] = view[b]) /\ view'[a] = new
    BY <1>1 DEF DocumentTypeOK
  <1> QED BY <1>2, <1>3, <1>4, <1>5, <1>6

\* cancelWorkflow cancels what its copy shows unfinished.
LEMMA CancelTasksEffect ==
    ASSUME DocumentTypeOK, NEW a \in Actors, CancelTasks(a)
    PROVE  /\ \A v \in Workflows, q \in Positions :
                 IF v = view[a].wf /\ view[a].tasks[q].status \in {"pending", "running"}
                 THEN doc'[v].tasks[q].status = "cancelled"
                 ELSE doc'[v].tasks[q] = doc[v].tasks[q]
           /\ \A v \in Workflows : \/ doc'[v].status = doc[v].status
                                   \/ doc'[v].status = "cancelled"
           /\ view'[a] = NoView
           /\ \A b \in Actors : b # a => view'[b] = view[b]
  <1> DEFINE w == view[a].wf
             tasks == CancelledTasks(view[a], doc[w].tasks)
             mid == WithTasks(doc[w], tasks)
             new == Marked(view[a], mid, "cancelled")
  <1>1. doc' = [doc EXCEPT ![w] = Bumped(new)] /\ view' = [view EXCEPT ![a] = NoView]
    BY DEF CancelTasks
  <1>2. ASSUME w \in Workflows
        PROVE  /\ Bumped(new).tasks = tasks
               /\ Bumped(new).status \in {doc[w].status, "cancelled"}
    <2>1. doc[w] \in Document /\ doc[w].tasks \in [Positions -> Task]
      BY <1>2, Typed DEF Document
    <2>2. tasks \in [Positions -> Task]
      BY <2>1, CancelledType
    <2> HIDE DEF tasks
    <2>3. mid \in Document /\ mid.tasks = tasks /\ mid.status = doc[w].status
      BY <2>1, <2>2, DocumentUpdates
    <2> HIDE DEF mid
    <2>4. "cancelled" \in WorkflowStatus
      BY DEF WorkflowStatus
    <2>5. new \in Document /\ new.tasks = tasks /\ new.status \in {doc[w].status, "cancelled"}
      BY <2>3, <2>4, DocumentUpdates DEF Marked
    <2> HIDE DEF new
    <2> QED BY <2>5, DocumentUpdates
  <1>3. \A q \in Positions : w \in Workflows =>
            IF view[a].tasks[q].status \in {"pending", "running"}
            THEN tasks[q].status = "cancelled" ELSE tasks[q] = doc[w].tasks[q]
    <2> SUFFICES ASSUME NEW q \in Positions, w \in Workflows
                 PROVE  IF view[a].tasks[q].status \in {"pending", "running"}
                        THEN tasks[q].status = "cancelled" ELSE tasks[q] = doc[w].tasks[q]
      OBVIOUS
    <2>1. doc[w].tasks[q] \in Task
      BY Typed DEF Document
    <2> QED BY <2>1 DEF CancelledTasks, Task
  <1> HIDE DEF tasks, new
  <1>4. /\ \A v \in Workflows : v # w => doc'[v] = doc[v]
        /\ w \in Workflows => doc'[w] = Bumped(new)
    BY <1>1 DEF DocumentTypeOK
  <1>5. view'[a] = NoView /\ \A b \in Actors : b # a => view'[b] = view[b]
    BY <1>1 DEF DocumentTypeOK
  <1> QED BY <1>2, <1>3, <1>4, <1>5

\* markCompleted and markFailed.
LEMMA MarkStatusEffect ==
    ASSUME DocumentTypeOK, NEW a \in Actors, NEW st \in WorkflowStatus, MarkStatus(a, st)
    PROVE  /\ \A v \in Workflows :
                 /\ doc'[v].tasks = doc[v].tasks
                 /\ doc'[v].status \in {doc[v].status, st}
           /\ view'[a] = NoView
           /\ \A b \in Actors : b # a => view'[b] = view[b]
  <1> DEFINE w == view[a].wf
             new == Marked(view[a], doc[w], st)
  <1>1. doc' = [doc EXCEPT ![w] = Bumped(new)] /\ view' = [view EXCEPT ![a] = NoView]
    BY DEF MarkStatus
  <1>2. ASSUME w \in Workflows
        PROVE  Bumped(new).tasks = doc[w].tasks /\ Bumped(new).status \in {doc[w].status, st}
    <2>1. new \in Document /\ new.tasks = doc[w].tasks /\ new.status \in {doc[w].status, st}
      BY <1>2, Typed, DocumentUpdates DEF Marked
    <2> HIDE DEF new
    <2> QED BY <2>1, DocumentUpdates
  <1> HIDE DEF new
  <1>3. /\ \A v \in Workflows : v # w => doc'[v] = doc[v]
        /\ w \in Workflows => doc'[w] = Bumped(new)
    BY <1>1 DEF DocumentTypeOK
  <1>4. view'[a] = NoView /\ \A b \in Actors : b # a => view'[b] = view[b]
    BY <1>1 DEF DocumentTypeOK
  <1> QED BY <1>2, <1>3, <1>4
=============================================================================
