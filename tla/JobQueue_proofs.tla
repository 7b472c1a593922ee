-------------------------- MODULE JobQueue_proofs --------------------------
(* What each queue operation keeps true of the stored jobs.                *)
EXTENDS JobQueue, FiniteSetTheorems, SequenceTheorems, TLAPS

\* A stored job is for a workflow, or for none: never for the "no one" that
\* marks an empty place.
JobsSourced == \A id \in TaskIds : Stored(id) => job[id].source \in Sources

\* An id the queue does not store counts no attempts and no stalls.
AbsentUntried == \A id \in TaskIds : ~Stored(id) => job[id].made = 0 /\ job[id].stalls = 0

QueueInv == QueueTypeOK /\ JobsSourced /\ AbsentUntried /\ JobsAccounted

Live == {"waiting", "delayed", "active"}

LEMMA NoJobType == NoJob \in Job
  BY DEF NoJob, Job, JobState

\* A job that is not completed, before and after, changes within its limits.
LEMMA ChangeKeeps ==
    ASSUME QueueInv, NEW id \in TaskIds,
           job' \in [TaskIds -> Job], kept' = kept,
           \A i \in TaskIds : i # id => job'[i] = job[i],
           job[id].state # "completed", job'[id].state # "completed",
           job'[id].state \in Live =>
               job'[id].made < MaxAttempts /\ job'[id].stalls =< MaxStalled,
           job'[id].state \notin {"none", "gone"}, job'[id].source \in Sources
    PROVE  QueueInv'
  <1> USE DEF QueueInv
  <1>1. QueueTypeOK'
    BY DEF QueueTypeOK
  <1>2. JobsSourced' /\ AbsentUntried'
    BY DEF JobsSourced, AbsentUntried, Stored
  <1>3. kept \in Seq(TaskIds) /\ \A i \in 1..Len(kept) : kept[i] \in TaskIds
    BY DEF QueueTypeOK
  <1>4. \A i \in TaskIds : job'[i].state \in Live =>
            job'[i].made < MaxAttempts /\ job'[i].stalls =< MaxStalled
    BY DEF JobsAccounted, Live
  <1>5. \A i \in 1..Len(kept) : job'[kept[i]].state = "completed"
    BY <1>3 DEF JobsAccounted
  <1>6. \A i \in TaskIds : job'[i].state = "completed" => \E k \in 1..Len(kept) : kept[k] = i
    BY DEF JobsAccounted
  <1>7. JobsAccounted'
    BY <1>4, <1>5, <1>6 DEF JobsAccounted, Live
  <1> QED BY <1>1, <1>2, <1>7

LEMMA AddKeeps ==
    ASSUME QueueInv, NEW id \in TaskIds, NEW src \in Sources, Add(id, src)
    PROVE  QueueInv'
  <1>1. CASE Stored(id)
    <2>1. job' = job /\ kept' = kept
      BY <1>1 DEF Add
    <2> QED BY <2>1 DEF QueueInv, QueueTypeOK, JobsSourced, AbsentUntried, Stored, JobsAccounted
  <1>2. CASE ~Stored(id)
    <2> DEFINE new == [NoJob EXCEPT !.state = "waiting", !.source = src]
    <2>1. new \in Job /\ new.state = "waiting" /\ new.made = 0 /\ new.stalls = 0
          /\ new.source = src
      BY DEF NoJob, Job, JobState
    <2>2. job' = [job EXCEPT ![id] = new] /\ kept' = kept
      BY <1>2 DEF Add
    <2> HIDE DEF new
    <2>3. job' \in [TaskIds -> Job] /\ job'[id] = new
          /\ \A i \in TaskIds : i # id => job'[i] = job[i]
      BY <2>1, <2>2 DEF QueueInv, QueueTypeOK
    <2>4. job[id].state # "completed"
      BY <1>2 DEF Stored
    <2>5. 0 < MaxAttempts /\ 0 =< MaxStalled
      BY QueueAssumption
    <2> QED BY <2>1, <2>2, <2>3, <2>4, <2>5, ChangeKeeps
  <1> QED BY <1>1, <1>2

LEMMA TakeKeeps ==
    ASSUME QueueInv, NEW s \in Slots, NEW id \in TaskIds, Take(s, id)
    PROVE  QueueInv'
  <1>1. job[id] \in Job /\ job[id].state = "waiting"
    BY DEF QueueInv, QueueTypeOK, Take
  <1>0. QueueTypeOK
    BY DEF QueueInv
  <1>2. /\ job' \in [TaskIds -> Job] /\ kept' = kept
        /\ \A i \in TaskIds : i # id => job'[i] = job[i]
        /\ job'[id].state = "active" /\ job'[id].made = job[id].made
        /\ job'[id].stalls = job[id].stalls /\ job'[id].source = job[id].source
    BY <1>0 DEF QueueTypeOK, Take, Job, JobState
  <1>3. /\ job[id].made < MaxAttempts /\ job[id].stalls =< MaxStalled
        /\ job[id].source \in Sources
    BY <1>1 DEF QueueInv, JobsAccounted, JobsSourced, Stored
  <1> QED BY <1>1, <1>2, <1>3, ChangeKeeps

LEMMA PromoteKeeps ==
    ASSUME QueueInv, NEW id \in TaskIds, Promote(id)
    PROVE  QueueInv'
  <1>1. job[id] \in Job /\ job[id].state = "delayed"
    BY DEF QueueInv, QueueTypeOK, Promote
  <1>0. QueueTypeOK
    BY DEF QueueInv
  <1>2. /\ job' \in [TaskIds -> Job] /\ kept' = kept
        /\ \A i \in TaskIds : i # id => job'[i] = job[i]
        /\ job'[id].state = "waiting" /\ job'[id].made = job[id].made
        /\ job'[id].stalls = job[id].stalls /\ job'[id].source = job[id].source
    BY <1>0 DEF QueueTypeOK, Promote, Job, JobState
  <1>3. /\ job[id].made < MaxAttempts /\ job[id].stalls =< MaxStalled
        /\ job[id].source \in Sources
    BY <1>1 DEF QueueInv, JobsAccounted, JobsSourced, Stored
  <1> QED BY <1>1, <1>2, <1>3, ChangeKeeps

LEMMA FailKeeps ==
    ASSUME QueueInv, NEW s \in Slots, NEW id \in TaskIds, Fail(s, id)
    PROVE  QueueInv'
  <1>1. job[id] \in Job /\ job[id].state = "active" /\ job[id].made \in Nat
    BY DEF QueueInv, QueueTypeOK, Fail, Holds, Job
  <1>0. QueueTypeOK
    BY DEF QueueInv
  <1>2. /\ job' \in [TaskIds -> Job] /\ kept' = kept
        /\ \A i \in TaskIds : i # id => job'[i] = job[i]
        /\ job'[id].state = IF job[id].made + 1 < MaxAttempts THEN "delayed" ELSE "failed"
        /\ job'[id].made = job[id].made + 1
        /\ job'[id].stalls = job[id].stalls /\ job'[id].source = job[id].source
    BY <1>0, <1>1 DEF QueueTypeOK, Fail, Job, JobState
  <1>3. job[id].stalls =< MaxStalled /\ job[id].source \in Sources
    BY <1>1 DEF QueueInv, JobsAccounted, JobsSourced, Stored
  <1> QED BY <1>1, <1>2, <1>3, ChangeKeeps DEF Live

\* What a stall makes of the job.
LEMMA StallChanges ==
    ASSUME QueueInv, NEW id \in TaskIds, Stall(id)
    PROVE  /\ job' \in [TaskIds -> Job] /\ kept' = kept
           /\ \A i \in TaskIds : i # id => job'[i] = job[i]
           /\ job'[id].state = IF job[id].stalls + 1 > MaxStalled THEN "failed" ELSE "waiting"
           /\ job'[id].made = job[id].made
           /\ job'[id].stalls = job[id].stalls + 1
           /\ job'[id].source = job[id].source
  <1> DEFINE st  == IF job[id].stalls + 1 > MaxStalled THEN "failed" ELSE "waiting"
             n   == job[id].stalls + 1
             new == [job[id] EXCEPT !.stalls = n, !.holder = Nobody, !.state = st]
  <1>1. job[id] \in Job /\ n \in Nat /\ st \in JobState
    BY DEF QueueInv, QueueTypeOK, Job, JobState
  <1>2. job' = [job EXCEPT ![id] = new] /\ kept' = kept
    BY DEF Stall
  <1> HIDE DEF st, n
  <1>3. /\ new \in Job /\ new.state = st /\ new.made = job[id].made
        /\ new.stalls = n /\ new.source = job[id].source
    BY <1>1 DEF Job
  <1> HIDE DEF new
  <1>4. /\ job' \in [TaskIds -> Job] /\ job'[id] = new
        /\ \A i \in TaskIds : i # id => job'[i] = job[i]
    BY <1>2, <1>3 DEF QueueInv, QueueTypeOK
  <1> QED BY <1>2, <1>3, <1>4 DEF st, n

LEMMA StallKeeps ==
    ASSUME QueueInv, NEW id \in TaskIds, Stall(id)
    PROVE  QueueInv'
  <1>1. job[id] \in Job /\ job[id].state = "active" /\ job[id].stalls \in Nat
    BY DEF QueueInv, QueueTypeOK, Stall, Job
  <1>2. job[id].made < MaxAttempts /\ job[id].source \in Sources
    BY <1>1 DEF QueueInv, JobsAccounted, JobsSourced, Stored
  <1>3. ~(job[id].stalls + 1 > MaxStalled) => job[id].stalls + 1 =< MaxStalled
    BY <1>1, QueueAssumption
  <1> QED BY <1>1, <1>2, <1>3, StallChanges, ChangeKeeps DEF Live

\* A completed job joins the retained ones and may push out the oldest, itself
\* if none are retained.
LEMMA CompleteKeeps ==
    ASSUME QueueInv, NEW s \in Slots, NEW id \in TaskIds, Complete(s, id)
    PROVE  QueueInv'
  <1> DEFINE all  == Append(kept, id)
             done == [job EXCEPT ![id].state = "completed", ![id].holder = Nobody]
             n    == Len(kept)
  <1>1. job[id].state = "active" /\ job[id] \in Job /\ job[id].source \in Sources
    BY DEF Complete, Holds, QueueInv, QueueTypeOK, JobsSourced, Stored
  <1>2. kept \in Seq(TaskIds) /\ n \in Nat /\ \A i \in 1..n : kept[i] \in TaskIds
    BY DEF QueueInv, QueueTypeOK
  <1>3. /\ all \in Seq(TaskIds) /\ Len(all) = n + 1 /\ all[n + 1] = id
        /\ \A i \in 1..n : all[i] = kept[i]
    BY <1>2
  <1>4. /\ done \in [TaskIds -> Job]
        /\ done[id].state = "completed" /\ done[id].source = job[id].source
        /\ \A i \in TaskIds : i # id => done[i] = job[i]
    BY DEF QueueInv, QueueTypeOK, Job, JobState
  <1>5. IF Len(all) > KeepCompleted
        THEN /\ kept' = Tail(all)
             /\ job' = [done EXCEPT ![Head(all)] = [NoJob EXCEPT !.state = "gone"]]
        ELSE kept' = all /\ job' = done
    BY DEF Complete
  <1> HIDE DEF all, done, n
  <1>6. \A i \in 1..(n + 1) : all[i] \in TaskIds /\ done[all[i]].state = "completed"
    <2> SUFFICES ASSUME NEW i \in 1..(n + 1)
                 PROVE  all[i] \in TaskIds /\ done[all[i]].state = "completed"
      OBVIOUS
    <2>1. CASE i = n + 1
      BY <2>1, <1>3, <1>4
    <2>2. CASE i \in 1..n
      <3>1. all[i] \in TaskIds /\ job[all[i]].state = "completed"
        BY <2>2, <1>2, <1>3 DEF QueueInv, JobsAccounted, n
      <3> QED BY <3>1, <1>1, <1>4
    <2> QED BY <2>1, <2>2, <1>2
  <1>7. \A i, j \in 1..(n + 1) : all[i] = all[j] => i = j
    <2>1. \A i \in 1..n : all[i] # id
      BY <1>1, <1>3 DEF QueueInv, JobsAccounted, n
    <2>2. \A i, j \in 1..n : all[i] = all[j] => i = j
      BY <1>3 DEF QueueInv, JobsAccounted, n
    <2>3. \A i \in 1..(n + 1) : i \in 1..n \/ i = n + 1
      BY <1>2
    <2> QED BY <2>1, <2>2, <2>3, <1>3
  <1>8. \A i \in TaskIds : done[i].state = "completed" => \E k \in 1..(n + 1) : all[k] = i
    <2> SUFFICES ASSUME NEW i \in TaskIds, done[i].state = "completed"
                 PROVE  \E k \in 1..(n + 1) : all[k] = i
      OBVIOUS
    <2>1. CASE i = id
      BY <2>1, <1>2, <1>3
    <2>2. CASE i # id
      <3>1. PICK k \in 1..n : kept[k] = i
        BY <2>2, <1>4 DEF QueueInv, JobsAccounted, n
      <3> QED BY <3>1, <1>2, <1>3
    <2> QED BY <2>1, <2>2
  <1>9. /\ \A i \in TaskIds : done[i].state \in Live =>
              done[i].made < MaxAttempts /\ done[i].stalls =< MaxStalled
        /\ \A i \in TaskIds : done[i].state \notin {"none", "gone"} => done[i].source \in Sources
    BY <1>1, <1>4 DEF QueueInv, JobsAccounted, JobsSourced, Stored, Live
  <1>13. \A i \in TaskIds : done[i].state \in {"none", "gone"} => done[i].made = 0 /\ done[i].stalls = 0
    BY <1>4 DEF QueueInv, AbsentUntried, Stored
  <1>10. n =< KeepCompleted
    BY DEF QueueInv, JobsAccounted, n
  <1>11. CASE Len(all) > KeepCompleted
    <2> DEFINE old  == all[1]
               gone == [NoJob EXCEPT !.state = "gone"]
    <2>1. gone \in Job /\ gone.state = "gone" /\ gone.made = 0 /\ gone.stalls = 0
      BY DEF NoJob, Job, JobState
    <2> HIDE DEF gone
    <2>2. /\ kept' \in Seq(TaskIds) /\ Len(kept') = n
          /\ \A i \in 1..n : kept'[i] = all[i + 1]
      <3>1. kept' = Tail(all) /\ all # <<>>
        BY <1>2, <1>3, <1>5, <1>11
      <3>2. Len(all) - 1 = n
        BY <1>2, <1>3
      <3> QED BY <3>1, <3>2, <1>3, HeadTailProperties
    <2>3. old \in TaskIds /\ job' = [done EXCEPT ![old] = gone]
      BY <1>2, <1>3, <1>5, <1>6, <1>11 DEF gone
    <2>4. /\ job' \in [TaskIds -> Job] /\ job'[old].state = "gone"
          /\ job'[old].made = 0 /\ job'[old].stalls = 0
          /\ \A i \in TaskIds : i # old => job'[i] = done[i]
      BY <2>1, <2>3, <1>4
    <2>5. \A i \in 1..n : i + 1 \in 1..(n + 1) /\ i + 1 # 1 /\ 1 \in 1..(n + 1)
      BY <1>2
    <2>6. \A i \in 1..n : kept'[i] \in TaskIds /\ kept'[i] # old
      BY <2>2, <2>5, <1>6, <1>7
    <2>7. \A i \in 1..n : job'[kept'[i]].state = "completed"
      BY <2>2, <2>4, <2>5, <2>6, <1>6
    <2>8. \A i, j \in 1..n : kept'[i] = kept'[j] => i = j
      <3> SUFFICES ASSUME NEW i \in 1..n, NEW j \in 1..n, kept'[i] = kept'[j]
                   PROVE  i = j
        OBVIOUS
      <3>1. all[i + 1] = all[j + 1]
        BY <2>2
      <3>2. i + 1 = j + 1
        BY <3>1, <2>5, <1>7
      <3> QED BY <3>2
    <2>9. \A i \in TaskIds : job'[i].state = "completed" => \E k \in 1..n : kept'[k] = i
      <3> SUFFICES ASSUME NEW i \in TaskIds, job'[i].state = "completed"
                   PROVE  \E k \in 1..n : kept'[k] = i
        OBVIOUS
      <3>1. i # old /\ done[i].state = "completed"
        BY <2>4
      <3>2. PICK k \in 1..(n + 1) : all[k] = i
        BY <3>1, <1>8
      <3>3. k - 1 \in 1..n /\ (k - 1) + 1 = k
        BY <3>1, <3>2, <1>2
      <3>4. kept'[k - 1] = all[k]
        BY <3>3, <2>2
      <3> QED BY <3>2, <3>3, <3>4
    <2>10. JobsAccounted'
      <3>1. \A i \in TaskIds : job'[i].state \in Live =>
                job'[i].made < MaxAttempts /\ job'[i].stalls =< MaxStalled
        BY <2>4, <1>9 DEF Live
      <3> QED BY <3>1, <2>2, <2>7, <2>8, <2>9, <1>10 DEF JobsAccounted, Live
    <2>11. JobsSourced' /\ AbsentUntried'
      BY <2>4, <1>9, <1>13 DEF JobsSourced, AbsentUntried, Stored
    <2> QED BY <2>2, <2>4, <2>10, <2>11 DEF QueueInv, QueueTypeOK
  <1>12. CASE ~(Len(all) > KeepCompleted)
    <2>1. kept' = all /\ job' = done
      BY <1>5, <1>12
    <2>2. Len(kept') = n + 1 /\ n + 1 =< KeepCompleted
      BY <2>1, <1>2, <1>3, <1>12, QueueAssumption
    <2>3. JobsAccounted'
      BY <2>1, <2>2, <1>6, <1>7, <1>8, <1>9 DEF JobsAccounted, Live
    <2>4. JobsSourced' /\ AbsentUntried'
      BY <2>1, <1>9, <1>13 DEF JobsSourced, AbsentUntried, Stored
    <2> QED BY <2>1, <2>3, <2>4, <1>3, <1>4 DEF QueueInv, QueueTypeOK
  <1> QED BY <1>11, <1>12

LEMMA OrphanKeeps ==
    ASSUME QueueInv, NEW S, Orphan(S)
    PROVE  QueueInv'
  <1>1. /\ job' \in [TaskIds -> Job] /\ kept' = kept
        /\ \A id \in TaskIds :
              /\ job'[id].state = job[id].state /\ job'[id].made = job[id].made
              /\ job'[id].stalls = job[id].stalls /\ job'[id].source = job[id].source
    BY DEF QueueInv, QueueTypeOK, Orphan, Job
  <1>2. kept \in Seq(TaskIds) /\ \A i \in 1..Len(kept) : kept[i] \in TaskIds
    BY DEF QueueInv, QueueTypeOK
  <1>3. JobsSourced' /\ AbsentUntried'
    BY <1>1 DEF QueueInv, JobsSourced, AbsentUntried, Stored
  <1>4. JobsAccounted'
    BY <1>1, <1>2 DEF QueueInv, JobsAccounted
  <1> QED BY <1>1, <1>2, <1>3, <1>4 DEF QueueInv, QueueTypeOK

-----------------------------------------------------------------------------
(* The operations as steps of JobLifecycle                                 *)

SubmissionsUnchanged == Phases' = Phases /\ Tries' = Tries

\* How a change of one stored job shows in its submission.
LEMMA OneSubmission ==
    ASSUME QueueTypeOK, NEW id \in TaskIds, job' \in [TaskIds -> Job],
           \A i \in TaskIds : i # id => job'[i] = job[i]
    PROVE  /\ Phases' = [Phases EXCEPT ![id] = Phases'[id]]
           /\ Tries' = [Tries EXCEPT ![id] = Tries'[id]]
  <1>1. /\ Phases = [i \in TaskIds |-> Phases[i]] /\ Phases' = [i \in TaskIds |-> Phases'[i]]
        /\ Tries = [i \in TaskIds |-> Tries[i]] /\ Tries' = [i \in TaskIds |-> Tries'[i]]
    BY DEF Phases, Tries
  <1>2. \A i \in TaskIds : i # id => Phases'[i] = Phases[i] /\ Tries'[i] = Tries[i]
    BY DEF Phases, Tries
  <1> HIDE DEF Phases, Tries
  <1> QED BY <1>1, <1>2

\* What a job's fields make of its submission.
LEMMA SubmissionOf ==
    ASSUME NEW id \in TaskIds
    PROVE  /\ job[id].state \in {"none", "gone"} => Phases[id] = "absent"
           /\ job[id].state \in {"waiting", "delayed"} => Phases[id] = "ready"
           /\ job[id].state = "active" => Phases[id] = "busy"
           /\ job[id].state \in {"completed", "failed"} => Phases[id] = "ended"
           /\ job[id].state \in {"active", "completed"} =>
                 Tries[id] = job[id].made + job[id].stalls + 1
           /\ job[id].state \notin {"active", "completed"} =>
                 Tries[id] = job[id].made + job[id].stalls + 0
  BY DEF Phases, Tries

LEMMA SubmissionOfNext ==
    ASSUME NEW id \in TaskIds
    PROVE  /\ job'[id].state \in {"none", "gone"} => Phases'[id] = "absent"
           /\ job'[id].state \in {"waiting", "delayed"} => Phases'[id] = "ready"
           /\ job'[id].state = "active" => Phases'[id] = "busy"
           /\ job'[id].state \in {"completed", "failed"} => Phases'[id] = "ended"
           /\ job'[id].state \in {"active", "completed"} =>
                 Tries'[id] = job'[id].made + job'[id].stalls + 1
           /\ job'[id].state \notin {"active", "completed"} =>
                 Tries'[id] = job'[id].made + job'[id].stalls + 0
  BY DEF Phases, Tries

\* An add submits an id the queue does not store, and is ignored otherwise.
LEMMA AddSubmits ==
    ASSUME QueueInv, NEW id \in TaskIds, NEW src \in Sources, Add(id, src)
    PROVE  Lifecycle!Submit(id) \/ SubmissionsUnchanged
  <1>1. CASE Stored(id)
    BY <1>1 DEF Add, SubmissionsUnchanged, Phases, Tries
  <1>2. CASE ~Stored(id)
    <2> DEFINE new == [NoJob EXCEPT !.state = "waiting", !.source = src]
    <2>1. new \in Job /\ new.state = "waiting" /\ new.made = 0 /\ new.stalls = 0
      BY DEF NoJob, Job, JobState
    <2>2. job' = [job EXCEPT ![id] = new]
      BY <1>2 DEF Add
    <2> HIDE DEF new
    <2>3. job' \in [TaskIds -> Job] /\ job'[id] = new
          /\ \A i \in TaskIds : i # id => job'[i] = job[i]
      BY <2>1, <2>2 DEF QueueInv, QueueTypeOK
    <2>4. Phases[id] = "absent" /\ Tries[id] = 0
      BY <1>2, SubmissionOf DEF QueueInv, AbsentUntried, Stored
    <2>5. Phases'[id] = "ready" /\ Tries'[id] = 0
      BY <2>1, <2>3, SubmissionOfNext
    <2>6. Phases' = [Phases EXCEPT ![id] = "ready"]
      BY <2>3, <2>5, OneSubmission DEF QueueInv
    <2>7. Tries' = [Tries EXCEPT ![id] = 0] /\ Tries = [i \in TaskIds |-> Tries[i]]
      BY <2>3, <2>5, OneSubmission DEF QueueInv, Tries
    <2>8. Tries' = Tries
      BY <2>4, <2>7
    <2> QED BY <2>4, <2>6, <2>8 DEF Lifecycle!Submit
  <1> QED BY <1>1, <1>2

\* The limits of a job that can still run.
LEMMA LiveWithinLimits ==
    ASSUME QueueInv, NEW id \in TaskIds, job[id].state \in Live
    PROVE  /\ job[id] \in Job /\ job[id].made \in Nat /\ job[id].stalls \in Nat
           /\ job[id].made < MaxAttempts /\ job[id].stalls =< MaxStalled
           /\ MaxAttempts \in Nat /\ MaxStalled \in Nat
  BY QueueAssumption DEF QueueInv, QueueTypeOK, JobsAccounted, Job, Live

\* A hand-out runs the submission once more, and there is room for it.
LEMMA TakeRuns ==
    ASSUME QueueInv, NEW s \in Slots, NEW id \in TaskIds, Take(s, id)
    PROVE  Lifecycle!Run(id)
  <1>0. QueueTypeOK
    BY DEF QueueInv
  <1>1. job[id].state = "waiting" /\ job[id] \in Job
    BY <1>0 DEF QueueTypeOK, Take
  <1>2. /\ job' \in [TaskIds -> Job]
        /\ \A i \in TaskIds : i # id => job'[i] = job[i]
        /\ job'[id].state = "active" /\ job'[id].made = job[id].made
        /\ job'[id].stalls = job[id].stalls
    BY <1>0, <1>1 DEF QueueTypeOK, Take, Job, JobState
  <1>3. Phases[id] = "ready" /\ Tries[id] = job[id].made + job[id].stalls
        /\ Tries[id] < MaxAttempts + MaxStalled
    BY <1>1, SubmissionOf, LiveWithinLimits DEF Live
  <1>4. Phases'[id] = "busy" /\ Tries'[id] = Tries[id] + 1
    BY <1>2, <1>3, SubmissionOfNext
  <1> QED BY <1>0, <1>2, <1>3, <1>4, OneSubmission DEF Lifecycle!Run

\* The end of a backoff changes nothing about the submission.
LEMMA PromoteStutters ==
    ASSUME QueueInv, NEW id \in TaskIds, Promote(id)
    PROVE  SubmissionsUnchanged
  <1>0. QueueTypeOK
    BY DEF QueueInv
  <1>1. job[id].state = "delayed" /\ job[id] \in Job
    BY <1>0 DEF QueueTypeOK, Promote
  <1>2. /\ job' \in [TaskIds -> Job]
        /\ \A i \in TaskIds : i # id => job'[i] = job[i]
        /\ job'[id].state = "waiting" /\ job'[id].made = job[id].made
        /\ job'[id].stalls = job[id].stalls
    BY <1>0, <1>1 DEF QueueTypeOK, Promote, Job, JobState
  <1>3. \A i \in TaskIds : Phases'[i] = Phases[i] /\ Tries'[i] = Tries[i]
    BY <1>1, <1>2 DEF Phases, Tries
  <1> QED BY <1>3 DEF SubmissionsUnchanged, Phases, Tries

\* Neither does the death of processors: their jobs stay locked.
LEMMA OrphanStutters ==
    ASSUME QueueInv, NEW S, Orphan(S)
    PROVE  SubmissionsUnchanged
  <1>1. \A id \in TaskIds :
            /\ job'[id].state = job[id].state /\ job'[id].made = job[id].made
            /\ job'[id].stalls = job[id].stalls
    BY DEF QueueInv, QueueTypeOK, Orphan, Job
  <1> QED BY <1>1 DEF SubmissionsUnchanged, Phases, Tries

\* A failed attempt gives the job back while attempts are left, and ends it
\* otherwise.
LEMMA FailGivesBackOrEnds ==
    ASSUME QueueInv, NEW s \in Slots, NEW id \in TaskIds, Fail(s, id)
    PROVE  Lifecycle!GiveBack(id) \/ Lifecycle!End(id)
  <1>0. QueueTypeOK
    BY DEF QueueInv
  <1>1. job[id] \in Job /\ job[id].state = "active" /\ job[id].made \in Nat
        /\ job[id].stalls \in Nat
    BY <1>0 DEF QueueTypeOK, Fail, Holds, Job
  <1>2. /\ job' \in [TaskIds -> Job]
        /\ \A i \in TaskIds : i # id => job'[i] = job[i]
        /\ job'[id].state = IF job[id].made + 1 < MaxAttempts THEN "delayed" ELSE "failed"
        /\ job'[id].made = job[id].made + 1
        /\ job'[id].stalls = job[id].stalls
    BY <1>0, <1>1 DEF QueueTypeOK, Fail, Job, JobState
  <1>3. Phases[id] = "busy" /\ Tries[id] = job[id].made + job[id].stalls + 1
    BY <1>1, SubmissionOf
  <1>4. Tries'[id] = job'[id].made + job'[id].stalls
        /\ Phases'[id] = IF job[id].made + 1 < MaxAttempts THEN "ready" ELSE "ended"
    BY <1>1, <1>2, SubmissionOfNext
  <1>5. Tries'[id] = Tries[id] /\ Tries' = [Tries EXCEPT ![id] = Tries'[id]]
        /\ Phases' = [Phases EXCEPT ![id] = Phases'[id]]
    BY <1>0, <1>1, <1>2, <1>3, <1>4, OneSubmission
  <1>6. Tries' = Tries
    <2>1. Tries = [i \in TaskIds |-> Tries[i]]
      BY DEF Tries
    <2> QED BY <2>1, <1>5
  <1>7. job[id].made + 1 < MaxAttempts => Tries[id] < MaxAttempts + MaxStalled
    BY <1>1, <1>3, LiveWithinLimits DEF Live
  <1> QED BY <1>3, <1>4, <1>5, <1>6, <1>7 DEF Lifecycle!GiveBack, Lifecycle!End

\* A stall gives the job back until it is one too many, and ends it then.
LEMMA StallGivesBackOrEnds ==
    ASSUME QueueInv, NEW id \in TaskIds, Stall(id)
    PROVE  Lifecycle!GiveBack(id) \/ Lifecycle!End(id)
  <1>0. QueueTypeOK
    BY DEF QueueInv
  <1>1. job[id] \in Job /\ job[id].state = "active" /\ job[id].made \in Nat
        /\ job[id].stalls \in Nat
    BY <1>0 DEF QueueTypeOK, Stall, Job
  <1>2. /\ job' \in [TaskIds -> Job]
        /\ \A i \in TaskIds : i # id => job'[i] = job[i]
        /\ job'[id].state = IF job[id].stalls + 1 > MaxStalled THEN "failed" ELSE "waiting"
        /\ job'[id].made = job[id].made
        /\ job'[id].stalls = job[id].stalls + 1
    BY StallChanges
  <1>3. Phases[id] = "busy" /\ Tries[id] = job[id].made + job[id].stalls + 1
    BY <1>1, SubmissionOf
  <1>4. Tries'[id] = job'[id].made + job'[id].stalls
        /\ Phases'[id] = IF job[id].stalls + 1 > MaxStalled THEN "ended" ELSE "ready"
    BY <1>1, <1>2, SubmissionOfNext
  <1>5. Tries'[id] = Tries[id] /\ Tries' = [Tries EXCEPT ![id] = Tries'[id]]
        /\ Phases' = [Phases EXCEPT ![id] = Phases'[id]]
    BY <1>0, <1>1, <1>2, <1>3, <1>4, OneSubmission
  <1>6. Tries' = Tries
    <2>1. Tries = [i \in TaskIds |-> Tries[i]]
      BY DEF Tries
    <2> QED BY <2>1, <1>5
  <1>7. ~(job[id].stalls + 1 > MaxStalled) => Tries[id] < MaxAttempts + MaxStalled
    BY <1>1, <1>3, LiveWithinLimits DEF Live
  <1> QED BY <1>3, <1>4, <1>5, <1>6, <1>7 DEF Lifecycle!GiveBack, Lifecycle!End

\* The oldest retained job, once id has joined: a completed one, or id itself.
LEMMA HeadRetained ==
    ASSUME QueueInv, NEW id \in TaskIds
    PROVE  LET old == Head(Append(kept, id)) IN
           old \in TaskIds /\ (old = id \/ job[old].state = "completed")
  <1> DEFINE old == Head(Append(kept, id))
  <1>1. kept \in Seq(TaskIds) /\ Len(kept) \in Nat
    BY DEF QueueInv, QueueTypeOK
  <1>2. CASE Len(kept) = 0
    BY <1>1, <1>2
  <1>3. CASE Len(kept) # 0
    <2>1. 1 \in 1..Len(kept) /\ old = kept[1]
      BY <1>1, <1>3
    <2> QED BY <1>1, <2>1 DEF QueueInv, JobsAccounted
  <1> QED BY <1>2, <1>3

\* A job in progress is left alone by the operations on other jobs, and by
\* adds and promotions altogether.
LEMMA ActiveUntouched ==
    ASSUME QueueInv, NEW i \in TaskIds, job[i].state = "active"
    PROVE  /\ \A id \in TaskIds : \A src : Add(id, src) => job'[i] = job[i]
           /\ \A id \in TaskIds : Promote(id) => job'[i] = job[i]
           /\ \A id \in TaskIds : Stall(id) /\ id # i => job'[i] = job[i]
           /\ \A s \in Slots, id \in TaskIds : Take(s, id) => id # i /\ job'[i] = job[i]
           /\ \A s \in Slots, id \in TaskIds : Fail(s, id) /\ id # i => job'[i] = job[i]
           /\ \A s \in Slots, id \in TaskIds : Complete(s, id) /\ id # i => job'[i] = job[i]
  <1> USE DEF QueueInv, QueueTypeOK
  <1>1. ASSUME NEW id \in TaskIds, NEW src, Add(id, src) PROVE job'[i] = job[i]
    <2>1. Stored(i)
      BY DEF Stored
    <2> DEFINE new == [NoJob EXCEPT !.state = "waiting", !.source = src]
    <2>2. Add(id, src) => job' = IF Stored(id) THEN job ELSE [job EXCEPT ![id] = new]
      BY DEF Add
    <2> HIDE DEF new
    <2> QED BY <1>1, <2>1, <2>2
  <1>2. ASSUME NEW id \in TaskIds, Promote(id) PROVE job'[i] = job[i]
    <2>1. id # i
      BY <1>2 DEF Promote
    <2> QED BY <1>2, <2>1 DEF Promote
  <1>3. ASSUME NEW id \in TaskIds, Stall(id), id # i PROVE job'[i] = job[i]
    BY <1>3 DEF Stall
  <1>4. ASSUME NEW s \in Slots, NEW id \in TaskIds, Take(s, id) PROVE id # i /\ job'[i] = job[i]
    <2>1. id # i
      BY <1>4 DEF Take
    <2> QED BY <1>4, <2>1 DEF Take
  <1>5. ASSUME NEW s \in Slots, NEW id \in TaskIds, Fail(s, id), id # i PROVE job'[i] = job[i]
    BY <1>5 DEF Fail
  <1>6. ASSUME NEW s \in Slots, NEW id \in TaskIds, Complete(s, id), id # i
        PROVE  job'[i] = job[i]
    <2> DEFINE all  == Append(kept, id)
               done0 == [job EXCEPT ![id].state = "completed", ![id].holder = Nobody]
               gone == [NoJob EXCEPT !.state = "gone"]
    <2>1. done0 \in [TaskIds -> Job] /\ done0[i] = job[i]
      BY <1>6 DEF Job, JobState
    <2>2. Head(all) # i
      BY <1>6, HeadRetained
    <2>3. job' = done0 \/ job' = [done0 EXCEPT ![Head(all)] = gone]
      BY <1>6 DEF Complete
    <2> HIDE DEF all, done0, gone
    <2> QED BY <2>1, <2>2, <2>3
  <1> QED BY <1>1, <1>2, <1>3, <1>4, <1>5, <1>6

\* As long as every job that can exist may be retained, one more fits.
LEMMA RoomToRetain ==
    ASSUME QueueInv, IsFiniteSet(TaskIds), KeepCompleted >= Cardinality(TaskIds),
           NEW id \in TaskIds, job[id].state # "completed"
    PROVE  Len(Append(kept, id)) =< KeepCompleted
  <1> DEFINE n == Len(kept)
             others == TaskIds \ {id}
  <1>1. kept \in Seq(TaskIds) /\ n \in Nat /\ Len(Append(kept, id)) = n + 1
    BY DEF QueueInv, QueueTypeOK
  <1>2. IsFiniteSet(others) /\ Cardinality(others) = Cardinality(TaskIds) - 1
        /\ Cardinality(TaskIds) \in Nat /\ Cardinality(others) \in Nat
    BY FS_RemoveElement, FS_CardinalityType
  <1>3. SUFFICES ASSUME n > Cardinality(others) PROVE FALSE
    BY <1>1, <1>2, QueueAssumption
  <1>4. IsFiniteSet(1..n) /\ Cardinality(1..n) = n
    <2> HIDE DEF n, others
    <2>1. n \in Int /\ 1 \in Int /\ ~(1 > n)
      BY <1>1, <1>2, <1>3
    <2>2. IsFiniteSet(1..n) /\ Cardinality(1..n) = n - 1 + 1
      BY <2>1, FS_Interval
    <2> QED BY <2>1, <2>2
  <1>5. \A i \in 1..n : kept[i] \in others
    BY <1>1 DEF QueueInv, JobsAccounted
  <1> DEFINE f == [i \in 1..n |-> kept[i]]
  <1>6. f \in [1..n -> others]
    BY <1>5
  <1>7. PICK i \in 1..n, j \in 1..n : i # j /\ f[i] = f[j]
    <2> HIDE DEF f, n, others
    <2>1. Cardinality(others) < Cardinality(1..n)
      BY <1>1, <1>2, <1>3, <1>4
    <2> QED BY <1>2, <1>4, <1>6, <2>1, FS_PigeonHole
  <1> QED BY <1>7 DEF QueueInv, JobsAccounted

\* A job that completes with room to retain it is not forgotten.
LEMMA CompleteWithRoom ==
    ASSUME QueueInv, NEW s \in Slots, NEW id \in TaskIds, Complete(s, id),
           Len(Append(kept, id)) =< KeepCompleted
    PROVE  /\ Lifecycle!End(id)
           /\ job'[id].state = "completed"
           /\ \A i \in TaskIds : i # id => job'[i] = job[i]
  <1>0. QueueTypeOK
    BY DEF QueueInv
  <1> DEFINE done == [job EXCEPT ![id].state = "completed", ![id].holder = Nobody]
  <1>1. job[id].state = "active" /\ job[id] \in Job
    BY <1>0 DEF Complete, Holds, QueueTypeOK
  <1>2. job' = done
    <2>1. Len(Append(kept, id)) \in Nat /\ KeepCompleted \in Nat
      BY <1>0, QueueAssumption DEF QueueTypeOK
    <2>2. ~(Len(Append(kept, id)) > KeepCompleted)
      BY <2>1
    <2> QED BY <2>2 DEF Complete
  <1>3. /\ done \in [TaskIds -> Job]
        /\ done[id].state = "completed" /\ done[id].made = job[id].made
        /\ done[id].stalls = job[id].stalls
        /\ \A i \in TaskIds : i # id => done[i] = job[i]
    BY <1>0, <1>1 DEF QueueTypeOK, Job, JobState
  <1> HIDE DEF done
  <1>4. Phases[id] = "busy" /\ Tries[id] = job[id].made + job[id].stalls + 1
    BY <1>1, SubmissionOf
  <1>5. Phases'[id] = "ended" /\ Tries'[id] = Tries[id]
    BY <1>2, <1>3, <1>4, SubmissionOfNext
  <1>6. Phases' = [Phases EXCEPT ![id] = "ended"] /\ Tries' = [Tries EXCEPT ![id] = Tries[id]]
    BY <1>0, <1>2, <1>3, <1>5, OneSubmission
  <1>7. Tries' = Tries
    <2>1. Tries = [i \in TaskIds |-> Tries[i]]
      BY DEF Tries
    <2> QED BY <2>1, <1>6
  <1> QED BY <1>2, <1>3, <1>4, <1>6, <1>7 DEF Lifecycle!End

\* A completed job ends its submission; the retained job it pushes out, which
\* may be itself, is forgotten.
LEMMA CompleteEnds ==
    ASSUME QueueInv, NEW s \in Slots, NEW id \in TaskIds, Complete(s, id)
    PROVE  \/ Lifecycle!End(id)
           \/ \E old \in TaskIds : Lifecycle!EndForgetting(id, old)
  <1> DEFINE all  == Append(kept, id)
             done == [job EXCEPT ![id].state = "completed", ![id].holder = Nobody]
             gone == [NoJob EXCEPT !.state = "gone"]
             old  == Head(all)
  <1>0. QueueTypeOK
    BY DEF QueueInv
  <1>1. job[id].state = "active" /\ job[id] \in Job
    BY <1>0 DEF Complete, Holds, QueueTypeOK
  <1>2. IF Len(all) > KeepCompleted THEN job' = [done EXCEPT ![old] = gone] ELSE job' = done
    BY DEF Complete
  <1>3. /\ done \in [TaskIds -> Job]
        /\ done[id].state = "completed" /\ done[id].made = job[id].made
        /\ done[id].stalls = job[id].stalls
        /\ \A i \in TaskIds : i # id => done[i] = job[i]
    BY <1>0, <1>1 DEF QueueTypeOK, Job, JobState
  <1>4. gone \in Job /\ gone.state = "gone" /\ gone.made = 0 /\ gone.stalls = 0
    BY DEF NoJob, Job, JobState
  <1>5. old \in TaskIds /\ (old = id \/ job[old].state = "completed")
    BY HeadRetained
  <1> HIDE DEF all, done, gone, old
  <1>6. Phases[id] = "busy" /\ Tries[id] = job[id].made + job[id].stalls + 1
        /\ (old # id => Phases[old] = "ended")
    BY <1>1, <1>5, SubmissionOf
  <1>7. Phases = [i \in TaskIds |-> Phases[i]] /\ Phases' = [i \in TaskIds |-> Phases'[i]]
        /\ Tries = [i \in TaskIds |-> Tries[i]] /\ Tries' = [i \in TaskIds |-> Tries'[i]]
    BY DEF Phases, Tries
  <1>8. CASE ~(Len(all) > KeepCompleted)
    <2>1. Len(all) \in Nat /\ KeepCompleted \in Nat
      BY <1>0, QueueAssumption DEF QueueTypeOK, all
    <2> QED BY <1>8, <2>1, CompleteWithRoom DEF all
  <1>9. CASE Len(all) > KeepCompleted
    <2>1. /\ job'[old] = gone
          /\ \A i \in TaskIds : i # old => job'[i] = done[i]
      BY <1>2, <1>3, <1>5, <1>9
    <2>2. Phases'[old] = "absent" /\ Tries'[old] = 0
      BY <1>4, <1>5, <2>1, SubmissionOfNext
    <2>3. old # id => Phases'[id] = "ended" /\ Tries'[id] = Tries[id]
      BY <1>3, <1>6, <2>1, SubmissionOfNext
    <2>4. \A i \in TaskIds : i # old /\ i # id => Phases'[i] = Phases[i] /\ Tries'[i] = Tries[i]
      BY <1>3, <2>1 DEF Phases, Tries
    <2>5. Phases' = [Phases EXCEPT ![id] = "ended", ![old] = "absent"]
      BY <1>5, <1>7, <2>2, <2>3, <2>4
    <2>6. Tries' = [Tries EXCEPT ![old] = 0]
      BY <1>5, <1>7, <2>2, <2>3, <2>4
    <2> QED BY <1>5, <1>6, <2>5, <2>6 DEF Lifecycle!EndForgetting
  <1> QED BY <1>8, <1>9

-----------------------------------------------------------------------------
(* Locks and counts                                                        *)
=============================================================================
