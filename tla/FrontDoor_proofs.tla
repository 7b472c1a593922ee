-------------------------- MODULE FrontDoor_proofs ---------------------------
(***************************************************************************)
(* Proofs about what people send in: requests of the approval API, the     *)
(* owner's commands and WhatsApp messages, for any number of each.         *)
(*   Approvals: the invariant ties each request's position to what it      *)
(* knows: a request about to save has loaded an existing document, and one *)
(* that has saved never changes the decision it carried.                   *)
(*   The owner's commands: an approval that was approved is filed, and is  *)
(* never filed anew.                                                       *)
(*   Messages: the deliveries of a message are counted by how they ended   *)
(* or where they are, and each is the answered, the failed or the pending  *)
(* one of a single workflow or job.                                        *)
(***************************************************************************)
EXTENDS ApprovalFlow, OwnerWorkflows, InboundMessages, FiniteSetTheorems, TLAPS

-----------------------------------------------------------------------------
(* Approvals                                                               *)

PositionInv ==
    \A r \in Requests :
       /\ req[r].pc = "idle" => r \notin saved /\ r \notin logged
       /\ req[r].pc \in {"notify", "saveMeta"} =>
             req[r].op = "create" /\ req[r].a \in Approvals
             /\ doc[req[r].a].status # "absent" /\ r \notin saved
       /\ req[r].pc = "save" =>
             /\ req[r].op = "decide" /\ req[r].a \in Approvals
             /\ req[r].user \in Users /\ req[r].decision \in Decision
             /\ doc[req[r].a].status # "absent" /\ r \notin saved
       /\ req[r].pc = "log" /\ req[r].op = "decide" => r \in saved
       /\ req[r].pc = "notify" => req[r].left \in 1..MaxAttempts

ApprovalInv == TypeOK /\ PositionInv /\ RecordIsOneDecision /\ LogTellsSaved

-----------------------------------------------------------------------------
\* The record of an arriving request.
LEMMA AskingTyped ==
    ASSUME NEW op \in {None, "create", "decide", "link"}, NEW a \in Approvals \cup {None},
           NEW user \in Users \cup {None}, NEW decision \in Decision \cup {None},
           NEW pc \in Pc, NEW answer \in {None, "ok", "notFound", "conflict", "error"}
    PROVE  Asking(op, a, user, decision, pc, answer) \in Request
BY ApprovalAssumption DEF Asking, Request

LEMMA UndecidedTyped ==
    ASSUME NEW st \in Status PROVE Undecided(st) \in Document
BY DEF Undecided, Document

\* A request that has gone on to pc keeps what it was asked.
Moved(q, pc, left, answer) ==
    [q EXCEPT !.pc = pc, !.left = left, !.answer = answer]

Answer == {None, "ok", "notFound", "conflict", "error"}

LEMMA MovedTyped ==
    ASSUME NEW q \in Request, NEW pc \in Pc, NEW left \in 0..MaxAttempts,
           NEW answer \in Answer
    PROVE  LET n == Moved(q, pc, left, answer) IN
           /\ n \in Request
           /\ n.op = q.op /\ n.a = q.a /\ n.user = q.user /\ n.decision = q.decision
           /\ n.pc = pc /\ n.left = left /\ n.answer = answer
BY DEF Request, Moved, Answer

\* A request that arrives finds its record new and leaves the others alone.
LEMMA ArrivingKeepsInv ==
    ASSUME ApprovalInv, NEW r \in Requests, Arriving(r)
    PROVE  ApprovalInv'
<1>1. ASSUME NEW a \in Approvals, Create(r, a) PROVE ApprovalInv'
  <2> USE <1>1 DEF ApprovalInv, Create, Asks
  <2>1. TypeOK'
    BY AskingTyped, UndecidedTyped DEF TypeOK, Status, Decision, Pc
  <2>2. PositionInv'
    BY ApprovalAssumption DEF PositionInv, TypeOK, Asking, Undecided, NoDocument
  <2>3. RecordIsOneDecision' /\ LogTellsSaved'
    BY DEF RecordIsOneDecision, LogTellsSaved, PositionInv, TypeOK, Asking, Undecided, Decision
  <2> QED BY <2>1, <2>2, <2>3
<1>2. ASSUME NEW a \in Approvals, NEW user \in Users \cup {None},
             NEW decision \in Decision, NEW op \in {"decide", "link"},
             NEW pc \in {"save", "done"}, NEW answer \in {None, "ok", "notFound", "conflict"},
             pc = "save" => op = "decide" /\ user \in Users /\ doc[a].status = "pending",
             Asks(r, op, a, user, decision, pc, answer),
             UNCHANGED <<doc, due, logged, saved>>
      PROVE ApprovalInv'
  <2> USE <1>2 DEF ApprovalInv, Asks
  <2>1. TypeOK'
    BY AskingTyped DEF TypeOK, Pc
  <2>2. PositionInv'
    BY DEF PositionInv, TypeOK, Asking
  <2>3. RecordIsOneDecision' /\ LogTellsSaved'
    BY DEF RecordIsOneDecision, LogTellsSaved, PositionInv, TypeOK
  <2> QED BY <2>1, <2>2, <2>3
<1>3. ASSUME NEW a \in Approvals, NEW user \in Users, NEW decision \in Decision,
             Decide(r, a, user, decision)
      PROVE ApprovalInv'
  <2>1. CASE doc[a].status = "absent"
    BY <1>2, <1>3, <2>1 DEF Decide
  <2>2. CASE doc[a].status = "pending"
    BY <1>2, <1>3, <2>2 DEF Decide
  <2>3. CASE doc[a].status \notin {"absent", "pending"}
    BY <1>2, <1>3, <2>3 DEF Decide
  <2> QED BY <2>1, <2>2, <2>3
<1>4. ASSUME NEW a \in Approvals, NEW decision \in Decision, FollowLink(r, a, decision)
      PROVE ApprovalInv'
  BY <1>2, <1>4 DEF FollowLink
<1> QED BY <1>1, <1>3, <1>4 DEF Arriving

\* The positions stay right when request r goes on to n, the approvals that
\* exist remain, and r counts as saved if it now logs a decision.
LEMMA PositionsKept ==
    ASSUME TypeOK, PositionInv, NEW r \in Requests, req[r].pc # "idle",
           NEW pc \in Pc \ {"idle", "save"}, NEW left \in 0..MaxAttempts, NEW answer \in Answer,
           req' = [req EXCEPT ![r] = Moved(req[r], pc, left, answer)],
           pc \in {"notify", "saveMeta"} => req[r].pc = "notify" /\ r \notin saved',
           pc = "notify" => left \in 1..MaxAttempts,
           pc = "log" /\ req[r].op = "decide" => r \in saved',
           \A a \in Approvals : doc[a].status # "absent" => doc'[a].status # "absent",
           saved' \in {saved, saved \cup {r}}, logged' \in {logged, logged \cup {r}}
    PROVE  PositionInv'
<1> DEFINE n == Moved(req[r], pc, left, answer)
<1>1. n.op = req[r].op /\ n.a = req[r].a /\ n.pc = pc /\ n.left = left
  BY MovedTyped DEF TypeOK
<1>2. req'[r] = n /\ \A q \in Requests \ {r} : req'[q] = req[q]
  BY DEF TypeOK
<1> HIDE DEF n
<1> QED BY <1>1, <1>2 DEF PositionInv

\* What a step of r does that writes no decision.
Quiet(r) ==
    /\ doc' \in [Approvals -> Document]
    /\ \A a \in Approvals : /\ doc'[a].status = doc[a].status
                            /\ doc'[a].approver = doc[a].approver
                            /\ doc'[a].notes = doc[a].notes
    /\ saved' = saved /\ due' = due
    /\ \/ logged' = logged
       \/ logged' = logged \cup {r} /\ (req[r].op = "decide" => r \in saved)

\* Where such a step may go.
MayGo(r, pc, left) ==
    /\ pc \in Pc \ {"idle", "save"} /\ left \in 0..MaxAttempts
    /\ pc \in {"notify", "saveMeta"} => req[r].pc = "notify"
    /\ pc = "notify" => left \in 1..MaxAttempts
    /\ pc = "log" /\ req[r].op = "decide" => r \in saved

\* A step of r that leaves every decision as it is keeps the invariant.
LEMMA QuietStepKeepsInv ==
    ASSUME ApprovalInv, NEW r \in Requests, req[r].pc # "idle",
           NEW pc, NEW left, NEW answer \in Answer, MayGo(r, pc, left),
           req' = [req EXCEPT ![r] = Moved(req[r], pc, left, answer)],
           Quiet(r)
    PROVE  ApprovalInv'
<1> DEFINE n == Moved(req[r], pc, left, answer)
<1> USE DEF ApprovalInv, Quiet, MayGo
<1>1. /\ n \in Request /\ n.op = req[r].op /\ n.a = req[r].a
      /\ n.user = req[r].user /\ n.decision = req[r].decision
  BY MovedTyped DEF TypeOK
<1>2. req'[r] = n /\ \A q \in Requests \ {r} : req'[q] = req[q]
  BY DEF TypeOK
<1>3. PositionInv'
  <2>1. pc \in {"notify", "saveMeta"} => r \notin saved'
    BY DEF PositionInv
  <2> QED BY <2>1, PositionsKept
<1> HIDE DEF n
<1>4. TypeOK'
  BY <1>1, <1>2 DEF TypeOK
<1>5. RecordIsOneDecision'
  BY <1>1, <1>2 DEF RecordIsOneDecision, TypeOK
<1>6. LogTellsSaved'
  BY <1>1, <1>2 DEF LogTellsSaved, TypeOK
<1> QED BY <1>3, <1>4, <1>5, <1>6

\* A step of r that writes its decision keeps the invariant.
LEMMA DecidingStepKeepsInv ==
    ASSUME ApprovalInv, NEW r \in Requests, req[r].pc = "save",
           NEW pc \in {"log", "done"}, NEW left \in 0..MaxAttempts, NEW answer \in Answer,
           req' = [req EXCEPT ![r] = Moved(req[r], pc, left, answer)],
           doc' = [doc EXCEPT ![req[r].a] = Decided(@, r)],
           saved' = saved \cup {r}, UNCHANGED <<due, logged>>
    PROVE  ApprovalInv'
<1> DEFINE n == Moved(req[r], pc, left, answer)
           d == Decided(doc[req[r].a], r)
<1> USE DEF ApprovalInv
<1>1. /\ req[r].a \in Approvals /\ req[r].user \in Users
      /\ req[r].decision \in Decision
  BY DEF PositionInv
<1>2. /\ d \in Document /\ d.status = req[r].decision
      /\ d.approver = req[r].user /\ d.notes = r
  BY <1>1 DEF TypeOK, Document, Decided, Status
<1>3. doc'[req[r].a] = d /\ \A a \in Approvals \ {req[r].a} : doc'[a] = doc[a]
  BY <1>1 DEF TypeOK
<1>4. doc' \in [Approvals -> Document]
  BY <1>1, <1>2 DEF TypeOK
<1>5. /\ n \in Request /\ n.op = req[r].op /\ n.a = req[r].a
      /\ n.user = req[r].user /\ n.decision = req[r].decision
  BY MovedTyped DEF TypeOK, Pc
<1>6. req'[r] = n /\ \A q \in Requests \ {r} : req'[q] = req[q]
  BY DEF TypeOK
<1> HIDE DEF d
<1>7. PositionInv'
  <2>1. \A a \in Approvals : doc[a].status # "absent" => doc'[a].status # "absent"
    BY <1>1, <1>2, <1>3 DEF Decision
  <2> QED BY <2>1, PositionsKept DEF Pc
<1> HIDE DEF n
<1>8. TypeOK'
  BY <1>4, <1>5, <1>6 DEF TypeOK
<1>9. RecordIsOneDecision'
  BY <1>1, <1>2, <1>3, <1>5, <1>6 DEF RecordIsOneDecision, TypeOK
<1>10. LogTellsSaved'
  BY <1>5, <1>6 DEF LogTellsSaved, TypeOK
<1> QED BY <1>7, <1>8, <1>9, <1>10

\* A request that goes on changes at most its own document and its position.
LEMMA WorkingKeepsInv ==
    ASSUME ApprovalInv, NEW r \in Requests, Working(r)
    PROVE  ApprovalInv'
<1> USE ApprovalAssumption DEF ApprovalInv, At
<1>0. req[r] \in Request /\ req \in [Requests -> Request] /\ doc \in [Approvals -> Document]
  BY DEF TypeOK
<1>1. ASSUME NEW pc, Goes(r, pc)
      PROVE req' = [req EXCEPT ![r] = Moved(req[r], pc, req[r].left, req[r].answer)]
  BY <1>0, <1>1 DEF Goes, Request, Moved
<1>2. ASSUME NEW answer, Ends(r, answer)
      PROVE req' = [req EXCEPT ![r] = Moved(req[r], "done", req[r].left, answer)]
  BY <1>0, <1>2 DEF Ends, Request, Moved
<1>3. req[r].left \in 0..MaxAttempts /\ req[r].answer \in Answer
  BY <1>0 DEF Request, Answer
<1>4. "ok" \in Answer /\ "error" \in Answer
  BY DEF Answer
<1>5. doc' = doc /\ logged' = logged /\ saved' = saved /\ due' = due => Quiet(r)
  BY <1>0 DEF Quiet
<1>6. CASE NotifySucceeds(r)
  <2>1. req' = [req EXCEPT ![r] = Moved(req[r], "log", req[r].left, req[r].answer)]
    BY <1>1, <1>6 DEF NotifySucceeds
  <2>2. req[r].pc # "idle" /\ MayGo(r, "log", req[r].left) /\ Quiet(r)
    BY <1>3, <1>5, <1>6 DEF NotifySucceeds, PositionInv, MayGo, Pc
  <2> HIDE DEF ApprovalInv
  <2> QED BY <1>3, <2>1, <2>2, QuietStepKeepsInv
<1>7. CASE NotifyFails(r)
  <2> DEFINE pc == IF req[r].left = 1 THEN "saveMeta" ELSE "notify"
  <2>1. req' = [req EXCEPT ![r] = Moved(req[r], pc, req[r].left - 1, req[r].answer)]
    BY <1>0, <1>7 DEF NotifyFails, Request, Moved
  <2>2. req[r].pc # "idle" /\ MayGo(r, pc, req[r].left - 1) /\ Quiet(r)
    BY <1>5, <1>7 DEF NotifyFails, PositionInv, MayGo, Pc
  <2> HIDE DEF ApprovalInv, pc
  <2> QED BY <1>3, <2>1, <2>2, QuietStepKeepsInv
<1>8. CASE NotifyRefused(r)
  <2>1. req' = [req EXCEPT ![r] = Moved(req[r], "saveMeta", req[r].left, req[r].answer)]
    BY <1>1, <1>8 DEF NotifyRefused
  <2>2. req[r].pc # "idle" /\ MayGo(r, "saveMeta", req[r].left) /\ Quiet(r)
    BY <1>3, <1>5, <1>8 DEF NotifyRefused, MayGo, Pc
  <2> HIDE DEF ApprovalInv
  <2> QED BY <1>3, <2>1, <2>2, QuietStepKeepsInv
<1>9. CASE SaveMeta(r)
  <2>1. req' = [req EXCEPT ![r] = Moved(req[r], "log", req[r].left, req[r].answer)]
    BY <1>1, <1>9 DEF SaveMeta
  <2>2. req[r].pc # "idle" /\ MayGo(r, "log", req[r].left)
    BY <1>3, <1>9 DEF SaveMeta, PositionInv, MayGo, Pc
  <2>3. Quiet(r)
    BY <1>0, <1>9 DEF SaveMeta, PositionInv, Document, Quiet
  <2> HIDE DEF ApprovalInv
  <2> QED BY <1>3, <2>1, <2>2, <2>3, QuietStepKeepsInv
<1>10. CASE SaveMetaFails(r)
  <2>1. req' = [req EXCEPT ![r] = Moved(req[r], "done", req[r].left, "error")]
    BY <1>2, <1>10 DEF SaveMetaFails
  <2>2. req[r].pc # "idle" /\ MayGo(r, "done", req[r].left) /\ Quiet(r)
    BY <1>3, <1>5, <1>10 DEF SaveMetaFails, MayGo, Pc
  <2> HIDE DEF ApprovalInv
  <2> QED BY <1>4, <2>1, <2>2, QuietStepKeepsInv
<1>11. CASE Log(r)
  <2>1. req' = [req EXCEPT ![r] = Moved(req[r], "done", req[r].left, "ok")]
    BY <1>2, <1>11 DEF Log
  <2>2. req[r].pc # "idle" /\ MayGo(r, "done", req[r].left)
    BY <1>3, <1>11 DEF Log, MayGo, Pc
  <2>3. Quiet(r)
    BY <1>0, <1>11 DEF Log, PositionInv, Quiet
  <2> HIDE DEF ApprovalInv
  <2> QED BY <1>4, <2>1, <2>2, <2>3, QuietStepKeepsInv
<1>12. CASE DecideSave(r)
  <2>1. req' = [req EXCEPT ![r] = Moved(req[r], "log", req[r].left, req[r].answer)]
    BY <1>1, <1>12 DEF DecideSave
  <2> QED BY <1>3, <1>12, <2>1, DecidingStepKeepsInv DEF DecideSave
<1>13. CASE DecideSaveFails(r)
  <2>1. req' = [req EXCEPT ![r] = Moved(req[r], "done", req[r].left, "error")]
    BY <1>2, <1>13 DEF DecideSaveFails
  <2>2. CASE UNCHANGED <<doc, saved>>
    <3>1. req[r].pc # "idle" /\ MayGo(r, "done", req[r].left) /\ Quiet(r)
      BY <1>3, <1>5, <1>13, <2>2 DEF DecideSaveFails, MayGo, Pc
    <3> HIDE DEF ApprovalInv
    <3> QED BY <1>4, <2>1, <3>1, QuietStepKeepsInv
  <2>3. CASE doc' = [doc EXCEPT ![req[r].a] = Decided(@, r)] /\ saved' = saved \cup {r}
    BY <1>3, <1>4, <1>13, <2>1, <2>3, DecidingStepKeepsInv DEF DecideSaveFails
  <2> QED BY <1>13, <2>2, <2>3 DEF DecideSaveFails
<1> QED BY <1>6, <1>7, <1>8, <1>9, <1>10, <1>11, <1>12, <1>13 DEF Working

\* Expiry takes only what is pending, which names nobody.
LEMMA ExpiryKeepsInv ==
    ASSUME ApprovalInv, NEW a \in Approvals, BecomesDue(a) \/ Expire(a)
    PROVE  ApprovalInv'
BY DEF ApprovalInv, BecomesDue, Expire, TypeOK, PositionInv, RecordIsOneDecision,
   LogTellsSaved, Document, Status, Decision

LEMMA NextKeepsInv == ApprovalInv /\ [Next]_vars => ApprovalInv'
<1> SUFFICES ASSUME ApprovalInv, [Next]_vars PROVE ApprovalInv'
  OBVIOUS
<1>1. CASE UNCHANGED vars
  BY <1>1 DEF vars, ApprovalInv, TypeOK, PositionInv, RecordIsOneDecision, LogTellsSaved
<1>2. CASE Next
  BY <1>2, ArrivingKeepsInv, WorkingKeepsInv, ExpiryKeepsInv DEF Next
<1> QED BY <1>1, <1>2

LEMMA InitInv == Init => ApprovalInv
BY ApprovalAssumption DEF Init, ApprovalInv, TypeOK, PositionInv, RecordIsOneDecision,
   LogTellsSaved, NoDocument, NewRequest, Asking, Undecided, Document, Request,
   Pc, Status, Decision

\* Every reachable state satisfies the invariant.
THEOREM ApprovalInvariant == Spec => []ApprovalInv
BY InitInv, NextKeepsInv, PTL DEF Spec

\* Status, approver and notes of an approval always come from one decision, in
\* every interleaving of requests, failing saves and expiry.
THEOREM OneDecisionRecorded == Spec => []RecordIsOneDecision
BY ApprovalInvariant, PTL DEF ApprovalInv

\* The workflow's log never tells of a decision that was not written.
THEOREM LogsAreTrue == Spec => []LogTellsSaved
BY ApprovalInvariant, PTL DEF ApprovalInv

\* No step, late notification saves included, makes an approval pending again.
THEOREM PendingOnlyOnce == Spec => NeverPendingAgain
<1>1. ASSUME ApprovalInv, [Next]_vars, NEW a \in Approvals,
             doc[a].status \notin {"absent", "pending"}
      PROVE doc'[a].status \notin {"absent", "pending"}
  <2>1. CASE UNCHANGED vars
    BY <1>1, <2>1 DEF vars
  <2>2. ASSUME NEW r \in Requests, Arriving(r) PROVE doc'[a].status \notin {"absent", "pending"}
    BY <1>1, <2>2 DEF ApprovalInv, TypeOK, Arriving, Create, Decide, FollowLink, NoDocument, Undecided
  <2>3. ASSUME NEW r \in Requests, Working(r) PROVE doc'[a].status \notin {"absent", "pending"}
    <3>1. CASE doc' = doc
      BY <1>1, <3>1
    <3>2. CASE SaveMeta(r)
      BY <1>1, <3>2 DEF ApprovalInv, TypeOK, Document, SaveMeta
    <3>3. CASE At(r, "save") /\ doc' = [doc EXCEPT ![req[r].a] = Decided(@, r)]
      <4>1. req[r].decision \in Decision
        BY <1>1, <3>3 DEF ApprovalInv, PositionInv, At
      <4> QED BY <1>1, <3>3, <4>1 DEF ApprovalInv, TypeOK, Document, Decided, Decision
    <3> QED BY <2>3, <3>1, <3>2, <3>3 DEF Working, NotifySucceeds, NotifyFails,
               NotifyRefused, SaveMetaFails, DecideSave, DecideSaveFails, Log
  <2>4. ASSUME NEW b \in Approvals, BecomesDue(b) \/ Expire(b)
        PROVE doc'[a].status \notin {"absent", "pending"}
    BY <1>1, <2>4 DEF ApprovalInv, TypeOK, Document, BecomesDue, Expire
  <2> QED BY <1>1, <2>1, <2>2, <2>3, <2>4 DEF Next
<1>2. ApprovalInv /\ [Next]_vars =>
        [\A a \in Approvals : doc[a].status \notin {"absent", "pending"}
                              => doc'[a].status \notin {"absent", "pending"}]_vars
  BY <1>1
<1> QED BY <1>2, ApprovalInvariant, PTL DEF Spec, NeverPendingAgain

-----------------------------------------------------------------------------
(* The owner's commands                                                    *)

\* An approval that was approved once is filed, and is never filed anew: so what
\* was executed for it stays backed, whatever is decided on it later.
OwnerInv ==
    /\ ExecutedWasApproved
    /\ \A f \in Files : /\ approval[f].status = "approved" => f \in confirmed
                        /\ f \in confirmed => approval[f].status # "absent"

\* The actions the parser knows are phrases, or the one for any other text.
LEMMA ParseIsAction == \A text \in Texts : Parse(text) \in Actions
  <1> SUFFICES ASSUME NEW text \in Texts PROVE Parse(text) \in Actions
    OBVIOUS
  <1> DEFINE matching == {n \in 1..Len(Phrases) : Phrases[n] \in text}
  <1>1. Len(Phrases) = 5
    BY DEF Phrases
  <1>2. CASE matching = {}
    BY <1>2 DEF Parse, Actions
  <1>3. CASE matching # {}
    <2>1. \E n \in matching : \A k \in matching : n =< k
      <3>1. matching \subseteq 1..5
        BY <1>1
      <3> HIDE DEF matching
      <3>2. CASE 1 \in matching
        BY <3>1, <3>2
      <3>3. CASE 1 \notin matching /\ 2 \in matching
        BY <3>1, <3>3
      <3>4. CASE 1 \notin matching /\ 2 \notin matching /\ 3 \in matching
        BY <3>1, <3>4
      <3>5. CASE 1 \notin matching /\ 2 \notin matching /\ 3 \notin matching
        <4>1. matching \subseteq {4, 5}
          BY <3>1, <3>5
        <4>2. CASE 4 \in matching
          BY <4>1, <4>2
        <4>3. CASE 4 \notin matching
          <5>1. matching = {5}
            BY <1>3, <4>1, <4>3
          <5> QED BY <5>1
        <4> QED BY <4>2, <4>3
      <3> QED BY <3>2, <3>3, <3>4, <3>5
    <2> DEFINE first == CHOOSE n \in matching : \A k \in matching : n =< k
    <2>2. first \in matching
      BY <2>1
    <2>3. Parse(text) = Phrases[first]
      BY <1>3 DEF Parse
    <2> QED BY <2>2, <2>3 DEF Actions, Texts
  <1> QED BY <1>2, <1>3

\* What an execution adds to the history.
LEMMA ExecuteAdds ==
    ASSUME OwnerInv, NEW action \in Actions, NEW i \in Files \cup Campaigns \cup {Nobody},
           Execute(action, i), UNCHANGED approval, UNCHANGED confirmed,
           tracked' \subseteq Files \cup Campaigns,
           action \in Sensitive => i \in Files,
           i \in Files => i \in confirmed /\ approval[i].action = action
    PROVE  OwnerInv'
  BY DEF OwnerInv, ExecutedWasApproved, OwnerTypeOK, Execute

\* A new approval takes an id for which nothing has been executed.
LEMMA FilingKeeps ==
    ASSUME OwnerInv, NEW f \in Files, NEW action \in Actions, CreateApprovalRequest(f, action),
           UNCHANGED executed, UNCHANGED confirmed, tracked' \subseteq Files \cup Campaigns
    PROVE  OwnerInv'
  <1> DEFINE new == [status |-> "pending", action |-> action]
  <1>1. approval' = [approval EXCEPT ![f] = new] /\ approval[f].status = "absent"
    BY DEF CreateApprovalRequest, NoApproval
  <1>2. /\ f \notin confirmed
        /\ \A g \in Files : approval'[g] = IF g = f THEN new ELSE approval[g]
        /\ approval' \in [Files -> [status: {"absent", "pending", "approved", "rejected"},
                                    action: Actions]]
    BY <1>1 DEF OwnerInv, ExecutedWasApproved, OwnerTypeOK
  <1> QED BY <1>2 DEF OwnerInv, ExecutedWasApproved, OwnerTypeOK

\* A decision leaves the action it is about.
LEMMA DecisionKeeps ==
    ASSUME OwnerInv, NEW f \in Files, Approve(f) \/ Reject(f)
    PROVE  OwnerInv'
  <1>1. PICK s \in {"approved", "rejected"} :
           /\ approval' = [approval EXCEPT ![f].status = s]
           /\ s = "approved" => f \in confirmed'
    BY DEF Approve, Reject
  <1>2. /\ confirmed \subseteq confirmed' /\ confirmed' \subseteq confirmed \cup {f}
        /\ UNCHANGED <<tracked, executed>>
    BY DEF Approve, Reject
  <1>3. /\ approval' \in [Files -> [status: {"absent", "pending", "approved", "rejected"},
                                    action: Actions]]
        /\ approval'[f].status = s
        /\ \A g \in Files : /\ approval'[g].action = approval[g].action
                            /\ g # f => approval'[g] = approval[g]
    BY <1>1 DEF OwnerInv, ExecutedWasApproved, OwnerTypeOK
  <1>4. confirmed' \subseteq Files
    BY <1>2 DEF OwnerInv, ExecutedWasApproved, OwnerTypeOK
  <1>5. ExecutedWasApproved'
    BY <1>2, <1>3, <1>4 DEF OwnerInv, ExecutedWasApproved, OwnerTypeOK
  <1> QED BY <1>1, <1>2, <1>3, <1>5 DEF OwnerInv

LEMMA OwnerKeeps == OwnerInv /\ [OwnerNext]_ownerState => OwnerInv'
  <1> SUFFICES ASSUME OwnerInv, [OwnerNext]_ownerState PROVE OwnerInv'
    OBVIOUS
  <1>1. CASE UNCHANGED ownerState
    BY <1>1 DEF ownerState, OwnerInv, ExecutedWasApproved, OwnerTypeOK
  <1>2. ASSUME NEW person \in People, NEW text \in Texts, HandleCommand(person, text)
        PROVE  OwnerInv'
    <2>1. tracked' \subseteq Files \cup Campaigns /\ UNCHANGED confirmed
      BY <1>2 DEF HandleCommand, OwnerInv, ExecutedWasApproved, OwnerTypeOK
    <2>2. CASE Parse(text) \in Sensitive
      BY <1>2, <2>1, <2>2, ParseIsAction, FilingKeeps DEF HandleCommand, RequiresApproval
    <2>3. CASE Parse(text) \notin Sensitive
      <3>1. Nobody \notin Files
        BY OwnerAssumption
      <3> QED BY <1>2, <2>1, <2>3, <3>1, ParseIsAction, ExecuteAdds
              DEF HandleCommand, RequiresApproval
    <2> QED BY <2>2, <2>3
  <1>3. ASSUME NEW f \in Files, NEW action \in Actions, RequestWorkflow(f, action) PROVE OwnerInv'
    <2>1. tracked' \subseteq Files \cup Campaigns
      BY <1>3 DEF RequestWorkflow, RegisterWorkflow, OwnerInv, ExecutedWasApproved, OwnerTypeOK
    <2> QED BY <1>3, <2>1, FilingKeeps DEF RequestWorkflow
  <1>4. ASSUME NEW f \in Files, ActOnApproval(f) PROVE OwnerInv'
    <2>1. /\ approval[f].action \in Actions /\ f \in confirmed
          /\ tracked' \subseteq Files \cup Campaigns
      BY <1>4 DEF ActOnApproval, OwnerInv, ExecutedWasApproved, OwnerTypeOK
    <2> QED BY <1>4, <2>1, ExecuteAdds DEF ActOnApproval
  <1>5. ASSUME NEW i \in Campaigns, StartCampaign(i) PROVE OwnerInv'
    <2>1. i \notin Files /\ "start_campaign" \notin Sensitive
      BY OwnerAssumption DEF Sensitive
    <2>2. "start_campaign" \in Actions
      <3>1. Phrases[3] = "start_campaign" /\ 3 \in 1..Len(Phrases)
        BY DEF Phrases
      <3> QED BY <3>1 DEF Actions, Texts
    <2>3. tracked' \subseteq Files \cup Campaigns
      BY <1>5 DEF StartCampaign, RegisterWorkflow, OwnerInv, ExecutedWasApproved, OwnerTypeOK
    <2> QED BY <1>5, <2>1, <2>2, <2>3, ExecuteAdds DEF StartCampaign
  <1>6. "financial_workflow" \in Actions /\ "inventory_update" \in Actions
    BY DEF Actions, Sensitive
  <1> QED BY <1>1, <1>2, <1>3, <1>4, <1>5, <1>6, DecisionKeeps
          DEF OwnerNext, RequestAndExecute, InitiateFinancialAction, RequestRestockApproval

\* What is sensitive is executed only for an approval of that action that somebody
\* approved: for any number of approvals, campaigns, owners and decisions.
THEOREM SensitiveIsApproved == OwnerSpec => []ExecutedWasApproved
  <1>1. OwnerInit => OwnerInv
    <2> SUFFICES ASSUME OwnerInit PROVE OwnerInv
      OBVIOUS
    <2>1. NoApproval \in [status: {"absent", "pending", "approved", "rejected"}, action: Actions]
          /\ NoApproval.status = "absent"
      BY DEF NoApproval, Actions
    <2> QED BY <2>1 DEF OwnerInit, OwnerInv, ExecutedWasApproved, OwnerTypeOK
  <1>2. OwnerInv => ExecutedWasApproved
    BY DEF OwnerInv
  <1> QED BY <1>1, <1>2, OwnerKeeps, PTL DEF OwnerSpec

-----------------------------------------------------------------------------
(* WhatsApp messages                                                       *)

\* The requests that are at one of these places with message m.
Handling(m, ats) == {h \in Handlers : hook[h].message = m /\ hook[h].at \in ats}
Count(m, ats) == Cardinality(Handling(m, ats))

Places == {"remember", "create", "start", "ack", "enqueue"}
Fresh == {"remember", "create"}
Unanswered == {"remember", "create", "ack", "enqueue"}

HookRecord == [at: {"idle", "remember", "create", "start", "ack", "enqueue"},
               message: Messages \cup {NoMessage}]

\* Where requests with a command, and those with other messages, can be.
HookOK(x) ==
    /\ x.at # "idle" => x.message \in Messages
    /\ x.at \in {"create", "start", "ack"} => x.message \in Commands
    /\ x.at = "enqueue" => x.message \notin Commands

\* The accounts of a message, in numbers: a for answered, b for begun, l for left
\* over and p for posted; fresh, open, ack and start for requests on their way.
InBalance(a, b, l, p, fresh, open, ack, start, command) ==
    /\ a \in Nat /\ b \in Nat /\ l \in Nat /\ p \in Nat /\ p =< MaxPosts
    /\ command => a + ack =< b
    /\ b + l + fresh =< p
    /\ a + l + open =< p
    /\ start =< l

Balanced(m) ==
    InBalance(accepted200[m], begun[m], leftover[m], posts[m], Count(m, Fresh),
              Count(m, Unanswered), Count(m, {"ack"}), Count(m, {"start"}), m \in Commands)

\* Every request on its way is accounted for: a delivery is answered, has left a
\* workflow behind, or is still handled, and the workflow it answers for is its own.
InboundInv ==
    /\ InboundTypeOK
    /\ IsFiniteSet({h \in Handlers : hook[h].at # "idle"})
    /\ \A h \in Handlers : HookOK(hook[h])
    /\ \A m \in Messages : /\ Balanced(m)
                           /\ (m \in Named \ Commands /\ accepted200[m] > 0) => m \in served
    /\ \A j \in jobs : j.id \in Messages => j.id \in served

In(x, m, ats) == IF x.message = m /\ x.at \in ats THEN 1 ELSE 0

\* One request moves: the counts change by where it was and where it is.
LEMMA OneMoves ==
    ASSUME InboundInv, NEW h \in Handlers, NEW x, hook' = [hook EXCEPT ![h] = x]
    PROVE  /\ IsFiniteSet({k \in Handlers : hook'[k].at # "idle"})
           /\ \A m : \A ats \in SUBSET Places :
                 /\ Count(m, ats) \in Nat
                 /\ Count(m, ats)' = Count(m, ats) - In(hook[h], m, ats) + In(x, m, ats)
                 /\ Count(m, ats) >= In(hook[h], m, ats)
  <1>1. \A k \in Handlers : hook'[k] = IF k = h THEN x ELSE hook[k]
    BY DEF InboundInv, InboundTypeOK
  <1>2. IsFiniteSet({k \in Handlers : hook'[k].at # "idle"})
    <2> DEFINE busy == {k \in Handlers : hook[k].at # "idle"}
    <2>1. {k \in Handlers : hook'[k].at # "idle"} \in SUBSET (busy \cup {h})
      BY <1>1
    <2>2. IsFiniteSet(busy \cup {h})
      <3>1. IsFiniteSet(busy)
        BY DEF InboundInv
      <3> HIDE DEF busy
      <3> QED BY <3>1, FS_AddElement
    <2> HIDE DEF busy
    <2> QED BY <2>1, <2>2, FS_Subset
  <1>3. ASSUME NEW m, NEW ats \in SUBSET Places
        PROVE  /\ Count(m, ats) \in Nat
               /\ Count(m, ats)' = Count(m, ats) - In(hook[h], m, ats) + In(x, m, ats)
               /\ Count(m, ats) >= In(hook[h], m, ats)
    <2> DEFINE old  == Handling(m, ats)
               new  == {k \in Handlers : hook'[k].message = m /\ hook'[k].at \in ats}
               rest == old \ {h}
    <2>1. IsFiniteSet(old)
      <3>1. old \in SUBSET {k \in Handlers : hook[k].at # "idle"}
        BY DEF Handling, Places
      <3>2. IsFiniteSet({k \in Handlers : hook[k].at # "idle"})
        BY DEF InboundInv
      <3> QED BY <3>1, <3>2, FS_Subset
    <2>2. new = (IF x.message = m /\ x.at \in ats THEN rest \cup {h} ELSE rest)
      BY <1>1 DEF Handling
    <2>3. h \in old <=> In(hook[h], m, ats) = 1
      BY DEF Handling, In
    <2>4. In(hook[h], m, ats) \in {0, 1}
      BY DEF In
    <2>5. Count(m, ats)' = Cardinality(new) /\ Count(m, ats) = Cardinality(old)
      BY DEF Count, Handling
    <2> HIDE DEF old, new
    <2>6. /\ IsFiniteSet(rest) /\ Cardinality(old) \in Nat
          /\ Cardinality(rest) = Cardinality(old) - In(hook[h], m, ats)
          /\ Cardinality(rest) \in Nat
      BY <2>1, <2>3, <2>4, FS_RemoveElement, FS_CardinalityType
    <2>7. h \notin rest
      OBVIOUS
    <2> HIDE DEF rest
    <2>8. Cardinality(new) = Cardinality(rest) + In(x, m, ats)
      <3>1. CASE x.message = m /\ x.at \in ats
        BY <2>2, <2>6, <2>7, <3>1, FS_AddElement DEF In
      <3>2. CASE ~(x.message = m /\ x.at \in ats)
        BY <2>2, <2>6, <3>2 DEF In
      <3> QED BY <3>1, <3>2
    <2> QED BY <2>4, <2>5, <2>6, <2>8
  <1> QED BY <1>2, <1>3

\* Request h becomes x, and the accounts of message n a, b, l and p.
Moves(h, x, n, a, b, l, p) ==
    /\ hook' = [hook EXCEPT ![h] = x]
    /\ accepted200' = [accepted200 EXCEPT ![n] = a] /\ begun' = [begun EXCEPT ![n] = b]
    /\ leftover' = [leftover EXCEPT ![n] = l] /\ posts' = [posts EXCEPT ![n] = p]

\* The jobs and the messages that have had one, after a step.
JobsStay ==
    /\ jobs' \subseteq [id: Messages \cup Times, text: Messages] /\ served' \subseteq Messages
    /\ served \subseteq served'
    /\ \A j \in jobs' : j.id \in Messages => j.id \in served'

\* What remains to be shown of a step in which one request moves, and the accounts
\* of its message change.
LEMMA MoveKeeps ==
    ASSUME InboundInv, NEW h \in Handlers, NEW x, HookOK(x), NEW n \in Messages,
           x \in HookRecord,
           hook[h].at = "idle" \/ hook[h].message = n,
           x.at = "idle" \/ x.message = n,
           NEW a \in Nat, NEW b \in Nat, NEW l \in Nat, NEW p \in Nat,
           Moves(h, x, n, a, b, l, p), Balanced(n)', JobsStay,
           n \in Named \ Commands /\ a > 0 => n \in served'
    PROVE  InboundInv'
  <1>1. /\ Fresh \in SUBSET Places /\ Unanswered \in SUBSET Places
        /\ {"ack"} \in SUBSET Places /\ {"start"} \in SUBSET Places
    BY DEF Fresh, Unanswered, Places
  <1>2. \A m : \A ats \in SUBSET Places :
           /\ Count(m, ats) \in Nat
           /\ Count(m, ats)' = Count(m, ats) - In(hook[h], m, ats) + In(x, m, ats)
           /\ Count(m, ats) >= In(hook[h], m, ats)
    BY OneMoves DEF Moves
  <1>3. \A ats \in SUBSET Places : \A m \in Messages \ {n} : Count(m, ats)' = Count(m, ats)
    <2>1. \A ats \in SUBSET Places : \A m \in Messages \ {n} :
             In(hook[h], m, ats) = 0 /\ In(x, m, ats) = 0
      BY DEF In, Places
    <2> QED BY <1>2, <2>1
  <1>4. /\ \A f \in {accepted200, begun, leftover, posts} : f \in [Messages -> 0..MaxPosts]
        /\ hook \in [Handlers -> HookRecord]
    BY DEF InboundInv, InboundTypeOK, HookRecord
  <1>5. /\ accepted200'[n] = a /\ begun'[n] = b /\ leftover'[n] = l /\ posts'[n] = p
        /\ \A m \in Messages \ {n} : /\ accepted200'[m] = accepted200[m]
                                     /\ begun'[m] = begun[m] /\ leftover'[m] = leftover[m]
                                     /\ posts'[m] = posts[m]
    BY <1>4 DEF Moves
  <1>6. ASSUME NEW m \in Messages
        PROVE  Balanced(m)' /\ (m \in Named \ Commands /\ accepted200'[m] > 0 => m \in served')
    <2>1. CASE m = n
      BY <1>5, <2>1
    <2>2. CASE m # n
      BY <1>1, <1>3, <1>5, <2>2 DEF Balanced, InboundInv, JobsStay
    <2> QED BY <2>1, <2>2
  <1>7. a =< MaxPosts /\ b =< MaxPosts /\ l =< MaxPosts /\ p =< MaxPosts
    <2> DEFINE fresh == Count(n, Fresh)'
               open == Count(n, Unanswered)'
    <2>1. fresh \in Nat /\ open \in Nat
      <3>1. \A ats \in SUBSET Places : /\ Count(n, ats) >= In(hook[h], n, ats)
                                       /\ In(hook[h], n, ats) \in Nat /\ In(x, n, ats) \in Nat
        BY OneMoves DEF In, Moves
      <3> QED BY <1>1, <1>2, <3>1
    <2>2. b + l + fresh =< p /\ a + l + open =< p /\ p =< MaxPosts
      BY <1>5 DEF Balanced, InBalance
    <2> HIDE DEF fresh, open
    <2> QED BY <2>1, <2>2, MessagesAssumption
  <1>8. InboundTypeOK'
    <2>1. /\ accepted200' \in [Messages -> 0..MaxPosts] /\ begun' \in [Messages -> 0..MaxPosts]
          /\ leftover' \in [Messages -> 0..MaxPosts] /\ posts' \in [Messages -> 0..MaxPosts]
      BY <1>4, <1>7, MessagesAssumption DEF Moves
    <2>2. hook' \in [Handlers -> HookRecord]
      BY <1>4 DEF Moves
    <2> QED BY <2>1, <2>2 DEF InboundTypeOK, JobsStay, HookRecord
  <1>9. \A k \in Handlers : HookOK(hook'[k])
    BY <1>4 DEF InboundInv, Moves, HookRecord
  <1> QED BY <1>6, <1>8, <1>9, OneMoves DEF InboundInv, Moves, JobsStay

\* The message of a request on its way, and the numbers of its account.
LEMMA AtWork ==
    ASSUME InboundInv, NEW h \in Handlers, hook[h].at # "idle"
    PROVE  /\ hook[h].message \in Messages
           /\ \A f \in {accepted200, begun, leftover, posts} :
                 /\ f \in [Messages -> 0..MaxPosts]
                 /\ f = [f EXCEPT ![hook[h].message] = f[hook[h].message]]
                 /\ f[hook[h].message] \in Nat
  BY MessagesAssumption DEF InboundInv, InboundTypeOK, HookOK

\* What a step must show of the numbers: with any numbers of other requests, the
\* accounts a, b and l balance when request h becomes x if they did before.
Rebalances(h, x, n, a, b, l) ==
    \A fresh, open, ack, start \in Nat :
        InBalance(accepted200[n], begun[n], leftover[n], posts[n],
                  fresh + In(hook[h], n, Fresh), open + In(hook[h], n, Unanswered),
                  ack + In(hook[h], n, {"ack"}), start + In(hook[h], n, {"start"}),
                  n \in Commands)
        => InBalance(a, b, l, posts[n], fresh + In(x, n, Fresh), open + In(x, n, Unanswered),
                     ack + In(x, n, {"ack"}), start + In(x, n, {"start"}), n \in Commands)

\* A request that is on its way takes a step; a, b and l are the answers, the started
\* and the created workflows of its message afterwards.
LEMMA StepKeeps ==
    ASSUME InboundInv, NEW h \in Handlers, NEW n \in Messages, n = hook[h].message,
           NEW x \in HookRecord, HookOK(x), x.at = "idle" \/ x.message = n,
           NEW a \in Nat, NEW b \in Nat, NEW l \in Nat,
           Moves(h, x, n, a, b, l, posts[n]), Rebalances(h, x, n, a, b, l), JobsStay,
           n \in Named \ Commands /\ a > 0 => n \in served'
    PROVE  InboundInv'
  <1>1. posts[n] \in Nat
    BY MessagesAssumption DEF InboundInv, InboundTypeOK
  <1>2. /\ Fresh \in SUBSET Places /\ Unanswered \in SUBSET Places
        /\ {"ack"} \in SUBSET Places /\ {"start"} \in SUBSET Places
    BY DEF Fresh, Unanswered, Places
  <1>3. \A m : \A ats \in SUBSET Places :
           /\ Count(m, ats) \in Nat
           /\ Count(m, ats)' = Count(m, ats) - In(hook[h], m, ats) + In(x, m, ats)
           /\ Count(m, ats) >= In(hook[h], m, ats)
    <2>1. hook' = [hook EXCEPT ![h] = x]
      BY DEF Moves
    <2> QED BY <2>1, OneMoves
  <1>4. \A ats : In(hook[h], n, ats) \in {0, 1} /\ In(x, n, ats) \in {0, 1}
    BY DEF In
  <1> DEFINE Others(ats) == Count(n, ats) - In(hook[h], n, ats)
  <1>5. \A ats \in {Fresh, Unanswered, {"ack"}, {"start"}} :
           /\ Others(ats) \in Nat /\ Count(n, ats) = Others(ats) + In(hook[h], n, ats)
           /\ Count(n, ats)' = Others(ats) + In(x, n, ats)
    BY <1>2, <1>3, <1>4
  <1>6. Balanced(n)
    BY DEF InboundInv
  <1> HIDE DEF Others
  <1>7. InBalance(accepted200[n], begun[n], leftover[n], posts[n],
                  Others(Fresh) + In(hook[h], n, Fresh),
                  Others(Unanswered) + In(hook[h], n, Unanswered),
                  Others({"ack"}) + In(hook[h], n, {"ack"}),
                  Others({"start"}) + In(hook[h], n, {"start"}), n \in Commands)
    BY <1>5, <1>6 DEF Balanced
  <1>8. InBalance(a, b, l, posts[n], Others(Fresh) + In(x, n, Fresh),
                  Others(Unanswered) + In(x, n, Unanswered),
                  Others({"ack"}) + In(x, n, {"ack"}),
                  Others({"start"}) + In(x, n, {"start"}), n \in Commands)
    BY <1>5, <1>7 DEF Rebalances
  <1>9. Balanced(n)'
    <2>1. /\ accepted200'[n] = a /\ begun'[n] = b /\ leftover'[n] = l /\ posts'[n] = posts[n]
      BY DEF Moves, InboundInv, InboundTypeOK
    <2> QED BY <1>5, <1>8, <2>1 DEF Balanced
  <1> QED BY <1>1, <1>9, MoveKeeps

\* A request goes on to another place, with the same message.
LEMMA GoesOn ==
    ASSUME InboundInv, NEW h \in Handlers, NEW at, HookGoes(h, at)
    PROVE  hook' = [hook EXCEPT ![h] = [at |-> at, message |-> hook[h].message]]
  <1> DEFINE y == [at |-> at, message |-> hook[h].message]
  <1>1. hook \in [Handlers -> HookRecord]
    BY DEF InboundInv, InboundTypeOK, HookRecord
  <1>2. [hook[h] EXCEPT !.at = at] = y
    BY <1>1 DEF HookRecord
  <1> HIDE DEF HookRecord
  <1>3. hook' = [hook EXCEPT ![h] = [hook[h] EXCEPT !.at = at]]
    BY <1>1 DEF HookGoes
  <1> QED BY <1>2, <1>3

\* Where a request can be, as a number: 1 in its place and 0 elsewhere.
LEMMA InOneOf ==
    ASSUME NEW x, NEW m, x.message = m
    PROVE  \A ats : In(x, m, ats) = IF x.at \in ats THEN 1 ELSE 0
  BY DEF In

LEMMA RememberKeeps ==
    ASSUME InboundInv, NEW h \in Handlers, Remember(h)
    PROVE  InboundInv'
  <1>1. PICK n \in Messages : /\ n = hook[h].message
           /\ \A f \in {accepted200, begun, leftover, posts} :
                 f = [f EXCEPT ![n] = f[n]] /\ f[n] \in Nat
    BY AtWork DEF Remember, HookAt
  <1> DEFINE at == IF n \in Commands THEN "create" ELSE "enqueue"
             x == [at |-> at, message |-> n]
  <1>2. x \in HookRecord /\ HookOK(x) /\ x.message = n
    BY DEF HookOK, HookRecord
  <1>3. Moves(h, x, n, accepted200[n], begun[n], leftover[n], posts[n])
    BY <1>1, GoesOn DEF Moves, Remember, MessageOf
  <1>4. Rebalances(h, x, n, accepted200[n], begun[n], leftover[n])
    <2>1. /\ In(hook[h], n, Fresh) = 1 /\ In(hook[h], n, Unanswered) = 1
          /\ In(hook[h], n, {"ack"}) = 0 /\ In(hook[h], n, {"start"}) = 0
      BY <1>1 DEF Remember, HookAt, In, Fresh, Unanswered
    <2>2. /\ In(x, n, Fresh) \in {0, 1} /\ In(x, n, Unanswered) = 1
          /\ In(x, n, {"ack"}) = 0 /\ In(x, n, {"start"}) = 0
      BY DEF In, Fresh, Unanswered
    <2> HIDE DEF x
    <2> QED BY <1>1, <2>1, <2>2 DEF InBalance, Rebalances
  <1>5. JobsStay /\ (n \in Named \ Commands /\ accepted200[n] > 0 => n \in served')
    BY DEF Remember, InboundInv, InboundTypeOK, JobsStay
  <1> HIDE DEF x
  <1> QED BY <1>1, <1>2, <1>3, <1>4, <1>5, StepKeeps

\* The job of a message is stored, or one with its id was: either way the message has
\* had a job if the id is its own.
LEMMA StoredStay ==
    ASSUME InboundInv, NEW m \in Messages, NEW id \in JobIds(m), Stored(m, id)
    PROVE  JobsStay /\ (m \in Named => m \in served')
  <1>1. /\ jobs \subseteq [id: Messages \cup Times, text: Messages] /\ served \subseteq Messages
        /\ \A j \in jobs : j.id \in Messages => j.id \in served
    BY DEF InboundInv, InboundTypeOK
  <1>2. /\ id \in Messages \cup Times
        /\ id \in Messages => id = m
        /\ m \in Named => id = m
    BY MessagesAssumption DEF JobIds
  <1>3. CASE \E j \in jobs : j.id = id
    BY <1>1, <1>2, <1>3 DEF Stored, JobsStay
  <1>4. CASE ~ \E j \in jobs : j.id = id
    BY <1>1, <1>2, <1>4 DEF Stored, JobsStay
  <1> QED BY <1>3, <1>4

LEMMA CreateKeeps ==
    ASSUME InboundInv, NEW h \in Handlers, CreateWorkflow(h)
    PROVE  InboundInv'
  <1>1. PICK n \in Messages : /\ n = hook[h].message
           /\ \A f \in {accepted200, begun, leftover, posts} :
                 f = [f EXCEPT ![n] = f[n]] /\ f[n] \in Nat
    BY AtWork DEF CreateWorkflow, HookAt
  <1> DEFINE x == [at |-> "start", message |-> n]
  <1>2. x \in HookRecord /\ HookOK(x) /\ x.message = n
    BY <1>1 DEF HookOK, HookRecord, InboundInv, CreateWorkflow, HookAt
  <1>3. Moves(h, x, n, accepted200[n], begun[n], leftover[n] + 1, posts[n])
    BY <1>1, GoesOn DEF Moves, CreateWorkflow, MessageOf, Counted
  <1>4. Rebalances(h, x, n, accepted200[n], begun[n], leftover[n] + 1)
    <2>1. /\ In(hook[h], n, Fresh) = 1 /\ In(hook[h], n, Unanswered) = 1
          /\ In(hook[h], n, {"ack"}) = 0 /\ In(hook[h], n, {"start"}) = 0
      BY <1>1 DEF CreateWorkflow, HookAt, In, Fresh, Unanswered
    <2>2. /\ In(x, n, Fresh) = 0 /\ In(x, n, Unanswered) = 0
          /\ In(x, n, {"ack"}) = 0 /\ In(x, n, {"start"}) = 1
      BY DEF In, Fresh, Unanswered
    <2> HIDE DEF x
    <2> QED BY <1>1, <2>1, <2>2 DEF InBalance, Rebalances
  <1>5. JobsStay /\ (n \in Named \ Commands /\ accepted200[n] > 0 => n \in served')
    BY DEF CreateWorkflow, InboundInv, InboundTypeOK, JobsStay
  <1>6. leftover[n] + 1 \in Nat
    BY <1>1
  <1> HIDE DEF x
  <1> QED BY <1>1, <1>2, <1>3, <1>4, <1>5, <1>6, StepKeeps

\* A workflow is started, and the request is acknowledged or given up.
LEMMA StartKeeps ==
    ASSUME InboundInv, NEW h \in Handlers, HookAt(h, "start"),
           leftover' = [leftover EXCEPT ![MessageOf(h)] = @ - 1],
           begun' = Counted(begun, MessageOf(h)),
           UNCHANGED <<posts, accepted200, jobs, served>>,
           HookGoes(h, "ack") \/ HookEnds(h)
    PROVE  InboundInv'
  <1>1. PICK n \in Messages : /\ n = hook[h].message
           /\ \A f \in {accepted200, begun, leftover, posts} :
                 f = [f EXCEPT ![n] = f[n]] /\ f[n] \in Nat
    BY AtWork DEF HookAt
  <1>2. PICK x \in HookRecord : /\ x = FreeHook \/ x = [at |-> "ack", message |-> n]
                                /\ hook' = [hook EXCEPT ![h] = x]
    <2>1. FreeHook \in HookRecord /\ [at |-> "ack", message |-> n] \in HookRecord
      BY DEF HookRecord, FreeHook
    <2>2. CASE HookGoes(h, "ack")
      BY <1>1, <2>1, <2>2, GoesOn
    <2>3. CASE HookEnds(h)
      BY <2>1, <2>3 DEF HookEnds
    <2> QED BY <2>2, <2>3
  <1>3. HookOK(x) /\ (x.at = "idle" \/ x.message = n)
    BY <1>1, <1>2 DEF HookOK, HookRecord, InboundInv, HookAt, FreeHook
  <1>4. Moves(h, x, n, accepted200[n], begun[n] + 1, leftover[n] - 1, posts[n])
    BY <1>1, <1>2 DEF Moves, MessageOf, Counted
  <1>5. /\ In(hook[h], n, Fresh) = 0 /\ In(hook[h], n, Unanswered) = 0
        /\ In(hook[h], n, {"ack"}) = 0 /\ In(hook[h], n, {"start"}) = 1
    BY <1>1 DEF HookAt, In, Fresh, Unanswered
  <1>6. /\ In(x, n, Fresh) = 0 /\ In(x, n, {"start"}) = 0
        /\ In(x, n, Unanswered) = In(x, n, {"ack"}) /\ In(x, n, {"ack"}) \in {0, 1}
    BY <1>2 DEF In, Fresh, Unanswered, FreeHook
  <1>7. Rebalances(h, x, n, accepted200[n], begun[n] + 1, leftover[n] - 1)
    BY <1>1, <1>5, <1>6 DEF InBalance, Rebalances
  <1>8. JobsStay /\ (n \in Named \ Commands /\ accepted200[n] > 0 => n \in served')
    BY DEF InboundInv, InboundTypeOK, JobsStay
  <1>9. begun[n] + 1 \in Nat /\ leftover[n] - 1 \in Nat
    <2>1. Count(n, {"start"}) >= 1 /\ Count(n, {"start"}) \in Nat
      BY <1>2, <1>5, OneMoves DEF Places
    <2>2. leftover[n] >= Count(n, {"start"})
      BY <1>1 DEF InboundInv, Balanced, InBalance
    <2> QED BY <1>1, <2>1, <2>2
  <1> QED BY <1>1, <1>2, <1>3, <1>4, <1>7, <1>8, <1>9, StepKeeps

\* A request that has not been answered with 200 so far is: the workflow it answers for
\* is started, or its job stored.
LEMMA AnswerKeeps ==
    ASSUME InboundInv, NEW h \in Handlers, hook[h].at \in {"ack", "enqueue"}, AnswerOk(h),
           UNCHANGED <<posts, begun, leftover>>, JobsStay,
           (hook[h].at = "enqueue" /\ MessageOf(h) \in Named) => MessageOf(h) \in served'
    PROVE  InboundInv'
  <1>1. PICK n \in Messages : /\ n = hook[h].message
           /\ \A f \in {accepted200, begun, leftover, posts} :
                 f = [f EXCEPT ![n] = f[n]] /\ f[n] \in Nat
    BY AtWork
  <1>2. /\ FreeHook \in HookRecord /\ HookOK(FreeHook) /\ FreeHook.at = "idle"
        /\ HookOK(hook[h])
    BY DEF FreeHook, HookRecord, HookOK, InboundInv
  <1>3. Moves(h, FreeHook, n, accepted200[n] + 1, begun[n], leftover[n], posts[n])
    BY <1>1 DEF Moves, AnswerOk, HookEnds, MessageOf, Counted
  <1>4. Rebalances(h, FreeHook, n, accepted200[n] + 1, begun[n], leftover[n])
    <2>1. /\ In(hook[h], n, Fresh) = 0 /\ In(hook[h], n, Unanswered) = 1
          /\ In(hook[h], n, {"start"}) = 0
          /\ In(hook[h], n, {"ack"}) = IF hook[h].at = "ack" THEN 1 ELSE 0
      BY <1>1 DEF In, Fresh, Unanswered
    <2>2. /\ In(FreeHook, n, Fresh) = 0 /\ In(FreeHook, n, Unanswered) = 0
          /\ In(FreeHook, n, {"ack"}) = 0 /\ In(FreeHook, n, {"start"}) = 0
      BY DEF In, Fresh, Unanswered, FreeHook
    <2>3. n \in Commands => hook[h].at = "ack"
      BY <1>1, <1>2 DEF HookOK
    <2> QED BY <1>1, <2>1, <2>2, <2>3 DEF InBalance, Rebalances
  <1>5. n \in Named \ Commands => n \in served'
    BY <1>1, <1>2 DEF HookOK, MessageOf
  <1>6. accepted200[n] + 1 \in Nat
    BY <1>1
  <1> QED BY <1>1, <1>2, <1>3, <1>4, <1>5, <1>6, StepKeeps

\* A request ends with an answer of 500, when its message has been put aside or its
\* workflow has been stored.
LEMMA FailureKeeps ==
    ASSUME InboundInv, NEW h \in Handlers, hook[h].at \in {"create", "start", "enqueue"},
           HookEnds(h), UNCHANGED <<posts, accepted200, begun>>, JobsStay,
           \/ UNCHANGED leftover
           \/ HookAt(h, "create") /\ leftover' = Counted(leftover, MessageOf(h))
    PROVE  InboundInv'
  <1>1. PICK n \in Messages : /\ n = hook[h].message
           /\ \A f \in {accepted200, begun, leftover, posts} :
                 f = [f EXCEPT ![n] = f[n]] /\ f[n] \in Nat
    BY AtWork
  <1>2. FreeHook \in HookRecord /\ HookOK(FreeHook) /\ FreeHook.at = "idle"
    BY DEF FreeHook, HookRecord, HookOK
  <1>3. PICK l \in Nat : /\ leftover' = [leftover EXCEPT ![n] = l]
                         /\ l = leftover[n] \/ (hook[h].at = "create" /\ l = leftover[n] + 1)
    BY <1>1 DEF HookAt, Counted, MessageOf
  <1>4. Moves(h, FreeHook, n, accepted200[n], begun[n], l, posts[n])
    BY <1>1, <1>3 DEF Moves, HookEnds
  <1>5. Rebalances(h, FreeHook, n, accepted200[n], begun[n], l)
    <2>1. /\ In(hook[h], n, Fresh) = IF hook[h].at = "create" THEN 1 ELSE 0
          /\ In(hook[h], n, Unanswered) = IF hook[h].at = "start" THEN 0 ELSE 1
          /\ In(hook[h], n, {"start"}) \in {0, 1} /\ In(hook[h], n, {"ack"}) = 0
      BY <1>1 DEF In, Fresh, Unanswered
    <2>2. /\ In(FreeHook, n, Fresh) = 0 /\ In(FreeHook, n, Unanswered) = 0
          /\ In(FreeHook, n, {"ack"}) = 0 /\ In(FreeHook, n, {"start"}) = 0
      BY DEF In, Fresh, Unanswered, FreeHook
    <2> QED BY <1>1, <1>3, <2>1, <2>2 DEF InBalance, Rebalances
  <1>6. n \in Named \ Commands /\ accepted200[n] > 0 => n \in served'
    BY DEF InboundInv, JobsStay
  <1> QED BY <1>1, <1>2, <1>3, <1>4, <1>5, <1>6, StepKeeps

\* A delivery arrives: it is turned away, or a request takes it up.
LEMMA ReceiveKeeps ==
    ASSUME InboundInv, NEW h \in Handlers, NEW m \in Messages, Receive(h, m)
    PROVE  InboundInv'
  <1>1. /\ hook[h].at = "idle" /\ posts[m] < MaxPosts
        /\ posts' = [posts EXCEPT ![m] = posts[m] + 1]
        /\ UNCHANGED <<accepted200, begun, leftover, jobs, served>>
    BY DEF Receive, HookAt, Counted
  <1>2. /\ \A f \in {accepted200, begun, leftover, posts} :
              f = [f EXCEPT ![m] = f[m]] /\ f[m] \in Nat
        /\ hook \in [Handlers -> HookRecord]
    BY MessagesAssumption DEF InboundInv, InboundTypeOK, HookRecord
  <1>3. PICK x \in HookRecord : /\ hook' = [hook EXCEPT ![h] = x] /\ HookOK(x)
                                /\ x.at = "idle" \/ (x.at = "remember" /\ x.message = m)
    <2>1. CASE m \in SenderKnown
      <3>1. /\ [at |-> "remember", message |-> m] \in HookRecord
            /\ HookOK([at |-> "remember", message |-> m])
        BY DEF HookRecord, HookOK
      <3> QED BY <2>1, <3>1 DEF Receive
    <2>2. CASE m \notin SenderKnown
      <3>1. hook' = [hook EXCEPT ![h] = hook[h]] /\ hook[h] \in HookRecord /\ HookOK(hook[h])
        BY <1>2, <2>2 DEF Receive, InboundInv
      <3> QED BY <1>1, <3>1
    <2> QED BY <2>1, <2>2
  <1>4. Moves(h, x, m, accepted200[m], begun[m], leftover[m], posts[m] + 1)
    BY <1>1, <1>2, <1>3 DEF Moves
  <1>5. Balanced(m)'
    <2>1. /\ Fresh \in SUBSET Places /\ Unanswered \in SUBSET Places
          /\ {"ack"} \in SUBSET Places /\ {"start"} \in SUBSET Places
      BY DEF Fresh, Unanswered, Places
    <2>2. \A n : \A ats \in SUBSET Places :
             /\ Count(n, ats) \in Nat
             /\ Count(n, ats)' = Count(n, ats) - In(hook[h], n, ats) + In(x, n, ats)
             /\ Count(n, ats) >= In(hook[h], n, ats)
      BY <1>3, OneMoves
    <2>3. /\ In(x, m, Fresh) \in {0, 1} /\ In(x, m, Unanswered) \in {0, 1}
          /\ In(x, m, {"ack"}) = 0 /\ In(x, m, {"start"}) = 0
          /\ \A ats \in SUBSET Places : In(hook[h], m, ats) = 0
      BY <1>1, <1>3 DEF In, Places
    <2>4. /\ Count(m, Fresh)' \in {Count(m, Fresh), Count(m, Fresh) + 1}
          /\ Count(m, Unanswered)' \in {Count(m, Unanswered), Count(m, Unanswered) + 1}
          /\ Count(m, {"ack"})' = Count(m, {"ack"})
          /\ Count(m, {"start"})' = Count(m, {"start"})
          /\ Count(m, Fresh) \in Nat /\ Count(m, Unanswered) \in Nat
          /\ Count(m, {"ack"}) \in Nat /\ Count(m, {"start"}) \in Nat
      BY <2>1, <2>2, <2>3
    <2>5. /\ accepted200'[m] = accepted200[m] /\ begun'[m] = begun[m]
          /\ leftover'[m] = leftover[m] /\ posts'[m] = posts[m] + 1
      BY <1>1 DEF InboundInv, InboundTypeOK
    <2>6. Balanced(m)
      BY DEF InboundInv
    <2> QED BY <1>1, <1>2, <2>4, <2>5, <2>6, MessagesAssumption DEF Balanced, InBalance
  <1>6. JobsStay /\ (m \in Named \ Commands /\ accepted200[m] > 0 => m \in served')
    BY <1>1 DEF InboundInv, InboundTypeOK, JobsStay
  <1>7. posts[m] + 1 \in Nat /\ (x.at = "idle" \/ x.message = m)
    BY <1>2, <1>3
  <1> QED BY <1>1, <1>2, <1>3, <1>4, <1>5, <1>6, <1>7, MoveKeeps

\* Nothing in the accounts depends on a job that is gone.
LEMMA RemoveKeeps ==
    ASSUME InboundInv, UNCHANGED <<hook, posts, accepted200, begun, leftover, served>>,
           jobs' \subseteq jobs
    PROVE  InboundInv'
  <1>1. InboundTypeOK'
    BY DEF InboundInv, InboundTypeOK
  <1>2. \A m \in Messages : Balanced(m)' = Balanced(m)
    BY DEF Balanced, Count, Handling
  <1> QED BY <1>1, <1>2 DEF InboundInv

LEMMA MessagesStart == InboundInit => InboundInv
  <1> SUFFICES ASSUME InboundInit PROVE InboundInv
    OBVIOUS
  <1>1. /\ \A h \in Handlers : hook[h].at = "idle" /\ HookOK(hook[h])
        /\ {h \in Handlers : hook[h].at # "idle"} = {}
    BY DEF InboundInit, FreeHook, HookOK
  <1>2. \A m \in Messages : Balanced(m)
    <2> TAKE m \in Messages
    <2>1. \A ats \in SUBSET Places : Count(m, ats) = 0
      <3>1. \A ats \in SUBSET Places : Handling(m, ats) = {}
        BY <1>1 DEF Handling, Places
      <3> QED BY <3>1, FS_EmptySet DEF Count
    <2>2. /\ Fresh \in SUBSET Places /\ Unanswered \in SUBSET Places
          /\ {"ack"} \in SUBSET Places /\ {"start"} \in SUBSET Places
      BY DEF Fresh, Unanswered, Places
    <2>3. accepted200[m] = 0 /\ begun[m] = 0 /\ leftover[m] = 0 /\ posts[m] = 0
      BY DEF InboundInit
    <2> QED BY <2>1, <2>2, <2>3, MessagesAssumption DEF Balanced, InBalance
  <1>3. InboundTypeOK
    BY MessagesAssumption DEF InboundInit, InboundTypeOK, FreeHook
  <1>4. \A m \in Messages : accepted200[m] = 0
    BY DEF InboundInit
  <1>5. ~(0 > 0)
    OBVIOUS
  <1> QED BY <1>1, <1>2, <1>3, <1>4, <1>5, FS_EmptySet DEF InboundInit, InboundInv

LEMMA MessagesKeep == InboundInv /\ [InboundNext]_inboundState => InboundInv'
  <1> SUFFICES ASSUME InboundInv, [InboundNext]_inboundState PROVE InboundInv'
    OBVIOUS
  <1>1. ASSUME NEW h \in Handlers, NEW m \in Messages, Receive(h, m) PROVE InboundInv'
    BY <1>1, ReceiveKeeps
  <1>2. ASSUME NEW h \in Handlers, Remember(h) PROVE InboundInv'
    BY <1>2, RememberKeeps
  <1>3. ASSUME NEW h \in Handlers, CreateWorkflow(h) PROVE InboundInv'
    BY <1>3, CreateKeeps
  <1>4. ASSUME NEW h \in Handlers, StartWorkflow(h) PROVE InboundInv'
    BY <1>4, StartKeeps DEF StartWorkflow
  <1>5. JobsStay \/ ~UNCHANGED <<jobs, served>>
    BY DEF JobsStay, InboundInv, InboundTypeOK
  <1>6. ASSUME NEW h \in Handlers, Ack(h) PROVE InboundInv'
    BY <1>5, <1>6, AnswerKeeps DEF Ack, HookAt
  <1>7. ASSUME NEW h \in Handlers, hook[h].at = "enqueue",
               NEW id \in JobIds(MessageOf(h)), Stored(MessageOf(h), id)
        PROVE  JobsStay /\ (MessageOf(h) \in Named => MessageOf(h) \in served')
    BY <1>7, AtWork, StoredStay DEF MessageOf
  <1>8. ASSUME NEW h \in Handlers, EnqueueTask(h) PROVE InboundInv'
    <2>1. hook[h].at = "enqueue"
      BY <1>8 DEF EnqueueTask, HookAt
    <2>2. JobsStay /\ (MessageOf(h) \in Named => MessageOf(h) \in served')
      BY <1>7, <1>8, <2>1 DEF EnqueueTask
    <2> QED BY <1>8, <2>1, <2>2, AnswerKeeps DEF EnqueueTask
  <1>9. ASSUME NEW h \in Handlers, HookFails(h) PROVE InboundInv'
    <2>1. HookEnds(h) /\ UNCHANGED <<posts, accepted200>>
      BY <1>9 DEF HookFails
    <2>2. CASE /\ hook[h].at \in {"create", "start", "enqueue"}
               /\ UNCHANGED <<begun, leftover, jobs, served>>
      BY <1>5, <2>1, <2>2, FailureKeeps
    <2>3. CASE /\ HookAt(h, "create")
               /\ leftover' = Counted(leftover, MessageOf(h))
               /\ UNCHANGED <<begun, jobs, served>>
      BY <1>5, <2>1, <2>3, FailureKeeps DEF HookAt
    <2>4. CASE /\ HookAt(h, "start")
               /\ leftover' = [leftover EXCEPT ![MessageOf(h)] = @ - 1]
               /\ begun' = Counted(begun, MessageOf(h))
               /\ UNCHANGED <<jobs, served>>
      BY <2>1, <2>4, StartKeeps
    <2>5. CASE /\ HookAt(h, "enqueue")
               /\ \E id \in JobIds(MessageOf(h)) : Stored(MessageOf(h), id)
               /\ UNCHANGED <<begun, leftover>>
      <3>1. JobsStay
        BY <1>7, <2>5 DEF HookAt
      <3> QED BY <2>1, <2>5, <3>1, FailureKeeps DEF HookAt
    <2> QED BY <1>9, <2>2, <2>3, <2>4, <2>5 DEF HookFails
  <1>10. ASSUME NEW j \in jobs, RemoveJob(j) PROVE InboundInv'
    BY <1>10, RemoveKeeps DEF RemoveJob
  <1>11. CASE UNCHANGED inboundState
    BY <1>11, RemoveKeeps DEF inboundState
  <1> QED BY <1>1, <1>2, <1>3, <1>4, <1>6, <1>8, <1>9, <1>10, <1>11 DEF InboundNext

LEMMA AccountsFollow == InboundInv => InboundAccounted
  <1> SUFFICES ASSUME InboundInv PROVE InboundAccounted
    OBVIOUS
  <1>1. \A m \in Messages : \A ats \in SUBSET Places : Count(m, ats) \in Nat
    <2> TAKE m \in Messages
    <2> TAKE ats \in SUBSET Places
    <2>1. Handling(m, ats) \in SUBSET {h \in Handlers : hook[h].at # "idle"}
      BY DEF Handling, Places
    <2> QED BY <2>1, FS_Subset, FS_CardinalityType DEF InboundInv, Count
  <1>2. ASSUME NEW m \in Messages
        PROVE  /\ m \in Commands => accepted200[m] =< begun[m]
               /\ begun[m] + leftover[m] =< posts[m]
               /\ accepted200[m] = posts[m] => leftover[m] = 0
    <2>1. /\ Count(m, Fresh) \in Nat /\ Count(m, Unanswered) \in Nat
          /\ Count(m, {"ack"}) \in Nat /\ Count(m, {"start"}) \in Nat
      BY <1>1 DEF Fresh, Unanswered, Places
    <2>2. Balanced(m)
      BY DEF InboundInv
    <2> QED BY <2>1, <2>2 DEF Balanced, InBalance
  <1> QED BY <1>2 DEF InboundInv, InboundAccounted

\* For any messages, requests and bound: an answer of 200 to a command has a started
\* workflow of its own, the workflows left behind are no more than the deliveries
\* that failed, and a chat message with an id that was answered with 200 has had its
\* job.
THEOREM DeliveriesAccounted == InboundSpec => []InboundAccounted
  BY MessagesStart, MessagesKeep, AccountsFollow, PTL DEF InboundSpec
==============================================================================
