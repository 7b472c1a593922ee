---------------------------- MODULE ApprovalFlow ----------------------------
(***************************************************************************)
(* Approvals: controllers/approvalController.js over models/Approval.js.   *)
(* Each request reads or creates a document, awaits, and saves the fields  *)
(* it set; mongoose writes those fields only and checks no version, since  *)
(* an approval holds no array.                                             *)
(***************************************************************************)
EXTENDS Naturals

CONSTANTS Approvals,   \* ids the create requests generate
          Requests,    \* HTTP requests
          Users,
          MaxAttempts  \* send attempts of the notifier

ASSUME ApprovalAssumption == MaxAttempts \in Nat \ {0}

VARIABLES doc,     \* doc[a]: the approval document
          due,     \* approvals whose expiresAt has passed
          req,     \* req[r]: a request and how far it has got
          logged,  \* requests with an entry in the workflow's log
          saved    \* history: decisions that were written

vars == <<doc, due, req, logged, saved>>

Decision == {"approved", "rejected"}
Status == {"absent", "pending", "expired"} \cup Decision
None == "none"

\* notes is what the deciding request wrote into the field "decision".
Document == [status: Status, approver: Users \cup {None},
             notes: Requests \cup {None}, notified: BOOLEAN]
Undecided(status) ==
    [status |-> status, approver |-> None, notes |-> None, notified |-> TRUE]
NoDocument == Undecided("absent")

Pc == {"idle", "notify", "saveMeta", "save", "log", "done"}
Request == [op: {None, "create", "decide", "link"}, a: Approvals \cup {None},
            user: Users \cup {None}, decision: Decision \cup {None},
            left: 0..MaxAttempts, pc: Pc,
            answer: {None, "ok", "notFound", "conflict", "error"}]
Asking(op, a, user, decision, pc, answer) ==
    [op |-> op, a |-> a, user |-> user, decision |-> decision,
     left |-> MaxAttempts, pc |-> pc, answer |-> answer]
NewRequest == Asking(None, None, None, None, "idle", None)

TypeOK ==
    /\ doc \in [Approvals -> Document]
    /\ due \subseteq Approvals
    /\ req \in [Requests -> Request]
    /\ logged \subseteq Requests
    /\ saved \subseteq Requests

Init ==
    /\ doc = [a \in Approvals |-> NoDocument]
    /\ due = {}
    /\ req = [r \in Requests |-> NewRequest]
    /\ logged = {}
    /\ saved = {}

-----------------------------------------------------------------------------
Asks(r, op, a, user, decision, pc, answer) ==
    /\ req[r].pc = "idle"
    /\ req' = [req EXCEPT ![r] = Asking(op, a, user, decision, pc, answer)]

At(r, pc) == req[r].pc = pc
Goes(r, pc) == req' = [req EXCEPT ![r].pc = pc]
Ends(r, answer) == req' = [req EXCEPT ![r].pc = "done", ![r].answer = answer]

\* POST /: a document under a new id, then the notification.
Create(r, a) ==
    /\ doc[a] = NoDocument
    /\ doc' = [doc EXCEPT ![a] = Undecided("pending")]
    /\ Asks(r, "create", a, None, None, "notify", None)
    /\ UNCHANGED <<due, logged, saved>>

NotifySucceeds(r) ==
    /\ At(r, "notify")
    /\ Goes(r, "log")
    /\ UNCHANGED <<doc, due, logged, saved>>

\* Mutant: the attempts start over when they are used up.
NotifyFailsAgain(r) ==
    /\ At(r, "notify")
    /\ req' = [req EXCEPT ![r].left = IF @ = 1 THEN MaxAttempts ELSE @ - 1]
    /\ UNCHANGED <<doc, due, logged, saved>>

\* An attempt fails; the last failure is thrown.
NotifyFails(r) ==
    /\ At(r, "notify")
    /\ req' = [req EXCEPT ![r].left = @ - 1,
                          ![r].pc = IF req[r].left = 1 THEN "saveMeta" ELSE "notify"]
    /\ UNCHANGED <<doc, due, logged, saved>>

\* The notifier refuses a request without the contact its channel needs.
NotifyRefused(r) ==
    /\ At(r, "notify") /\ req[r].left = MaxAttempts
    /\ Goes(r, "saveMeta")
    /\ UNCHANGED <<doc, due, logged, saved>>

\* Mutant: the whole document is written back as it was created.
SaveMetaWhole(r) ==
    /\ At(r, "saveMeta")
    /\ doc' = [doc EXCEPT ![req[r].a] =
                  [Undecided("pending") EXCEPT !.notified = FALSE]]
    /\ Goes(r, "log")
    /\ UNCHANGED <<due, logged, saved>>

\* save() after a failed notification writes notificationMeta alone.
SaveMeta(r) ==
    /\ At(r, "saveMeta")
    /\ doc' = [doc EXCEPT ![req[r].a].notified = FALSE]
    /\ Goes(r, "log")
    /\ UNCHANGED <<due, logged, saved>>

SaveMetaFails(r) ==
    /\ At(r, "saveMeta")
    /\ Ends(r, "error")
    /\ UNCHANGED <<doc, due, logged, saved>>

\* The entry in the workflow's log is best effort: its errors are ignored.
Log(r) ==
    /\ At(r, "log")
    /\ logged' \in {logged, logged \cup {r}}
    /\ Ends(r, "ok")
    /\ UNCHANGED <<doc, due, saved>>

-----------------------------------------------------------------------------
\* POST /:id/decide loads the document and goes on if it is pending.  The
\* expiry date is not looked at.
Decide(r, a, user, decision) ==
    /\ CASE doc[a].status = "absent"  -> Asks(r, "decide", a, user, decision, "done", "notFound")
         [] doc[a].status = "pending" -> Asks(r, "decide", a, user, decision, "save", None)
         [] OTHER                     -> Asks(r, "decide", a, user, decision, "done", "conflict")
    /\ UNCHANGED <<doc, due, logged, saved>>

\* Mutant: an approver that is already recorded is kept.
DecidedKeepingApprover(d, r) ==
    [d EXCEPT !.status = req[r].decision, !.notes = r,
              !.approver = IF @ = None THEN req[r].user ELSE @]

\* The fields a decision sets in whatever is stored by then.
Decided(d, r) ==
    [d EXCEPT !.status = req[r].decision, !.notes = r, !.approver = req[r].user]

DecideSave(r) ==
    /\ At(r, "save")
    /\ doc' = [doc EXCEPT ![req[r].a] = Decided(@, r)]
    /\ saved' = saved \cup {r}
    /\ Goes(r, "log")
    /\ UNCHANGED <<due, logged>>

\* Mutant: the error of the save is swallowed like that of the log entry.
DecideSaveFailsQuietly(r) ==
    /\ At(r, "save")
    /\ Goes(r, "log")
    /\ UNCHANGED <<doc, due, logged, saved>>

\* The save throws, although it may have been applied.
DecideSaveFails(r) ==
    /\ At(r, "save")
    /\ \/ UNCHANGED <<doc, saved>>
       \/ /\ doc' = [doc EXCEPT ![req[r].a] = Decided(@, r)]
          /\ saved' = saved \cup {r}
    /\ Ends(r, "error")
    /\ UNCHANGED <<due, logged>>

\* GET /accept?token=...: the route /:id is registered before it and answers,
\* looking for an approval whose id is "accept".
FollowLink(r, a, decision) ==
    /\ doc[a].status # "absent"
    /\ Asks(r, "link", a, None, decision, "done", "notFound")
    /\ UNCHANGED <<doc, due, logged, saved>>

-----------------------------------------------------------------------------
BecomesDue(a) ==
    /\ doc[a].status # "absent" /\ a \notin due
    /\ due' = due \cup {a}
    /\ UNCHANGED <<doc, req, logged, saved>>

\* expireOldApprovals(): what updateMany does to one document.
Expire(a) ==
    /\ a \in due /\ doc[a].status = "pending"
    /\ doc' = [doc EXCEPT ![a].status = "expired"]
    /\ UNCHANGED <<due, req, logged, saved>>

Working(r) ==
    \/ NotifySucceeds(r) \/ NotifyFails(r) \/ NotifyRefused(r)
    \/ SaveMeta(r) \/ SaveMetaFails(r)
    \/ DecideSave(r) \/ DecideSaveFails(r)
    \/ Log(r)

Arriving(r) ==
    \E a \in Approvals :
       \/ Create(r, a)
       \/ \E user \in Users, decision \in Decision : Decide(r, a, user, decision)
       \/ \E decision \in Decision : FollowLink(r, a, decision)

Next ==
    \/ \E r \in Requests : Arriving(r) \/ Working(r)
    \/ \E a \in Approvals : BecomesDue(a) \/ Expire(a)

Spec == Init /\ [][Next]_vars

\* Every awaited call of a request is answered, with a result or an error.
FairSpec == Spec /\ \A r \in Requests : WF_vars(Working(r))

-----------------------------------------------------------------------------
\* What an approval says was decided by one request: status, approver and
\* notes never mix two decisions, and an approval that is pending or expired
\* names nobody, although decisions, expiry and late saves race.
RecordIsOneDecision ==
    \A a \in Approvals :
       IF doc[a].status \in Decision
       THEN \E r \in saved : /\ req[r].a = a /\ doc[a].notes = r
                             /\ doc[a].approver = req[r].user
                             /\ doc[a].status = req[r].decision
       ELSE doc[a].approver = None /\ doc[a].notes = None

\* A decided or expired approval never asks for a decision again: the save of a
\* notification that failed late leaves a decision made meanwhile alone.
NeverPendingAgain ==
    [][\A a \in Approvals : doc[a].status \notin {"absent", "pending"}
                            => doc'[a].status \notin {"absent", "pending"}]_vars

\* The workflow's log tells only of decisions that were written.
LogTellsSaved == \A r \in logged : req[r].op = "decide" => r \in saved

\* Every request is answered, however often the notification fails.
RequestsAnswered == \A r \in Requests : req[r].pc # "idle" ~> req[r].pc = "done"
=============================================================================
