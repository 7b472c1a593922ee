--------------------------- MODULE OwnerWorkflows ---------------------------
(***************************************************************************)
(* The owner's commands: owner/ownerController.js parses a text and either *)
(* has it executed or files an approval with owner/approvalManager.js;     *)
(* workflows/approvalWorkflow.js, financialWorkflow.js,                    *)
(* inventoryWorkflow.js and campaignWorkflow.js file approvals, act on     *)
(* them, and are tracked by agents/workflowCoordinator.js.  A text is the  *)
(* set of the phrases in it; payloads are left out.                        *)
(*                                                                         *)
(* All of them call orchestrator.execute(), which is not a method of the   *)
(* orchestrator: it throws, and the markWorkflowCompleted() that follows   *)
(* is never reached.                                                       *)
(***************************************************************************)
EXTENDS Naturals, Sequences

CONSTANTS Files,       \* ids of approvals, from uuid
          Campaigns,   \* ids of campaigns: times of the clock
          Owners,      \* OWNER_IDS: the users it lists, or none
          People       \* who sends commands

VARIABLES approval,    \* approval[f]: [status, action]
          tracked,     \* the coordinator's workflows: all are "running"
          executed,    \* history: [action, id] for which execute() was called
          confirmed    \* history: approvals on which approve() was called

ownerState == <<approval, tracked, executed, confirmed>>

Nobody == "nobody"

\* A uuid is neither the id of a campaign nor that of no approval.
ASSUME OwnerAssumption == Files \cap (Campaigns \cup {Nobody}) = {}

\* What the parser looks for, in the order of its rules.
Phrases == <<"generate_report", "product_search", "start_campaign", "find_low_stock",
             "generate_invoice">>
Texts == SUBSET {Phrases[n] : n \in 1..Len(Phrases)}

Sensitive == {"find_low_stock", "inventory_update", "generate_invoice", "financial_workflow"}
Actions == (UNION Texts) \cup Sensitive \cup {"interpret"}

NoApproval == [status |-> "absent", action |-> "interpret"]

OwnerTypeOK ==
    /\ approval \in [Files -> [status: {"absent", "pending", "approved", "rejected"},
                               action: Actions]]
    /\ tracked \subseteq Files \cup Campaigns
    /\ executed \subseteq [action: Actions, id: Files \cup Campaigns \cup {Nobody}]
    /\ confirmed \subseteq Files

OwnerInit ==
    /\ approval = [f \in Files |-> NoApproval]
    /\ tracked = {} /\ executed = {} /\ confirmed = {}

-----------------------------------------------------------------------------
RequiresApproval(action) == action \in Sensitive

\* The first rule that matches.
Parse(text) ==
    LET matching == {n \in 1..Len(Phrases) : Phrases[n] \in text}
    IN IF matching = {} THEN "interpret"
       ELSE Phrases[CHOOSE n \in matching : \A k \in matching : n =< k]

\* An empty list lets everybody pass.
IsOwner(person) == Owners = {} \/ person \in Owners

CreateApprovalRequest(f, action) ==
    /\ approval[f] = NoApproval
    /\ approval' = [approval EXCEPT ![f] = [status |-> "pending", action |-> action]]

RegisterWorkflow(i) == tracked' = tracked \cup {i}

Execute(action, i) == executed' = executed \cup {[action |-> action, id |-> i]}

-----------------------------------------------------------------------------
\* ownerController hands the command as it came, and its payload, to execute();
\* what is recorded is the action the parser made of it.
HandleCommand(person, text) ==
    /\ IsOwner(person)
    /\ IF RequiresApproval(Parse(text))
       THEN (\E f \in Files : CreateApprovalRequest(f, Parse(text))) /\ UNCHANGED executed
       ELSE Execute(Parse(text), Nobody) /\ UNCHANGED approval
    /\ UNCHANGED <<tracked, confirmed>>

\* Three of the workflows begin like this, with a parsed command or an action
\* of their own.
RequestWorkflow(f, action) ==
    /\ CreateApprovalRequest(f, action)
    /\ RegisterWorkflow(f)
    /\ UNCHANGED <<executed, confirmed>>

RequestAndExecute(f) == \E action \in Actions : RequestWorkflow(f, action)
InitiateFinancialAction(f) == RequestWorkflow(f, "financial_workflow")
RequestRestockApproval(f) == RequestWorkflow(f, "inventory_update")

\* A decision replaces any other: the status is not looked at.
Approve(f) ==
    /\ approval[f] # NoApproval
    /\ approval' = [approval EXCEPT ![f].status = "approved"]
    /\ confirmed' = confirmed \cup {f}
    /\ UNCHANGED <<tracked, executed>>

Reject(f) ==
    /\ approval[f] # NoApproval
    /\ approval' = [approval EXCEPT ![f].status = "rejected"]
    /\ UNCHANGED <<tracked, executed, confirmed>>

\* Mutant: only a rejection stops the workflow.
ActUnlessRejected(f) ==
    /\ approval[f].status \in {"pending", "approved"}
    /\ Execute(approval[f].action, f)
    /\ UNCHANGED <<approval, tracked, confirmed>>

\* onApproval, executeAfterApproval and executeRestock, as often as called.
ActOnApproval(f) ==
    /\ approval[f].status = "approved"
    /\ Execute(approval[f].action, f)
    /\ UNCHANGED <<approval, tracked, confirmed>>

\* Two campaigns started in one millisecond have one id.
StartCampaign(i) ==
    /\ RegisterWorkflow(i)
    /\ Execute("start_campaign", i)
    /\ UNCHANGED <<approval, confirmed>>

OwnerNext ==
    \/ \E person \in People, text \in Texts : HandleCommand(person, text)
    \/ \E f \in Files :
          \/ RequestAndExecute(f) \/ InitiateFinancialAction(f) \/ RequestRestockApproval(f)
          \/ Approve(f) \/ Reject(f) \/ ActOnApproval(f)
    \/ \E i \in Campaigns : StartCampaign(i)

OwnerSpec == OwnerInit /\ [][OwnerNext]_ownerState

-----------------------------------------------------------------------------
\* Whoever approves and rejects how often: what is sensitive is executed only
\* for an approval of just that action which somebody has approved, whichever
\* workflow filed it, and nothing is executed for an approval that nobody has.
ExecutedWasApproved ==
    /\ OwnerTypeOK
    /\ \A x \in executed :
          /\ x.action \in Sensitive => x.id \in Files
          /\ x.id \in Files => x.id \in confirmed /\ approval[x.id].action = x.action
=============================================================================
