-------------------------- MODULE InboundMessages --------------------------
(***************************************************************************)
(* The WhatsApp webhook, controllers/whatsappController.js.  A provider    *)
(* posts a message until it is answered with 200, and sometimes again.  A  *)
(* command becomes a workflow, anything else a job of the task queue whose *)
(* id is the message's or, without one, the time.  The queue keeps one job *)
(* per id until it removes the job.                                        *)
(***************************************************************************)
EXTENDS Naturals

CONSTANTS Messages,      \* what providers post
          SenderKnown, Commands, Named,   \* its subsets: with a sender, beginning
                                          \* with a command, with an id
          Times,         \* readings of the clock
          Handlers,      \* requests in progress at one time
          MaxPosts       \* bound: deliveries of one message

ASSUME MessagesAssumption ==
    /\ SenderKnown \subseteq Messages /\ Commands \subseteq Messages /\ Named \subseteq Messages
    /\ MaxPosts \in Nat
    /\ Messages \cap Times = {}   \* an id a provider gives is not a reading of the clock

VARIABLES hook,       \* hook[h]: the message and how far the request has got
          posts,      \* deliveries of each message
          accepted200,\* deliveries of each message answered with 200
          begun,      \* its workflows that are started
          leftover,   \* its workflows that are created and were not started
          jobs,       \* stored jobs: [id, text]
          served      \* history: messages for which a job has been stored

inboundState == <<hook, posts, accepted200, begun, leftover, jobs, served>>

NoMessage == "none"
FreeHook == [at |-> "idle", message |-> NoMessage]

InboundTypeOK ==
    /\ hook \in [Handlers -> [at: {"idle", "remember", "create", "start", "ack", "enqueue"},
                              message: Messages \cup {NoMessage}]]
    /\ {posts, accepted200, begun, leftover} \subseteq [Messages -> 0..MaxPosts]
    /\ jobs \subseteq [id: Messages \cup Times, text: Messages]
    /\ served \subseteq Messages

InboundInit ==
    /\ hook = [h \in Handlers |-> FreeHook]
    /\ posts = [m \in Messages |-> 0]
    /\ accepted200 = posts /\ begun = posts /\ leftover = posts
    /\ jobs = {} /\ served = {}

-----------------------------------------------------------------------------
HookAt(h, at) == hook[h].at = at
HookGoes(h, at) == hook' = [hook EXCEPT ![h].at = at]
HookEnds(h) == hook' = [hook EXCEPT ![h] = FreeHook]
Counted(f, m) == [f EXCEPT ![m] = @ + 1]
MessageOf(h) == hook[h].message

AnswerOk(h) ==
    /\ accepted200' = Counted(accepted200, MessageOf(h))
    /\ HookEnds(h)

\* A message without a sender is answered with 400: so is one that tells only
\* of a delivery, and one of Twilio without a text.
Receive(h, m) ==
    /\ HookAt(h, "idle") /\ posts[m] < MaxPosts
    /\ posts' = Counted(posts, m)
    /\ IF m \in SenderKnown
       THEN hook' = [hook EXCEPT ![h] = [at |-> "remember", message |-> m]]
       ELSE UNCHANGED hook
    /\ UNCHANGED <<accepted200, begun, leftover, jobs, served>>

\* appendMessage() puts the message into the conversation, once more when it is
\* delivered again; its failure is logged.
Remember(h) ==
    /\ HookAt(h, "remember")
    /\ HookGoes(h, IF MessageOf(h) \in Commands THEN "create" ELSE "enqueue")
    /\ UNCHANGED <<posts, accepted200, begun, leftover, jobs, served>>

\* createAndStartWorkflow() first stores the workflow.
CreateWorkflow(h) ==
    /\ HookAt(h, "create")
    /\ leftover' = Counted(leftover, MessageOf(h))
    /\ HookGoes(h, "start")
    /\ UNCHANGED <<posts, accepted200, begun, jobs, served>>

StartWorkflow(h) ==
    /\ HookAt(h, "start")
    /\ leftover' = [leftover EXCEPT ![MessageOf(h)] = @ - 1]
    /\ begun' = Counted(begun, MessageOf(h))
    /\ HookGoes(h, "ack")
    /\ UNCHANGED <<posts, accepted200, jobs, served>>

\* The notifier has no sendTextMessage(): the error is logged.
Ack(h) ==
    /\ HookAt(h, "ack")
    /\ AnswerOk(h)
    /\ UNCHANGED <<posts, begun, leftover, jobs, served>>

JobIds(m) == IF m \in Named THEN {m} ELSE Times

\* A job with the id that is stored, done or not, makes the new one vanish.
Stored(m, id) ==
    IF \E j \in jobs : j.id = id THEN UNCHANGED <<jobs, served>>
    ELSE /\ jobs' = jobs \cup {[id |-> id, text |-> m]}
         /\ served' = served \cup {m}

EnqueueTask(h) ==
    /\ HookAt(h, "enqueue")
    /\ \E id \in JobIds(MessageOf(h)) : Stored(MessageOf(h), id)
    /\ AnswerOk(h)
    /\ UNCHANGED <<posts, begun, leftover>>

\* Mutant: a message that could not be enqueued is acknowledged.
HookFailsQuietly(h) ==
    /\ hook[h].at \in {"create", "start", "enqueue"}
    /\ AnswerOk(h)
    /\ UNCHANGED <<posts, begun, leftover, jobs, served>>

\* A failure is answered with 500, whether or not the call has had its effect.
HookFails(h) ==
    /\ \/ /\ hook[h].at \in {"create", "start", "enqueue"}
          /\ UNCHANGED <<begun, leftover, jobs, served>>
       \/ /\ HookAt(h, "create")
          /\ leftover' = Counted(leftover, MessageOf(h))
          /\ UNCHANGED <<begun, jobs, served>>
       \/ /\ HookAt(h, "start")
          /\ leftover' = [leftover EXCEPT ![MessageOf(h)] = @ - 1]
          /\ begun' = Counted(begun, MessageOf(h))
          /\ UNCHANGED <<jobs, served>>
       \/ /\ HookAt(h, "enqueue")
          /\ \E id \in JobIds(MessageOf(h)) : Stored(MessageOf(h), id)
          /\ UNCHANGED <<begun, leftover>>
    /\ HookEnds(h)
    /\ UNCHANGED <<posts, accepted200>>

\* The queue removes a job that has completed some time ago.
RemoveJob(j) ==
    /\ jobs' = jobs \ {j}
    /\ UNCHANGED <<hook, posts, accepted200, begun, leftover, served>>

InboundNext ==
    \/ \E h \in Handlers :
          \/ \E m \in Messages : Receive(h, m)
          \/ Remember(h) \/ CreateWorkflow(h) \/ StartWorkflow(h) \/ Ack(h)
          \/ EnqueueTask(h) \/ HookFails(h)
    \/ \E j \in jobs : RemoveJob(j)

InboundSpec == InboundInit /\ [][InboundNext]_inboundState

-----------------------------------------------------------------------------
\* However often a message is posted, and whatever fails: every answer of 200
\* to a command has a started workflow of its own, what a failure leaves behind
\* is no more than the deliveries that failed, and a chat message answered with
\* 200 has had its job, unless it has no id (then another message of the same
\* millisecond may have taken its place).
InboundAccounted ==
    /\ InboundTypeOK
    /\ \A m \in Messages :
          /\ m \in Commands => accepted200[m] <= begun[m]
          /\ begun[m] + leftover[m] <= posts[m]
          /\ (m \in Named \ Commands /\ accepted200[m] > 0) => m \in served
          /\ accepted200[m] = posts[m] => leftover[m] = 0
=============================================================================
