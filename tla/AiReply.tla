------------------------------- MODULE AiReply -------------------------------
(***************************************************************************)
(* How the messages of a conversation's contact become replies of the AI:  *)
(* the request_ai_reply_task of each message, the Redis lock around the    *)
(* call of the model, the replies it drafts, the human verdicts on them,   *)
(* and the delayed dispatch of the ones that need no verdict.              *)
(*                                                                         *)
(* The row of the conversation is that of Conversation; here a human's     *)
(* operation on it other than a verdict is one move along Allowed.         *)
(***************************************************************************)
EXTENDS Integers, FiniteSets, FiniteSetsExt, ConversationStates

CONSTANTS
    MaxMessages,    \* messages that the contact writes (a bound)
    MaxRuns,        \* runs that get past the gate (a bound)
    AiRetries,      \* _AI_MAX_RETRIES, 3 in the code
    MaxCrashes,     \* processes that die (a bound)
    SlowRuns        \* a run may outlast the lock's 180 seconds

ASSUME BoundsAssumption ==
    /\ {MaxMessages, MaxRuns, AiRetries, MaxCrashes} \subseteq Nat
    /\ SlowRuns \in BOOLEAN

VARIABLES
    state,      \* conversations.state
    aiEnabled,  \* conversations.ai_enabled
    arrived,    \* inbound messages stored: 1..arrived
    req,        \* req[m] is the latest request_ai_reply_task of message m
    lock,       \* the key ai:lock:conv: exists
    runs,       \* runs so far: the run's transaction gives its draft its age
    draft,      \* draft[i] is the reply that run i wrote
    timer,      \* replies that have a send_ai_reply_task
    outbox,     \* replies that have a send_outbound_message_task
    resume,     \* update_memory_on_ai_resume is queued
    reviewed,   \* the reply that the human has on the screen, 0 for none
    rejected,   \* the replies that a human has rejected
    byHand,     \* somebody moved the conversation to AWAITING_APPROVAL by hand
    crashes     \* processes that have died

conv   == <<state, aiEnabled, byHand>>
human  == <<reviewed, rejected>>
queues == <<timer, outbox, resume>>
vars   == <<conv, arrived, req, lock, runs, draft, queues, human, crashes>>

Messages == 1..MaxMessages
Runs == 1..MaxRuns

\* seen is what the history of the prompt holds, at the messages stored when
\* the run's transaction began.
Request == [pc: {"none", "queued", "gated", "asking", "failing", "committed", "done"},
            tries: 0..AiRetries, run: 0..MaxRuns, snap: States,
            at: 0..MaxMessages, seen: 0..MaxMessages]

NoRequest == [pc |-> "none", tries |-> 0, run |-> 0, snap |-> "AI_ACTIVE",
              at |-> 0, seen |-> 0]
Queued == [NoRequest EXCEPT !.pc = "queued"]
Done == [NoRequest EXCEPT !.pc = "done"]

Draft == [status: {"none", "DRAFT", "QUEUED", "SENT"}, auto: BOOLEAN,
          at: 0..MaxMessages]

TypeOK ==
    /\ state \in States
    /\ aiEnabled \in BOOLEAN
    /\ arrived \in 0..MaxMessages
    /\ req \in [Messages -> Request]
    /\ lock \in BOOLEAN
    /\ runs \in 0..MaxRuns
    /\ draft \in [Runs -> Draft]
    /\ timer \subseteq Runs
    /\ outbox \subseteq Runs
    /\ resume \in BOOLEAN
    /\ reviewed \in 0..MaxRuns
    /\ rejected \subseteq Runs
    /\ byHand \in BOOLEAN
    /\ crashes \in 0..MaxCrashes

Init ==
    /\ state = "AI_ACTIVE"
    /\ aiEnabled = TRUE
    /\ arrived = 0
    /\ req = [m \in Messages |-> NoRequest]
    /\ lock = FALSE
    /\ runs = 0
    /\ draft = [i \in Runs |-> [status |-> "none", auto |-> FALSE, at |-> 0]]
    /\ timer = {}
    /\ outbox = {}
    /\ resume = FALSE
    /\ reviewed = 0
    /\ rejected = {}
    /\ byHand = FALSE
    /\ crashes = 0

-----------------------------------------------------------------------------
Running(m) == req[m].pc \in {"gated", "asking", "failing", "committed"}

InCharge == aiEnabled /\ state \notin {"HUMAN_ASSIGNED", "AI_PAUSED", "CLOSED"}

Pending == {i \in Runs : draft[i].status = "DRAFT"}

\* Fault: created_at.asc().
Oldest == Min(Pending)

\* MessageRepository.get_latest_draft_outbound.
Latest == Max(Pending)

Stays(m, pc) ==
    req' = [req EXCEPT ![m].pc = pc] /\ UNCHANGED lock

\* The finally clause deletes the key, whoever has set it.
Returns(m) == req' = [req EXCEPT ![m] = Done] /\ lock' = FALSE

\* It returns before it has taken the lock.
Skips(m) == req' = [req EXCEPT ![m] = Done] /\ UNCHANGED lock

\* AIOrchestrator._transition.
AiMove(m, to) ==
    IF req[m].snap = to THEN UNCHANGED state
    ELSE to \in Allowed[req[m].snap] /\ state = req[m].snap /\ state' = to

Writes(m, status, auto) ==
    draft' = [draft EXCEPT ![req[m].run] =
                 [status |-> status, auto |-> auto, at |-> req[m].at]]

-----------------------------------------------------------------------------
(* The contact and request_ai_reply_task *)

\* _persist_inbound and its dispatch, one webhook task at a time.
Arrive ==
    /\ arrived < MaxMessages
    /\ state # "CLOSED"
    /\ arrived' = arrived + 1
    /\ req' = [req EXCEPT ![arrived + 1] =
                  IF state = "AI_ACTIVE" /\ aiEnabled THEN Queued ELSE Done]
    /\ UNCHANGED <<conv, lock, runs, draft, queues, human, crashes>>

\* The lock is held: the request is taken for redundant.
Dropped(m) ==
    /\ req[m].pc = "queued"
    /\ lock
    /\ Skips(m)
    /\ UNCHANGED <<conv, arrived, runs, draft, queues, human, crashes>>

\* Fault: GET and SET instead of SET NX.
GateUnlocked(m) ==
    /\ req[m].pc = "queued"
    /\ runs < MaxRuns
    /\ InCharge
    /\ lock' = TRUE
    /\ runs' = runs + 1
    /\ req' = [req EXCEPT ![m].pc = "gated", ![m].run = runs + 1,
                          ![m].snap = state, ![m].at = arrived]
    /\ UNCHANGED <<conv, arrived, draft, queues, human, crashes>>

\* SET NX succeeds and the snapshot of the row lets the run go on.
Gate(m) ==
    /\ req[m].pc = "queued"
    /\ ~lock
    /\ runs < MaxRuns
    /\ InCharge
    /\ lock' = TRUE
    /\ runs' = runs + 1
    /\ req' = [req EXCEPT ![m].pc = "gated", ![m].run = runs + 1,
                          ![m].snap = state, ![m].at = arrived]
    /\ UNCHANGED <<conv, arrived, draft, queues, human, crashes>>

\* The AI is not in charge any more (or the bound on runs is reached).
Refused(m) ==
    /\ req[m].pc = "queued"
    /\ ~lock
    /\ ~InCharge \/ runs = MaxRuns
    /\ Skips(m)
    /\ UNCHANGED <<conv, arrived, runs, draft, queues, human, crashes>>

\* _load_history, then the prompt goes to the model.
LoadHistory(m) ==
    /\ req[m].pc = "gated"
    /\ req' = [req EXCEPT ![m].pc = "asking", ![m].seen = arrived]
    /\ UNCHANGED <<conv, arrived, lock, runs, draft, queues, human, crashes>>

\* _decide: opt-out or escalation.
Escalate(m) ==
    /\ req[m].pc = "asking"
    /\ AiMove(m, "HUMAN_ASSIGNED")
    /\ aiEnabled' = FALSE
    /\ Stays(m, "committed")
    /\ UNCHANGED <<byHand, arrived, runs, draft, queues, human, crashes>>

\* Fault: the reply that waits for a verdict is created with the default status.
AskApprovalQueued(m) ==
    /\ req[m].pc = "asking"
    /\ AiMove(m, "AWAITING_APPROVAL")
    /\ Writes(m, "QUEUED", FALSE)
    /\ Stays(m, "committed")
    /\ UNCHANGED <<aiEnabled, byHand, arrived, runs, queues, human, crashes>>

\* _decide: approval, suppressed auto-send, low confidence.
AskApproval(m) ==
    /\ req[m].pc = "asking"
    /\ AiMove(m, "AWAITING_APPROVAL")
    /\ Writes(m, "DRAFT", FALSE)
    /\ Stays(m, "committed")
    /\ UNCHANGED <<aiEnabled, byHand, arrived, runs, queues, human, crashes>>

\* _decide: auto-send; the state is not looked at.
AutoSend(m) ==
    /\ req[m].pc = "asking"
    /\ Writes(m, "QUEUED", TRUE)
    /\ Stays(m, "committed")
    /\ UNCHANGED <<conv, arrived, runs, queues, human, crashes>>

\* Nothing to say, the kill switch, or a transition that finds the row moved.
SayNothing(m) ==
    /\ req[m].pc = "asking"
    /\ Returns(m)
    /\ UNCHANGED <<conv, arrived, runs, draft, queues, human, crashes>>

\* After the commit: an auto-sent reply gets its delayed task.
Leave(m) ==
    /\ req[m].pc = "committed"
    /\ timer' = IF draft[req[m].run].auto THEN timer \union {req[m].run} ELSE timer
    /\ Returns(m)
    /\ UNCHANGED <<conv, arrived, runs, draft, outbox, resume, human, crashes>>

\* A retry drops the run, which has written nothing, and gives up the lock.
Again(m, tries) ==
    /\ req' = [req EXCEPT ![m] = [Queued EXCEPT !.tries = tries]]
    /\ lock' = FALSE
    /\ runs' = IF req[m].run = runs THEN runs - 1 ELSE runs
    /\ UNCHANGED <<conv, arrived, draft, queues, human, crashes>>

\* Fault: an off-by-one in the limit.
AskAgainTooOften(m) ==
    /\ req[m].pc = "asking"
    /\ req[m].tries <= AiRetries
    /\ Again(m, req[m].tries + 1)

\* Fault: a new task instead of self.retry.
AskAgainAnew(m) ==
    /\ req[m].pc = "asking"
    /\ Again(m, 0)

\* A retryable failure of the provider.
AskAgain(m) ==
    /\ req[m].pc = "asking"
    /\ req[m].tries < AiRetries
    /\ Again(m, req[m].tries + 1)

\* A final failure: assign_human reads the row again.
GiveUp(m) ==
    /\ req[m].pc = "asking"
    /\ IF state \in {"HUMAN_ASSIGNED", "CLOSED"}
          THEN Returns(m)
          ELSE /\ req' = [req EXCEPT ![m].pc = "failing", ![m].snap = state]
               /\ UNCHANGED lock
    /\ UNCHANGED <<conv, arrived, runs, draft, queues, human, crashes>>

AssignHuman(m) ==
    /\ req[m].pc = "failing"
    /\ IF state = req[m].snap
          THEN state' = "HUMAN_ASSIGNED" /\ aiEnabled' = FALSE
          ELSE UNCHANGED <<state, aiEnabled>>
    /\ Returns(m)
    /\ UNCHANGED <<byHand, arrived, runs, draft, queues, human, crashes>>

-----------------------------------------------------------------------------
(* The lock's time to live, and crashes *)

\* Fault: SET NX without an expiry.
LockNeverExpires == FALSE /\ UNCHANGED vars

LockExpires ==
    /\ lock
    /\ SlowRuns \/ ~\E m \in Messages : Running(m)
    /\ lock' = FALSE
    /\ UNCHANGED <<conv, arrived, req, runs, draft, queues, human, crashes>>

Crash == crashes < MaxCrashes /\ crashes' = crashes + 1

\* The worker dies: the task is delivered again, the key is still there.
WorkerDies(m) ==
    /\ Running(m)
    /\ Crash
    /\ req' = [req EXCEPT ![m] = [Queued EXCEPT !.tries = req[m].tries]]
    /\ UNCHANGED <<conv, arrived, lock, runs, draft, queues, human>>

-----------------------------------------------------------------------------
(* The dispatch of replies, and the humans *)

\* send_ai_reply_task; TRUE stands for a redelivery after its dispatch.
Fire(i) ==
    /\ i \in timer
    /\ \/ timer' = timer \ {i} /\ UNCHANGED crashes
       \/ Crash /\ UNCHANGED timer
    /\ outbox' = IF InCharge /\ state # "AWAITING_APPROVAL" /\ draft[i].status = "QUEUED"
                    THEN outbox \union {i} ELSE outbox
    /\ UNCHANGED <<conv, arrived, req, lock, runs, draft, resume, human>>

\* send_outbound_message_task, as Delivery has it.
Deliver(i) ==
    /\ i \in outbox
    /\ outbox' = outbox \ {i}
    /\ draft' = [draft EXCEPT ![i].status = IF @ = "QUEUED" THEN "SENT" ELSE @]
    /\ UNCHANGED <<conv, arrived, req, lock, runs, timer, resume, human, crashes>>

Review ==
    /\ state = "AWAITING_APPROVAL"
    /\ Pending # {}
    /\ reviewed' = Latest
    /\ UNCHANGED <<conv, arrived, req, lock, runs, draft, queues, rejected, crashes>>

\* Fault: no check of the state.
ApproveInAnyState ==
    /\ reviewed # 0
    /\ Pending # {}
    /\ state' = "AI_ACTIVE"
    /\ reviewed' = 0
    /\ draft' = [draft EXCEPT ![Latest].status = "QUEUED"]
    /\ outbox' = outbox \union {Latest}
    /\ UNCHANGED <<aiEnabled, byHand, arrived, req, lock, runs, timer, resume, rejected, crashes>>

\* approve commits, then the router dispatches what was promoted, or dies.
Approve ==
    /\ state = "AWAITING_APPROVAL"
    /\ reviewed # 0
    /\ state' = "AI_ACTIVE"
    /\ reviewed' = 0
    /\ IF Pending = {} THEN UNCHANGED <<draft, outbox, crashes>>
       ELSE /\ draft' = [draft EXCEPT ![Latest].status = "QUEUED"]
            /\ \/ outbox' = outbox \union {Latest} /\ UNCHANGED crashes
               \/ Crash /\ UNCHANGED outbox
    /\ UNCHANGED <<aiEnabled, byHand, arrived, req, lock, runs, timer, resume, rejected>>

Reject ==
    /\ state = "AWAITING_APPROVAL"
    /\ state' = "HUMAN_ASSIGNED"
    /\ reviewed' = 0
    /\ rejected' = rejected \union Pending
    /\ UNCHANGED <<aiEnabled, byHand, arrived, req, lock, runs, draft, queues, crashes>>

\* assign, pause_ai, resume_ai, close, bulk_update, force_transition.
HumanMoves ==
    /\ state' \in Allowed[state]
    /\ byHand' = (byHand \/ state' = "AWAITING_APPROVAL")
    /\ UNCHANGED <<aiEnabled, arrived, req, lock, runs, draft, queues, human, crashes>>

\* force_transition from HUMAN_ASSIGNED to AI_ACTIVE.
HandBack ==
    /\ state = "HUMAN_ASSIGNED"
    /\ state' = "AI_ACTIVE"
    /\ aiEnabled' = TRUE
    /\ resume' = TRUE
    /\ UNCHANGED <<byHand, arrived, req, lock, runs, draft, timer, outbox, human, crashes>>

\* _find_unreplied_inbound: a draft counts as a reply.
Unreplied == arrived > 0 /\ ~\E i \in Runs : draft[i].status # "none" /\ draft[i].at >= arrived

\* update_memory_on_ai_resume: no request when the memory update fails.
Resume ==
    /\ resume
    /\ resume' = FALSE
    /\ \/ UNCHANGED req
       \/ /\ Unreplied
          /\ req[arrived].pc = "done"
          /\ req' = [req EXCEPT ![arrived] = Queued]
    /\ UNCHANGED <<conv, arrived, lock, runs, draft, timer, outbox, human, crashes>>

-----------------------------------------------------------------------------
Step(m) ==
    \/ Dropped(m) \/ Gate(m) \/ Refused(m) \/ LoadHistory(m)
    \/ Escalate(m) \/ AskApproval(m) \/ AutoSend(m) \/ SayNothing(m)
    \/ Leave(m) \/ AskAgain(m) \/ GiveUp(m) \/ AssignHuman(m)

Next ==
    \/ \E m \in Messages : Step(m) \/ WorkerDies(m)
    \/ \E i \in Runs : Fire(i) \/ Deliver(i)
    \/ Arrive \/ LockExpires \/ Resume
    \/ Review \/ Approve \/ Reject \/ HumanMoves \/ HandBack

Spec == Init /\ [][Next]_vars

\* Workers go on with their tasks, and Redis expires keys.
FairSpec ==
    /\ Spec
    /\ \A m \in Messages : WF_vars(Step(m))
    /\ WF_vars(LockExpires)

-----------------------------------------------------------------------------
(* Properties *)

\* The conversation has at most one run in progress, also after a crash: a run
\* that did not get the lock never deletes it.
OneRunAtATime == SlowRuns \/ Cardinality({m \in Messages : Running(m)}) <= 1

\* A conversation that waits for approval has a reply to approve, unless
\* somebody put it there by hand.
AwaitingHasDraft == state = "AWAITING_APPROVAL" /\ ~byHand => Pending # {}

\* A rejected reply is never sent: every later approval finds a newer one.
RejectedStaysUnsent ==
    byHand \/ \A i \in rejected : draft[i].status = "DRAFT" /\ i \notin outbox

\* A reply that needs a verdict leaves DRAFT by an approval only.
SentIsApproved ==
    [][\A i \in Runs :
          /\ draft[i].status \in {"none", "DRAFT"}
          /\ draft'[i].status \in {"QUEUED", "SENT"}
          => draft'[i].auto \/ (state = "AWAITING_APPROVAL" /\ state' = "AI_ACTIVE")]_vars

\* A crashed run blocks its conversation for a while, not for good.
LockIsFreed == lock ~> ~lock

\* Every request comes to an end.
RequestsEnd == \A m \in Messages : req[m].pc = "queued" ~> req[m].pc = "done"

\* One run at a time decides on a conversation; who is asked to approve has a
\* draft to approve, and what a human has rejected is never handed over.
DraftsInOrder == TypeOK /\ OneRunAtATime /\ AwaitingHasDraft /\ RejectedStaysUnsent

\* No request and no lock remains, whichever worker dies.
RunsEnd == LockIsFreed /\ RequestsEnd
=============================================================================
