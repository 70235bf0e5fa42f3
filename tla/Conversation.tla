---------------------------- MODULE Conversation ----------------------------
(***************************************************************************)
(* One row of the conversations table and every writer of its state, its   *)
(* AI switch and its agent lock: the HTTP operations of                    *)
(* ConversationService and AssignmentService, the lock reaper, the webhook *)
(* worker and the AI worker.                                               *)
(*                                                                         *)
(* PostgreSQL runs READ COMMITTED and the services read the row without    *)
(* locking it, so an operation is two steps: a Read step takes a snapshot  *)
(* and evaluates the guards the code evaluates on it, and a Write step     *)
(* issues the UPDATEs.  The first UPDATE that matches holds the row lock   *)
(* until the commit, so all the UPDATEs of a transaction are one step.     *)
(* Anything may happen to the row between the two.                         *)
(***************************************************************************)
EXTENDS ConversationStates

CONSTANTS
    Agents,     \* users whose role is "agent"
    Admins,     \* users whose role is "admin"
    Requests,   \* operations that may be in flight at the same time
    Owner,      \* contacts.assigned_agent_id of the conversation's contact
    None        \* NULL

Users == Agents \union Admins

ASSUME NoneAssumption == None \notin Users
ASSUME OwnerAssumption == Owner \in Agents \union {None}

VARIABLES
    state,      \* conversations.state
    aiEnabled,  \* conversations.ai_enabled
    lockedBy,   \* conversations.locked_by
    lockLive,   \* lock_expires_at is in the future; FALSE when there is no lock
    req,        \* req[r] is the operation slot r has read for and not written
    audit       \* the last audit row of ConversationService._transition

row  == <<state, aiEnabled, lockedBy, lockLive>>
conversationVars == <<row, req, audit>>

Ops == {"pause", "resume", "assign", "assignUnlocked", "approve", "reject",
        "close", "force", "bulk", "renew", "release", "ai", "aiFail"}

\* A request remembers what its later UPDATEs use: the state its WHERE clause
\* expects, the state it writes, and the user and the lock holder involved.
Request == [op: Ops, seen: States, to: States,
            who: Users \union {None}, lock: Users \union {None}]

Idle == [op |-> "idle"]

ConversationTypeOK ==
    /\ state \in States
    /\ aiEnabled \in BOOLEAN
    /\ lockedBy \in Users \union {None}
    /\ lockLive \in BOOLEAN
    /\ lockLive => lockedBy # None
    /\ req \in [Requests -> Request \union {Idle}]
    /\ audit \in [from: States, to: States] \union {None}

ConversationInit ==
    /\ state = "NEW"
    /\ aiEnabled \in BOOLEAN
    /\ lockedBy = None
    /\ lockLive = FALSE
    /\ req = [r \in Requests |-> Idle]
    /\ audit = None

-----------------------------------------------------------------------------
(* Guards and repository statements *)

\* _assert_actor_holds_lock: an unexpired lock of another user stops an agent.
MayAct(u) == u \in Admins \/ ~lockLive \/ lockedBy = u

\* _assert_can_act_on_awaiting: the contact's owner gates the verdict.
MayJudge(u) == u \in Admins \/ Owner \in {None, u}

Begin(r, op, seen, to, who, lock) ==
    /\ req[r] = Idle
    /\ req' = [req EXCEPT ![r] = [op |-> op, seen |-> seen, to |-> to,
                                  who |-> who, lock |-> lock]]
    /\ UNCHANGED <<row, audit>>

Finish(r) == req' = [req EXCEPT ![r] = Idle]

\* Fault: lock_expires_at compared the wrong way round.
CanAcquireWhileLive(u) == lockedBy \in {None, u} \/ lockLive

\* ConversationRepository.acquire_lock: one conditional UPDATE.
CanAcquire(u) == lockedBy \in {None, u} \/ ~lockLive
SetLock(u) == lockedBy' = u /\ lockLive' = TRUE
\* Fault: only locked_by is cleared, lock_expires_at stays.
ClearLockHolder == lockedBy' = None /\ UNCHANGED lockLive
ClearLock == lockedBy' = None /\ lockLive' = FALSE
KeepLock == UNCHANGED <<lockedBy, lockLive>>

\* Fault: UPDATE ... WHERE id only.
MoveUnguarded(r, to) == state' = to

\* update_state: UPDATE ... WHERE state = :expected.
Move(r, to) == state = req[r].seen /\ state' = to

\* ConversationService._transition: the optimistic UPDATE and its audit row.
Transition(r, to) ==
    /\ Move(r, to)
    /\ audit' = [from |-> req[r].seen, to |-> to]

-----------------------------------------------------------------------------
(* ConversationService *)

\* pause_ai and resume_ai name the state they leave; they do not read it.
PauseRead(r) ==
    \E u \in Users :
        MayAct(u) /\ Begin(r, "pause", "AI_ACTIVE", "AI_PAUSED", None, None)

ResumeRead(r) == Begin(r, "resume", "AI_PAUSED", "AI_ACTIVE", None, lockedBy)

\* Fault: assign without assert_transition (Conv-C2).
AssignReadUnchecked(r) ==
    \E u, a \in Users :
        MayAct(u) /\ Begin(r, "assign", state, "HUMAN_ASSIGNED", a, None)

AssignRead(r) ==
    \E u, a \in Users :
        /\ "HUMAN_ASSIGNED" \in Allowed[state]
        /\ MayAct(u)
        /\ Begin(r, "assign", state, "HUMAN_ASSIGNED", a, None)

ApproveRead(r) ==
    /\ state = "AWAITING_APPROVAL"
    /\ \E u \in Users : MayJudge(u)
    /\ Begin(r, "approve", state, "AI_ACTIVE", None, None)

RejectRead(r) ==
    /\ state = "AWAITING_APPROVAL"
    /\ \E u \in Users : MayJudge(u)
    /\ Begin(r, "reject", state, "HUMAN_ASSIGNED", None, None)

CloseRead(r) ==
    \E u \in Users :
        MayAct(u) /\ Begin(r, "close", state, "CLOSED", None, lockedBy)

ForceRead(r) ==
    /\ Admins # {}
    /\ \E to \in Allowed[state] : Begin(r, "force", state, to, None, None)

\* Fault: bulk_update without assert_transition.
BulkReadUnchecked(r) ==
    \E u \in Users, to \in States :
        MayAct(u) /\ Begin(r, "bulk", state, to, None, None)

BulkRead(r) ==
    \E u \in Users, to \in Allowed[state] :
        MayAct(u) /\ Begin(r, "bulk", state, to, None, None)

\* pause_ai, approve, reject, and assign once its lock attempt was refused.
PlainWrite(r) ==
    /\ req[r].op \in {"pause", "approve", "reject", "assignUnlocked"}
    /\ Transition(r, req[r].to)
    /\ KeepLock
    /\ UNCHANGED aiEnabled
    /\ Finish(r)

\* resume_ai and close release whatever lock the row has now, when the row
\* they read had one.
ReleasingWrite(r) ==
    /\ req[r].op \in {"resume", "close"}
    /\ Transition(r, req[r].to)
    /\ IF req[r].lock # None THEN ClearLock ELSE KeepLock
    /\ UNCHANGED aiEnabled
    /\ Finish(r)

\* assign: acquire_lock matched, the row is locked until the commit.
AssignWrite(r) ==
    /\ req[r].op = "assign"
    /\ CanAcquire(req[r].who)
    /\ Transition(r, "HUMAN_ASSIGNED")
    /\ SetLock(req[r].who)
    /\ UNCHANGED aiEnabled
    /\ Finish(r)

\* assign: acquire_lock matched no row; its result is not looked at.
AssignLockRefused(r) ==
    /\ req[r].op = "assign"
    /\ ~CanAcquire(req[r].who)
    /\ req' = [req EXCEPT ![r].op = "assignUnlocked"]
    /\ UNCHANGED <<row, audit>>

\* Fault: force_transition audits the state it first read.
ForceFromHumanStale(r) ==
    /\ req[r].op = "force"
    /\ req[r].seen = "HUMAN_ASSIGNED"
    /\ state' = req[r].to
    /\ audit' = [from |-> req[r].seen, to |-> req[r].to]
    /\ ClearLock
    /\ aiEnabled' = (aiEnabled \/ req[r].to = "AI_ACTIVE")
    /\ Finish(r)

\* force_transition away from HUMAN_ASSIGNED releases the lock, refreshes the
\* row and takes the state to leave from the refreshed row.
ForceFromHuman(r) ==
    /\ req[r].op = "force"
    /\ req[r].seen = "HUMAN_ASSIGNED"
    /\ state' = req[r].to
    /\ audit' = [from |-> state, to |-> req[r].to]
    /\ ClearLock
    /\ aiEnabled' = (aiEnabled \/ req[r].to = "AI_ACTIVE")
    /\ Finish(r)

ForceWrite(r) ==
    /\ req[r].op = "force"
    /\ req[r].seen # "HUMAN_ASSIGNED"
    /\ Transition(r, req[r].to)
    /\ KeepLock
    /\ UNCHANGED aiEnabled
    /\ Finish(r)

\* bulk_update of this row; its one audit row is for the whole batch.
BulkWrite(r) ==
    /\ req[r].op = "bulk"
    /\ Move(r, req[r].to)
    /\ IF req[r].seen = "HUMAN_ASSIGNED" THEN ClearLock ELSE KeepLock
    /\ UNCHANGED <<aiEnabled, audit>>
    /\ Finish(r)

\* The optimistic UPDATE matches no row: the transaction rolls back.
Conflict(r) ==
    /\ req[r].op \in Ops \ {"renew", "release", "ai"}
    /\ ~(req[r].op = "force" /\ req[r].seen = "HUMAN_ASSIGNED")
    /\ state # req[r].seen
    /\ Finish(r)
    /\ UNCHANGED <<row, audit>>

-----------------------------------------------------------------------------
(* AssignmentService and the passing of time *)

\* POST /lock: a user locks for itself, an admin for anyone; one UPDATE.
AcquireLock ==
    \E u, a \in Users :
        /\ u = a \/ u \in Admins
        /\ CanAcquire(a)
        /\ SetLock(a)
        /\ UNCHANGED <<state, aiEnabled, req, audit>>

RenewRead(r) ==
    \E u \in Users :
        lockedBy = u /\ Begin(r, "renew", state, state, u, None)

\* renew_lock ends in acquire_lock, or in ConversationLockError.
RenewWrite(r) ==
    /\ req[r].op = "renew"
    /\ IF CanAcquire(req[r].who) THEN SetLock(req[r].who) ELSE KeepLock
    /\ UNCHANGED <<state, aiEnabled, audit>>
    /\ Finish(r)

\* POST /unlock: the holder, or an admin that names somebody else.
ReleaseRead(r) ==
    \E u, a \in Users :
        /\ u = a \/ u \in Admins
        /\ lockedBy # None
        /\ u = a => lockedBy = a
        /\ Begin(r, "release", state, state, None, lockedBy)

ReleaseWrite(r) ==
    /\ req[r].op = "release"
    /\ IF lockedBy = req[r].lock THEN ClearLock ELSE KeepLock
    /\ UNCHANGED <<state, aiEnabled, audit>>
    /\ Finish(r)

\* 120 seconds pass without a renewal.
LockExpires ==
    /\ lockLive
    /\ lockLive' = FALSE
    /\ UNCHANGED <<state, aiEnabled, lockedBy, req, audit>>

\* expire_stale_locks_task, every 30 seconds.
ReapExpiredLock ==
    /\ lockedBy # None
    /\ ~lockLive
    /\ ClearLock
    /\ UNCHANGED <<state, aiEnabled, req, audit>>

-----------------------------------------------------------------------------
(* Workers *)

\* _persist_inbound moves a NEW conversation according to its AI switch.
InboundMessage ==
    /\ state = "NEW"
    /\ state' = IF aiEnabled THEN "AI_ACTIVE" ELSE "HUMAN_ASSIGNED"
    /\ UNCHANGED <<aiEnabled, lockedBy, lockLive, req, audit>>

\* request_ai_reply_task reads the row, then waits for the model's answer.  The
\* webhook worker queues it for AI_ACTIVE conversations, so NEW is past.
AiRead(r) ==
    /\ aiEnabled
    /\ state \notin {"NEW", "HUMAN_ASSIGNED", "AI_PAUSED", "CLOSED"}
    /\ Begin(r, "ai", state, state, None, None)

\* The AI's transition: none when the snapshot is already in the target.
AiMove(r, to) ==
    IF req[r].seen = to THEN UNCHANGED state
    ELSE to \in Allowed[req[r].seen] /\ Move(r, to)

\* _decide: opt-out or escalation.
AiEscalate(r) ==
    /\ req[r].op = "ai"
    /\ AiMove(r, "HUMAN_ASSIGNED")
    /\ aiEnabled' = FALSE
    /\ KeepLock
    /\ UNCHANGED audit
    /\ Finish(r)

\* _decide: a draft that waits for approval.
AiAskApproval(r) ==
    /\ req[r].op = "ai"
    /\ AiMove(r, "AWAITING_APPROVAL")
    /\ KeepLock
    /\ UNCHANGED <<aiEnabled, audit>>
    /\ Finish(r)

\* _decide: auto-send or no reply, or a transition the snapshot or the
\* current row refuses; the row stays as it is.
AiLeave(r) ==
    /\ req[r].op = "ai"
    /\ Finish(r)
    /\ UNCHANGED <<row, audit>>

\* assign_human once the provider has failed for good: a new read.
AiFailRead(r) ==
    /\ req[r].op = "ai"
    /\ state \notin {"HUMAN_ASSIGNED", "CLOSED"}
    /\ req' = [req EXCEPT ![r].op = "aiFail", ![r].seen = state]
    /\ UNCHANGED <<row, audit>>

\* Fault: assign_human writes without comparing the state it read.
AiFailWriteUnguarded(r) ==
    /\ req[r].op = "aiFail"
    /\ state' = "HUMAN_ASSIGNED"
    /\ aiEnabled' = FALSE
    /\ KeepLock
    /\ UNCHANGED audit
    /\ Finish(r)

AiFailWrite(r) ==
    /\ req[r].op = "aiFail"
    /\ Move(r, "HUMAN_ASSIGNED")
    /\ aiEnabled' = FALSE
    /\ KeepLock
    /\ UNCHANGED audit
    /\ Finish(r)

-----------------------------------------------------------------------------
Read(r) ==
    \/ PauseRead(r) \/ ResumeRead(r) \/ AssignRead(r) \/ ApproveRead(r)
    \/ RejectRead(r) \/ CloseRead(r) \/ ForceRead(r) \/ BulkRead(r)
    \/ RenewRead(r) \/ ReleaseRead(r) \/ AiRead(r) \/ AiFailRead(r)

Write(r) ==
    \/ PlainWrite(r) \/ ReleasingWrite(r) \/ AssignWrite(r)
    \/ AssignLockRefused(r) \/ ForceFromHuman(r) \/ ForceWrite(r)
    \/ BulkWrite(r) \/ Conflict(r) \/ RenewWrite(r) \/ ReleaseWrite(r)
    \/ AiEscalate(r) \/ AiAskApproval(r) \/ AiLeave(r) \/ AiFailWrite(r)

ConversationNext ==
    \/ \E r \in Requests : Read(r) \/ Write(r)
    \/ AcquireLock \/ LockExpires \/ ReapExpiredLock \/ InboundMessage

ConversationSpec == ConversationInit /\ [][ConversationNext]_conversationVars

-----------------------------------------------------------------------------
(* Properties *)

\* Request r, which had read before, takes its next step.
Acts(r) == req[r] # Idle /\ req'[r] # req[r]

\* An admin's force_transition that read HUMAN_ASSIGNED takes effect.
Override(r) ==
    /\ Acts(r)
    /\ req[r].op = "force"
    /\ req[r].seen = "HUMAN_ASSIGNED"

\* What every operation may rely on between its read and its write: the move
\* it is about to make is an arc of _ALLOWED from the state it has seen (a
\* second close excepted), and who is to get the lock is known.
Prepared(q) ==
    /\ q.op \in {"assign", "assignUnlocked"} => "HUMAN_ASSIGNED" \in Allowed[q.seen]
    /\ q.op \in {"force", "bulk"} => q.to \in Allowed[q.seen]
    /\ q.op \in {"approve", "reject"} => q.seen = "AWAITING_APPROVAL"
    /\ q.op = "pause" => q.seen = "AI_ACTIVE" /\ q.to = "AI_PAUSED"
    /\ q.op = "resume" => q.seen = "AI_PAUSED" /\ q.to = "AI_ACTIVE"
    /\ q.op = "approve" => q.to = "AI_ACTIVE"
    /\ q.op \in {"assign", "assignUnlocked", "reject"} => q.to = "HUMAN_ASSIGNED"
    /\ q.op = "close" => q.to = "CLOSED"
    /\ q.op \in {"assign", "assignUnlocked", "renew"} => q.who # None
    /\ q.op = "ai" => q.seen \in {"AI_ACTIVE", "AWAITING_APPROVAL"}
    /\ q.op = "aiFail" => q.seen \notin {"HUMAN_ASSIGNED", "CLOSED"}

AllPrepared == \A r \in Requests : Prepared(req[r])

\* The state moves along the arcs of _ALLOWED only, whatever the other
\* requests did between an operation's read and its write; the one exception
\* is an admin's override.
LegalArcs ==
    [][state' # state =>
          state' \in Allowed[state] \/ \E r \in Requests : Override(r)]_conversationVars

\* No operation's decision is overwritten by one taken on an older row: a
\* request that changes the state had seen the state it replaces, again but
\* for an admin's override.
NoLostUpdate ==
    [][\A r \in Requests :
          Acts(r) /\ state' # state => req[r].seen = state \/ Override(r)]_conversationVars

\* The AI worker, whose snapshot is as old as a model call, changes nothing of
\* a conversation that a human has taken over or closed in the meantime.
AiNeverOverridesHuman ==
    [][\A r \in Requests :
          /\ Acts(r)
          /\ req[r].op \in {"ai", "aiFail"}
          /\ state \in {"HUMAN_ASSIGNED", "CLOSED"}
          => UNCHANGED row]_conversationVars

\* An audit row of _transition names the state that its transaction replaced
\* and the one it wrote, also when the row moved after the read.
AuditIsTrue ==
    [][audit' # audit => audit' = [from |-> state, to |-> state']]_conversationVars

\* A live lock never passes from one user to another without being free in
\* between, whatever the interleaving of acquire, renew, assign, release,
\* expiry and reaper.
LockHolder == IF lockLive THEN lockedBy ELSE None
Lock == INSTANCE Lease WITH Clients <- Users, Nobody <- None, holder <- LockHolder
LockIsLease == Lock!Spec
=============================================================================
