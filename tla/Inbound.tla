------------------------------- MODULE Inbound -------------------------------
(***************************************************************************)
(* The inbound path: the webhooks of Meta with one contact's messages, the *)
(* process_inbound_webhook_task of each, and the other writers of the      *)
(* contact's conversations.                                                *)
(*                                                                         *)
(* A task goes through its payload message by message.  The transaction    *)
(* that stores a message updates the contact's row first, so the database  *)
(* runs those of one contact one after the other; the opt-out has a        *)
(* transaction of its own, and so has whoever else opens a conversation.   *)
(***************************************************************************)
EXTENDS Integers, FiniteSets, FiniteSetsExt, Sequences, ConversationStates

CONSTANTS
    Payloads,       \* webhooks: sequences of the contact's messages
    OptOuts,        \* the messages that detect_opt_out_keywords detects
    Tasks,          \* tasks that are in the system at the same time (a bound)
    Targets,        \* states that humans move conversations to (a bound)
    MaxRepeats,     \* webhooks that Meta delivers again (a bound)
    MaxRetries,     \* max_retries of the task, 3 in the code
    MaxMoves,       \* steps of humans (a bound)
    MaxFaults,      \* exceptions and crashes (a bound)
    none            \* no task

Messages == UNION {{p[i] : i \in DOMAIN p} : p \in Payloads}

ASSUME InboundAssumption ==
    /\ Payloads # {} /\ \A p \in Payloads : p \in Seq(Messages) /\ p # <<>>
    /\ OptOuts \subseteq Messages
    /\ Targets \subseteq States
    /\ none \notin Tasks
    /\ {MaxRepeats, MaxRetries, MaxMoves, MaxFaults} \subseteq Nat

\* Each conversation but one needs a step of a human.
MaxConvs == MaxMoves + 1

VARIABLES
    toHuman,    \* the contact is assigned to an agent
    convs,      \* the contact's conversations, in the order of created_at
    stored,     \* stored[m] is the conversation of message m, 0 for none
    optedOut,   \* contacts.do_not_contact and its tag
    keys,       \* messages with a key dedup:inbound:
    requests,   \* requests[m] counts the AI requests sent for message m
    due,        \* messages stored with ai_should_run
    task,       \* the tasks in the system
    rowLock,    \* the task whose transaction has updated the contact's row
    starting,   \* start_conversation has found no open conversation
    sent,       \* the webhooks that Meta has delivered
    repeats, moves, faults,
    struck      \* a fault hit a task where no retry makes up for it

rows   == <<toHuman, convs, stored, optedOut>>
others == <<starting, sent, repeats, moves>>
vars   == <<rows, keys, requests, due, task, rowLock, others, faults, struck>>

Task == [pc: {"idle", "check", "read", "write", "optout", "reply", "key"},
         payload: Payloads, at: Nat, tries: 0..MaxRetries,
         conv: 0..MaxConvs, snap: States]

Conv == [state: States, ai: BOOLEAN, by: {"inbound", "start"}]

TypeOK ==
    /\ toHuman \in BOOLEAN
    /\ convs \in Seq(Conv) /\ Len(convs) <= MaxConvs
    /\ stored \in [Messages -> 0..Len(convs)]
    /\ optedOut \in BOOLEAN
    /\ keys \subseteq Messages
    /\ requests \in [Messages -> Nat]
    /\ due \subseteq Messages
    /\ task \in [Tasks -> Task] /\ \A w \in Tasks : task[w].at \in DOMAIN task[w].payload
    /\ rowLock \in Tasks \union {none}
    /\ \A w \in Tasks : rowLock = w <=> task[w].pc = "write"
    /\ starting \in BOOLEAN /\ struck \in BOOLEAN
    /\ sent \subseteq Payloads /\ repeats \in 0..MaxRepeats
    /\ moves \in 0..MaxMoves /\ faults \in 0..MaxFaults

\* A task of payload p that waits for a worker.
Fresh(p) == [pc |-> "check", payload |-> p, at |-> 1, tries |-> 0,
             conv |-> 0, snap |-> "NEW"]
Idle == [Fresh(CHOOSE p \in Payloads : TRUE) EXCEPT !.pc = "idle"]

Init ==
    /\ toHuman \in BOOLEAN
    /\ convs = <<>>
    /\ stored = [m \in Messages |-> 0]
    /\ optedOut = FALSE
    /\ keys = {}
    /\ requests = [m \in Messages |-> 0]
    /\ due = {}
    /\ task = [w \in Tasks |-> Idle]
    /\ rowLock = none
    /\ starting = FALSE
    /\ sent = {}
    /\ repeats = 0
    /\ moves = 0
    /\ faults = 0
    /\ struck = FALSE

-----------------------------------------------------------------------------
Open == {c \in DOMAIN convs : convs[c].state # "CLOSED"}

\* get_active_for_contact_sync: the newest open conversation.
Active == IF Open = {} THEN 0 ELSE Max(Open)

Msg(w) == task[w].payload[task[w].at]

To(w, pc) == task' = [task EXCEPT ![w].pc = pc]

\* The loop goes on to the next message of the payload.
NextMessage(w) ==
    task' = [task EXCEPT ![w] =
        IF @.at = Len(@.payload) THEN Idle
        ELSE [Fresh(@.payload) EXCEPT !.at = task[w].at + 1, !.tries = task[w].tries]]

Again(w, tries) ==
    task' = [task EXCEPT ![w] = [Fresh(@.payload) EXCEPT !.tries = tries]]

\* Fault: an off-by-one in the limit.
RetryOnceMore(w) == Again(w, task[w].tries + 1)

\* Fault: a new task instead of self.retry.
RetryForever(w) == Again(w, task[w].tries)

\* Fault: the exception is swallowed.
RetrySwallowed(w) == task' = [task EXCEPT ![w] = Idle]

\* self.retry: the whole payload again, or the end of the task.
Retry(w) ==
    IF task[w].tries < MaxRetries THEN Again(w, task[w].tries + 1)
    ELSE task' = [task EXCEPT ![w] = Idle]

-----------------------------------------------------------------------------
(* receive_meta_webhook, once or more often for a webhook *)
Webhook(w) == \E p \in Payloads :
    /\ task[w].pc = "idle"
    /\ IF p \in sent THEN repeats < MaxRepeats /\ repeats' = repeats + 1
                     ELSE UNCHANGED repeats
    /\ sent' = sent \union {p}
    /\ task' = [task EXCEPT ![w] = Fresh(p)]
    /\ UNCHANGED <<rows, keys, requests, due, rowLock, starting, moves, faults, struck>>

\* Fault: the key is claimed before the work.
CheckAndClaim(w) ==
    /\ task[w].pc = "check"
    /\ IF Msg(w) \in keys THEN NextMessage(w) ELSE To(w, "read")
    /\ keys' = keys \union {Msg(w)}
    /\ UNCHANGED <<rows, requests, due, rowLock, others, faults, struck>>

CheckKey(w) ==
    /\ task[w].pc = "check"
    /\ IF Msg(w) \in keys THEN NextMessage(w) ELSE To(w, "read")
    /\ UNCHANGED <<rows, keys, requests, due, rowLock, others, faults, struck>>

\* Fault: the contact's row is not updated first.
ReadUnlocked(w) ==
    /\ task[w].pc = "read"
    /\ rowLock' = IF rowLock = none THEN w ELSE rowLock
    /\ task' = [task EXCEPT ![w].pc = "write", ![w].conv = Active,
                            ![w].snap = IF Active = 0 THEN "NEW" ELSE convs[Active].state]
    /\ UNCHANGED <<rows, keys, requests, due, others, faults, struck>>

\* upsert_by_phone_sync, touch_last_inbound_sync, get_active_for_contact_sync.
Read(w) ==
    /\ task[w].pc = "read"
    /\ rowLock = none
    /\ rowLock' = w
    /\ task' = [task EXCEPT ![w].pc = "write", ![w].conv = Active,
                            ![w].snap = IF Active = 0 THEN "NEW" ELSE convs[Active].state]
    /\ UNCHANGED <<rows, keys, requests, due, others, faults, struck>>

Unlock(w) == rowLock' = IF rowLock = w THEN none ELSE rowLock

\* The state that a message gives to a new conversation.
Entry(ai) == IF ai THEN "AI_ACTIVE" ELSE "HUMAN_ASSIGNED"

\* The conversation found has been moved out of NEW by somebody else.
Outdated(w) ==
    task[w].conv # 0 /\ task[w].snap = "NEW" /\ convs[task[w].conv].state # "NEW"

\* Message m goes into conversation c, and the transaction commits.
Commit(w, c) ==
    /\ stored' = [stored EXCEPT ![Msg(w)] = c]
    /\ due' = IF convs'[c].ai /\ (task[w].snap = "AI_ACTIVE" \/ task[w].snap = "NEW")
                 THEN due \union {Msg(w)} ELSE due
    /\ task' = [task EXCEPT ![w].conv = 0, ![w].snap = "NEW",
                            ![w].pc = IF Msg(w) \in OptOuts THEN "optout" ELSE "reply"]

StoreInNew(w) ==
    /\ task[w].conv = 0
    /\ convs' = Append(convs, [state |-> Entry(~toHuman), ai |-> ~toHuman, by |-> "inbound"])
    /\ Commit(w, Len(convs) + 1)

StoreInOpen(w) ==
    /\ task[w].conv # 0
    /\ ~Outdated(w)
    /\ convs' = IF task[w].snap = "NEW"
                   THEN [convs EXCEPT ![task[w].conv].state = Entry(convs[task[w].conv].ai)]
                   ELSE convs
    /\ Commit(w, task[w].conv)

\* Fault: meta_message_id is not unique.
StoreTwice(w) ==
    /\ task[w].pc = "write"
    /\ StoreInNew(w) \/ StoreInOpen(w)
    /\ Unlock(w)
    /\ UNCHANGED <<toHuman, optedOut, keys, requests, others, faults, struck>>

\* _persist_inbound up to its first commit.
Store(w) ==
    /\ task[w].pc = "write"
    /\ stored[Msg(w)] = 0
    /\ StoreInNew(w) \/ StoreInOpen(w)
    /\ Unlock(w)
    /\ UNCHANGED <<toHuman, optedOut, keys, requests, others, faults, struck>>

\* meta_message_id is in use, or a ConcurrentModificationError.
StoreFails(w) ==
    /\ task[w].pc = "write"
    /\ stored[Msg(w)] # 0 \/ Outdated(w)
    /\ Unlock(w)
    /\ Retry(w)
    /\ UNCHANGED <<rows, keys, requests, due, others, faults, struck>>

\* The second transaction: set_do_not_contact_sync, _apply_opt_out_tag_sync.
OptOut(w) ==
    /\ task[w].pc = "optout"
    /\ rowLock = none
    /\ optedOut' = TRUE
    /\ due' = due \ {Msg(w)}
    /\ To(w, "reply")
    /\ UNCHANGED <<toHuman, convs, stored, keys, requests, rowLock, others, faults, struck>>

\* After _cancel_pending_outreach_on_reply: request_ai_reply_task.delay.
Dispatch(w) ==
    /\ task[w].pc = "reply"
    /\ requests' = [requests EXCEPT ![Msg(w)] = IF Msg(w) \in due THEN @ + 1 ELSE @]
    /\ To(w, "key")
    /\ UNCHANGED <<rows, keys, due, rowLock, others, faults, struck>>

SetKey(w) ==
    /\ task[w].pc = "key"
    /\ keys' = keys \union {Msg(w)}
    /\ NextMessage(w)
    /\ UNCHANGED <<rows, requests, due, rowLock, others, faults, struck>>

-----------------------------------------------------------------------------
(* Faults *)
Fault(late) == faults < MaxFaults /\ faults' = faults + 1 /\ struck' = (struck \/ late)

\* An exception of _persist_inbound is retried.
PersistFails(w) ==
    /\ task[w].pc \in {"read", "write", "optout", "reply"}
    /\ Fault(task[w].pc \in {"optout", "reply"})
    /\ Unlock(w)
    /\ Retry(w)
    /\ UNCHANGED <<rows, keys, requests, due, others>>

\* An exception of the Redis client is not: the task has failed.
RedisFails(w) ==
    /\ task[w].pc \in {"check", "key"}
    /\ Fault(TRUE)
    /\ task' = [task EXCEPT ![w] = Idle]
    /\ UNCHANGED <<rows, keys, requests, due, rowLock, others>>

\* The worker dies, and the broker delivers the task again.
WorkerDies(w) ==
    /\ task[w].pc \in {"read", "write", "optout", "reply", "key"}
    /\ Fault(task[w].pc \in {"optout", "reply", "key"})
    /\ Unlock(w)
    /\ Again(w, task[w].tries)
    /\ UNCHANGED <<rows, keys, requests, due, others>>

-----------------------------------------------------------------------------
(* Humans: the states of the conversations, and new conversations *)
HumanMoves == \E c \in DOMAIN convs :
    /\ moves < MaxMoves
    /\ moves' = moves + 1
    /\ \E s \in Allowed[convs[c].state] \cap Targets : convs' = [convs EXCEPT ![c].state = s]
    /\ UNCHANGED <<toHuman, stored, optedOut, keys, requests, due, task, rowLock,
                   starting, sent, repeats, faults, struck>>

\* start_conversation_with_template reads, and creates unless it has found one.
StartRead ==
    /\ ~starting
    /\ Active = 0
    /\ moves < MaxMoves
    /\ moves' = moves + 1
    /\ starting' = TRUE
    /\ UNCHANGED <<rows, keys, requests, due, task, rowLock, sent, repeats, faults, struck>>

StartCreate ==
    /\ starting
    /\ starting' = FALSE
    /\ convs' = Append(convs, [state |-> "NEW", ai |-> TRUE, by |-> "start"])
    /\ UNCHANGED <<toHuman, stored, optedOut, keys, requests, due, task, rowLock,
                   sent, repeats, moves, faults, struck>>

-----------------------------------------------------------------------------
Step(w) ==
    \/ CheckKey(w) \/ Read(w) \/ Store(w) \/ StoreFails(w)
    \/ OptOut(w) \/ Dispatch(w) \/ SetKey(w)

Next ==
    \/ \E w \in Tasks : \/ Webhook(w) \/ Step(w)
                        \/ PersistFails(w) \/ RedisFails(w) \/ WorkerDies(w)
    \/ HumanMoves \/ StartRead \/ StartCreate

Spec == Init /\ [][Next]_vars

\* Workers go on with the tasks that the broker delivers.
FairSpec == Spec /\ \A w \in Tasks : WF_vars(Step(w))

-----------------------------------------------------------------------------
(* Properties *)

\* However often a webhook is delivered and wherever its task dies, the AI is
\* asked for at most one reply to a message.
AskedOnce == \A m \in Messages : requests[m] <= 1

\* A message with a dedup key, which no webhook brings back, has been dealt
\* with: it is stored, its opt-out has effect, and the AI was asked if due.
KeyMeansDone ==
    \A m \in keys :
        /\ stored[m] # 0
        /\ m \in OptOuts => optedOut
        /\ m \in due => requests[m] = 1

\* Workers that handle messages of one contact at the same time open one
\* conversation between them.
OneInboundConversation ==
    Cardinality({c \in Open : convs[c].by = "inbound"}) <= 1

\* Every message that the API has accepted is stored, also when attempts to
\* store it fail, unless a fault hits a task outside of what is retried.
MessagesAreStored ==
    <>[](struck \/ \A p \in sent : \A i \in DOMAIN p : stored[p[i]] # 0)

\* A message that cannot be stored again does not occupy a worker for good.
TasksEnd == <>[](\A w \in Tasks : task[w].pc = "idle")

\* Whatever is delivered again, retried or cut off: a message asks the AI once, a
\* key says that its message is done with, and the workers open one conversation.
EachMessageOnce == TypeOK /\ AskedOnce /\ KeyMeansDone /\ OneInboundConversation

\* The messages of a webhook are stored, and no task goes on for ever.
NoMessageLost == MessagesAreStored /\ TasksEnd
-----------------------------------------------------------------------------
(* What a comment says and the code does not keep *)

\* _persist_inbound, "If the inbound message signals opt-out, suppress the
\* contact immediately": an opt-out that is stored takes effect.
OptOutHonoured == \A m \in OptOuts : stored[m] # 0 ~> optedOut
=============================================================================
