------------------------------ MODULE Delivery ------------------------------
(***************************************************************************)
(* One outbound message from its commit as QUEUED to its last delivery     *)
(* callback: the Celery tasks that send it, apply Meta's callbacks to it   *)
(* and reset it after a failed delivery, with Redis as the broker and      *)
(* PostgreSQL as the row.                                                  *)
(*                                                                         *)
(* A slot of task is a Celery task in the broker or in a worker.  Tasks    *)
(* are acknowledged late: a worker that dies hands its task back.  A task  *)
(* reads the row, works without a lock on it, and updates it by its id.    *)
(***************************************************************************)
EXTENDS Integers, FiniteSets

CONSTANTS
    Slots,              \* tasks that may exist at the same time (a bound)
    Workers,            \* tasks that may execute at the same time
    MaxRetries,         \* _MAX_RETRIES, 4 in the code
    RedisRetries,       \* _REDIS_DOWN_MAX_RETRIES, 30 in the code
    MaxDeliveryRetries, \* MAX_DELIVERY_RETRIES, 3 in the code
    MaxAccepted,        \* sends that Meta accepts (a bound)
    MaxFaults,          \* crashes, lost answers and redeliveries (a bound)
    Reports,            \* what Meta may report of a send
    LongResets          \* a reset may outlast the broker's visibility timeout

ASSUME BoundsAssumption ==
    /\ IsFiniteSet(Slots)
    /\ Workers \in Nat \ {0}
    /\ {MaxRetries, RedisRetries, MaxDeliveryRetries, MaxAccepted, MaxFaults}
          \subseteq Nat
    /\ Reports \subseteq {"SENT", "FAILED", "DELIVERED", "READ"}
    /\ LongResets \in BOOLEAN

VARIABLES
    status,          \* messages.delivery_status
    metaId,          \* messages.meta_message_id, 0 for NULL
    deliveryRetries, \* messages.delivery_retry_count
    task,            \* the Celery tasks about this message
    dedup,           \* the dedup:status: keys in Redis
    accepted,        \* sends that Meta has accepted: its ids are 1..accepted
    lost,            \* accepted sends whose answer no worker could commit
    faults           \* faults so far

msg  == <<status, metaId, deliveryRetries>>
env  == <<accepted, lost, faults>>
vars == <<msg, task, dedup, env>>

Rank == [QUEUED |-> 1, SENT |-> 2, FAILED |-> 3, DELIVERED |-> 4, READ |-> 5]
Statuses == DOMAIN Rank
Ids == 0..MaxAccepted

\* n is self.request.retries of a send task and the delivery_retry_count that
\* a status task has read; calls counts a send task's failed calls of Meta.
Task == [kind: {"none", "send", "reset", "status"},
         pc: {"queued", "read", "called", "committed"},
         n: Nat, id: Ids, st: Statuses, calls: Nat]

NoTask == [kind |-> "none", pc |-> "queued", n |-> 0, id |-> 0, st |-> "SENT",
           calls |-> 0]
SendTask == [NoTask EXCEPT !.kind = "send"]
ResetTask == [NoTask EXCEPT !.kind = "reset"]
StatusTask(id, st) == [NoTask EXCEPT !.kind = "status", !.id = id, !.st = st]

TypeOK ==
    /\ status \in Statuses
    /\ metaId \in 0..accepted
    /\ deliveryRetries \in Nat
    /\ task \in [Slots -> Task]
    /\ dedup \subseteq (Ids \X Reports)
    /\ accepted \in Ids
    /\ lost \in 0..accepted
    /\ faults \in 0..MaxFaults

\* The router has committed the message; its dispatch follows.
Init ==
    /\ status = "QUEUED"
    /\ metaId = 0
    /\ deliveryRetries = 0
    /\ \E t \in Slots : task = [s \in Slots |-> IF s = t THEN SendTask ELSE NoTask]
    /\ dedup = {}
    /\ accepted = 0
    /\ lost = 0
    /\ faults = 0

-----------------------------------------------------------------------------
Free(t) == task[t].kind = "none"
Executing == {t \in Slots : task[t].pc # "queued"}
Starts(t, kind) ==
    /\ task[t].kind = kind
    /\ task[t].pc = "queued"
    /\ Cardinality(Executing) < Workers
At(t, kind, pc) == task[t].kind = kind /\ task[t].pc = pc
Becomes(t, new) == task' = [task EXCEPT ![t] = new]
Continues(t, pc) == task' = [task EXCEPT ![t].pc = pc]
Ends(t) == Becomes(t, NoTask)

-----------------------------------------------------------------------------
(* send_outbound_message_task *)

\* redis_healthy() is false: retry on the budget of an outage.
SendPaused(t) ==
    /\ Starts(t, "send")
    /\ IF task[t].n < RedisRetries
          THEN task' = [task EXCEPT ![t].n = @ + 1]
          ELSE Ends(t)
    /\ UNCHANGED <<msg, dedup, env>>

\* Fault: the task does not look at delivery_status.
SendReadUnchecked(t) ==
    /\ Starts(t, "send")
    /\ Continues(t, "read")
    /\ UNCHANGED <<msg, dedup, env>>

SendRead(t) ==
    /\ Starts(t, "send")
    /\ IF status = "QUEUED" THEN Continues(t, "read") ELSE Ends(t)
    /\ UNCHANGED <<msg, dedup, env>>

\* client.send_*: Meta accepts the message and returns its id.
MetaAccepts(t) ==
    /\ At(t, "send", "read")
    /\ accepted < MaxAccepted
    /\ accepted' = accepted + 1
    /\ task' = [task EXCEPT ![t].pc = "called", ![t].id = accepted + 1]
    /\ UNCHANGED <<msg, dedup, lost, faults>>

\* UPDATE messages SET delivery_status, meta_message_id WHERE id, and commit.
SendCommit(t) ==
    /\ At(t, "send", "called")
    /\ status' = "SENT"
    /\ metaId' = task[t].id
    /\ Continues(t, "committed")
    /\ UNCHANGED <<deliveryRetries, dedup, env>>

\* Inbox reorder and event, after the commit.
SendFinish(t) ==
    /\ At(t, "send", "committed")
    /\ Ends(t)
    /\ UNCHANGED <<msg, dedup, env>>

\* Fault: the retry forgets how many there were.
RetryForever(t) == Becomes(t, SendTask) /\ UNCHANGED status

\* _handle_send_failure of a retryable error.
RetryOrFail(t) ==
    IF task[t].n + 1 > MaxRetries
       THEN status' = "FAILED" /\ Ends(t)
       ELSE /\ task' = [task EXCEPT ![t] = [SendTask EXCEPT !.n = task[t].n + 1,
                                               !.calls = task[t].calls + 1]]
            /\ UNCHANGED status

MetaRefuses(t) ==
    /\ At(t, "send", "read")
    /\ RetryOrFail(t)
    /\ UNCHANGED <<metaId, deliveryRetries, dedup, env>>

\* The call times out after Meta has accepted: a retryable error as well.
MetaTimesOut(t) ==
    /\ At(t, "send", "read")
    /\ accepted < MaxAccepted
    /\ faults < MaxFaults
    /\ accepted' = accepted + 1
    /\ lost' = lost + 1
    /\ faults' = faults + 1
    /\ RetryOrFail(t)
    /\ UNCHANGED <<metaId, deliveryRetries, dedup>>

\* _handle_send_failure of an error that is not retryable.
MetaRejects(t) ==
    /\ At(t, "send", "read")
    /\ status' = "FAILED"
    /\ Ends(t)
    /\ UNCHANGED <<metaId, deliveryRetries, dedup, env>>

-----------------------------------------------------------------------------
(* The status half of process_inbound_webhook_task *)

\* Meta posts any report about a send it accepted, in any order, repeatedly.
Webhook(t) ==
    /\ Free(t)
    /\ \E id \in 1..accepted, st \in Reports : Becomes(t, StatusTask(id, st))
    /\ UNCHANGED <<msg, dedup, env>>

Key(t) == <<task[t].id, task[t].st>>

\* Fault: the rank of the new status is not compared.
NewsAtAnyRank(t) == Key(t) \notin dedup /\ metaId = task[t].id

\* The row is found by the report's id and the report advances its rank.
News(t) ==
    /\ Key(t) \notin dedup
    /\ metaId = task[t].id
    /\ Rank[task[t].st] > Rank[status]

StatusSkip(t) ==
    /\ Starts(t, "status")
    /\ ~News(t)
    /\ dedup' = dedup \union {Key(t)}
    /\ Ends(t)
    /\ UNCHANGED <<msg, env>>

StatusRead(t) ==
    /\ Starts(t, "status")
    /\ News(t)
    /\ task' = [task EXCEPT ![t].pc = "read", ![t].n = deliveryRetries]
    /\ UNCHANGED <<msg, dedup, env>>

StatusCommit(t) ==
    /\ At(t, "status", "read")
    /\ status' = task[t].st
    /\ Continues(t, "committed")
    /\ UNCHANGED <<metaId, deliveryRetries, dedup, env>>

\* Fault: the number of delivery retries is not limited.
MayRetryAlways(t) == task[t].st = "FAILED"

\* _maybe_schedule_delivery_retry looks at the count read before the UPDATE.
MayRetry(t) == task[t].st = "FAILED" /\ task[t].n < MaxDeliveryRetries

\* The dedup key is set; a failure that is not permanent schedules a reset,
\* unless the setting is off.
StatusFinish(t) ==
    /\ At(t, "status", "committed")
    /\ dedup' = dedup \union {Key(t)}
    /\ Ends(t) \/ (MayRetry(t) /\ Becomes(t, ResetTask))
    /\ UNCHANGED <<msg, env>>

-----------------------------------------------------------------------------
(* reset_and_retry_message_task *)

ResetRead(t) ==
    /\ Starts(t, "reset")
    /\ IF status = "FAILED" THEN Continues(t, "read") ELSE Ends(t)
    /\ UNCHANGED <<msg, dedup, env>>

\* Fault: the row is reset to the enumeration's first member.
ResetCommitPending(t) ==
    /\ At(t, "reset", "read")
    /\ status' = "PENDING"
    /\ deliveryRetries' = deliveryRetries + 1
    /\ Continues(t, "committed")
    /\ UNCHANGED <<metaId, dedup, env>>

\* Fault: the delivery retry is not counted.
ResetCommitUncounted(t) ==
    /\ At(t, "reset", "read")
    /\ status' = "QUEUED"
    /\ Continues(t, "committed")
    /\ UNCHANGED <<metaId, deliveryRetries, dedup, env>>

\* meta_message_id=None means "leave it" to update_delivery_status_sync.
ResetCommit(t) ==
    /\ At(t, "reset", "read")
    /\ status' = "QUEUED"
    /\ deliveryRetries' = deliveryRetries + 1
    /\ Continues(t, "committed")
    /\ UNCHANGED <<metaId, dedup, env>>

\* Fault: the new send is not dispatched.
ResetWithoutDispatch(t) ==
    /\ At(t, "reset", "committed")
    /\ Ends(t)
    /\ UNCHANGED <<msg, dedup, env>>

\* send_outbound_message_task.delay after the commit.
ResetDispatch(t) ==
    /\ At(t, "reset", "committed")
    /\ Becomes(t, SendTask)
    /\ UNCHANGED <<msg, dedup, env>>

-----------------------------------------------------------------------------
(* Celery *)

Fault == faults < MaxFaults /\ faults' = faults + 1
LosesAnswer(t) == lost' = IF At(t, "send", "called") THEN lost + 1 ELSE lost

\* The worker dies: acks_late and reject_on_worker_lost queue the task again.
WorkerDies(t) ==
    /\ task[t].pc # "queued"
    /\ Fault
    /\ task' = [task EXCEPT ![t].pc = "queued", ![t].n =
                   IF task[t].kind = "send" THEN @ ELSE 0,
                   ![t].id = IF task[t].kind = "send" THEN 0 ELSE @]
    /\ LosesAnswer(t)
    /\ UNCHANGED <<msg, dedup, accepted>>

\* An exception that the task does not handle (the database, the broker).
TaskFails(t) ==
    /\ task[t].pc # "queued"
    /\ Fault
    /\ LosesAnswer(t)
    /\ Ends(t)
    /\ UNCHANGED <<msg, dedup, accepted>>

\* A reset waits 15 minutes to 12 hours, longer than the broker's visibility
\* timeout, and is delivered again.
Redelivered(t, s) ==
    /\ LongResets
    /\ task[t].kind = "reset"
    /\ Free(s)
    /\ Fault
    /\ Becomes(s, ResetTask)
    /\ UNCHANGED <<msg, dedup, accepted, lost>>

-----------------------------------------------------------------------------
Send(t) ==
    \/ SendRead(t) \/ SendCommit(t) \/ SendFinish(t)
    \/ MetaAccepts(t) \/ MetaRefuses(t) \/ MetaRejects(t)

Apply(t) == StatusSkip(t) \/ StatusRead(t) \/ StatusCommit(t) \/ StatusFinish(t)

Reset(t) == ResetRead(t) \/ ResetCommit(t) \/ ResetDispatch(t)

Environment(t) ==
    \/ SendPaused(t) \/ MetaTimesOut(t) \/ Webhook(t)
    \/ WorkerDies(t) \/ TaskFails(t) \/ \E s \in Slots : Redelivered(t, s)

Next == \E t \in Slots : Send(t) \/ Apply(t) \/ Reset(t) \/ Environment(t)

Spec == Init /\ [][Next]_vars

\* A worker that has a task goes on with it, and a queued task is delivered.
FairSpec ==
    /\ Spec
    /\ \A t \in Slots : WF_vars(Send(t)) /\ WF_vars(Apply(t)) /\ WF_vars(Reset(t))

-----------------------------------------------------------------------------
(* Properties *)

\* Meta gets a message once, once more for every delivery retry and once more
\* for every answer that was lost: no crash after the commit and no callback
\* sends it again.  Tasks that execute at the same time break this.
NoUnexplainedSend == accepted <= 1 + deliveryRetries + lost

\* With concurrent workers a redelivered task may race the one that replaces
\* it, but every send still has a cause of its own.
SendsHaveCauses == accepted <= 1 + deliveryRetries + faults

\* A task that will still send the message.
Driven ==
    \E t \in Slots : \/ task[t].kind = "send" /\ task[t].pc # "committed"
                     \/ At(t, "reset", "committed")

\* A QUEUED message is not abandoned: it loses its last task only through a
\* fault or at the end of the budget for a Redis outage.
NeverAbandoned ==
    [][(status = "QUEUED" => Driven) /\ ~(status' = "QUEUED" => Driven')
          => faults' # faults \/ \E t \in Slots : SendPaused(t)]_vars

\* A QUEUED message that has a task does not stay QUEUED.
Settles == status = "QUEUED" /\ Driven ~> status # "QUEUED" \/ ~Driven

\* A callback whose dedup key is set will not be looked at again; it is
\* because the row of its send says as much, until a delivery retry.
KeyMeansApplied ==
    deliveryRetries = 0 =>
        \A key \in dedup : key[1] = metaId => Rank[status] >= Rank[key[2]]

\* The row's life as its readers see it.
Life == INSTANCE MessageLife
IsMessageLife == Life!Spec

-----------------------------------------------------------------------------
(* What the runs check of these together *)

\* However many workers take the tasks of a message, every call that Meta accepts
\* has a cause of its own.
SendsAreAccounted == TypeOK /\ SendsHaveCauses

\* With one worker the causes are exact, and a report whose key is set is in the row.
SerialIsExact == NoUnexplainedSend /\ KeyMeansApplied
=============================================================================
