------------------------------ MODULE Campaign ------------------------------
(***************************************************************************)
(* One campaign, from its validation to the last of its recipients: the    *)
(* requests of its operators, and the Celery tasks that dispatch it, send  *)
(* its batches, poll for its completion and start it when it is due.       *)
(*                                                                         *)
(* Requests and tasks read the campaign's row, decide, and update the row  *)
(* by its id alone, so read and write are two steps.  Broker and worker    *)
(* are a bag of tasks and a set of processes; a task is acknowledged when  *)
(* it ends, so the task of a process that dies is delivered again.         *)
(*                                                                         *)
(* The audience that the filter selects is the same each time, DELIVERED   *)
(* counts as SENT, and the counters that only reports read are left out.   *)
(***************************************************************************)
EXTENDS Integers, FiniteSets, FiniteSetsExt, BagsExt

CONSTANTS
    Recipients,     \* the contacts that the audience filter selects
    Batch,          \* CAMPAIGN_BATCH_SIZE, 100 in the code
    Workers,        \* the processes of the Celery worker
    Users,          \* requests that are in progress at the same time (a bound)
    Types,          \* the types of campaign that are looked at
    MaxRequests,    \* requests altogether (a bound)
    MaxTicks,       \* scheduler ticks that find the campaign due (a bound)
    MaxDispatchTries, \* max_retries of a dispatch, 3 in the code
    MaxBatchTries,  \* max_retries of a batch, 10 in the code
    MaxPolls,       \* max_retries of the completion poll, 120 in the code
    MaxFaults       \* crashes, exceptions, failed deliveries, overlong fan-outs, and
                    \* deferred tasks that the broker delivers twice (a bound)

ASSUME CampaignAssumption ==
    /\ Recipients \subseteq Nat /\ IsFiniteSet(Recipients) /\ Recipients # {}
    /\ IsFiniteSet(Workers)
    /\ Batch \in Nat \ {0}
    /\ Types \subseteq {"IMMEDIATE", "SCHEDULED", "RECURRING"}
    /\ {MaxRequests, MaxTicks, MaxDispatchTries, MaxBatchTries, MaxPolls, MaxFaults} \subseteq Nat

Statuses == {"DRAFT", "SCHEDULED", "QUEUED", "DISPATCHING",
             "COMPLETED", "FAILED", "CANCELLED"}

\* ALLOWED_TRANSITIONS, for the targets that _assert_transition is asked for.
\* No transaction commits VALIDATING.
Before == [validate |-> {"DRAFT"},
           launch   |-> {"SCHEDULED"},
           cancel   |-> {"DRAFT", "SCHEDULED", "QUEUED", "DISPATCHING"}]

VARIABLES
    type,           \* campaigns.type
    onMeta,         \* the template has a meta_template_id
    status,         \* campaigns.status
    recip,          \* campaign_recipients.status, "NONE" while there is no row
    lock,           \* the key campaign:lock: exists
    queue,          \* the tasks in the broker, a bag
    worker,         \* what each process of the worker is doing
    request,        \* the requests in progress
    requests, ticks, faults,
    again,          \* deferred batches that were delivered twice
    handed,         \* batches with a recipient, given out or delivered again:
                    \* none, 1, or more (2)
    msgs,           \* msgs[r] counts the messages created for recipient r
    dropped,        \* the recipients that a cancellation has failed
    late,           \* messages created for them afterwards
    underWay,       \* processes that were about to create one
    gaveUp,         \* a dispatch, a batch or a poll has run out of retries
    overwritten     \* a status was written over one that the writer never saw

row   == <<type, onMeta, status, recip>>
sends == <<again, handed, msgs, dropped, late, underWay>>
vars  == <<row, lock, queue, worker, request, requests, ticks, faults, sends,
           gaveUp, overwritten>>

Task(kind, ids, tries) == [kind |-> kind, ids |-> ids, tries |-> tries]
DispatchTask == Task("dispatch", {}, 0)
TickTask     == Task("tick", {}, 0)

Idle == [pc |-> "idle", task |-> TickTask, left |-> {}, at |-> 0, saw |-> "DRAFT"]
NoRequest == [pc |-> "idle", op |-> "cancel", saw |-> "DRAFT"]

Kinds == {"dispatch", "batch", "poll", "tick"}
Steps == {"idle", "load", "mark", "page", "next", "send", "finish", "queue", "publish"}

MaxTries(kind) == CASE kind = "dispatch" -> MaxDispatchTries
                    [] kind = "poll"     -> MaxPolls
                    [] OTHER             -> MaxBatchTries

TypeOK ==
    /\ type \in Types /\ onMeta \in BOOLEAN
    /\ status \in Statuses
    /\ recip \in [Recipients -> {"NONE", "PENDING", "SENT", "FAILED"}]
    /\ lock \in BOOLEAN
    /\ queue \in [DOMAIN queue -> Nat \ {0}]
    /\ \A t \in DOMAIN queue : /\ t \in [kind: {"dispatch", "batch", "poll"},
                                        ids: SUBSET Recipients, tries: Nat]
                               /\ t.tries <= MaxTries(t.kind)
    /\ worker \in [Workers -> [pc: Steps, task: [kind: Kinds, ids: SUBSET Recipients, tries: Nat],
                               left: SUBSET Recipients, saw: Statuses,
                               at: 0..(Cardinality(Recipients) + Batch)]]
    /\ \A w \in Workers : worker[w].left \subseteq worker[w].task.ids
    /\ request \in [Users -> [pc: {"idle", "write", "publish"}, op: DOMAIN Before, saw: Statuses]]
    /\ again \in Nat /\ msgs \in [Recipients -> Nat] /\ handed \in [Recipients -> 0..2]
    /\ dropped \subseteq Recipients /\ late \in Nat /\ underWay \in Nat
    /\ gaveUp \in BOOLEAN /\ overwritten \in BOOLEAN
    /\ requests \in 0..MaxRequests /\ ticks \in 0..MaxTicks /\ faults \in 0..MaxFaults

Init ==
    /\ type \in Types /\ onMeta \in BOOLEAN
    /\ status = "DRAFT"
    /\ recip = [r \in Recipients |-> "NONE"]
    /\ lock = FALSE
    /\ queue = <<>>
    /\ worker = [w \in Workers |-> Idle]
    /\ request = [u \in Users |-> NoRequest]
    /\ requests = 0 /\ ticks = 0 /\ faults = 0
    /\ again = 0 /\ handed = [r \in Recipients |-> 0]
    /\ msgs = [r \in Recipients |-> 0]
    /\ dropped = {} /\ late = 0 /\ underWay = 0
    /\ gaveUp = FALSE /\ overwritten = FALSE

-----------------------------------------------------------------------------
Pending == {r \in Recipients : recip[r] = "PENDING"}

\* Repository.update and update_status_sync: by id, whatever the status is now.
SetStatus(new, saw) ==
    /\ status' = new
    /\ overwritten' = (overwritten \/ status # saw)

KeepStatus == UNCHANGED <<status, overwritten>>

Goto(w, pc)  == worker' = [worker EXCEPT ![w].pc = pc]
Done(w)      == worker' = [worker EXCEPT ![w] = Idle]
Publish(t)   == queue' = BagAdd(queue, t)

\* Fault: an off-by-one in the limit.
RetryOnceMore(rest, t, ids, max) ==
    IF t.tries <= max
       THEN queue' = BagAdd(rest, Task(t.kind, ids, t.tries + 1)) /\ UNCHANGED gaveUp
       ELSE queue' = rest /\ gaveUp' = TRUE

\* Fault: a task is retried without a limit.
RetryForever(rest, t, ids, max) == queue' = BagAdd(rest, t) /\ UNCHANGED gaveUp

\* self.retry of task t, with recipients ids: another try, or its end.  The
\* queue has lost the task if it was taken in this step.
Retry(rest, t, ids, max) ==
    IF t.tries < max
       THEN queue' = BagAdd(rest, Task(t.kind, ids, t.tries + 1)) /\ UNCHANGED gaveUp
       ELSE queue' = rest /\ gaveUp' = TRUE

\* The processes that have found their recipient PENDING.
AboutToSend == {w \in Workers : worker[w].pc = "send" /\ Min(worker[w].left) \in Pending}

-----------------------------------------------------------------------------
(* The requests: validate_campaign, launch_campaign, cancel_campaign *)
Receive(u) == \E op \in DOMAIN Before :
    /\ request[u].pc = "idle"
    /\ requests < MaxRequests /\ requests' = requests + 1
    /\ status \in Before[op]
    /\ op = "launch" => type = "IMMEDIATE"
    /\ request' = [request EXCEPT ![u] = [pc |-> "write", op |-> op, saw |-> status]]
    /\ UNCHANGED <<row, lock, queue, worker, ticks, faults, sends, gaveUp, overwritten>>

\* The recipients are inserted whether or not the checks find errors.
Validate(u) ==
    /\ request[u].pc = "write" /\ request[u].op = "validate"
    /\ \E new \in {"SCHEDULED", "DRAFT"} : SetStatus(new, request[u].saw)
    /\ recip' = [r \in Recipients |-> IF recip[r] = "NONE" THEN "PENDING" ELSE recip[r]]
    /\ request' = [request EXCEPT ![u] = NoRequest]
    /\ UNCHANGED <<type, onMeta, lock, queue, worker, requests, ticks, faults, sends, gaveUp>>

Launch(u) ==
    /\ request[u].pc = "write" /\ request[u].op = "launch"
    /\ SetStatus("QUEUED", request[u].saw)
    /\ request' = [request EXCEPT ![u].pc = "publish"]
    /\ UNCHANGED <<type, onMeta, recip, lock, queue, worker, requests, ticks, faults,
                   sends, gaveUp>>

LaunchPublish(u) ==
    /\ request[u].pc = "publish"
    /\ Publish(DispatchTask)
    /\ request' = [request EXCEPT ![u] = NoRequest]
    /\ UNCHANGED <<row, lock, worker, requests, ticks, faults, sends, gaveUp, overwritten>>

\* Fault: cancel_pending is forgotten.
CancelStatusOnly(u) ==
    /\ request[u].pc = "write" /\ request[u].op = "cancel"
    /\ SetStatus("CANCELLED", request[u].saw)
    /\ dropped' = dropped \union Pending
    /\ underWay' = underWay + Cardinality(AboutToSend)
    /\ request' = [request EXCEPT ![u] = NoRequest]
    /\ UNCHANGED <<type, onMeta, recip, lock, queue, worker, requests, ticks, faults,
                   again, handed, msgs, late, gaveUp>>

\* cancel_pending, and the campaign's status.
Cancel(u) ==
    /\ request[u].pc = "write" /\ request[u].op = "cancel"
    /\ SetStatus("CANCELLED", request[u].saw)
    /\ recip' = [r \in Recipients |-> IF r \in Pending THEN "FAILED" ELSE recip[r]]
    /\ dropped' = dropped \union Pending
    /\ underWay' = underWay + Cardinality(AboutToSend)
    /\ request' = [request EXCEPT ![u] = NoRequest]
    /\ UNCHANGED <<type, onMeta, lock, queue, worker, requests, ticks, faults,
                   again, handed, msgs, late, gaveUp>>

-----------------------------------------------------------------------------
(* dispatch_campaign_task *)
Takes(w, t) ==
    /\ worker[w].pc = "idle"
    /\ t \in DOMAIN queue
    /\ queue' = BagRemove(queue, t)

Holding(t, pc) == [Idle EXCEPT !.pc = pc, !.task = t, !.left = t.ids]

\* Fault: a dispatch that may not start yet is dropped.
DispatchDropped(w) == \E t \in DOMAIN queue :
    /\ t.kind = "dispatch" /\ Takes(w, t)
    /\ UNCHANGED <<row, lock, worker, request, requests, ticks, faults, sends, gaveUp, overwritten>>

\* Outside of business hours, or with the daily cap reached, it is retried:
\* max_retries=None stands for the task's own.
DispatchDeferred(w) == \E t \in DOMAIN queue :
    /\ t.kind = "dispatch" /\ worker[w].pc = "idle"
    /\ Retry(BagRemove(queue, t), t, t.ids, MaxDispatchTries)
    /\ UNCHANGED <<row, lock, worker, request, requests, ticks, faults, sends, overwritten>>

\* SET NX; whoever finds the key leaves the work to its holder.
DispatchLock(w) == \E t \in DOMAIN queue :
    /\ t.kind = "dispatch" /\ Takes(w, t)
    /\ lock' = TRUE
    /\ worker' = IF lock THEN worker ELSE [worker EXCEPT ![w] = Holding(t, "load")]
    /\ UNCHANGED <<row, request, requests, ticks, faults, sends, gaveUp, overwritten>>

\* The finally clause deletes the key, whoever has set it.
Unlock == lock' = FALSE

DispatchLoad(w) ==
    /\ worker[w].pc = "load"
    /\ IF status \in {"QUEUED", "DISPATCHING"}
          THEN /\ worker' = [worker EXCEPT ![w].pc = IF status = "QUEUED" THEN "mark" ELSE "page"]
               /\ UNCHANGED lock
          ELSE Done(w) /\ Unlock
    /\ UNCHANGED <<row, queue, request, requests, ticks, faults, sends, gaveUp, overwritten>>

DispatchMark(w) ==
    /\ worker[w].pc = "mark"
    /\ SetStatus("DISPATCHING", "QUEUED")
    /\ Goto(w, "page")
    /\ UNCHANGED <<type, onMeta, recip, lock, queue, request, requests, ticks, faults,
                   sends, gaveUp>>

\* LIMIT and OFFSET over rows that were inserted with the same created_at:
\* which of the PENDING ones make up the page is for the database to say.
Page(at) ==
    LET n == Min({Batch, Cardinality(Pending) - at})
    IN  IF n <= 0 THEN {} ELSE {ids \in SUBSET Pending : Cardinality(ids) = n}

GivenOut(ids) ==
    [r \in Recipients |-> IF r \in ids THEN Min({2, handed[r] + 1}) ELSE handed[r]]

DispatchPage(w) == \E ids \in Page(worker[w].at) :
    /\ worker[w].pc = "page"
    /\ Publish(Task("batch", ids, 0))
    /\ handed' = GivenOut(ids)
    /\ worker' = [worker EXCEPT ![w].at = @ + Batch]
    /\ UNCHANGED <<row, lock, request, requests, ticks, faults, again, msgs, dropped,
                   late, underWay, gaveUp, overwritten>>

\* Fault: the poll for completion is not scheduled.
DispatchEndNoPoll(w) ==
    /\ worker[w].pc = "page" /\ Page(worker[w].at) = {}
    /\ Unlock
    /\ Done(w)
    /\ UNCHANGED <<row, queue, request, requests, ticks, faults, sends, gaveUp, overwritten>>

DispatchEnd(w) ==
    /\ worker[w].pc = "page" /\ Page(worker[w].at) = {}
    /\ Publish(Task("poll", {}, 0))
    /\ Unlock
    /\ Done(w)
    /\ UNCHANGED <<row, request, requests, ticks, faults, sends, gaveUp, overwritten>>

-----------------------------------------------------------------------------
(* process_campaign_batch_task *)

\* Redis is down, it is outside of business hours, or the daily cap is reached.
BatchDeferred(w) == \E t \in DOMAIN queue :
    /\ t.kind = "batch" /\ worker[w].pc = "idle"
    /\ Retry(BagRemove(queue, t), t, t.ids, MaxBatchTries)
    /\ UNCHANGED <<row, lock, worker, request, requests, ticks, faults, sends, overwritten>>

\* The campaign's status is read once, and the template looked at.
BatchStart(w) == \E t \in DOMAIN queue :
    /\ t.kind = "batch" /\ Takes(w, t)
    /\ IF status \in {"QUEUED", "DISPATCHING"} /\ onMeta
          THEN worker' = [worker EXCEPT ![w] = Holding(t, "next")]
          ELSE UNCHANGED worker
    /\ recip' = [r \in Recipients |->
           IF status \in {"QUEUED", "DISPATCHING"} /\ ~onMeta /\ r \in t.ids
              THEN "FAILED" ELSE recip[r]]
    /\ UNCHANGED <<type, onMeta, status, lock, request, requests, ticks, faults,
                   sends, gaveUp, overwritten>>

\* _claim_throttle_slot refuses: what is left of the batch is tried again.
BatchThrottled(w) ==
    /\ worker[w].pc = "next" /\ worker[w].left # {}
    /\ Retry(queue, worker[w].task, worker[w].left, MaxBatchTries)
    /\ Done(w)
    /\ UNCHANGED <<row, lock, request, requests, ticks, faults, sends, overwritten>>

\* Fault: a recipient is taken whatever its status.
BatchTakeAny(w) ==
    /\ worker[w].pc = "next" /\ worker[w].left # {}
    /\ Goto(w, "send")
    /\ UNCHANGED <<row, lock, queue, request, requests, ticks, faults, sends, gaveUp,
                   overwritten>>

\* get_with_contact_sync, and the look at the recipient's status.
BatchNext(w) ==
    /\ worker[w].pc = "next" /\ worker[w].left # {}
    /\ LET r == Min(worker[w].left) IN
          IF recip[r] = "PENDING" THEN Goto(w, "send")
          ELSE worker' = [worker EXCEPT ![w].left = @ \ {r}]
    /\ UNCHANGED <<row, lock, queue, request, requests, ticks, faults, sends, gaveUp,
                   overwritten>>

\* The message, mark_sent_sync and the commit; then send_outbound_message_task.
BatchSend(w) ==
    /\ worker[w].pc = "send"
    /\ LET r == Min(worker[w].left) IN
          /\ recip' = [recip EXCEPT ![r] = "SENT"]
          /\ msgs' = [msgs EXCEPT ![r] = @ + 1]
          /\ late' = IF r \in dropped THEN late + 1 ELSE late
          /\ worker' = [worker EXCEPT ![w].pc = "next", ![w].left = @ \ {r}]
    /\ UNCHANGED <<type, onMeta, status, lock, queue, request, requests, ticks, faults,
                   again, handed, dropped, underWay, gaveUp, overwritten>>

BatchEnd(w) ==
    /\ worker[w].pc = "next" /\ worker[w].left = {}
    /\ Done(w)
    /\ UNCHANGED <<row, lock, queue, request, requests, ticks, faults, sends, gaveUp,
                   overwritten>>

-----------------------------------------------------------------------------
(* complete_campaign_task *)
Outcome ==
    IF \E r \in Recipients : recip[r] = "FAILED" THEN "FAILED"
    ELSE IF type = "RECURRING" THEN "SCHEDULED" ELSE "COMPLETED"

\* Fault: the poll looks for somebody who was sent to, not for who was not.
PollForSent(w) == \E t \in DOMAIN queue :
    /\ t.kind = "poll" /\ worker[w].pc = "idle"
    /\ IF status = "DISPATCHING" /\ \A r \in Recipients : recip[r] = "PENDING"
          THEN Retry(BagRemove(queue, t), t, {}, MaxPolls) /\ UNCHANGED worker
          ELSE /\ Takes(w, t)
               /\ worker' = [worker EXCEPT ![w] = [Holding(t, "finish") EXCEPT !.saw = Outcome]]
               /\ UNCHANGED gaveUp
    /\ UNCHANGED <<row, lock, request, requests, ticks, faults, sends, overwritten>>

\* The status and the recipients' statuses are read, and the outcome chosen.
Poll(w) == \E t \in DOMAIN queue :
    /\ t.kind = "poll" /\ worker[w].pc = "idle"
    /\ IF status = "DISPATCHING" /\ Pending # {}
          THEN Retry(BagRemove(queue, t), t, {}, MaxPolls) /\ UNCHANGED worker
          ELSE /\ Takes(w, t)
               /\ worker' = IF status # "DISPATCHING" THEN worker ELSE
                    [worker EXCEPT ![w] = [Holding(t, "finish") EXCEPT !.saw = Outcome]]
               /\ UNCHANGED gaveUp
    /\ UNCHANGED <<row, lock, request, requests, ticks, faults, sends, overwritten>>

Finish(w) ==
    /\ worker[w].pc = "finish"
    /\ SetStatus(worker[w].saw, "DISPATCHING")
    /\ Done(w)
    /\ UNCHANGED <<type, onMeta, recip, lock, queue, request, requests, ticks, faults,
                   sends, gaveUp>>

-----------------------------------------------------------------------------
(* scheduler_tick_task: find_due_for_scheduler_sync, a commit, a dispatch *)
Tick(w) ==
    /\ worker[w].pc = "idle"
    /\ ticks < MaxTicks /\ ticks' = ticks + 1
    /\ status = "SCHEDULED" /\ type # "IMMEDIATE"
    /\ worker' = [worker EXCEPT ![w] = [Idle EXCEPT !.pc = "queue", !.saw = status]]
    /\ UNCHANGED <<row, lock, queue, request, requests, faults, sends, gaveUp, overwritten>>

TickQueue(w) ==
    /\ worker[w].pc = "queue"
    /\ SetStatus("QUEUED", worker[w].saw)
    /\ Goto(w, "publish")
    /\ UNCHANGED <<type, onMeta, recip, lock, queue, request, requests, ticks, faults,
                   sends, gaveUp>>

TickPublish(w) ==
    /\ worker[w].pc = "publish"
    /\ Publish(DispatchTask)
    /\ Done(w)
    /\ UNCHANGED <<row, lock, request, requests, ticks, faults, sends, gaveUp, overwritten>>

-----------------------------------------------------------------------------
(* Faults *)
Dispatching(w) == worker[w].pc \in {"load", "mark", "page"}

Fault == faults + again < MaxFaults /\ faults' = faults + 1

\* A task that is deferred for hours waits past the broker's visibility timeout
\* and is delivered again, here once.
DeferredTwice(w) == \E t \in DOMAIN queue : LET retried == Task(t.kind, t.ids, t.tries + 1) IN
    /\ t.kind \in {"dispatch", "batch"} /\ worker[w].pc = "idle"
    /\ t.tries < MaxTries(t.kind)
    /\ queue' = BagAdd(BagAdd(BagRemove(queue, t), retried), retried)
    /\ handed' = GivenOut(t.ids)
    /\ IF t.kind = "dispatch" THEN Fault /\ UNCHANGED again
       ELSE faults + again < MaxFaults /\ again' = again + 1 /\ UNCHANGED faults
    /\ UNCHANGED <<row, lock, worker, request, requests, ticks, msgs, dropped, late, underWay,
                   gaveUp, overwritten>>

\* The process dies; the broker delivers its task again.  (Beat sends ticks
\* anyway, and a tick that dies is one that fails.)
WorkerDies(w) ==
    /\ worker[w].pc # "idle" /\ worker[w].task # TickTask
    /\ Fault
    /\ Publish(worker[w].task)
    /\ Done(w)
    /\ UNCHANGED <<row, lock, request, requests, ticks, sends, gaveUp, overwritten>>

\* Redis or the database raises in a task that does not catch it.
TaskFails(w) ==
    /\ worker[w].pc \notin {"idle", "send"}
    /\ Fault
    /\ IF Dispatching(w) THEN Unlock ELSE UNCHANGED lock
    /\ Done(w)
    /\ UNCHANGED <<row, queue, request, requests, ticks, sends, gaveUp, overwritten>>

\* An exception while a recipient is sent to, before or after the commit.
SendFails(w) ==
    /\ worker[w].pc = "send"
    /\ Fault
    /\ LET r == Min(worker[w].left) IN
          /\ recip' = [recip EXCEPT ![r] = "FAILED"]
          /\ \E committed \in {0, 1} :
                /\ msgs' = [msgs EXCEPT ![r] = @ + committed]
                /\ late' = IF r \in dropped THEN late + committed ELSE late
          /\ worker' = [worker EXCEPT ![w].pc = "next", ![w].left = @ \ {r}]
    /\ UNCHANGED <<type, onMeta, status, lock, queue, request, requests, ticks,
                   again, handed, dropped, underWay, gaveUp, overwritten>>

\* The delivery of a message fails: update_delivery_status_sync.
DeliveryFails == \E r \in Recipients :
    /\ recip[r] = "SENT"
    /\ Fault
    /\ recip' = [recip EXCEPT ![r] = "FAILED"]
    /\ UNCHANGED <<type, onMeta, status, lock, queue, worker, request, requests, ticks,
                   sends, gaveUp, overwritten>>

\* The API process dies between the commit and the dispatch.
RequestDies(u) ==
    /\ request[u].pc = "publish"
    /\ Fault
    /\ request' = [request EXCEPT ![u] = NoRequest]
    /\ UNCHANGED <<row, lock, queue, worker, requests, ticks, sends, gaveUp, overwritten>>

\* The key lives 300 seconds: it outlives a crash, and a fan-out may outlive it.
KeyExpires ==
    /\ lock
    /\ IF \E w \in Workers : Dispatching(w) THEN Fault ELSE UNCHANGED faults
    /\ Unlock
    /\ UNCHANGED <<row, queue, worker, request, requests, ticks, sends, gaveUp, overwritten>>

-----------------------------------------------------------------------------
Work(w) ==
    \/ DispatchDeferred(w)
    \/ DispatchLock(w) \/ DispatchLoad(w) \/ DispatchMark(w) \/ DispatchPage(w) \/ DispatchEnd(w)
    \/ BatchDeferred(w) \/ BatchStart(w) \/ BatchThrottled(w)
    \/ BatchNext(w) \/ BatchSend(w) \/ BatchEnd(w)
    \/ Poll(w) \/ Finish(w)
    \/ TickQueue(w) \/ TickPublish(w)

Answer(u) == Validate(u) \/ Launch(u) \/ LaunchPublish(u) \/ Cancel(u)

Next ==
    \/ \E u \in Users : Receive(u) \/ Answer(u) \/ RequestDies(u)
    \/ \E w \in Workers : Work(w) \/ Tick(w) \/ WorkerDies(w)
                          \/ DeferredTwice(w) \/ TaskFails(w) \/ SendFails(w)
    \/ DeliveryFails \/ KeyExpires

Spec == Init /\ [][Next]_vars

\* As long as there is work, some process of the worker goes on with it.
FairSpec == Spec /\ WF_vars(\E w \in Workers : Work(w))

-----------------------------------------------------------------------------
(* Properties *)

\* Batches are delivered again after a crash, retried with what is left, given out
\* twice, and delivered twice when they were deferred for hours: a recipient gets
\* one message of a batch, and of several batches, or of a batch that exists twice,
\* no more than there are processes that looked at it at the same time.
FewMessages ==
    \A r \in Recipients : msgs[r] <= IF handed[r] = 2 THEN Cardinality(Workers) ELSE handed[r]

\* What is sent to recipients that a cancellation has failed was under way at
\* the time: at most one message of each process that had looked before.
CancelStops == late <= underWay

\* A campaign is called completed only when nobody is left to be sent to.
CompletedMeansDone == status = "COMPLETED" => Pending = {}

Unattended ==
    /\ queue = <<>>
    /\ \A w \in Workers : worker[w].pc = "idle"
    /\ \A u \in Users : request[u].pc # "publish"

\* A campaign that is under way has a task that will take it further, unless
\* a task ran out of retries (a dispatch may be deferred no more often than its
\* max_retries), a status was overwritten, or a fault came in between: a task was
\* lost, or a deferred dispatch was delivered twice and the second found the key of
\* the first, which had been started again meanwhile.
Attended ==
    status \in {"QUEUED", "DISPATCHING"} /\ Unattended => faults > 0 \/ gaveUp \/ overwritten

\* With workers that go on, a dispatched campaign comes to its end or is armed
\* again, with the same three exceptions.
Finishes ==
    status = "DISPATCHING" ~> status # "DISPATCHING" \/ faults > 0 \/ gaveUp \/ overwritten

\* A recipient gets no more messages than batches and processes explain, a
\* cancellation lets through what was under way, and what is called complete is.
\* A campaign that is under way is never left alone without a reason.
SendingIsBounded == TypeOK /\ FewMessages /\ CancelStops /\ CompletedMeansDone /\ Attended
=============================================================================
