---------------------------- MODULE CampaignProofs ----------------------------
(***************************************************************************)
(* Campaign, for any audience, any number of workers and any bounds.  Two  *)
(* things are at most one at a time: a recipient is in one batch as long   *)
(* as it was given out once, and a campaign that nothing has gone wrong    *)
(* with is taken further by one task.  The first bounds the messages, the  *)
(* second is why the campaign is never left alone.                         *)
(***************************************************************************)
EXTENDS Campaign, SetLemmas

-----------------------------------------------------------------------------
(* The inductive invariant *)

\* What a process has at each of its steps.
AtStep(p) ==
    /\ p.task.tries <= MaxTries(p.task.kind)
    /\ p.pc \in {"idle", "queue", "publish"} => p.task = TickTask
    /\ p.pc \in {"load", "mark", "page"} => p.task.kind = "dispatch" /\ p.task.ids = {}
    /\ p.pc \in {"next", "send"} => p.task.kind = "batch"
    /\ p.pc = "finish" => p.task.kind = "poll" /\ p.task.ids = {}
    /\ p.pc = "send" => p.left # {}
    /\ p.pc = "finish" => p.saw \in {"FAILED", "SCHEDULED", "COMPLETED"}
    /\ p.pc = "queue" => p.saw = "SCHEDULED"

StepsAreSound ==
    /\ \A w \in Workers : AtStep(worker[w])
    /\ \A t \in DOMAIN queue : t.kind \in {"dispatch", "poll"} => t.ids = {}
    /\ \A u \in Users : /\ request[u].pc = "write" => request[u].saw \in Before[request[u].op]
                        /\ request[u].pc = "publish" => request[u].op = "launch"

\* Nothing was sent to those who wait, and no cancellation has failed them.
Waiting == {r \in Recipients : recip[r] \in {"NONE", "PENDING"}}
WaitingAreNew == \A r \in Waiting : msgs[r] = 0 /\ r \notin dropped

\* The processes that are about to send to one of R.
SendingTo(R) == {w \in Workers : worker[w].pc = "send" /\ Min(worker[w].left) \in R}

FewAtOnce == \A r \in Recipients :
    msgs[r] + Cardinality(SendingTo({r})) <= Cardinality(Workers)

LateWereUnderWay == late + Cardinality(SendingTo(dropped)) <= underWay

\* One of the tasks K of the bag, the processes W and the requests U at most.
Lone(bag, K, W, U) ==
    /\ \A t \in K : bag[t] = 1 /\ (\A u \in K : u = t) /\ W = {} /\ U = {}
    /\ \A w \in W : (\A v \in W : v = w) /\ U = {}
    /\ \A u \in U : \A v \in U : v = u

\* The batches of a recipient, and the processes that have one.
BatchesOf(r) == {t \in DOMAIN queue : r \in t.ids}
HoldersOf(r) == {w \in Workers : r \in worker[w].task.ids}

GivenOutOnce == \A r \in Recipients :
    /\ handed[r] = 0 => msgs[r] = 0 /\ BatchesOf(r) = {} /\ HoldersOf(r) = {}
    /\ handed[r] = 1 => /\ Lone(queue, BatchesOf(r), HoldersOf(r), {})
                        /\ msgs[r] <= 1
                        /\ msgs[r] = 1 => SendingTo({r}) = {}

\* Recipients have their rows from the validation on.
AllInserted == \A r \in Recipients : recip[r] # "NONE"
EndsWith(outcome) ==
    \/ status = outcome
    \/ \E w \in Workers : worker[w].pc = "finish" /\ worker[w].saw = outcome

InsertedThenDone ==
    /\ status \notin {"DRAFT", "CANCELLED"} => AllInserted
    /\ \A u \in Users : request[u].pc # "idle" /\ request[u].op = "launch" => AllInserted
    /\ \A w \in Workers : worker[w].pc \in {"mark", "page", "queue", "publish", "finish"} => AllInserted
    /\ EndsWith("COMPLETED") => Waiting = {}

\* Who takes the campaign further: a task, a process or a request.
Clean == faults = 0 /\ ~gaveUp /\ ~overwritten
Steering(kinds) == {t \in DOMAIN queue : t.kind \in kinds}
At(pcs) == {w \in Workers : worker[w].pc \in pcs}
Publishing == {u \in Users : request[u].pc = "publish"}

ToDispatch == Steering({"dispatch"}) # {} \/ At({"publish", "load", "mark"}) # {} \/ Publishing # {}
ToFinish == Steering({"poll"}) # {} \/ At({"page", "finish"}) # {}

\* The key of the dispatch has its holder.
LockHeld == lock => At({"load", "mark", "page"}) # {}

OnCourse ==
    /\ status \in {"DRAFT", "SCHEDULED"} => ~ToDispatch /\ ~ToFinish
    /\ status = "QUEUED" => ToDispatch /\ ~ToFinish
    /\ status = "DISPATCHING" => ToFinish /\ ~ToDispatch
    /\ status \in {"QUEUED", "DISPATCHING"} =>
           Lone(queue, Steering({"dispatch", "poll"}),
                At({"publish", "load", "mark", "page", "finish"}), Publishing)

Attention == Clean => LockHeld /\ OnCourse

IInv == /\ TypeOK /\ StepsAreSound
        /\ WaitingAreNew /\ FewAtOnce /\ LateWereUnderWay /\ GivenOutOnce
        /\ InsertedThenDone /\ Attention

-----------------------------------------------------------------------------
(* Bags *)

\* The tasks in the bag that are of set M.
Among(B, M) == {t \in DOMAIN B : t \in M}

LEMMA Added ==
    ASSUME NEW B, B \in [DOMAIN B -> Nat \ {0}], NEW x
    PROVE  /\ DOMAIN BagAdd(B, x) = DOMAIN B \union {x}
           /\ BagAdd(B, x) \in [DOMAIN BagAdd(B, x) -> Nat \ {0}]
           /\ \A e \in DOMAIN B \ {x} : BagAdd(B, x)[e] = B[e]
           /\ x \notin DOMAIN B => BagAdd(B, x)[x] = 1
BY DEF BagAdd

LEMMA Removed ==
    ASSUME NEW B, B \in [DOMAIN B -> Nat \ {0}], NEW x \in DOMAIN B
    PROVE  /\ DOMAIN BagRemove(B, x) = IF B[x] = 1 THEN DOMAIN B \ {x} ELSE DOMAIN B
           /\ BagRemove(B, x) \in [DOMAIN BagRemove(B, x) -> Nat \ {0}]
           /\ \A e \in DOMAIN B \ {x} : BagRemove(B, x)[e] = B[e]
BY DEF BagRemove

\* A lone task that is taken leaves the place to its taker.
LEMMA LoneTaken ==
    ASSUME NEW B, B \in [DOMAIN B -> Nat \ {0}], NEW x \in DOMAIN B, NEW C, C = BagRemove(B, x),
           NEW M, NEW W, NEW U, Lone(B, Among(B, M), W, U)
    PROVE  /\ x \notin M => Lone(C, Among(C, M), W, U)
           /\ x \in M => Among(C, M) = {} /\ W = {} /\ U = {}
<1> DEFINE K == Among(B, M)
           L == Among(C, M)
<1>1. /\ DOMAIN C \subseteq DOMAIN B
      /\ B[x] = 1 => DOMAIN C = DOMAIN B \ {x}
      /\ \A e \in DOMAIN B \ {x} : e \in DOMAIN C /\ C[e] = B[e]
  BY Removed
<1>2. CASE x \notin M
  <2>1. L = K /\ \A t \in L : C[t] = B[t]
    BY <1>1, <1>2 DEF Among
  <2> QED
    BY <1>2, <2>1 DEF Lone
<1>3. CASE x \in M
  <2>1. x \in K
    BY <1>3 DEF Among
  <2>2. B[x] = 1 /\ K = {x} /\ W = {} /\ U = {}
    BY <2>1 DEF Lone
  <2>3. L = {}
    BY <1>1, <2>2 DEF Among
  <2> QED
    BY <1>3, <2>2, <2>3
<1> QED
  BY <1>2, <1>3

\* A lone taker that gives a task back leaves the place to the task.
LEMMA LoneGiven ==
    ASSUME NEW B, B \in [DOMAIN B -> Nat \ {0}], NEW x, NEW C, C = BagAdd(B, x),
           NEW M, NEW W, NEW U, Lone(B, Among(B, M), W, U)
    PROVE  /\ x \notin M => Lone(C, Among(C, M), W, U)
           /\ W # {} \/ U # {} \/ Among(B, M) = {} =>
                  Lone(C, Among(C, M), {}, {})
<1> DEFINE K == Among(B, M)
           L == Among(C, M)
<1>1. /\ DOMAIN C = DOMAIN B \union {x}
      /\ \A e \in DOMAIN B \ {x} : C[e] = B[e]
      /\ x \notin DOMAIN B => C[x] = 1
  BY Added
<1>2. CASE x \notin M
  <2>1. L = K /\ \A t \in L : C[t] = B[t]
    BY <1>1, <1>2 DEF Among
  <2> QED
    BY <1>2, <2>1 DEF Lone
<1>3. CASE x \in M
  <2>1. SUFFICES ASSUME W # {} \/ U # {} \/ K = {}
                 PROVE  Lone(C, L, {}, {})
    BY <1>3
  <2>2. K = {}
    BY <2>1 DEF Lone
  <2>3. L = {x} /\ C[x] = 1
    BY <1>1, <1>3, <2>2 DEF Among
  <2> QED
    BY <2>3 DEF Lone
<1> QED
  BY <1>2, <1>3

-----------------------------------------------------------------------------
(* Types *)

\* A dispatch or a batch is put off.
Deferred(w) == DispatchDeferred(w) \/ BatchDeferred(w)

TaskRow == [kind: {"dispatch", "batch", "poll"}, ids: SUBSET Recipients, tries: Nat]
Fit(t) == t \in TaskRow /\ t.tries <= MaxTries(t.kind)
QueueOK(q) == q \in [DOMAIN q -> Nat \ {0}] /\ \A t \in DOMAIN q : Fit(t)

Process == [pc: Steps, task: [kind: Kinds, ids: SUBSET Recipients, tries: Nat],
            left: SUBSET Recipients, saw: Statuses, at: 0..(Cardinality(Recipients) + Batch)]
Req == [pc: {"idle", "write", "publish"}, op: DOMAIN Before, saw: Statuses]

LEMMA Bounds ==
    /\ Recipients \subseteq Nat /\ IsFiniteSet(Recipients) /\ Cardinality(Recipients) \in Nat
    /\ IsFiniteSet(Workers) /\ Cardinality(Workers) \in Nat
    /\ Batch \in Nat /\ Batch > 0
    /\ MaxRequests \in Nat /\ MaxTicks \in Nat /\ MaxFaults \in Nat
    /\ MaxDispatchTries \in Nat /\ MaxBatchTries \in Nat /\ MaxPolls \in Nat
    /\ \A kind : MaxTries(kind) \in Nat
<1>1. {MaxRequests, MaxTicks, MaxDispatchTries, MaxBatchTries, MaxPolls, MaxFaults} \subseteq Nat
  BY CampaignAssumption
<1>2. \A kind : MaxTries(kind) \in {MaxDispatchTries, MaxBatchTries, MaxPolls}
  BY DEF MaxTries
<1> QED
  BY <1>1, <1>2, CampaignAssumption, FS_CardinalityType

LEMMA Typed ==
    ASSUME TypeOK
    PROVE  /\ QueueOK(queue)
           /\ worker \in [Workers -> Process] /\ request \in [Users -> Req]
           /\ \A w \in Workers : worker[w].left \subseteq worker[w].task.ids
           /\ msgs \in [Recipients -> Nat] /\ handed \in [Recipients -> 0..2]
           /\ recip \in [Recipients -> {"NONE", "PENDING", "SENT", "FAILED"}]
           /\ status \in Statuses /\ dropped \subseteq Recipients
           /\ again \in Nat /\ late \in Nat /\ underWay \in Nat
           /\ requests \in 0..MaxRequests /\ ticks \in 0..MaxTicks /\ faults \in 0..MaxFaults
           /\ gaveUp \in BOOLEAN /\ overwritten \in BOOLEAN /\ lock \in BOOLEAN
BY DEF TypeOK, QueueOK, Fit, TaskRow, Process, Req

LEMMA IdleTyped ==
    /\ Idle \in Process /\ Idle.left \subseteq Idle.task.ids
    /\ NoRequest \in Req /\ Fit(DispatchTask)
BY Bounds DEF Idle, TickTask, DispatchTask, Task, Process, NoRequest, Req, Fit, TaskRow, Steps,
              Kinds, Statuses, Before

\* A fit task may be published, and any task taken.
LEMMA QueueChanges ==
    ASSUME NEW q, QueueOK(q)
    PROVE  /\ \A t : Fit(t) => QueueOK(BagAdd(q, t))
           /\ \A t \in DOMAIN q : QueueOK(BagRemove(q, t))
<1>1. ASSUME NEW t, Fit(t) PROVE QueueOK(BagAdd(q, t))
  <2> DEFINE C == BagAdd(q, t)
  <2>1. DOMAIN C = DOMAIN q \union {t} /\ C \in [DOMAIN C -> Nat \ {0}]
    BY Added DEF QueueOK
  <2> HIDE DEF C
  <2> QED
    BY <1>1, <2>1 DEF QueueOK, C
<1>2. ASSUME NEW t \in DOMAIN q PROVE QueueOK(BagRemove(q, t))
  <2> DEFINE C == BagRemove(q, t)
  <2>1. DOMAIN C \subseteq DOMAIN q /\ C \in [DOMAIN C -> Nat \ {0}]
    BY Removed DEF QueueOK
  <2> HIDE DEF C
  <2> QED
    BY <2>1 DEF QueueOK, C
<1> QED
  BY <1>1, <1>2

\* Taking, giving and retrying a task.
LEMMA QueueDomains ==
    ASSUME NEW q, QueueOK(q)
    PROVE  /\ \A t : DOMAIN BagAdd(q, t) = DOMAIN q \union {t}
           /\ \A t \in DOMAIN q : DOMAIN BagRemove(q, t) \subseteq DOMAIN q
           /\ \A t, ids, max : Retry(q, t, ids, max) =>
                  DOMAIN queue' \subseteq DOMAIN q \union {Task(t.kind, ids, t.tries + 1)}
<1>1. \A t : DOMAIN BagAdd(q, t) = DOMAIN q \union {t}
  BY Added DEF QueueOK
<1>2. \A t \in DOMAIN q : DOMAIN BagRemove(q, t) \subseteq DOMAIN q
  BY Removed DEF QueueOK
<1>3. ASSUME NEW t, NEW ids, NEW max, Retry(q, t, ids, max)
      PROVE  DOMAIN queue' \subseteq DOMAIN q \union {Task(t.kind, ids, t.tries + 1)}
  <2>1. queue' = q \/ queue' = BagAdd(q, Task(t.kind, ids, t.tries + 1))
    BY <1>3 DEF Retry
  <2> QED
    BY <1>1, <2>1
<1> QED
  BY <1>1, <1>2, <1>3

\* What is retried is a task with one more try, within the limit.
LEMMA RetryFits ==
    ASSUME NEW t, Fit(t), t.kind \in {"dispatch", "batch", "poll"}, NEW ids \in SUBSET Recipients,
           NEW max, max = MaxTries(t.kind), t.tries < max
    PROVE  Fit(Task(t.kind, ids, t.tries + 1))
BY Bounds DEF Fit, TaskRow, Task

LEMMA RetryTyped ==
    ASSUME TypeOK, NEW rest, QueueOK(rest), NEW t, Fit(t), t.kind \in {"dispatch", "batch", "poll"},
           NEW ids \in SUBSET Recipients,
           NEW max, max = MaxTries(t.kind),
           Retry(rest, t, ids, max)
    PROVE  QueueOK(queue') /\ gaveUp' \in BOOLEAN
<1>1. CASE t.tries < max
  <2>1. Fit(Task(t.kind, ids, t.tries + 1))
    BY <1>1, RetryFits
  <2>2. queue' = BagAdd(rest, Task(t.kind, ids, t.tries + 1)) /\ gaveUp' = gaveUp
    BY <1>1 DEF Retry
  <2> QED
    BY <2>1, <2>2, QueueChanges DEF TypeOK
<1>2. CASE ~(t.tries < max)
  BY <1>2 DEF Retry
<1> QED
  BY <1>1, <1>2

LEMMA TypedAgain ==
    ASSUME type' \in Types, onMeta' \in BOOLEAN, status' \in Statuses,
           recip' \in [Recipients -> {"NONE", "PENDING", "SENT", "FAILED"}],
           lock' \in BOOLEAN, QueueOK(queue'),
           worker' \in [Workers -> Process], request' \in [Users -> Req],
           \A w \in Workers : worker'[w].left \subseteq worker'[w].task.ids,
           again' \in Nat, msgs' \in [Recipients -> Nat], handed' \in [Recipients -> 0..2],
           dropped' \subseteq Recipients, late' \in Nat, underWay' \in Nat,
           gaveUp' \in BOOLEAN, overwritten' \in BOOLEAN,
           requests' \in 0..MaxRequests, ticks' \in 0..MaxTicks, faults' \in 0..MaxFaults
    PROVE  TypeOK'
BY DEF TypeOK, QueueOK, Fit, TaskRow, Process, Req

\* A status is written over another.
LEMMA StatusTyped ==
    ASSUME TypeOK, NEW new \in Statuses, NEW saw, SetStatus(new, saw)
    PROVE  status' \in Statuses /\ overwritten' \in BOOLEAN
<1>1. overwritten' = (overwritten \/ status # saw)
  BY DEF SetStatus
<1>2. overwritten' \in BOOLEAN
  BY <1>1, Zenon
<1> QED
  BY <1>2 DEF SetStatus

LEMMA InitTyped == Init => TypeOK
<1> SUFFICES ASSUME Init PROVE TypeOK
  OBVIOUS
<1>1. QueueOK(queue)
  BY DEF Init, QueueOK
<1>2. worker \in [Workers -> Process] /\ request \in [Users -> Req]
  BY IdleTyped DEF Init
<1>3. \A w \in Workers : worker[w].left \subseteq worker[w].task.ids
  BY IdleTyped DEF Init
<1>4. /\ type \in Types /\ onMeta \in BOOLEAN /\ status \in Statuses /\ lock \in BOOLEAN
      /\ gaveUp \in BOOLEAN /\ overwritten \in BOOLEAN
      /\ recip \in [Recipients -> {"NONE", "PENDING", "SENT", "FAILED"}]
  BY DEF Init, Statuses
<1>5. /\ msgs \in [Recipients -> Nat] /\ handed \in [Recipients -> 0..2]
      /\ dropped \subseteq Recipients /\ again \in Nat /\ late \in Nat /\ underWay \in Nat
      /\ requests \in 0..MaxRequests /\ ticks \in 0..MaxTicks /\ faults \in 0..MaxFaults
  BY Bounds DEF Init
<1> QED
  BY <1>1, <1>2, <1>3, <1>4, <1>5 DEF TypeOK, QueueOK, Fit, TaskRow, Process, Req

LEMMA RequestTypes ==
    ASSUME TypeOK, StepsAreSound, NEW u \in Users, Receive(u) \/ Answer(u) \/ RequestDies(u)
    PROVE  TypeOK'
<1>1. /\ type \in Types /\ onMeta \in BOOLEAN
      /\ {"QUEUED", "CANCELLED", "SCHEDULED", "DRAFT"} \subseteq Statuses
  BY DEF TypeOK, Statuses
<1>2. request' \in [Users -> Req]
  <2>1. CASE Receive(u)
    <3>1. PICK op \in DOMAIN Before :
            request' = [request EXCEPT ![u] = [pc |-> "write", op |-> op, saw |-> status]]
      BY <2>1 DEF Receive
    <3> QED
      BY <3>1, Typed DEF Req
  <2>2. CASE Launch(u)
    BY <2>2, Typed DEF Launch, Req
  <2>3. CASE Validate(u) \/ LaunchPublish(u) \/ Cancel(u) \/ RequestDies(u)
    BY <2>3, Typed, IdleTyped DEF Validate, LaunchPublish, Cancel, RequestDies
  <2> QED
    BY <2>1, <2>2, <2>3 DEF Answer
<1>3. CASE Receive(u)
  <2>1. /\ requests' \in 0..MaxRequests
        /\ UNCHANGED <<row, lock, queue, worker, ticks, faults, sends, gaveUp, overwritten>>
    BY <1>3, Typed, Bounds DEF Receive
  <2> QED
    BY <1>1, <1>2, <2>1, Typed, TypedAgain DEF row, sends
<1>4. CASE Validate(u)
  <2>1. status' \in Statuses /\ overwritten' \in BOOLEAN
    BY <1>1, <1>4, StatusTyped DEF Validate
  <2>2. recip' \in [Recipients -> {"NONE", "PENDING", "SENT", "FAILED"}]
    BY <1>4, Typed DEF Validate
  <2>3. UNCHANGED <<type, onMeta, lock, queue, worker, requests, ticks, faults, sends, gaveUp>>
    BY <1>4 DEF Validate
  <2> QED
    BY <1>1, <1>2, <2>1, <2>2, <2>3, Typed, TypedAgain DEF sends
<1>5. CASE Launch(u)
  <2>1. status' \in Statuses /\ overwritten' \in BOOLEAN
    BY <1>1, <1>5, StatusTyped DEF Launch
  <2>2. UNCHANGED <<type, onMeta, recip, lock, queue, worker, requests, ticks, faults, sends, gaveUp>>
    BY <1>5 DEF Launch
  <2> QED
    BY <1>1, <1>2, <2>1, <2>2, Typed, TypedAgain DEF sends
<1>6. CASE LaunchPublish(u)
  <2>1. QueueOK(queue')
    BY <1>6, Typed, IdleTyped, QueueChanges DEF LaunchPublish, Publish
  <2>2. UNCHANGED <<row, lock, worker, requests, ticks, faults, sends, gaveUp, overwritten>>
    BY <1>6 DEF LaunchPublish
  <2> QED
    BY <1>1, <1>2, <2>1, <2>2, Typed, TypedAgain DEF row, sends
<1>7. CASE Cancel(u)
  <2>1. status' \in Statuses /\ overwritten' \in BOOLEAN
    BY <1>1, <1>7, StatusTyped DEF Cancel
  <2>2. recip' \in [Recipients -> {"NONE", "PENDING", "SENT", "FAILED"}]
    BY <1>7, Typed DEF Cancel
  <2>3. dropped' \subseteq Recipients /\ underWay' \in Nat
    <3>1. AboutToSend \in SUBSET Workers
      BY DEF AboutToSend
    <3>2. Cardinality(AboutToSend) \in Nat
      BY <3>1, Bounds, CountType
    <3> QED
      BY <1>7, <3>2, Typed DEF Cancel, Pending
  <2>4. UNCHANGED <<type, onMeta, lock, queue, worker, requests, ticks, faults, again, handed, msgs, late, gaveUp>>
    BY <1>7 DEF Cancel
  <2> QED
    BY <1>1, <1>2, <2>1, <2>2, <2>3, <2>4, Typed, TypedAgain
<1>8. CASE RequestDies(u)
  <2>1. /\ faults' \in 0..MaxFaults
        /\ UNCHANGED <<row, lock, queue, worker, requests, ticks, sends, gaveUp, overwritten>>
    BY <1>8, Typed, Bounds DEF RequestDies, Fault
  <2> QED
    BY <1>1, <1>2, <2>1, Typed, TypedAgain DEF row, sends
<1> QED
  BY <1>3, <1>4, <1>5, <1>6, <1>7, <1>8 DEF Answer

\* A process goes to another step, or becomes idle.
LEMMA ProcessTyped ==
    ASSUME TypeOK, NEW w \in Workers,
           \/ \E pc \in Steps : Goto(w, pc)
           \/ Done(w)
           \/ \E r \in Recipients, pc \in Steps :
                 worker' = [worker EXCEPT ![w].pc = pc, ![w].left = @ \ {r}]
           \/ UNCHANGED worker
    PROVE  /\ worker' \in [Workers -> Process]
           /\ \A v \in Workers : worker'[v].left \subseteq worker'[v].task.ids
<1>1. ASSUME NEW pc \in Steps, Goto(w, pc)
      PROVE  /\ worker' \in [Workers -> Process]
             /\ \A v \in Workers : worker'[v].left \subseteq worker'[v].task.ids
  <2> DEFINE new == [worker[w] EXCEPT !.pc = pc]
  <2>1. worker[w] \in Process /\ worker[w].left \subseteq worker[w].task.ids
    BY Typed
  <2>2. new \in Process /\ new.left = worker[w].left /\ new.task = worker[w].task
    BY <1>1, <2>1 DEF Process
  <2>3. worker' = [worker EXCEPT ![w] = new]
    BY <1>1 DEF Goto
  <2> HIDE DEF new
  <2> QED
    BY <2>1, <2>2, <2>3, Typed
<1>2. CASE Done(w)
  BY <1>2, Typed, IdleTyped DEF Done
<1>3. ASSUME NEW r \in Recipients, NEW pc \in Steps,
             worker' = [worker EXCEPT ![w].pc = pc, ![w].left = @ \ {r}]
      PROVE  /\ worker' \in [Workers -> Process]
             /\ \A v \in Workers : worker'[v].left \subseteq worker'[v].task.ids
  <2>1. worker[w] \in Process /\ worker[w].left \subseteq worker[w].task.ids
    BY Typed
  <2>2. /\ worker'[w] = [worker[w] EXCEPT !.pc = pc, !.left = @ \ {r}]
        /\ worker' = [worker EXCEPT ![w] = worker'[w]]
    BY <1>3, Typed
  <2>3. worker'[w] \in Process /\ worker'[w].left \subseteq worker'[w].task.ids
    BY <2>1, <2>2 DEF Process
  <2> QED
    BY <2>2, <2>3, Typed
<1> QED
  BY <1>1, <1>2, <1>3, Typed

\* A process takes a fit task.
LEMMA HoldingTyped ==
    ASSUME NEW t, Fit(t), NEW pc \in Steps, NEW saw \in Statuses
    PROVE  /\ Holding(t, pc) \in Process /\ Holding(t, pc).left = t.ids /\ Holding(t, pc).task = t
           /\ Holding(t, pc).pc = pc
           /\ [Holding(t, pc) EXCEPT !.saw = saw] \in Process
BY IdleTyped DEF Holding, Process, Fit, TaskRow, Kinds

\* What is left to send to is a number: the least one comes next.
LEMMA NextRecipient ==
    ASSUME NEW S \in SUBSET Recipients, S # {}
    PROVE  Min(S) \in S /\ Min(S) \in Recipients
<1>1. \E k \in S : \A l \in S : k <= l
  BY Bounds, LeastExists
<1> QED
  BY <1>1 DEF Min

\* The lesser of two numbers.
LEMMA LesserOfTwo ==
    ASSUME NEW a \in Int, NEW b \in Int
    PROVE  Min({a, b}) \in Int /\ Min({a, b}) <= a /\ Min({a, b}) <= b
<1>1. \E k \in {a, b} : \A l \in {a, b} : k <= l
  <2>1. CASE a <= b
    BY <2>1
  <2>2. CASE b <= a
    BY <2>2
  <2> QED
    BY <2>1, <2>2
<1>2. Min({a, b}) \in {a, b} /\ \A l \in {a, b} : Min({a, b}) <= l
  BY <1>1 DEF Min
<1> QED
  BY <1>2

\* Two are as many as are counted.
LEMMA GivenOutTyped ==
    ASSUME TypeOK, NEW ids
    PROVE  /\ GivenOut(ids) \in [Recipients -> 0..2]
           /\ \A r \in Recipients : GivenOut(ids)[r] =
                 IF r \notin ids THEN handed[r] ELSE IF handed[r] = 0 THEN 1 ELSE 2
<1>1. ASSUME NEW r \in Recipients
      PROVE  Min({2, handed[r] + 1}) = IF handed[r] = 0 THEN 1 ELSE 2
  <2>1. handed[r] \in {0, 1, 2}
    BY Typed
  <2>2. handed[r] + 1 \in Int
    BY <2>1
  <2>3. Min({2, handed[r] + 1}) \in {2, handed[r] + 1}
        /\ \A k \in {2, handed[r] + 1} : Min({2, handed[r] + 1}) <= k
    <3>1. \E k \in {2, handed[r] + 1} : \A l \in {2, handed[r] + 1} : k <= l
      BY <2>1
    <3> QED
      BY <3>1 DEF Min
  <2> QED
    BY <2>1, <2>3
<1>2. GivenOut(ids) = [r \in Recipients |->
         IF r \in ids THEN IF handed[r] = 0 THEN 1 ELSE 2 ELSE handed[r]]
  BY <1>1 DEF GivenOut
<1>3. \A r \in Recipients : handed[r] \in 0..2
  BY Typed
<1> QED
  BY <1>2, <1>3

LEMMA DispatchTypes ==
    ASSUME TypeOK, NEW w \in Workers,
           \/ DispatchLock(w) \/ DispatchLoad(w) \/ DispatchMark(w) \/ DispatchPage(w)
           \/ DispatchEnd(w)
    PROVE  TypeOK'
<1>1. type \in Types /\ onMeta \in BOOLEAN /\ "DISPATCHING" \in Statuses /\ {"load", "mark", "page"} \subseteq Steps
  BY DEF TypeOK, Statuses, Steps
<1>2. CASE DispatchLock(w)
  <2>1. PICK t \in DOMAIN queue :
          /\ queue' = BagRemove(queue, t)
          /\ UNCHANGED worker \/ worker' = [worker EXCEPT ![w] = Holding(t, "load")]
    BY <1>2 DEF DispatchLock, Takes
  <2>2. "DRAFT" \in Statuses /\ "load" \in Steps /\ Fit(t) /\ QueueOK(queue')
    BY <2>1, Typed, QueueChanges DEF QueueOK, Statuses, Steps
  <2>3. /\ worker' \in [Workers -> Process]
        /\ \A v \in Workers : worker'[v].left \subseteq worker'[v].task.ids
    <3>1. CASE UNCHANGED worker
      BY <3>1, Typed
    <3>2. CASE worker' = [worker EXCEPT ![w] = Holding(t, "load")]
      <4>1. /\ Holding(t, "load") \in Process
            /\ Holding(t, "load").left \subseteq Holding(t, "load").task.ids
        BY <2>2, HoldingTyped
      <4> QED
        BY <3>2, <4>1, Typed
    <3> QED
      BY <2>1, <3>1, <3>2
  <2>4. /\ lock' = TRUE
        /\ UNCHANGED <<row, request, requests, ticks, faults, sends, gaveUp, overwritten>>
    BY <1>2 DEF DispatchLock
  <2> QED
    BY <1>1, <2>2, <2>3, <2>4, Typed, TypedAgain DEF row, sends
<1>3. CASE DispatchLoad(w)
  <2>1. \/ \E pc \in Steps : Goto(w, pc)
        \/ Done(w)
    BY <1>1, <1>3 DEF DispatchLoad, Goto
  <2>2. /\ worker' \in [Workers -> Process]
        /\ \A v \in Workers : worker'[v].left \subseteq worker'[v].task.ids
    BY <2>1, ProcessTyped
  <2>3. /\ lock' \in {lock, FALSE}
        /\ UNCHANGED <<row, queue, request, requests, ticks, faults, sends, gaveUp, overwritten>>
    BY <1>3 DEF DispatchLoad, Unlock
  <2> QED
    BY <1>1, <2>2, <2>3, Typed, TypedAgain DEF row, sends
<1>4. CASE DispatchMark(w)
  <2>1. status' \in Statuses /\ overwritten' \in BOOLEAN
    BY <1>1, <1>4, StatusTyped DEF DispatchMark
  <2>2. /\ worker' \in [Workers -> Process]
        /\ \A v \in Workers : worker'[v].left \subseteq worker'[v].task.ids
    BY <1>1, <1>4, ProcessTyped DEF DispatchMark
  <2>3. UNCHANGED <<type, onMeta, recip, lock, queue, request, requests, ticks, faults, sends, gaveUp>>
    BY <1>4 DEF DispatchMark
  <2> QED
    BY <1>1, <2>1, <2>2, <2>3, Typed, TypedAgain DEF sends
<1>5. CASE DispatchPage(w)
  <2>1. PICK ids \in Page(worker[w].at) :
          /\ Publish(Task("batch", ids, 0))
          /\ handed' = GivenOut(ids)
          /\ worker' = [worker EXCEPT ![w].at = @ + Batch]
          /\ UNCHANGED <<row, lock, request, requests, ticks, faults, msgs, dropped, late,
                         underWay, gaveUp, overwritten, again>>
    BY <1>5 DEF DispatchPage
  <2>2. /\ Cardinality(Pending) \in Nat /\ Cardinality(Pending) <= Cardinality(Recipients)
        /\ Pending \in SUBSET Recipients
    BY Bounds, CountType, FS_Subset DEF Pending
  <2>3. ids \in SUBSET Recipients /\ worker[w].at + Batch \in 0..(Cardinality(Recipients) + Batch)
    <3>1. worker[w].at \in Nat
      BY Typed, Bounds DEF Process
    <3> DEFINE rest == Cardinality(Pending) - worker[w].at
    <3>2. rest \in Int /\ Batch \in Int
      BY <2>2, <3>1, Bounds
    <3>3. ids \in IF Min({Batch, rest}) <= 0 THEN {}
                  ELSE {S \in SUBSET Pending : Cardinality(S) = Min({Batch, rest})}
      BY <2>1 DEF Page
    <3>4. rest > 0 /\ ids \in SUBSET Pending
      <4> HIDE DEF rest
      <4>1. Min({Batch, rest}) \in Int /\ Min({Batch, rest}) <= rest
        BY <3>2, LesserOfTwo
      <4> QED
        BY <3>2, <3>3, <4>1
    <3> QED
      BY <2>2, <3>1, <3>4, Bounds
  <2>4. QueueOK(queue')
    <3>1. Fit(Task("batch", ids, 0))
      BY <2>3, Bounds DEF Fit, TaskRow, Task
    <3> QED
      BY <2>1, <3>1, Typed, QueueChanges DEF Publish
  <2>5. handed' \in [Recipients -> 0..2]
    BY <2>1, GivenOutTyped
  <2>6. /\ worker' \in [Workers -> Process]
        /\ \A v \in Workers : worker'[v].left \subseteq worker'[v].task.ids
    BY <2>1, <2>3, Typed DEF Process
  <2> QED
    BY <1>1, <2>1, <2>4, <2>5, <2>6, Typed, TypedAgain DEF row
<1>6. CASE DispatchEnd(w)
  <2>1. QueueOK(queue')
    <3>1. Fit(Task("poll", {}, 0))
      BY Bounds DEF Fit, TaskRow, Task
    <3> QED
      BY <1>6, <3>1, Typed, QueueChanges DEF DispatchEnd, Publish
  <2>2. /\ worker' \in [Workers -> Process]
        /\ \A v \in Workers : worker'[v].left \subseteq worker'[v].task.ids
    BY <1>6, ProcessTyped DEF DispatchEnd
  <2>3. /\ lock' = FALSE
        /\ UNCHANGED <<row, request, requests, ticks, faults, sends, gaveUp, overwritten>>
    BY <1>6 DEF DispatchEnd, Unlock
  <2> QED
    BY <1>1, <2>1, <2>2, <2>3, Typed, TypedAgain DEF row, sends
<1> QED
  BY <1>2, <1>3, <1>4, <1>5, <1>6

LEMMA BatchTypes ==
    ASSUME TypeOK, StepsAreSound, NEW w \in Workers,
           \/ Deferred(w) \/ BatchStart(w) \/ BatchThrottled(w) \/ BatchNext(w)
           \/ BatchSend(w) \/ BatchEnd(w) \/ SendFails(w)
    PROVE  TypeOK'
<1>1. type \in Types /\ onMeta \in BOOLEAN /\ {"next", "send"} \subseteq Steps /\ "DRAFT" \in Statuses
  BY DEF TypeOK, Statuses, Steps
<1>2. CASE Deferred(w)
  <2>1. PICK t \in DOMAIN queue : t.kind \in {"dispatch", "batch"} /\ Retry(BagRemove(queue, t), t, t.ids, MaxTries(t.kind))
    BY <1>2 DEF Deferred, DispatchDeferred, BatchDeferred, MaxTries
  <2>2. Fit(t) /\ t.ids \in SUBSET Recipients /\ QueueOK(BagRemove(queue, t))
    BY Typed, QueueChanges DEF QueueOK, Fit, TaskRow
  <2>3. QueueOK(queue') /\ gaveUp' \in BOOLEAN
    BY <2>1, <2>2, RetryTyped
  <2>4. UNCHANGED <<row, lock, worker, request, requests, ticks, faults, sends, overwritten>>
    BY <1>2 DEF Deferred, DispatchDeferred, BatchDeferred, MaxTries
  <2> QED
    BY <1>1, <2>3, <2>4, Typed, TypedAgain DEF row, sends
<1>3. CASE BatchStart(w)
  <2>1. PICK t \in DOMAIN queue :
          /\ queue' = BagRemove(queue, t)
          /\ UNCHANGED worker \/ worker' = [worker EXCEPT ![w] = Holding(t, "next")]
          /\ recip' \in [Recipients -> {"NONE", "PENDING", "SENT", "FAILED"}]
    BY <1>3, Typed DEF BatchStart, Takes
  <2>2. Fit(t) /\ QueueOK(queue')
    BY <2>1, Typed, QueueChanges DEF QueueOK
  <2>3. /\ worker' \in [Workers -> Process]
        /\ \A v \in Workers : worker'[v].left \subseteq worker'[v].task.ids
    <3> DEFINE new == Holding(t, "next")
    <3>1. new \in Process /\ new.left \subseteq new.task.ids
      <4>1. "next" \in Steps /\ "DRAFT" \in Statuses
        BY <1>1
      <4>2. new \in Process /\ new.left = t.ids /\ new.task = t
        BY <2>2, <4>1, HoldingTyped
      <4> QED
        BY <4>2
    <3>2. UNCHANGED worker \/ worker' = [worker EXCEPT ![w] = new]
      BY <2>1
    <3> HIDE DEF new
    <3> QED
      BY <3>1, <3>2, Typed
  <2>4. UNCHANGED <<type, onMeta, status, lock, request, requests, ticks, faults, sends, gaveUp, overwritten>>
    BY <1>3 DEF BatchStart
  <2> QED
    BY <1>1, <2>1, <2>2, <2>3, <2>4, Typed, TypedAgain DEF sends
<1>4. CASE BatchThrottled(w)
  <2>1. worker[w].task.kind = "batch" /\ worker[w].pc = "next"
    BY <1>4 DEF BatchThrottled, StepsAreSound, AtStep
  <2>2. worker[w] \in Process /\ worker[w].left \in SUBSET Recipients
    BY Typed DEF Process
  <2>3. CASE worker[w].task.tries < MaxBatchTries
    <3>1. Fit(Task("batch", worker[w].left, worker[w].task.tries + 1))
      BY <2>2, <2>3, Bounds DEF Fit, TaskRow, Task, Process, MaxTries
    <3>2. /\ queue' = BagAdd(queue, Task("batch", worker[w].left, worker[w].task.tries + 1))
          /\ UNCHANGED gaveUp
      BY <1>4, <2>1, <2>3 DEF BatchThrottled, Retry
    <3>3. QueueOK(queue') /\ gaveUp' \in BOOLEAN
      BY <3>1, <3>2, Typed, QueueChanges
    <3>4. /\ worker' \in [Workers -> Process]
          /\ \A v \in Workers : worker'[v].left \subseteq worker'[v].task.ids
      BY <1>4, ProcessTyped DEF BatchThrottled
    <3>5. UNCHANGED <<row, lock, request, requests, ticks, faults, sends, overwritten>>
      BY <1>4 DEF BatchThrottled
    <3> QED
      BY <1>1, <3>3, <3>4, <3>5, Typed, TypedAgain DEF row, sends
  <2>4. CASE ~(worker[w].task.tries < MaxBatchTries)
    <3>1. queue' = queue /\ gaveUp' = TRUE
      BY <1>4, <2>4 DEF BatchThrottled, Retry
    <3>2. /\ worker' \in [Workers -> Process]
          /\ \A v \in Workers : worker'[v].left \subseteq worker'[v].task.ids
      BY <1>4, ProcessTyped DEF BatchThrottled
    <3>3. UNCHANGED <<row, lock, request, requests, ticks, faults, sends, overwritten>>
      BY <1>4 DEF BatchThrottled
    <3> QED
      BY <1>1, <3>1, <3>2, <3>3, Typed, TypedAgain DEF row, sends
  <2> QED
    BY <2>3, <2>4
<1>5. CASE BatchNext(w) \/ BatchEnd(w)
  <2>1. worker[w].left # {} => Min(worker[w].left) \in Recipients
    BY Typed, NextRecipient DEF Process
  <2>2. \/ \E pc \in Steps : Goto(w, pc)
        \/ Done(w)
        \/ /\ worker[w].pc = "next"
           /\ worker' = [worker EXCEPT ![w].left = @ \ {Min(worker[w].left)}]
           /\ worker[w].left # {}
    BY <1>1, <1>5 DEF BatchNext, BatchEnd
  <2>3. ASSUME worker[w].pc = "next", worker[w].left # {},
               worker' = [worker EXCEPT ![w].left = @ \ {Min(worker[w].left)}]
        PROVE  /\ worker' \in [Workers -> Process]
               /\ \A v \in Workers : worker'[v].left \subseteq worker'[v].task.ids
    <3>1. worker[w] \in Process /\ worker[w].left \subseteq worker[w].task.ids
      BY Typed
    <3>2. /\ worker'[w] = [worker[w] EXCEPT !.left = @ \ {Min(worker[w].left)}]
          /\ worker' = [worker EXCEPT ![w] = worker'[w]]
      BY <2>3, Typed
    <3>3. worker'[w] \in Process /\ worker'[w].left \subseteq worker'[w].task.ids
      BY <3>1, <3>2 DEF Process
    <3> QED
      BY <3>2, <3>3, Typed
  <2>4. /\ worker' \in [Workers -> Process]
        /\ \A v \in Workers : worker'[v].left \subseteq worker'[v].task.ids
    <3>1. CASE \/ \E pc \in Steps : Goto(w, pc)
               \/ Done(w)
      BY <3>1, ProcessTyped
    <3> QED
      BY <2>2, <2>3, <3>1
  <2>5. UNCHANGED <<row, lock, queue, request, requests, ticks, faults, sends, gaveUp, overwritten>>
    BY <1>5 DEF BatchNext, BatchEnd
  <2> QED
    BY <1>1, <2>4, <2>5, Typed, TypedAgain DEF row, sends
<1>6. CASE BatchSend(w) \/ SendFails(w)
  <2>1. worker[w].left # {} /\ Min(worker[w].left) \in Recipients
    BY <1>6, Typed, NextRecipient DEF BatchSend, SendFails, StepsAreSound, AtStep, Process
  <2> DEFINE r == Min(worker[w].left)
  <2>2. /\ worker' \in [Workers -> Process]
        /\ \A v \in Workers : worker'[v].left \subseteq worker'[v].task.ids
    <3>1. worker' = [worker EXCEPT ![w].pc = "next", ![w].left = @ \ {r}]
      BY <1>6 DEF BatchSend, SendFails
    <3> QED
      BY <1>1, <2>1, <3>1, ProcessTyped
  <2>3. recip' \in [Recipients -> {"NONE", "PENDING", "SENT", "FAILED"}]
    BY <1>6, Typed DEF BatchSend, SendFails
  <2>4. \E c \in {0, 1} : /\ msgs' = [msgs EXCEPT ![r] = @ + c]
                          /\ late' = IF r \in dropped THEN late + c ELSE late
    BY <1>6 DEF BatchSend, SendFails
  <2>5. msgs' \in [Recipients -> Nat] /\ late' \in Nat
    <3>1. PICK c \in {0, 1} : /\ msgs' = [msgs EXCEPT ![r] = @ + c]
                              /\ late' = IF r \in dropped THEN late + c ELSE late
      BY <2>4
    <3>2. r \in Recipients /\ c \in Nat
      BY <2>1
    <3> HIDE DEF r
    <3> QED
      BY <3>1, <3>2, Typed
  <2>6. faults' \in 0..MaxFaults
    BY <1>6, Typed, Bounds DEF BatchSend, SendFails, Fault
  <2>7. UNCHANGED <<type, onMeta, status, lock, queue, request, requests, ticks, again, handed, dropped,
                    underWay, gaveUp, overwritten>>
    BY <1>6 DEF BatchSend, SendFails
  <2> QED
    BY <1>1, <2>2, <2>3, <2>5, <2>6, <2>7, Typed, TypedAgain
<1> QED
  BY <1>2, <1>3, <1>4, <1>5, <1>6

LEMMA PollTypes ==
    ASSUME TypeOK, StepsAreSound, NEW w \in Workers,
           Poll(w) \/ Finish(w) \/ Tick(w) \/ TickQueue(w) \/ TickPublish(w)
    PROVE  TypeOK'
<1>1. /\ type \in Types /\ onMeta \in BOOLEAN
      /\ Outcome \in Statuses /\ "QUEUED" \in Statuses
      /\ "publish" \in Steps /\ "finish" \in Steps /\ "queue" \in Steps
  BY DEF TypeOK, Statuses, Steps, Outcome
<1>2. CASE Poll(w)
  <2>1. PICK t \in DOMAIN queue :
          /\ t.kind = "poll"
          /\ \/ Retry(BagRemove(queue, t), t, {}, MaxPolls) /\ UNCHANGED worker
             \/ /\ queue' = BagRemove(queue, t) /\ UNCHANGED gaveUp
                /\ \/ UNCHANGED worker
                   \/ worker' = [worker EXCEPT ![w] = [Holding(t, "finish") EXCEPT !.saw = Outcome]]
    BY <1>2 DEF Poll, Takes
  <2>2. Fit(t) /\ QueueOK(BagRemove(queue, t)) /\ {} \in SUBSET Recipients
    BY Typed, QueueChanges DEF QueueOK
  <2>3. QueueOK(queue') /\ gaveUp' \in BOOLEAN
    <3>1. CASE Retry(BagRemove(queue, t), t, {}, MaxPolls)
      <4>1. MaxPolls = MaxTries(t.kind)
        BY <2>1 DEF MaxTries
      <4> QED
        BY <2>1, <2>2, <3>1, <4>1, RetryTyped
    <3>2. CASE queue' = BagRemove(queue, t) /\ UNCHANGED gaveUp
      BY <2>2, <3>2, Typed
    <3> QED
      BY <2>1, <3>1, <3>2
  <2>4. /\ worker' \in [Workers -> Process]
        /\ \A v \in Workers : worker'[v].left \subseteq worker'[v].task.ids
    <3> DEFINE h == [Holding(t, "finish") EXCEPT !.saw = Outcome]
    <3>1. h \in Process /\ Holding(t, "finish") \in Process
          /\ Holding(t, "finish").left = t.ids /\ Holding(t, "finish").task = t
      BY <1>1, <2>2, HoldingTyped
    <3>2. h.left \subseteq h.task.ids
      BY <3>1 DEF Process
    <3>3. UNCHANGED worker \/ worker' = [worker EXCEPT ![w] = h]
      BY <2>1
    <3> HIDE DEF h
    <3> QED
      BY <3>1, <3>2, <3>3, Typed
  <2>5. UNCHANGED <<row, lock, request, requests, ticks, faults, sends, overwritten>>
    BY <1>2 DEF Poll
  <2> QED
    BY <1>1, <2>3, <2>4, <2>5, Typed, TypedAgain DEF row, sends
<1>3. CASE Finish(w)
  <2>1. worker[w].saw \in Statuses
    BY Typed DEF Process
  <2>2. status' \in Statuses /\ overwritten' \in BOOLEAN
    BY <1>3, <2>1, StatusTyped DEF Finish
  <2>3. /\ worker' \in [Workers -> Process]
        /\ \A v \in Workers : worker'[v].left \subseteq worker'[v].task.ids
    BY <1>3, ProcessTyped DEF Finish
  <2>4. UNCHANGED <<type, onMeta, recip, lock, queue, request, requests, ticks, faults, sends, gaveUp>>
    BY <1>3 DEF Finish
  <2> QED
    BY <1>1, <2>2, <2>3, <2>4, Typed, TypedAgain DEF sends
<1>4. CASE Tick(w)
  <2>1. ticks' \in 0..MaxTicks
    BY <1>4, Typed, Bounds DEF Tick
  <2>2. /\ worker' \in [Workers -> Process]
        /\ \A v \in Workers : worker'[v].left \subseteq worker'[v].task.ids
    <3> DEFINE h == [Idle EXCEPT !.pc = "queue", !.saw = status]
    <3>1. h \in Process /\ h.left \subseteq h.task.ids
      BY <1>1, Typed, IdleTyped DEF Process
    <3>2. worker' = [worker EXCEPT ![w] = h]
      BY <1>4 DEF Tick
    <3> HIDE DEF h
    <3> QED
      BY <3>1, <3>2, Typed
  <2>3. UNCHANGED <<row, lock, queue, request, requests, faults, sends, gaveUp, overwritten>>
    BY <1>4 DEF Tick
  <2> QED
    BY <1>1, <2>1, <2>2, <2>3, Typed, TypedAgain DEF row, sends
<1>5. CASE TickQueue(w)
  <2>1. status' \in Statuses /\ overwritten' \in BOOLEAN
    BY <1>1, <1>5, StatusTyped DEF TickQueue
  <2>2. /\ worker' \in [Workers -> Process]
        /\ \A v \in Workers : worker'[v].left \subseteq worker'[v].task.ids
    BY <1>1, <1>5, ProcessTyped DEF TickQueue
  <2>3. UNCHANGED <<type, onMeta, recip, lock, queue, request, requests, ticks, faults, sends, gaveUp>>
    BY <1>5 DEF TickQueue
  <2> QED
    BY <1>1, <2>1, <2>2, <2>3, Typed, TypedAgain DEF sends
<1>6. CASE TickPublish(w)
  <2>1. QueueOK(queue')
    BY <1>6, Typed, IdleTyped, QueueChanges DEF TickPublish, Publish
  <2>2. /\ worker' \in [Workers -> Process]
        /\ \A v \in Workers : worker'[v].left \subseteq worker'[v].task.ids
    BY <1>6, ProcessTyped DEF TickPublish
  <2>3. UNCHANGED <<row, lock, request, requests, ticks, faults, sends, gaveUp, overwritten>>
    BY <1>6 DEF TickPublish
  <2> QED
    BY <1>1, <2>1, <2>2, <2>3, Typed, TypedAgain DEF row, sends
<1> QED
  BY <1>2, <1>3, <1>4, <1>5, <1>6

LEMMA FaultTypes ==
    ASSUME TypeOK, StepsAreSound,
           \/ \E w \in Workers : WorkerDies(w) \/ TaskFails(w)
           \/ DeliveryFails \/ KeyExpires
    PROVE  TypeOK'
<1>1. type \in Types /\ onMeta \in BOOLEAN
  BY DEF TypeOK
<1>2. faults' \in 0..MaxFaults
  BY Typed, Bounds DEF WorkerDies, TaskFails, DeliveryFails, KeyExpires, Fault
<1>3. ASSUME NEW w \in Workers, WorkerDies(w) PROVE TypeOK'
  <2>1. Fit(worker[w].task)
    <3>1. worker[w] \in Process /\ AtStep(worker[w])
      BY Typed DEF StepsAreSound
    <3>2. worker[w].task.kind \in {"dispatch", "batch", "poll"}
      BY <1>3, <3>1 DEF WorkerDies, AtStep, Process, Steps, DispatchTask, Task
    <3> QED
      BY <3>1, <3>2 DEF Fit, TaskRow, Process, AtStep
  <2>2. QueueOK(queue')
    BY <1>3, <2>1, Typed, QueueChanges DEF WorkerDies, Publish
  <2>3. /\ worker' \in [Workers -> Process]
        /\ \A v \in Workers : worker'[v].left \subseteq worker'[v].task.ids
    BY <1>3, ProcessTyped DEF WorkerDies
  <2>4. UNCHANGED <<row, lock, request, requests, ticks, sends, gaveUp, overwritten>>
    BY <1>3 DEF WorkerDies
  <2> QED
    BY <1>1, <1>2, <2>2, <2>3, <2>4, Typed, TypedAgain DEF row, sends
<1>4. ASSUME NEW w \in Workers, TaskFails(w) PROVE TypeOK'
  <2>1. /\ worker' \in [Workers -> Process]
        /\ \A v \in Workers : worker'[v].left \subseteq worker'[v].task.ids
    BY <1>4, ProcessTyped DEF TaskFails
  <2>2. /\ lock' \in {lock, FALSE}
        /\ UNCHANGED <<row, queue, request, requests, ticks, sends, gaveUp, overwritten>>
    BY <1>4 DEF TaskFails, Unlock
  <2> QED
    BY <1>1, <1>2, <2>1, <2>2, Typed, TypedAgain DEF row, sends
<1>5. CASE DeliveryFails
  <2>1. recip' \in [Recipients -> {"NONE", "PENDING", "SENT", "FAILED"}]
    BY <1>5, Typed DEF DeliveryFails
  <2>2. UNCHANGED <<type, onMeta, status, lock, queue, worker, request, requests, ticks,
                    sends, gaveUp, overwritten>>
    BY <1>5 DEF DeliveryFails
  <2> QED
    BY <1>1, <1>2, <2>1, <2>2, Typed, TypedAgain DEF sends
<1>6. CASE KeyExpires
  <2>1. /\ lock' = FALSE
        /\ UNCHANGED <<row, queue, worker, request, requests, ticks, sends, gaveUp, overwritten>>
    BY <1>6 DEF KeyExpires, Unlock
  <2> QED
    BY <1>1, <1>2, <2>1, Typed, TypedAgain DEF row, sends
<1> QED
  BY <1>3, <1>4, <1>5, <1>6

\* A deferred task is delivered twice: t is put back twice, as y.
Twice(t, y) == /\ t \in DOMAIN queue /\ t.kind \in {"dispatch", "batch"}
               /\ y = Task(t.kind, t.ids, t.tries + 1) /\ t.tries < MaxTries(t.kind)
               /\ queue' = BagAdd(BagAdd(BagRemove(queue, t), y), y)
               /\ handed' = GivenOut(t.ids)
               /\ \/ t.kind = "dispatch" /\ again' = again /\ faults' = faults + 1
                  \/ t.kind = "batch" /\ again' = again + 1 /\ faults' = faults
               /\ faults' \in 0..MaxFaults /\ again' \in Nat
               /\ UNCHANGED <<row, lock, worker, request, requests, ticks, msgs, dropped, late,
                              underWay, gaveUp, overwritten>>

LEMMA DeferredTasks ==
    ASSUME TypeOK, NEW w \in Workers, DeferredTwice(w)
    PROVE  \E t, y : Twice(t, y)
<1>1. PICK t \in DOMAIN queue :
        /\ t.kind \in {"dispatch", "batch"} /\ t.tries < MaxTries(t.kind)
        /\ queue' = BagAdd(BagAdd(BagRemove(queue, t), Task(t.kind, t.ids, t.tries + 1)),
                           Task(t.kind, t.ids, t.tries + 1))
        /\ handed' = GivenOut(t.ids)
        /\ faults + again < MaxFaults
        /\ \/ t.kind = "dispatch" /\ again' = again /\ faults' = faults + 1
           \/ t.kind = "batch" /\ again' = again + 1 /\ faults' = faults
        /\ UNCHANGED <<row, lock, worker, request, requests, ticks, msgs, dropped, late,
                       underWay, gaveUp, overwritten>>
  BY DEF DeferredTwice, Fault
<1>2. faults' \in 0..MaxFaults /\ again' \in Nat
  BY <1>1, Typed, Bounds
<1> QED
  BY <1>1, <1>2 DEF Twice

\* What is put back is fit, and nothing else is new in the queue.
LEMMA TwicePut ==
    ASSUME TypeOK, NEW t, NEW y, Twice(t, y)
    PROVE  /\ Fit(t) /\ Fit(y) /\ y.kind = t.kind /\ y.ids = t.ids
           /\ QueueOK(BagRemove(queue, t)) /\ QueueOK(BagAdd(BagRemove(queue, t), y)) /\ QueueOK(queue')
           /\ DOMAIN queue' \subseteq DOMAIN queue \union {y}
<1> DEFINE D == BagRemove(queue, t)
           E == BagAdd(D, y)
<1>1. QueueOK(queue) /\ Fit(t) /\ t \in DOMAIN queue
  BY Typed DEF Twice, QueueOK
<1>2. Fit(y) /\ y.kind = t.kind /\ y.ids = t.ids
  <2>1. t.ids \in SUBSET Recipients
    BY <1>1 DEF Fit, TaskRow
  <2> QED
    BY <1>1, <2>1, RetryFits DEF Twice, Task
<1>3. QueueOK(D) /\ DOMAIN D \subseteq DOMAIN queue
  BY <1>1, QueueChanges, QueueDomains
<1>4. queue' = BagAdd(E, y)
  BY DEF Twice
<1> HIDE DEF D
<1>5. QueueOK(E) /\ DOMAIN E = DOMAIN D \union {y}
  BY <1>2, <1>3, QueueChanges, QueueDomains
<1> HIDE DEF E
<1>6. QueueOK(queue') /\ DOMAIN queue' = DOMAIN E \union {y}
  BY <1>2, <1>4, <1>5, QueueChanges, QueueDomains
<1> QED
  BY <1>1, <1>2, <1>3, <1>5, <1>6 DEF D, E

LEMMA TwiceTypes ==
    ASSUME TypeOK, NEW w \in Workers, DeferredTwice(w)
    PROVE  TypeOK'
<1>1. PICK t, y : Twice(t, y)
  BY DeferredTasks
<1>2. QueueOK(queue') /\ handed' \in [Recipients -> 0..2]
  BY <1>1, TwicePut, GivenOutTyped DEF Twice
<1>3. type \in Types /\ onMeta \in BOOLEAN
  BY DEF TypeOK
<1>4. /\ faults' \in 0..MaxFaults /\ again' \in Nat
      /\ UNCHANGED <<row, lock, worker, request, requests, ticks, msgs, dropped, late,
                     underWay, gaveUp, overwritten>>
  BY <1>1 DEF Twice
<1> QED
  BY <1>2, <1>3, <1>4, Typed, TypedAgain DEF row

\* Every step keeps the types.
LEMMA TypeStep == ASSUME TypeOK, StepsAreSound, [Next]_vars PROVE TypeOK'
<1>1. CASE UNCHANGED vars
  BY <1>1 DEF vars, row, sends, TypeOK
<1>2. CASE Next
  BY <1>2, RequestTypes, DispatchTypes, BatchTypes, PollTypes, FaultTypes, TwiceTypes DEF Next, Work, Deferred
<1> QED
  BY <1>1, <1>2

-----------------------------------------------------------------------------
(* What a process has at each of its steps *)

Plain(t) == t.kind \in {"dispatch", "poll"} => t.ids = {}

LEMMA SoundAgain ==
    ASSUME TypeOK, StepsAreSound,
           NEW w \in Workers, NEW p, AtStep(p),
           UNCHANGED worker \/ worker' = [worker EXCEPT ![w] = p],
           NEW t, Plain(t), DOMAIN queue' \subseteq DOMAIN queue \union {t},
           UNCHANGED request
    PROVE  StepsAreSound'
<1>1. \A v \in Workers : AtStep(worker'[v])
  BY Typed DEF StepsAreSound
<1>2. \A k \in DOMAIN queue' : Plain(k)
  BY DEF StepsAreSound, Plain
<1> QED
  BY <1>1, <1>2 DEF StepsAreSound, Plain, AtStep

LEMMA PlainTasks ==
    /\ Plain(DispatchTask) /\ AtStep(Idle)
    /\ \A ids, n : Plain(Task("batch", ids, n))
    /\ \A kind, n : Plain(Task(kind, {}, n))
BY Bounds DEF Plain, DispatchTask, Task, AtStep, Idle, TickTask

LEMMA RequestSteps ==
    ASSUME TypeOK, StepsAreSound, NEW u \in Users, Receive(u) \/ Answer(u) \/ RequestDies(u)
    PROVE  StepsAreSound'
<1>1. UNCHANGED worker
  BY DEF Receive, Answer, Validate, Launch, LaunchPublish, Cancel, RequestDies
<1>2. \A t \in DOMAIN queue' : Plain(t)
  <2>1. CASE UNCHANGED queue
    BY <2>1 DEF StepsAreSound, Plain
  <2>2. CASE Publish(DispatchTask)
    <3>1. DOMAIN queue' = DOMAIN queue \union {DispatchTask}
      BY <2>2, Typed, QueueDomains DEF Publish
    <3> QED
      BY <3>1, PlainTasks DEF StepsAreSound, Plain
  <2> QED
    BY <2>1, <2>2 DEF Receive, Answer, Validate, Launch, LaunchPublish, Cancel, RequestDies
<1>3. ASSUME NEW v \in Users
      PROVE  /\ request'[v].pc = "write" => request'[v].saw \in Before[request'[v].op]
             /\ request'[v].pc = "publish" => request'[v].op = "launch"
  <2>1. CASE Receive(u)
    <3>1. PICK op \in DOMAIN Before :
            /\ request' = [request EXCEPT ![u] = [pc |-> "write", op |-> op, saw |-> status]]
            /\ status \in Before[op]
      BY <2>1 DEF Receive
    <3>2. CASE v = u
      BY <3>1, <3>2, Typed
    <3>3. CASE v # u
      BY <3>1, <3>3, Typed DEF StepsAreSound
    <3> QED
      BY <3>2, <3>3
  <2>2. CASE Launch(u)
    <3>1. request' = [request EXCEPT ![u].pc = "publish"] /\ request[u].op = "launch"
      BY <2>2 DEF Launch
    <3> QED
      BY <3>1, Typed DEF StepsAreSound, Req
  <2>3. CASE Validate(u) \/ LaunchPublish(u) \/ Cancel(u) \/ RequestDies(u)
    <3>1. request' = [request EXCEPT ![u] = NoRequest]
      BY <2>3 DEF Validate, LaunchPublish, Cancel, RequestDies
    <3> QED
      BY <3>1, Typed DEF StepsAreSound, NoRequest
  <2> QED
    BY <2>1, <2>2, <2>3 DEF Answer
<1>4. \A v \in Workers : AtStep(worker'[v])
  BY <1>1 DEF StepsAreSound
<1> QED
  BY <1>2, <1>3, <1>4 DEF StepsAreSound, Plain, AtStep

LEMMA DispatchSteps ==
    ASSUME TypeOK, StepsAreSound, NEW w \in Workers,
           \/ DispatchLock(w) \/ DispatchLoad(w) \/ DispatchMark(w) \/ DispatchPage(w)
           \/ DispatchEnd(w)
    PROVE  StepsAreSound'
<1> DEFINE p == worker[w]
<1>1. AtStep(p) /\ p \in Process
  BY Typed DEF StepsAreSound
<1>2. UNCHANGED request
  BY DEF DispatchLock, DispatchLoad, DispatchMark, DispatchPage, DispatchEnd
<1>3. CASE DispatchLock(w)
  <2>1. PICK t \in DOMAIN queue :
          /\ t.kind = "dispatch" /\ queue' = BagRemove(queue, t)
          /\ UNCHANGED worker \/ worker' = [worker EXCEPT ![w] = Holding(t, "load")]
    BY <1>3 DEF DispatchLock, Takes
  <2>2. AtStep(Holding(t, "load"))
    BY <2>1, Typed DEF AtStep, Holding, Idle, QueueOK, Fit, StepsAreSound
  <2>3. DOMAIN queue' \subseteq DOMAIN queue
    BY <2>1, Typed, QueueDomains
  <2> QED
    BY <1>2, <2>1, <2>2, <2>3, SoundAgain, PlainTasks
<1>4. CASE DispatchLoad(w) \/ DispatchMark(w)
  <2>1. \/ worker' = [worker EXCEPT ![w] = Idle]
        \/ /\ p.pc \in {"load", "mark"}
           /\ \E pc \in {"mark", "page"} : worker' = [worker EXCEPT ![w] = [p EXCEPT !.pc = pc]]
    BY <1>4, Typed DEF DispatchLoad, DispatchMark, Goto, Done
  <2>2. \A pc \in {"mark", "page"} : p.pc \in {"load", "mark"} => AtStep([p EXCEPT !.pc = pc])
    BY <1>1 DEF AtStep, Process
  <2>3. UNCHANGED queue
    BY <1>4 DEF DispatchLoad, DispatchMark
  <2> QED
    BY <1>2, <2>1, <2>2, <2>3, SoundAgain, PlainTasks
<1>5. CASE DispatchPage(w)
  <2>1. p.pc = "page" /\ worker' = [worker EXCEPT ![w] = [p EXCEPT !.at = @ + Batch]]
    BY <1>5 DEF DispatchPage
  <2>2. AtStep([p EXCEPT !.at = @ + Batch])
    BY <1>1, <2>1 DEF AtStep, Process
  <2>3. PICK ids : Publish(Task("batch", ids, 0))
    BY <1>5 DEF DispatchPage
  <2>4. DOMAIN queue' \subseteq DOMAIN queue \union {Task("batch", ids, 0)}
    BY <2>3, Typed, QueueDomains DEF Publish
  <2> QED
    BY <1>2, <2>1, <2>2, <2>4, SoundAgain, PlainTasks
<1>6. CASE DispatchEnd(w)
  <2>1. worker' = [worker EXCEPT ![w] = Idle] /\ Publish(Task("poll", {}, 0))
    BY <1>6 DEF DispatchEnd, Done
  <2>2. DOMAIN queue' \subseteq DOMAIN queue \union {Task("poll", {}, 0)}
    BY <2>1, Typed, QueueDomains DEF Publish
  <2> QED
    BY <1>2, <2>1, <2>2, SoundAgain, PlainTasks
<1> QED
  BY <1>3, <1>4, <1>5, <1>6

LEMMA BatchSteps ==
    ASSUME TypeOK, StepsAreSound, NEW w \in Workers,
           \/ Deferred(w) \/ BatchStart(w) \/ BatchThrottled(w) \/ BatchNext(w)
           \/ BatchSend(w) \/ BatchEnd(w) \/ SendFails(w)
    PROVE  StepsAreSound'
<1> DEFINE p == worker[w]
<1>1. AtStep(p) /\ p \in Process
  BY Typed DEF StepsAreSound
<1>2. UNCHANGED request
  BY DEF Deferred, DispatchDeferred, BatchDeferred, BatchStart, BatchThrottled, BatchNext, BatchSend, BatchEnd, SendFails
<1>3. CASE Deferred(w)
  <2>1. PICK t \in DOMAIN queue : t.kind \in {"dispatch", "batch"} /\ Retry(BagRemove(queue, t), t, t.ids, MaxTries(t.kind))
    BY <1>3 DEF Deferred, DispatchDeferred, BatchDeferred, MaxTries
  <2>2. DOMAIN queue' \subseteq DOMAIN queue \union {Task(t.kind, t.ids, t.tries + 1)}
    <3>1. QueueOK(BagRemove(queue, t)) /\ DOMAIN BagRemove(queue, t) \subseteq DOMAIN queue
      BY Typed, QueueChanges, QueueDomains
    <3>2. DOMAIN queue' \subseteq DOMAIN BagRemove(queue, t) \union {Task(t.kind, t.ids, t.tries + 1)}
      BY <2>1, <3>1, QueueDomains
    <3> QED
      BY <2>1, <3>1, <3>2
  <2>3. UNCHANGED worker
    BY <1>3 DEF Deferred, DispatchDeferred, BatchDeferred, MaxTries
  <2>4. Plain(Task(t.kind, t.ids, t.tries + 1))
    BY <2>1 DEF StepsAreSound, Plain, Task
  <2> QED
    BY <1>2, <2>2, <2>3, <2>4, SoundAgain, PlainTasks
<1>4. CASE BatchStart(w)
  <2>1. PICK t \in DOMAIN queue :
          /\ t.kind = "batch" /\ queue' = BagRemove(queue, t)
          /\ UNCHANGED worker \/ worker' = [worker EXCEPT ![w] = Holding(t, "next")]
    BY <1>4 DEF BatchStart, Takes
  <2>2. AtStep(Holding(t, "next"))
    BY <2>1, Typed DEF AtStep, Holding, Idle, QueueOK, Fit
  <2>3. DOMAIN queue' \subseteq DOMAIN queue
    BY <2>1, Typed, QueueDomains
  <2> QED
    BY <1>2, <2>1, <2>2, <2>3, SoundAgain, PlainTasks
<1>5. CASE BatchThrottled(w)
  <2>1. /\ p.task.kind = "batch"
        /\ Retry(queue, p.task, p.left, MaxBatchTries)
        /\ worker' = [worker EXCEPT ![w] = Idle]
    BY <1>1, <1>5 DEF BatchThrottled, AtStep, Done
  <2>2. DOMAIN queue' \subseteq DOMAIN queue \union {Task("batch", p.left, p.task.tries + 1)}
    <3>1. DOMAIN queue' \subseteq DOMAIN queue \union {Task(p.task.kind, p.left, p.task.tries + 1)}
      BY <2>1, Typed, QueueDomains
    <3> QED
      BY <2>1, <3>1
  <2> QED
    BY <1>2, <2>1, <2>2, SoundAgain, PlainTasks
<1>6. CASE BatchNext(w) \/ BatchEnd(w)
  <2>1. \/ worker' = [worker EXCEPT ![w] = Idle]
        \/ /\ p.pc = "next" /\ p.left # {}
           /\ worker' = [worker EXCEPT ![w] = [p EXCEPT !.pc = "send"]]
        \/ /\ p.pc = "next"
           /\ worker' = [worker EXCEPT ![w] = [p EXCEPT !.left = @ \ {Min(worker[w].left)}]]
    BY <1>6 DEF BatchNext, BatchEnd, Goto, Done
  <2>2. p.pc = "next" => /\ p.left # {} => AtStep([p EXCEPT !.pc = "send"])
                         /\ AtStep([p EXCEPT !.left = @ \ {Min(worker[w].left)}])
    BY <1>1 DEF AtStep, Process
  <2>3. UNCHANGED queue
    BY <1>6 DEF BatchNext, BatchEnd
  <2> QED
    BY <1>2, <2>1, <2>2, <2>3, SoundAgain, PlainTasks
<1>7. CASE BatchSend(w) \/ SendFails(w)
  <2>1. /\ p.pc = "send"
        /\ worker' = [worker EXCEPT ![w] = [p EXCEPT !.pc = "next", !.left = @ \ {Min(worker[w].left)}]]
    BY <1>7, Typed DEF BatchSend, SendFails
  <2>2. AtStep([p EXCEPT !.pc = "next", !.left = @ \ {Min(worker[w].left)}])
    BY <1>1, <2>1 DEF AtStep, Process
  <2>3. UNCHANGED queue
    BY <1>7 DEF BatchSend, SendFails
  <2> QED
    BY <1>2, <2>1, <2>2, <2>3, SoundAgain, PlainTasks
<1> QED
  BY <1>3, <1>4, <1>5, <1>6, <1>7

LEMMA PollSteps ==
    ASSUME TypeOK, StepsAreSound, NEW w \in Workers,
           \/ Poll(w) \/ Finish(w) \/ Tick(w) \/ TickQueue(w) \/ TickPublish(w)
           \/ WorkerDies(w) \/ TaskFails(w)
    PROVE  StepsAreSound'
<1> DEFINE p == worker[w]
<1>1. AtStep(p) /\ p \in Process
  BY Typed DEF StepsAreSound
<1>2. UNCHANGED request
  BY DEF Poll, Finish, Tick, TickQueue, TickPublish, WorkerDies, TaskFails
<1>3. CASE Poll(w)
  <2>1. PICK t \in DOMAIN queue :
          /\ t.kind = "poll"
          /\ \/ Retry(BagRemove(queue, t), t, {}, MaxPolls) /\ UNCHANGED worker
             \/ /\ queue' = BagRemove(queue, t)
                /\ \/ UNCHANGED worker
                   \/ worker' = [worker EXCEPT ![w] = [Holding(t, "finish") EXCEPT !.saw = Outcome]]
    BY <1>3 DEF Poll, Takes
  <2>2. DOMAIN queue' \subseteq DOMAIN queue \union {Task("poll", {}, t.tries + 1)}
    <3>1. QueueOK(BagRemove(queue, t)) /\ DOMAIN BagRemove(queue, t) \subseteq DOMAIN queue
      BY Typed, QueueChanges, QueueDomains
    <3>2. CASE Retry(BagRemove(queue, t), t, {}, MaxPolls)
      <4>1. DOMAIN queue' \subseteq DOMAIN BagRemove(queue, t) \union {Task(t.kind, {}, t.tries + 1)}
        BY <3>1, <3>2, QueueDomains
      <4> QED
        BY <2>1, <3>1, <4>1
    <3>3. CASE queue' = BagRemove(queue, t)
      BY <3>1, <3>3
    <3> QED
      BY <2>1, <3>2, <3>3
  <2>3. AtStep([Holding(t, "finish") EXCEPT !.saw = Outcome])
    <3>1. Outcome \in {"FAILED", "SCHEDULED", "COMPLETED"}
      BY DEF Outcome
    <3>2. Fit(t) /\ t.ids = {}
      BY <2>1, Typed DEF QueueOK, StepsAreSound
    <3> QED
      BY <2>1, <3>1, <3>2 DEF AtStep, Holding, Idle, Fit
  <2> QED
    BY <1>2, <2>1, <2>2, <2>3, SoundAgain, PlainTasks
<1>4. CASE Finish(w) \/ TaskFails(w)
  <2>1. worker' = [worker EXCEPT ![w] = Idle] /\ UNCHANGED queue
    BY <1>4 DEF Finish, TaskFails, Done
  <2> QED
    BY <1>2, <2>1, SoundAgain, PlainTasks
<1>5. CASE Tick(w) \/ TickQueue(w)
  <2>1. \/ /\ worker' = [worker EXCEPT ![w] = [Idle EXCEPT !.pc = "queue", !.saw = status]]
           /\ status = "SCHEDULED"
        \/ p.pc = "queue" /\ worker' = [worker EXCEPT ![w] = [p EXCEPT !.pc = "publish"]]
    BY <1>5 DEF Tick, TickQueue, Goto
  <2>2. /\ status = "SCHEDULED" => AtStep([Idle EXCEPT !.pc = "queue", !.saw = status])
        /\ p.pc = "queue" => AtStep([p EXCEPT !.pc = "publish"])
    BY <1>1, Bounds DEF AtStep, Process, Idle, TickTask, Task
  <2>3. UNCHANGED queue
    BY <1>5 DEF Tick, TickQueue
  <2> QED
    BY <1>2, <2>1, <2>2, <2>3, SoundAgain, PlainTasks
<1>6. CASE TickPublish(w)
  <2>1. worker' = [worker EXCEPT ![w] = Idle] /\ Publish(DispatchTask)
    BY <1>6 DEF TickPublish, Done
  <2>2. DOMAIN queue' \subseteq DOMAIN queue \union {DispatchTask}
    BY <2>1, Typed, QueueDomains DEF Publish
  <2> QED
    BY <1>2, <2>1, <2>2, SoundAgain, PlainTasks
<1>7. CASE WorkerDies(w)
  <2>1. worker' = [worker EXCEPT ![w] = Idle] /\ Publish(p.task)
    BY <1>7 DEF WorkerDies, Done
  <2>2. DOMAIN queue' \subseteq DOMAIN queue \union {p.task}
    BY <2>1, Typed, QueueDomains DEF Publish
  <2>3. Plain(p.task)
    BY <1>1 DEF AtStep, Plain, Process, Steps, DispatchTask, TickTask, Task
  <2> QED
    BY <1>2, <2>1, <2>2, <2>3, SoundAgain, PlainTasks
<1> QED
  BY <1>3, <1>4, <1>5, <1>6, <1>7

LEMMA SoundStep == ASSUME TypeOK, StepsAreSound, [Next]_vars PROVE StepsAreSound'
<1>1. CASE UNCHANGED vars
  BY <1>1 DEF vars, row, sends, StepsAreSound, AtStep
<1>2. CASE DeliveryFails \/ KeyExpires
  <2>1. UNCHANGED <<worker, queue, request>>
    BY <1>2 DEF DeliveryFails, KeyExpires
  <2> QED
    BY <2>1 DEF StepsAreSound, AtStep
<1>4. ASSUME NEW w \in Workers, DeferredTwice(w) PROVE StepsAreSound'
  <2>1. PICK t, y : Twice(t, y)
    BY <1>4, DeferredTasks
  <2>2. t \in DOMAIN queue /\ Plain(y) /\ DOMAIN queue' \subseteq DOMAIN queue \union {y}
    BY <2>1, TwicePut DEF Twice, StepsAreSound, Plain
  <2>3. UNCHANGED <<worker, request>>
    BY <2>1 DEF Twice
  <2> QED
    BY <2>2, <2>3, SoundAgain, PlainTasks
<1>3. CASE Next
  BY <1>2, <1>3, <1>4, RequestSteps, DispatchSteps, BatchSteps, PollSteps DEF Next, Work, Deferred
<1> QED
  BY <1>1, <1>3

-----------------------------------------------------------------------------
(* Messages: those that wait are new, and what is late was under way *)

LEMMA NewStep == ASSUME TypeOK, StepsAreSound, WaitingAreNew, [Next]_vars PROVE WaitingAreNew'
<1> SUFFICES ASSUME NEW r \in Recipients, recip'[r] \in {"NONE", "PENDING"}
             PROVE  /\ recip[r] \in {"NONE", "PENDING"}
                    /\ msgs'[r] = msgs[r]
                    /\ r \in dropped' => r \in dropped
  BY DEF WaitingAreNew, Waiting
<1>1. CASE UNCHANGED <<recip, msgs, dropped>>
  BY <1>1
<1>2. ASSUME NEW u \in Users, Validate(u) \/ Cancel(u)
      PROVE  /\ recip[r] \in {"NONE", "PENDING"} /\ UNCHANGED msgs
             /\ r \in dropped' => r \in dropped
  <2>1. CASE Validate(u)
    BY <2>1, Typed DEF Validate, sends
  <2>2. CASE Cancel(u)
    BY <2>2, Typed DEF Cancel, Pending
  <2> QED
    BY <1>2, <2>1, <2>2
<1>3. ASSUME NEW w \in Workers, BatchStart(w) PROVE recip[r] = recip'[r] /\ UNCHANGED <<msgs, dropped>>
  <2>1. recip'[r] = "FAILED" \/ recip'[r] = recip[r]
    BY <1>3, Typed DEF BatchStart
  <2> QED
    BY <1>3, <2>1 DEF BatchStart, sends
<1>4. ASSUME NEW w \in Workers, BatchSend(w) \/ SendFails(w)
      PROVE  recip[r] = recip'[r] /\ msgs'[r] = msgs[r] /\ UNCHANGED dropped
  <2> DEFINE q == Min(worker[w].left)
  <2>1. \E c \in {0, 1}, new \in {"SENT", "FAILED"} :
           recip' = [recip EXCEPT ![q] = new] /\ msgs' = [msgs EXCEPT ![q] = @ + c]
    BY <1>4 DEF BatchSend, SendFails
  <2>2. UNCHANGED dropped
    BY <1>4 DEF BatchSend, SendFails
  <2> HIDE DEF q
  <2> QED
    BY <2>1, <2>2, Typed
<1>5. ASSUME DeliveryFails PROVE recip[r] = recip'[r] /\ UNCHANGED <<msgs, dropped>>
  BY <1>5, Typed DEF DeliveryFails, sends
<1>6. CASE Next
  <2>1. ASSUME NEW u \in Users, Receive(u) \/ Launch(u) \/ LaunchPublish(u) \/ RequestDies(u)
        PROVE  UNCHANGED <<recip, msgs, dropped>>
    BY <2>1 DEF Receive, Launch, LaunchPublish, RequestDies, row, sends
  <2>2. ASSUME NEW w \in Workers,
               \/ DispatchLock(w) \/ DispatchLoad(w) \/ DispatchMark(w) \/ DispatchPage(w)
               \/ DispatchEnd(w)
        PROVE  UNCHANGED <<recip, msgs, dropped>>
    BY <2>2 DEF DispatchLock, DispatchLoad, DispatchMark, DispatchPage, DispatchEnd, row, sends
  <2>3. ASSUME NEW w \in Workers,
               \/ Deferred(w) \/ BatchThrottled(w) \/ BatchNext(w) \/ BatchEnd(w)
               \/ Poll(w) \/ Finish(w)
        PROVE  UNCHANGED <<recip, msgs, dropped>>
    BY <2>3 DEF Deferred, DispatchDeferred, BatchDeferred, BatchThrottled, BatchNext, BatchEnd, Poll, Finish, row, sends
  <2>4. ASSUME NEW w \in Workers,
               \/ TickQueue(w) \/ TickPublish(w) \/ Tick(w) \/ WorkerDies(w) \/ TaskFails(w)
               \/ DeferredTwice(w)
        PROVE  UNCHANGED <<recip, msgs, dropped>>
    BY <2>4 DEF TickQueue, TickPublish, Tick, WorkerDies, TaskFails, DeferredTwice, row, sends
  <2>5. CASE KeyExpires
    BY <1>1, <2>5 DEF KeyExpires, row, sends
  <2> QED
    BY <1>1, <1>2, <1>3, <1>4, <1>5, <1>6, <2>1, <2>2, <2>3, <2>4, <2>5 DEF Next, Work, Deferred, Answer
<1> QED
  BY <1>1, <1>6 DEF vars, row, sends

\* What a step does to the processes that are about to send.
Quiet == /\ UNCHANGED <<msgs, late, dropped, underWay>>
         /\ \/ UNCHANGED worker
            \/ \E w \in Workers : /\ worker'[w].pc # "send"
                                  /\ \A v \in Workers \ {w} : worker'[v] = worker[v]

Withdraws == /\ UNCHANGED <<worker, msgs, late>>
             /\ dropped' = dropped \union Pending
             /\ underWay' = underWay + Cardinality(AboutToSend)

Looks(w, r) == /\ worker[w].pc = "next" /\ r = Min(worker[w].left) /\ recip[r] = "PENDING"
               /\ worker' = [worker EXCEPT ![w].pc = "send"]
               /\ UNCHANGED <<recip, queue, msgs, handed, late, dropped, underWay>>

Sends(w, r, c) == /\ worker[w].pc = "send" /\ r = Min(worker[w].left)
                  /\ msgs' = [msgs EXCEPT ![r] = @ + c]
                  /\ late' = IF r \in dropped THEN late + c ELSE late
                  /\ worker' = [worker EXCEPT ![w].pc = "next", ![w].left = @ \ {r}]
                  /\ UNCHANGED <<queue, handed, dropped, underWay>>

LEMMA SendSteps ==
    ASSUME TypeOK, StepsAreSound, [Next]_vars
    PROVE  \/ Quiet \/ Withdraws
           \/ \E w \in Workers, r \in Recipients : Looks(w, r) \/ \E c \in {0, 1} : Sends(w, r, c)
<1>1. CASE UNCHANGED vars
  BY <1>1 DEF vars, sends, Quiet
<1>2. ASSUME NEW u \in Users, Receive(u) \/ Answer(u) \/ RequestDies(u)
      PROVE  Quiet \/ Withdraws
  <2>1. CASE Cancel(u)
    BY <2>1 DEF Cancel, Withdraws
  <2>2. CASE Receive(u) \/ Validate(u) \/ Launch(u) \/ LaunchPublish(u) \/ RequestDies(u)
    BY <2>2 DEF Receive, Validate, Launch, LaunchPublish, RequestDies, sends, Quiet
  <2> QED
    BY <1>2, <2>1, <2>2 DEF Answer
<1>3. ASSUME NEW w \in Workers,
             \/ DispatchLock(w) \/ DispatchLoad(w) \/ DispatchMark(w) \/ DispatchPage(w)
             \/ DispatchEnd(w)
      PROVE  Quiet
  <2>1. UNCHANGED <<msgs, late, dropped, underWay>>
    BY <1>3 DEF DispatchLock, DispatchLoad, DispatchMark, DispatchPage, DispatchEnd, sends
  <2>2. \/ UNCHANGED worker
        \/ \E p : p.pc # "send" /\ worker' = [worker EXCEPT ![w] = p]
    <3>1. CASE DispatchLock(w)
      BY <3>1 DEF DispatchLock, Holding, Idle
    <3>2. CASE DispatchLoad(w) \/ DispatchMark(w)
      <4>1. \/ worker' = [worker EXCEPT ![w] = Idle]
            \/ \E pc \in {"mark", "page"} : worker' = [worker EXCEPT ![w].pc = pc]
        BY <3>2 DEF DispatchLoad, DispatchMark, Goto, Done
      <4>2. worker[w] \in Process
        BY Typed
      <4>3. \A pc \in {"mark", "page"} : [worker[w] EXCEPT !.pc = pc].pc # "send"
        BY <4>2 DEF Process
      <4> QED
        BY <4>1, <4>3 DEF Idle
    <3>3. CASE DispatchPage(w)
      <4>1. worker[w] \in Process /\ worker[w].pc = "page"
        BY <3>3, Typed DEF DispatchPage
      <4>2. [worker[w] EXCEPT !.at = @ + Batch].pc # "send"
        BY <4>1 DEF Process
      <4> QED
        BY <3>3, <4>2 DEF DispatchPage
    <3>4. CASE DispatchEnd(w)
      BY <3>4 DEF DispatchEnd, Done, Idle
    <3> QED
      BY <1>3, <3>1, <3>2, <3>3, <3>4
  <2> QED
    BY <2>1, <2>2, Typed DEF Quiet
<1>4. ASSUME NEW w \in Workers,
             \/ Deferred(w) \/ BatchStart(w) \/ BatchThrottled(w) \/ BatchEnd(w)
             \/ Poll(w) \/ Finish(w) \/ DeferredTwice(w)
      PROVE  Quiet
  <2>1. UNCHANGED <<msgs, late, dropped, underWay>>
    BY <1>4 DEF Deferred, DispatchDeferred, BatchDeferred, BatchStart, BatchThrottled, BatchEnd, Poll, Finish, DeferredTwice, sends
  <2>2. \/ UNCHANGED worker
        \/ \E p : p.pc # "send" /\ worker' = [worker EXCEPT ![w] = p]
    BY <1>4 DEF Deferred, DispatchDeferred, BatchDeferred, BatchStart, BatchThrottled, BatchEnd, Poll, Finish, DeferredTwice, Done, Holding, Idle
  <2> QED
    BY <2>1, <2>2, Typed DEF Quiet
<1>5. ASSUME NEW w \in Workers,
             TickQueue(w) \/ TickPublish(w) \/ Tick(w) \/ WorkerDies(w) \/ TaskFails(w)
      PROVE  Quiet
  <2>1. UNCHANGED <<msgs, late, dropped, underWay>>
    BY <1>5 DEF TickQueue, TickPublish, Tick, WorkerDies, TaskFails, sends
  <2>2. \E p : p.pc # "send" /\ worker' = [worker EXCEPT ![w] = p]
    <3>1. CASE TickQueue(w)
      <4>1. worker[w] \in Process
        BY Typed
      <4>2. [worker[w] EXCEPT !.pc = "publish"].pc # "send"
        BY <4>1 DEF Process
      <4> QED
        BY <3>1, <4>2 DEF TickQueue, Goto
    <3>2. CASE TickPublish(w) \/ Tick(w) \/ WorkerDies(w) \/ TaskFails(w)
      BY <3>2 DEF TickPublish, Tick, WorkerDies, TaskFails, Done, Idle
    <3> QED
      BY <1>5, <3>1, <3>2
  <2> QED
    BY <2>1, <2>2, Typed DEF Quiet
<1>6. ASSUME NEW w \in Workers, BatchNext(w)
      PROVE  Quiet \/ \E r \in Recipients : Looks(w, r)
  <2> DEFINE r == Min(worker[w].left)
  <2>1. r \in Recipients /\ worker[w] \in Process /\ worker[w].pc = "next"
    BY <1>6, Typed, NextRecipient DEF Process, BatchNext
  <2>2. UNCHANGED <<recip, queue, msgs, handed, late, dropped, underWay>>
    BY <1>6 DEF BatchNext, row, sends
  <2>3. CASE recip[r] = "PENDING"
    BY <1>6, <2>1, <2>2, <2>3 DEF BatchNext, Looks, Goto
  <2>4. CASE recip[r] # "PENDING"
    <3>1. worker' = [worker EXCEPT ![w] = [worker[w] EXCEPT !.left = @ \ {r}]]
      BY <1>6, <2>4 DEF BatchNext
    <3>2. [worker[w] EXCEPT !.left = @ \ {r}].pc # "send"
      BY <2>1 DEF Process
    <3> QED
      BY <2>2, <3>1, <3>2, Typed DEF Quiet
  <2> QED
    BY <2>3, <2>4
<1>7. ASSUME NEW w \in Workers, BatchSend(w) \/ SendFails(w)
      PROVE  \E r \in Recipients, c \in {0, 1} : Sends(w, r, c)
  <2>1. Min(worker[w].left) \in Recipients
    BY <1>7, Typed, NextRecipient DEF BatchSend, SendFails, StepsAreSound, AtStep, Process
  <2> QED
    BY <1>7, <2>1 DEF BatchSend, SendFails, Sends
<1>8. CASE DeliveryFails \/ KeyExpires
  BY <1>8 DEF DeliveryFails, KeyExpires, sends, Quiet
<1> QED
  BY <1>1, <1>2, <1>3, <1>4, <1>5, <1>6, <1>7, <1>8 DEF Next, Work, Deferred

\* A step of one process adds it to those who send to one of R, or takes it away.
LEMMA SendersStep ==
    ASSUME NEW w \in Workers, \A v \in Workers \ {w} : worker'[v] = worker[v], NEW R,
           NEW S, S = {v \in Workers : worker'[v].pc = "send" /\ Min(worker'[v].left) \in R}
    PROVE  /\ Cardinality(S) + Bit(w \in SendingTo(R)) = Cardinality(SendingTo(R)) + Bit(w \in S)
           /\ Cardinality(S) \in Nat /\ Cardinality(S) <= Cardinality(Workers)
           /\ Cardinality(SendingTo(R)) \in Nat
<1> DEFINE T == SendingTo(R)
<1>1. S \in SUBSET Workers /\ T \in SUBSET Workers /\ \A v \in Workers \ {w} : v \in S <=> v \in T
  BY DEF SendingTo
<1> HIDE DEF T
<1>2. Cardinality(S) + Bit(w \in T) = Cardinality(T) + Bit(w \in S)
  BY <1>1, Bounds, CountStep
<1>3. Cardinality(S) \in Nat /\ Cardinality(T) \in Nat /\ Cardinality(S) <= Cardinality(Workers)
  BY <1>1, Bounds, CountType, FS_Subset
<1> QED
  BY <1>2, <1>3 DEF T

LEMMA FewStep ==
    ASSUME TypeOK, StepsAreSound, WaitingAreNew, FewAtOnce, [Next]_vars
    PROVE  FewAtOnce'
<1> SUFFICES ASSUME NEW r \in Recipients
             PROVE  msgs'[r] + Cardinality(SendingTo({r}))' <= Cardinality(Workers)
  BY DEF FewAtOnce
<1> DEFINE S == {v \in Workers : worker'[v].pc = "send" /\ Min(worker'[v].left) \in {r}}
           T == SendingTo({r})
<1>1. Cardinality(SendingTo({r}))' = Cardinality(S)
  BY DEF SendingTo
<1>2. msgs[r] + Cardinality(T) <= Cardinality(Workers) /\ msgs[r] \in Nat
  BY Typed DEF FewAtOnce
<1>3. ASSUME NEW w \in Workers, \A v \in Workers \ {w} : worker'[v] = worker[v]
      PROVE  /\ Cardinality(S) + Bit(w \in T) = Cardinality(T) + Bit(w \in S)
             /\ Cardinality(S) \in Nat /\ Cardinality(S) <= Cardinality(Workers)
             /\ Cardinality(T) \in Nat
  BY <1>3, SendersStep
<1>4. CASE msgs' = msgs /\ UNCHANGED worker
  <2>1. S = T
    BY <1>4 DEF SendingTo
  <2> HIDE DEF S, T
  <2> QED
    BY <1>1, <1>2, <1>4, <2>1
<1>5. ASSUME NEW w \in Workers, worker'[w].pc # "send", msgs' = msgs,
             \A v \in Workers \ {w} : worker'[v] = worker[v]
      PROVE  msgs'[r] + Cardinality(S) <= Cardinality(Workers)
  <2>1. w \notin S
    BY <1>5
  <2>2. /\ Cardinality(S) + Bit(w \in T) = Cardinality(T) + Bit(w \in S)
        /\ Cardinality(S) \in Nat /\ Cardinality(T) \in Nat
    BY <1>3, <1>5
  <2> HIDE DEF S, T
  <2>3. Cardinality(S) <= Cardinality(T)
    BY <2>1, <2>2 DEF Bit
  <2> QED
    BY <1>2, <1>5, <2>2, <2>3, Bounds
<1>6. ASSUME NEW w \in Workers, NEW q \in Recipients, Looks(w, q)
      PROVE  msgs'[r] + Cardinality(S) <= Cardinality(Workers)
  <2>1. /\ \A v \in Workers \ {w} : worker'[v] = worker[v]
        /\ worker'[w].left = worker[w].left
    BY <1>6, Typed DEF Looks, Process
  <2>2. /\ Cardinality(S) + Bit(w \in T) = Cardinality(T) + Bit(w \in S)
        /\ Cardinality(S) \in Nat /\ Cardinality(S) <= Cardinality(Workers)
        /\ Cardinality(T) \in Nat
    BY <1>3, <2>1
  <2>3. msgs' = msgs
    BY <1>6 DEF Looks
  <2>4. CASE q = r
    <3>1. msgs[r] = 0
      BY <1>6, <2>4 DEF Looks, WaitingAreNew, Waiting
    <3> HIDE DEF S, T
    <3> QED
      BY <2>2, <2>3, <3>1, Bounds
  <2>5. CASE q # r
    <3>1. w \notin S
      BY <1>6, <2>1, <2>5 DEF Looks
    <3> HIDE DEF S, T
    <3>2. Cardinality(S) <= Cardinality(T)
      BY <2>2, <3>1 DEF Bit
    <3> QED
      BY <1>2, <2>2, <2>3, <3>2, Bounds
  <2> QED
    BY <2>4, <2>5
<1>7. ASSUME NEW w \in Workers, NEW q \in Recipients, NEW c \in {0, 1}, Sends(w, q, c)
      PROVE  msgs'[r] + Cardinality(S) <= Cardinality(Workers)
  <2>1. /\ \A v \in Workers \ {w} : worker'[v] = worker[v]
        /\ worker'[w].pc = "next"
    BY <1>7, Typed DEF Sends, Process
  <2>2. /\ Cardinality(S) + Bit(w \in T) = Cardinality(T) + Bit(w \in S)
        /\ Cardinality(S) \in Nat /\ Cardinality(T) \in Nat
    BY <1>3, <2>1
  <2>3. w \notin S
    BY <2>1
  <2>4. CASE q = r
    <3>1. w \in T
      BY <1>7, <2>4 DEF Sends, SendingTo
    <3>2. msgs'[r] = msgs[r] + c
      BY <1>7, <2>4, Typed DEF Sends
    <3> HIDE DEF S, T
    <3>3. Cardinality(S) + 1 = Cardinality(T)
      BY <2>2, <2>3, <3>1 DEF Bit
    <3> QED
      BY <1>2, <2>2, <3>2, <3>3, Bounds
  <2>5. CASE q # r
    <3>1. msgs'[r] = msgs[r]
      BY <1>7, <2>5, Typed DEF Sends
    <3> HIDE DEF S, T
    <3>2. Cardinality(S) <= Cardinality(T)
      BY <2>2, <2>3 DEF Bit
    <3> QED
      BY <1>2, <2>2, <3>1, <3>2, Bounds
  <2> QED
    BY <2>4, <2>5
<1>8. CASE Quiet \/ Withdraws
  BY <1>1, <1>4, <1>5, <1>8 DEF Quiet, Withdraws
<1> QED
  BY <1>1, <1>6, <1>7, <1>8, SendSteps

LEMMA LateStep ==
    ASSUME TypeOK, StepsAreSound, WaitingAreNew, LateWereUnderWay, [Next]_vars
    PROVE  LateWereUnderWay'
<1> PICK D : D = dropped
  OBVIOUS
<1> DEFINE S == {v \in Workers : worker'[v].pc = "send" /\ Min(worker'[v].left) \in D}
           T == SendingTo(D)
<1>1. late + Cardinality(T) <= underWay /\ late \in Nat /\ underWay \in Nat
  BY Typed DEF LateWereUnderWay
<1>2. dropped' = dropped => Cardinality(SendingTo(dropped))' = Cardinality(S)
  BY DEF SendingTo
<1>3. ASSUME NEW w \in Workers, \A v \in Workers \ {w} : worker'[v] = worker[v]
      PROVE  /\ Cardinality(S) + Bit(w \in T) = Cardinality(T) + Bit(w \in S)
             /\ Cardinality(S) \in Nat /\ Cardinality(T) \in Nat
  BY <1>3, SendersStep
<1>4. CASE Quiet
  <2>1. CASE UNCHANGED worker
    <3>1. S = T
      BY <2>1 DEF SendingTo
    <3> HIDE DEF S, T
    <3> QED
      BY <1>1, <1>2, <1>4, <3>1 DEF Quiet, LateWereUnderWay
  <2>2. ASSUME NEW w \in Workers, worker'[w].pc # "send", \A v \in Workers \ {w} : worker'[v] = worker[v]
        PROVE  Cardinality(S) <= Cardinality(T) /\ Cardinality(S) \in Nat /\ Cardinality(T) \in Nat
    <3>1. w \notin S
      BY <2>2
    <3>2. /\ Cardinality(S) + Bit(w \in T) = Cardinality(T) + Bit(w \in S)
          /\ Cardinality(S) \in Nat /\ Cardinality(T) \in Nat
      BY <1>3, <2>2
    <3> HIDE DEF S, T
    <3> QED
      BY <3>1, <3>2 DEF Bit
  <2>3. CASE Cardinality(S) <= Cardinality(T) /\ Cardinality(S) \in Nat /\ Cardinality(T) \in Nat
    <3>1. /\ Cardinality(SendingTo(dropped))' = Cardinality(S)
          /\ late' = late /\ underWay' = underWay
      BY <1>2, <1>4 DEF Quiet
    <3> HIDE DEF S, T
    <3> QED
      BY <1>1, <2>3, <3>1 DEF LateWereUnderWay
  <2> QED
    BY <1>4, <2>1, <2>2, <2>3 DEF Quiet
<1>5. CASE Withdraws
  <2> DEFINE A == AboutToSend
  <2>1. SendingTo(dropped)' = T \union A
    <3>1. worker' = worker /\ dropped' = D \union Pending
      BY <1>5 DEF Withdraws
    <3>2. SendingTo(dropped)' =
            {w \in Workers : worker'[w].pc = "send" /\ Min(worker'[w].left) \in dropped'}
      BY DEF SendingTo
    <3>3. \A w : w \in SendingTo(dropped)' <=> w \in T \/ w \in A
      BY <3>1, <3>2 DEF SendingTo, AboutToSend
    <3> HIDE DEF T, A
    <3> QED
      BY <3>3
  <2>2. T \in SUBSET Workers /\ A \in SUBSET Workers
    BY DEF SendingTo, AboutToSend
  <2>3. late' = late /\ underWay' = underWay + Cardinality(A)
    BY <1>5 DEF Withdraws
  <2> HIDE DEF A, T
  <2>4. IsFiniteSet(T) /\ IsFiniteSet(A) /\ Cardinality(T) \in Nat /\ Cardinality(A) \in Nat
    BY <2>2, Bounds, CountType
  <2>5. Cardinality(T \union A) <= Cardinality(T) + Cardinality(A) /\ Cardinality(T \union A) \in Nat
    <3>1. /\ Cardinality(T \union A) = Cardinality(T) + Cardinality(A) - Cardinality(T \cap A)
          /\ IsFiniteSet(T \union A)
      BY <2>4, FS_Union
    <3>2. Cardinality(T \union A) \in Nat /\ Cardinality(T \cap A) \in Nat
      BY <2>4, <3>1, FS_CardinalityType, FS_Intersection
    <3> QED
      BY <2>4, <3>1, <3>2
  <2>6. late + Cardinality(T \union A) <= underWay + Cardinality(A)
    BY <1>1, <2>4, <2>5
  <2> QED
    BY <2>1, <2>3, <2>6 DEF LateWereUnderWay
<1>6. ASSUME NEW w \in Workers, NEW q \in Recipients, Looks(w, q)
      PROVE  LateWereUnderWay'
  <2>1. /\ \A v \in Workers \ {w} : worker'[v] = worker[v]
        /\ worker'[w].left = worker[w].left
    BY <1>6, Typed DEF Looks, Process
  <2>2. /\ Cardinality(S) + Bit(w \in T) = Cardinality(T) + Bit(w \in S)
        /\ Cardinality(S) \in Nat /\ Cardinality(T) \in Nat
    BY <1>3, <2>1
  <2>3. w \notin S
    <3>1. q \notin D
      BY <1>6 DEF Looks, WaitingAreNew, Waiting
    <3> QED
      BY <1>6, <2>1, <3>1 DEF Looks
  <2>4. /\ Cardinality(SendingTo(dropped))' = Cardinality(S)
        /\ late' = late /\ underWay' = underWay
    BY <1>2, <1>6 DEF Looks
  <2> HIDE DEF S, T
  <2>5. Cardinality(S) <= Cardinality(T)
    BY <2>2, <2>3 DEF Bit
  <2> QED
    BY <1>1, <2>2, <2>4, <2>5 DEF LateWereUnderWay
<1>7. ASSUME NEW w \in Workers, NEW q \in Recipients, NEW c \in {0, 1}, Sends(w, q, c)
      PROVE  LateWereUnderWay'
  <2>1. /\ \A v \in Workers \ {w} : worker'[v] = worker[v]
        /\ worker'[w].pc = "next"
    BY <1>7, Typed DEF Sends, Process
  <2>2. /\ Cardinality(S) + Bit(w \in T) = Cardinality(T) + Bit(w \in S)
        /\ Cardinality(S) \in Nat /\ Cardinality(T) \in Nat
    BY <1>3, <2>1
  <2>3. w \notin S
    BY <2>1
  <2>4. /\ Cardinality(SendingTo(dropped))' = Cardinality(S)
        /\ late' = IF q \in D THEN late + c ELSE late
        /\ underWay' = underWay
    BY <1>2, <1>7 DEF Sends
  <2>5. w \in T <=> q \in D
    BY <1>7 DEF Sends, SendingTo
  <2> HIDE DEF S, T
  <2>6. CASE q \in D
    <3>1. Cardinality(S) + 1 = Cardinality(T)
      BY <2>2, <2>3, <2>5, <2>6 DEF Bit
    <3>2. late' + Cardinality(S) <= underWay
      BY <1>1, <2>2, <2>4, <2>6, <3>1
    <3> QED
      BY <2>4, <3>2 DEF LateWereUnderWay
  <2>7. CASE q \notin D
    <3>1. Cardinality(S) <= Cardinality(T)
      BY <2>2, <2>3, <2>5, <2>7 DEF Bit
    <3>2. late' + Cardinality(S) <= underWay
      BY <1>1, <2>2, <2>4, <2>7, <3>1
    <3> QED
      BY <2>4, <3>2 DEF LateWereUnderWay
  <2> QED
    BY <2>6, <2>7
<1> QED
  BY <1>4, <1>5, <1>6, <1>7, SendSteps

-----------------------------------------------------------------------------
(* A recipient that was given out once is in one batch *)

\* A lone task, process or request stays alone when it changes place.
LEMMA LoneMoves ==
    ASSUME NEW B, B \in [DOMAIN B -> Nat \ {0}], NEW C, NEW M, NEW W, NEW U, NEW V, NEW R,
           Lone(B, Among(B, M), W, U), R \subseteq U,
           \/ C = B /\ V \subseteq W
           \/ \E x \in DOMAIN B : \E w : /\ C = BagRemove(B, x)
                                         /\ IF x \in M THEN V \subseteq W \union {w} ELSE V \subseteq W
           \/ \E x : /\ C = BagAdd(B, x) /\ V \subseteq W
                     /\ x \in M => (\E w \in W : w \notin V) \/ (\E u \in U : u \notin R)
           \/ \E x \in DOMAIN B : \E y : /\ C = BagAdd(BagRemove(B, x), y) /\ V \subseteq W
                                         /\ y \in M => x \in M
    PROVE  Lone(C, Among(C, M), V, R)
<1> DEFINE K == Among(B, M)
<1>1. CASE C = B /\ V \subseteq W
  BY <1>1 DEF Lone
<1>2. ASSUME NEW x \in DOMAIN B, NEW w, C = BagRemove(B, x),
             IF x \in M THEN V \subseteq W \union {w} ELSE V \subseteq W
      PROVE  Lone(C, Among(C, M), V, R)
  <2> DEFINE L == Among(C, M)
  <2>1. /\ x \notin M => Lone(C, L, W, U)
        /\ x \in M => L = {} /\ W = {} /\ U = {}
    BY <1>2, LoneTaken
  <2> HIDE DEF L
  <2> QED
    BY <1>2, <2>1 DEF Lone, L
<1>3. ASSUME NEW x, C = BagAdd(B, x), V \subseteq W,
             x \in M => (\E w \in W : w \notin V) \/ (\E u \in U : u \notin R)
      PROVE  Lone(C, Among(C, M), V, R)
  <2> DEFINE L == Among(C, M)
  <2>1. /\ x \notin M => Lone(C, L, W, U)
        /\ W # {} \/ U # {} \/ K = {} => Lone(C, L, {}, {})
    BY <1>3, LoneGiven
  <2>2. CASE x \notin M
    <3> HIDE DEF L
    <3> QED
      BY <1>3, <2>1, <2>2 DEF Lone, L
  <2>3. CASE x \in M
    <3>1. W # {} \/ U # {}
      BY <1>3, <2>3
    <3>2. V = {} /\ R = {}
      BY <1>3, <2>3 DEF Lone
    <3> HIDE DEF L
    <3> QED
      BY <2>1, <3>1, <3>2 DEF L
  <2> QED
    BY <2>2, <2>3
<1>4. ASSUME NEW x \in DOMAIN B, NEW y, C = BagAdd(BagRemove(B, x), y), V \subseteq W,
             y \in M => x \in M
      PROVE  Lone(C, Among(C, M), V, R)
  <2> DEFINE D == BagRemove(B, x)
             J == Among(D, M)
             L == Among(C, M)
  <2>1. /\ x \notin M => Lone(D, J, W, U)
        /\ x \in M => J = {} /\ W = {} /\ U = {}
    BY LoneTaken
  <2>2. D \in [DOMAIN D -> Nat \ {0}] /\ C = BagAdd(D, y)
    BY <1>4, Removed
  <2> HIDE DEF D
  <2>3. Lone(D, J, W, U)
    BY <2>1 DEF Lone
  <2>4. /\ y \notin M => Lone(C, L, W, U)
        /\ W # {} \/ U # {} \/ J = {} => Lone(C, L, {}, {})
    BY <2>2, <2>3, LoneGiven
  <2> HIDE DEF J, L
  <2>5. Lone(C, L, W, U)
    BY <1>4, <2>1, <2>4
  <2> QED
    BY <1>4, <2>5 DEF Lone, L
<1> QED
  BY <1>1, <1>2, <1>3, <1>4

\* How a batch of r changes place: not at all, from the queue to a process,
\* from a process to the queue, from the queue to the queue.
HandsOver(r) ==
    \/ UNCHANGED queue /\ HoldersOf(r)' \subseteq HoldersOf(r)
    \/ \E x \in DOMAIN queue, w \in Workers :
          /\ queue' = BagRemove(queue, x)
          /\ HoldersOf(r)' \subseteq HoldersOf(r) \union {w}
          /\ r \notin x.ids => HoldersOf(r)' \subseteq HoldersOf(r)
    \/ \E x : /\ queue' = BagAdd(queue, x) /\ Fit(x)
              /\ HoldersOf(r)' \subseteq HoldersOf(r)
              /\ r \in x.ids => \E w \in HoldersOf(r) : w \notin HoldersOf(r)'
    \/ \E x \in DOMAIN queue : \E y :
          /\ queue' = BagAdd(BagRemove(queue, x), y) /\ Fit(y)
          /\ HoldersOf(r)' \subseteq HoldersOf(r)
          /\ r \in y.ids => r \in x.ids

None(r) == BatchesOf(r) = {} /\ HoldersOf(r) = {}
One(r) == Lone(queue, BatchesOf(r), HoldersOf(r), {})

LEMMA HandedOver ==
    ASSUME TypeOK, NEW r \in Recipients, HandsOver(r)
    PROVE  (None(r) => None(r)') /\ (One(r) => One(r)')
<1> DEFINE M == {t \in TaskRow : r \in t.ids}
           W == HoldersOf(r)
           V == {w \in Workers : r \in worker'[w].task.ids}
<1>1. V = HoldersOf(r)' /\ BatchesOf(r)' = {t \in DOMAIN queue' : r \in t.ids}
  BY DEF HoldersOf, BatchesOf
<1>2. QueueOK(queue) /\ QueueOK(queue')
  <2>1. QueueOK(queue)
    BY Typed
  <2>2. \A x \in DOMAIN queue : QueueOK(BagRemove(queue, x))
    BY <2>1, QueueChanges
  <2> QED
    BY <2>1, <2>2, QueueChanges DEF HandsOver
<1>3. /\ BatchesOf(r) = Among(queue, M)
      /\ BatchesOf(r)' = Among(queue', M)
  BY <1>1, <1>2 DEF BatchesOf, QueueOK, Fit, Among
<1>4. One(r) => One(r)'
  <2> SUFFICES ASSUME One(r) PROVE Lone(queue', BatchesOf(r)', V, {})
    BY <1>1 DEF One, Lone
  <2>1. Lone(queue, Among(queue, M), W, {}) /\ queue \in [DOMAIN queue -> Nat \ {0}]
    BY <1>2, <1>3 DEF One, QueueOK
  <2>2. \A x \in DOMAIN queue : x \in M <=> r \in x.ids
    BY <1>2 DEF QueueOK, Fit
  <2>3. \A x : Fit(x) => (x \in M <=> r \in x.ids)
    BY DEF Fit
  <2> HIDE DEF M, W, V
  <2>4. \/ queue' = queue /\ V \subseteq W
        \/ \E x \in DOMAIN queue : \E w : /\ queue' = BagRemove(queue, x)
                                          /\ IF x \in M THEN V \subseteq W \union {w} ELSE V \subseteq W
        \/ \E x : /\ queue' = BagAdd(queue, x) /\ V \subseteq W
                  /\ x \in M => (\E w \in W : w \notin V) \/ (\E u \in {} : u \notin {})
        \/ \E x \in DOMAIN queue : \E y : /\ queue' = BagAdd(BagRemove(queue, x), y) /\ V \subseteq W
                                          /\ y \in M => x \in M
    BY <1>1, <2>2, <2>3 DEF HandsOver, W
  <2>5. Lone(queue', Among(queue', M), V, {})
    BY <2>1, <2>4, LoneMoves
  <2> QED
    BY <1>3, <2>5
<1>5. None(r) => None(r)'
  <2> SUFFICES ASSUME None(r) PROVE None(r)'
    OBVIOUS
  <2>1. \A x \in DOMAIN queue : r \notin x.ids
    BY DEF None, BatchesOf
  <2>2. \A x \in DOMAIN queue : QueueOK(BagRemove(queue, x)) /\ DOMAIN BagRemove(queue, x) \subseteq DOMAIN queue
    BY <1>2, QueueChanges, QueueDomains
  <2>3. V = {} /\ \A x \in DOMAIN queue' : r \notin x.ids
    <3>1. HoldersOf(r) = {}
      BY DEF None
    <3>2. CASE UNCHANGED queue /\ HoldersOf(r)' \subseteq HoldersOf(r)
      BY <1>1, <2>1, <3>1, <3>2
    <3>3. ASSUME NEW x \in DOMAIN queue, queue' = BagRemove(queue, x), HoldersOf(r)' \subseteq HoldersOf(r)
          PROVE  V = {} /\ \A t \in DOMAIN queue' : r \notin t.ids
      BY <1>1, <2>1, <2>2, <3>1, <3>3
    <3>4. ASSUME NEW x, queue' = BagAdd(queue, x), r \notin x.ids, HoldersOf(r)' \subseteq HoldersOf(r)
          PROVE  V = {} /\ \A t \in DOMAIN queue' : r \notin t.ids
      <4>1. DOMAIN queue' = DOMAIN queue \union {x}
        BY <1>2, <3>4, QueueDomains
      <4> QED
        BY <1>1, <2>1, <3>1, <3>4, <4>1
    <3>5. ASSUME NEW x \in DOMAIN queue, NEW y, queue' = BagAdd(BagRemove(queue, x), y), r \notin y.ids,
                 HoldersOf(r)' \subseteq HoldersOf(r)
          PROVE  V = {} /\ \A t \in DOMAIN queue' : r \notin t.ids
      <4>1. DOMAIN queue' = DOMAIN BagRemove(queue, x) \union {y}
        BY <2>2, <3>5, QueueDomains
      <4> QED
        BY <1>1, <2>1, <2>2, <3>1, <3>5, <4>1
    <3> QED
      BY <2>1, <3>1, <3>2, <3>3, <3>4, <3>5 DEF HandsOver
  <2> QED
    BY <1>1, <2>3 DEF None
<1> QED
  BY <1>4, <1>5

LEMMA HoldersStep ==
    ASSUME TypeOK, NEW w \in Workers, NEW p, NEW r,
           UNCHANGED worker \/ worker' = [worker EXCEPT ![w] = p]
    PROVE  /\ HoldersOf(r)' \subseteq HoldersOf(r) \union {w}
           /\ r \notin p.task.ids \/ r \in worker[w].task.ids => HoldersOf(r)' \subseteq HoldersOf(r)
           /\ worker' = [worker EXCEPT ![w] = p] /\ r \notin p.task.ids => w \notin HoldersOf(r)'
BY Typed DEF HoldersOf

\* Nothing happens to the batches of r when the queue and the tasks stay as they are.
LEMMA TasksKept ==
    ASSUME TypeOK, NEW r \in Recipients, UNCHANGED queue,
           \/ UNCHANGED worker
           \/ \E w \in Workers : \E p : /\ worker' = [worker EXCEPT ![w] = p]
                                        /\ p.task = worker[w].task \/ p.task.ids = {}
    PROVE  HandsOver(r)
<1>1. CASE UNCHANGED worker
  BY <1>1 DEF HandsOver, HoldersOf
<1>2. ASSUME NEW w \in Workers, NEW p, worker' = [worker EXCEPT ![w] = p],
             p.task = worker[w].task \/ p.task.ids = {}
      PROVE  HoldersOf(r)' \subseteq HoldersOf(r)
  BY <1>2, HoldersStep
<1> QED
  BY <1>1, <1>2 DEF HandsOver

\* Nothing either when a task that is no batch is published.
LEMMA OtherPublished ==
    ASSUME TypeOK, NEW r \in Recipients, NEW t, Fit(t), r \notin t.ids, Publish(t),
           \/ UNCHANGED worker
           \/ \E w \in Workers : \E p : /\ worker' = [worker EXCEPT ![w] = p]
                                        /\ p.task = worker[w].task \/ p.task.ids = {}
    PROVE  HandsOver(r)
<1>1. CASE UNCHANGED worker
  BY <1>1 DEF HandsOver, HoldersOf, Publish
<1>2. ASSUME NEW w \in Workers, NEW p, worker' = [worker EXCEPT ![w] = p],
             p.task = worker[w].task \/ p.task.ids = {}
      PROVE  HoldersOf(r)' \subseteq HoldersOf(r)
  BY <1>2, HoldersStep
<1> QED
  BY <1>1, <1>2 DEF HandsOver, Publish

\* A task goes back to the queue, with some of its recipients or without.
LEMMA TaskReturned ==
    ASSUME TypeOK, NEW r \in Recipients, NEW w \in Workers, NEW t, Fit(t), Publish(t), Done(w),
           t.ids \subseteq worker[w].task.ids
    PROVE  HandsOver(r)
<1>1. worker' = [worker EXCEPT ![w] = Idle] /\ r \notin Idle.task.ids
  BY DEF Done, Idle, TickTask, Task
<1>2. HoldersOf(r)' \subseteq HoldersOf(r) /\ w \notin HoldersOf(r)'
  BY <1>1, HoldersStep
<1>3. r \in t.ids => w \in HoldersOf(r)
  BY DEF HoldersOf
<1> QED
  BY <1>2, <1>3 DEF HandsOver, Publish

LEMMA TaskRetried ==
    ASSUME TypeOK, NEW r \in Recipients, NEW w \in Workers,
           NEW t \in DOMAIN queue, t.kind \in {"dispatch", "batch", "poll"},
           NEW ids \in SUBSET t.ids,
           NEW max, max = MaxTries(t.kind),
           Retry(BagRemove(queue, t), t, ids, max), UNCHANGED worker
    PROVE  HandsOver(r)
<1>1. Fit(t) /\ ids \in SUBSET Recipients /\ HoldersOf(r)' = HoldersOf(r)
  BY Typed DEF QueueOK, Fit, TaskRow, HoldersOf
<1>2. CASE t.tries < max
  <2> DEFINE y == Task(t.kind, ids, t.tries + 1)
  <2>1. Fit(y)
    BY <1>1, <1>2, RetryFits
  <2>2. queue' = BagAdd(BagRemove(queue, t), y) /\ y.ids = ids
    BY <1>2 DEF Retry, Task
  <2> HIDE DEF y
  <2> QED
    BY <1>1, <2>1, <2>2 DEF HandsOver
<1>3. CASE ~(t.tries < max)
  <2>1. queue' = BagRemove(queue, t)
    BY <1>3 DEF Retry
  <2> QED
    BY <1>1, <2>1 DEF HandsOver
<1> QED
  BY <1>2, <1>3

\* A page of the dispatch gives its recipients out.
GivesOut(r) == \E ids \in SUBSET Recipients :
    /\ r \in ids
    /\ queue' = BagAdd(queue, Task("batch", ids, 0))
    /\ handed'[r] = IF handed[r] = 0 THEN 1 ELSE 2
    /\ HoldersOf(r)' \subseteq HoldersOf(r)
    /\ UNCHANGED msgs

LEMMA DispatchHands ==
    ASSUME TypeOK, StepsAreSound, NEW r \in Recipients, NEW w \in Workers,
           \/ DispatchLock(w) \/ DispatchLoad(w) \/ DispatchMark(w) \/ DispatchPage(w)
           \/ DispatchEnd(w)
    PROVE  (HandsOver(r) /\ handed'[r] = handed[r]) \/ GivesOut(r)
<1>1. CASE DispatchLock(w)
  <2>1. PICK t \in DOMAIN queue :
          /\ t.kind = "dispatch" /\ queue' = BagRemove(queue, t)
          /\ UNCHANGED worker \/ worker' = [worker EXCEPT ![w] = Holding(t, "load")]
    BY <1>1 DEF DispatchLock, Takes
  <2>2. r \notin t.ids
    BY <2>1 DEF StepsAreSound
  <2>3. r \notin Holding(t, "load").task.ids
    BY <2>2 DEF Holding, Idle
  <2>4. HoldersOf(r)' \subseteq HoldersOf(r)
    BY <2>1, <2>3, HoldersStep
  <2> QED
    BY <1>1, <2>1, <2>2, <2>4 DEF HandsOver, DispatchLock, sends
<1>2. CASE DispatchLoad(w) \/ DispatchMark(w)
  <2>1. \E p : /\ worker' = [worker EXCEPT ![w] = p]
               /\ p.task = worker[w].task \/ p.task.ids = {}
    <3>1. \/ worker' = [worker EXCEPT ![w] = Idle]
          \/ \E pc \in {"mark", "page"} : worker' = [worker EXCEPT ![w] = [worker[w] EXCEPT !.pc = pc]]
      BY <1>2 DEF DispatchLoad, DispatchMark, Goto, Done
    <3>2. /\ Idle.task.ids = {}
          /\ \A pc \in {"mark", "page"} : [worker[w] EXCEPT !.pc = pc].task = worker[w].task
      BY Typed DEF Idle, TickTask, Task, Process
    <3> QED
      BY <3>1, <3>2
  <2>2. UNCHANGED <<queue, handed>>
    BY <1>2 DEF DispatchLoad, DispatchMark, sends
  <2> QED
    BY <2>1, <2>2, TasksKept
<1>3. CASE DispatchPage(w)
  <2>1. PICK ids \in Page(worker[w].at) :
          /\ Publish(Task("batch", ids, 0))
          /\ handed' = GivenOut(ids)
          /\ worker' = [worker EXCEPT ![w].at = @ + Batch]
          /\ UNCHANGED msgs
    BY <1>3 DEF DispatchPage
  <2>2. ids \in SUBSET Recipients
    BY DEF Page, Pending
  <2> DEFINE t == Task("batch", ids, 0)
             p == [worker[w] EXCEPT !.at = @ + Batch]
  <2>3. Fit(t) /\ t.ids = ids
    BY <2>2, Bounds DEF Fit, TaskRow, Task
  <2>4. worker' = [worker EXCEPT ![w] = p] /\ p.task = worker[w].task
    BY <2>1, Typed DEF Process
  <2> HIDE DEF t, p
  <2>5. CASE r \in ids
    <3>1. handed'[r] = IF handed[r] = 0 THEN 1 ELSE 2
      BY <2>1, <2>5, GivenOutTyped
    <3>2. HoldersOf(r)' \subseteq HoldersOf(r)
      BY <2>4, HoldersStep
    <3> QED
      BY <2>1, <2>2, <2>5, <3>1, <3>2 DEF GivesOut, Publish
  <2>6. CASE r \notin ids
    <3>1. Publish(t)
      BY <2>1 DEF t
    <3> QED
      BY <2>1, <2>3, <2>4, <2>6, <3>1, OtherPublished, GivenOutTyped
  <2> QED
    BY <2>5, <2>6
<1>4. CASE DispatchEnd(w)
  <2> DEFINE t == Task("poll", {}, 0)
  <2>1. Fit(t) /\ t.ids \subseteq worker[w].task.ids
    BY Bounds DEF Fit, TaskRow, Task
  <2>2. Publish(t) /\ Done(w) /\ UNCHANGED handed
    BY <1>4 DEF DispatchEnd, sends
  <2> HIDE DEF t
  <2> QED
    BY <2>1, <2>2, TaskReturned
<1> QED
  BY <1>1, <1>2, <1>3, <1>4

LEMMA BatchHands ==
    ASSUME TypeOK, StepsAreSound, NEW r \in Recipients, NEW w \in Workers,
           \/ Deferred(w) \/ BatchStart(w) \/ BatchThrottled(w) \/ BatchNext(w)
           \/ BatchSend(w) \/ BatchEnd(w) \/ SendFails(w)
    PROVE  HandsOver(r) /\ UNCHANGED handed
<1>1. UNCHANGED handed
  BY DEF Deferred, DispatchDeferred, BatchDeferred, BatchStart, BatchThrottled, BatchNext, BatchSend, BatchEnd, SendFails, sends
<1>2. CASE Deferred(w)
  <2>1. PICK t \in DOMAIN queue :
          t.kind \in {"dispatch", "batch"} /\ Retry(BagRemove(queue, t), t, t.ids, MaxTries(t.kind)) /\ UNCHANGED worker
    BY <1>2 DEF Deferred, DispatchDeferred, BatchDeferred, MaxTries
  <2> QED
    BY <1>1, <2>1, TaskRetried
<1>3. CASE BatchStart(w)
  <2>1. PICK t \in DOMAIN queue :
          /\ queue' = BagRemove(queue, t)
          /\ UNCHANGED worker \/ worker' = [worker EXCEPT ![w] = Holding(t, "next")]
    BY <1>3 DEF BatchStart, Takes
  <2>2. Holding(t, "next").task = t
    BY DEF Holding, Idle
  <2>3. /\ HoldersOf(r)' \subseteq HoldersOf(r) \union {w}
        /\ r \notin t.ids => HoldersOf(r)' \subseteq HoldersOf(r)
    BY <2>1, <2>2, HoldersStep
  <2> QED
    BY <1>1, <2>1, <2>3 DEF HandsOver
<1>4. CASE BatchThrottled(w)
  <2>1. /\ worker[w].task.kind = "batch"
        /\ Retry(queue, worker[w].task, worker[w].left, MaxBatchTries) /\ Done(w)
    BY <1>4 DEF BatchThrottled, StepsAreSound, AtStep
  <2>2. worker[w] \in Process /\ worker[w].left \subseteq worker[w].task.ids
    BY Typed
  <2>3. CASE worker[w].task.tries < MaxBatchTries
    <3> DEFINE t == Task("batch", worker[w].left, worker[w].task.tries + 1)
    <3>1. Fit(t) /\ t.ids = worker[w].left
      BY <2>2, <2>3, Bounds DEF Fit, TaskRow, Task, Process, MaxTries
    <3>2. Publish(t)
      BY <2>1, <2>3 DEF Retry, Publish
    <3> HIDE DEF t
    <3> QED
      BY <1>1, <2>1, <2>2, <3>1, <3>2, TaskReturned
  <2>4. CASE ~(worker[w].task.tries < MaxBatchTries)
    <3>1. UNCHANGED queue
      BY <2>1, <2>4 DEF Retry
    <3>2. worker' = [worker EXCEPT ![w] = Idle] /\ Idle.task.ids = {}
      BY <2>1 DEF Done, Idle, TickTask, Task
    <3> QED
      BY <1>1, <3>1, <3>2, TasksKept
  <2> QED
    BY <2>3, <2>4
<1>5. CASE BatchNext(w) \/ BatchSend(w) \/ BatchEnd(w) \/ SendFails(w)
  <2>1. \E p : /\ worker' = [worker EXCEPT ![w] = p]
               /\ p.task = worker[w].task \/ p.task.ids = {}
    <3> DEFINE q == Min(worker[w].left)
    <3>1. \/ worker' = [worker EXCEPT ![w] = Idle]
          \/ worker' = [worker EXCEPT ![w] = [worker[w] EXCEPT !.pc = "send"]]
          \/ worker' = [worker EXCEPT ![w] = [worker[w] EXCEPT !.left = @ \ {q}]]
          \/ worker' = [worker EXCEPT ![w] = [worker[w] EXCEPT !.pc = "next", !.left = @ \ {q}]]
      <4>1. CASE BatchSend(w) \/ SendFails(w)
        BY <4>1, Typed DEF BatchSend, SendFails
      <4>2. CASE BatchNext(w) \/ BatchEnd(w)
        BY <4>2 DEF BatchNext, BatchEnd, Goto, Done
      <4> QED
        BY <1>5, <4>1, <4>2
    <3> HIDE DEF q
    <3>2. /\ Idle.task.ids = {}
          /\ [worker[w] EXCEPT !.pc = "send"].task = worker[w].task
          /\ [worker[w] EXCEPT !.left = @ \ {q}].task = worker[w].task
          /\ [worker[w] EXCEPT !.pc = "next", !.left = @ \ {q}].task = worker[w].task
      BY Typed DEF Idle, TickTask, Task, Process
    <3> QED
      BY <3>1, <3>2
  <2>2. UNCHANGED queue
    BY <1>5 DEF BatchNext, BatchSend, BatchEnd, SendFails
  <2> QED
    BY <1>1, <2>1, <2>2, TasksKept
<1> QED
  BY <1>2, <1>3, <1>4, <1>5

LEMMA PollHands ==
    ASSUME TypeOK, StepsAreSound, NEW r \in Recipients, NEW w \in Workers,
           \/ Poll(w) \/ Finish(w) \/ Tick(w) \/ TickQueue(w) \/ TickPublish(w)
           \/ WorkerDies(w) \/ TaskFails(w)
    PROVE  HandsOver(r) /\ UNCHANGED handed
<1>1. UNCHANGED handed
  BY DEF Poll, Finish, Tick, TickQueue, TickPublish, WorkerDies, TaskFails, sends
<1>2. CASE Poll(w)
  <2>1. PICK t \in DOMAIN queue :
          /\ t.kind = "poll"
          /\ \/ Retry(BagRemove(queue, t), t, {}, MaxPolls) /\ UNCHANGED worker
             \/ /\ queue' = BagRemove(queue, t)
                /\ \/ UNCHANGED worker
                   \/ worker' = [worker EXCEPT ![w] = [Holding(t, "finish") EXCEPT !.saw = Outcome]]
    BY <1>2 DEF Poll, Takes
  <2>2. CASE Retry(BagRemove(queue, t), t, {}, MaxPolls) /\ UNCHANGED worker
    <3>1. MaxPolls = MaxTries(t.kind)
      BY <2>1 DEF MaxTries
    <3> QED
      BY <1>1, <2>1, <2>2, <3>1, TaskRetried
  <2>3. CASE queue' = BagRemove(queue, t) /\ UNCHANGED worker
    <3>1. HoldersOf(r)' = HoldersOf(r)
      BY <2>3 DEF HoldersOf
    <3> QED
      BY <1>1, <2>3, <3>1 DEF HandsOver
  <2>4. CASE /\ queue' = BagRemove(queue, t)
             /\ worker' = [worker EXCEPT ![w] = [Holding(t, "finish") EXCEPT !.saw = Outcome]]
    <3> DEFINE p == [Holding(t, "finish") EXCEPT !.saw = Outcome]
    <3>1. t.ids = {} /\ p.task = t /\ worker' = [worker EXCEPT ![w] = p]
      BY <2>1, <2>4 DEF StepsAreSound, Holding, Idle
    <3> HIDE DEF p
    <3>2. HoldersOf(r)' \subseteq HoldersOf(r)
      BY <3>1, HoldersStep
    <3> QED
      BY <1>1, <2>4, <3>2 DEF HandsOver
  <2> QED
    BY <2>1, <2>2, <2>3, <2>4
<1>3. CASE Finish(w) \/ Tick(w) \/ TickQueue(w) \/ TaskFails(w)
  <2>1. \E p : /\ worker' = [worker EXCEPT ![w] = p]
               /\ p.task = worker[w].task \/ p.task.ids = {}
    <3>1. \/ worker' = [worker EXCEPT ![w] = Idle]
          \/ worker' = [worker EXCEPT ![w] = [Idle EXCEPT !.pc = "queue", !.saw = status]]
          \/ worker' = [worker EXCEPT ![w] = [worker[w] EXCEPT !.pc = "publish"]]
      BY <1>3 DEF Finish, Tick, TickQueue, TaskFails, Goto, Done
    <3>2. /\ Idle.task.ids = {}
          /\ [Idle EXCEPT !.pc = "queue", !.saw = status].task = Idle.task
          /\ [worker[w] EXCEPT !.pc = "publish"].task = worker[w].task
      BY Typed DEF Idle, TickTask, Task, Process
    <3> QED
      BY <3>1, <3>2
  <2>2. UNCHANGED queue
    BY <1>3 DEF Finish, Tick, TickQueue, TaskFails
  <2> QED
    BY <1>1, <2>1, <2>2, TasksKept
<1>4. CASE TickPublish(w)
  <2>1. Publish(DispatchTask) /\ Done(w) /\ Fit(DispatchTask) /\ DispatchTask.ids \subseteq worker[w].task.ids
    BY <1>4, IdleTyped DEF TickPublish, DispatchTask, Task
  <2> QED
    BY <1>1, <2>1, TaskReturned
<1>5. CASE WorkerDies(w)
  <2>1. Fit(worker[w].task)
    <3>1. worker[w] \in Process /\ AtStep(worker[w])
      BY Typed DEF StepsAreSound
    <3>2. worker[w].task.kind \in {"dispatch", "batch", "poll"}
      BY <1>5, <3>1 DEF WorkerDies, AtStep, Process, Steps, DispatchTask, Task
    <3> QED
      BY <3>1, <3>2 DEF Fit, TaskRow, Process, AtStep
  <2>2. Publish(worker[w].task) /\ Done(w)
    BY <1>5 DEF WorkerDies
  <2> QED
    BY <1>1, <2>1, <2>2, TaskReturned
<1> QED
  BY <1>2, <1>3, <1>4, <1>5

\* A second delivery leaves a recipient of other batches alone, and is counted
\* for its own.
LEMMA TwiceHands ==
    ASSUME TypeOK, NEW w \in Workers, DeferredTwice(w), NEW r \in Recipients
    PROVE  \/ /\ handed'[r] = handed[r]
              /\ (None(r) => None(r)') /\ (One(r) => One(r)')
           \/ BatchesOf(r) # {} /\ handed'[r] = (IF handed[r] = 0 THEN 1 ELSE 2)
<1>1. PICK t, y : Twice(t, y)
  BY DeferredTasks
<1>2. CASE r \in t.ids
  BY <1>1, <1>2, GivenOutTyped DEF Twice, BatchesOf
<1>3. CASE r \notin t.ids
  <2> DEFINE M == {x \in TaskRow : r \in x.ids}
             D == BagAdd(BagRemove(queue, t), y)
             W == HoldersOf(r)
  <2>1. /\ QueueOK(queue) /\ QueueOK(D) /\ QueueOK(queue') /\ t \in DOMAIN queue
        /\ t \notin M /\ y \notin M /\ r \notin y.ids
        /\ DOMAIN queue' \subseteq DOMAIN queue \union {y}
    BY <1>1, <1>3, Typed, TwicePut DEF Twice
  <2>2. handed'[r] = handed[r] /\ HoldersOf(r)' = W /\ queue' = BagAdd(D, y)
    BY <1>1, <1>3, GivenOutTyped DEF Twice, HoldersOf
  <2>3. /\ BatchesOf(r) = Among(queue, M)
        /\ BatchesOf(r)' = Among(queue', M)
    BY <2>1 DEF BatchesOf, QueueOK, Fit, Among
  <2>4. ASSUME None(r) PROVE None(r)'
    <3>1. \A x \in DOMAIN queue' : r \notin x.ids
      BY <2>1, <2>4 DEF None, BatchesOf
    <3> QED
      BY <2>2, <2>4, <3>1 DEF None, BatchesOf
  <2>5. ASSUME One(r) PROVE One(r)'
    <3>1. Lone(queue, Among(queue, M), W, {})
      BY <2>3, <2>5 DEF One
    <3> HIDE DEF M, W
    <3>2. Lone(D, Among(D, M), W, {})
      BY <2>1, <3>1, LoneMoves DEF QueueOK
    <3> HIDE DEF D
    <3>3. Lone(queue', Among(queue', M), W, {})
      BY <2>1, <2>2, <3>2, LoneMoves DEF QueueOK
    <3> QED
      BY <2>2, <2>3, <3>3 DEF One
  <2> QED
    BY <2>2, <2>4, <2>5
<1> QED
  BY <1>2, <1>3

LEMMA BatchMoves ==
    ASSUME TypeOK, StepsAreSound, [Next]_vars, NEW r \in Recipients
    PROVE  \/ HandsOver(r) /\ handed'[r] = handed[r]
           \/ GivesOut(r)
           \/ \E w \in Workers : DeferredTwice(w)
<1>1. CASE UNCHANGED <<queue, worker, handed>>
  BY <1>1, TasksKept
<1>2. ASSUME NEW u \in Users, Receive(u) \/ Answer(u) \/ RequestDies(u)
      PROVE  HandsOver(r) /\ handed'[r] = handed[r]
  <2>1. CASE LaunchPublish(u)
    <3>1. Publish(DispatchTask) /\ UNCHANGED <<worker, handed>> /\ r \notin DispatchTask.ids
      BY <2>1 DEF LaunchPublish, sends, DispatchTask, Task
    <3> QED
      BY <3>1, IdleTyped, OtherPublished
  <2>2. CASE Receive(u) \/ Validate(u) \/ Launch(u) \/ Cancel(u) \/ RequestDies(u)
    BY <1>1, <2>2, TasksKept DEF Receive, Validate, Launch, Cancel, RequestDies, sends
  <2> QED
    BY <1>2, <2>1, <2>2 DEF Answer
<1>3. CASE DeliveryFails \/ KeyExpires
  BY <1>1, <1>3 DEF DeliveryFails, KeyExpires, sends
<1> QED
  BY <1>1, <1>2, <1>3, DispatchHands, BatchHands, PollHands DEF Next, Work, Deferred, vars, sends

\* What a recipient that was given out once has been sent.
SentOnce(r) == msgs[r] <= 1 /\ (msgs[r] = 1 => SendingTo({r}) = {})

LEMMA SentOnceAgain ==
    ASSUME TypeOK, StepsAreSound, WaitingAreNew, [Next]_vars, NEW r \in Recipients
    PROVE  /\ HoldersOf(r) = {} => msgs'[r] = msgs[r]
           /\ One(r) /\ SentOnce(r) => SentOnce(r)'
<1> DEFINE S == {v \in Workers : worker'[v].pc = "send" /\ Min(worker'[v].left) \in {r}}
           T == SendingTo({r})
<1>1. SentOnce(r)' <=> msgs'[r] <= 1 /\ (msgs'[r] = 1 => S = {})
  BY DEF SentOnce, SendingTo
<1>2. \A v \in T : v \in HoldersOf(r)
  <2> SUFFICES ASSUME NEW v \in T PROVE r \in worker[v].task.ids
    BY DEF HoldersOf, SendingTo
  <2>1. /\ worker[v].left # {} /\ worker[v].left \in SUBSET Recipients
        /\ worker[v].left \subseteq worker[v].task.ids /\ Min(worker[v].left) = r
    BY Typed DEF SendingTo, StepsAreSound, AtStep, Process
  <2> QED
    BY <2>1, NextRecipient
<1>3. msgs[r] \in Nat
  BY Typed
<1>4. CASE msgs'[r] = msgs[r] /\ S \subseteq T
  BY <1>1, <1>4 DEF SentOnce
<1>5. CASE Quiet \/ Withdraws
  <2>1. CASE UNCHANGED worker
    BY <1>4, <1>5, <2>1 DEF Quiet, Withdraws, SendingTo
  <2>2. ASSUME NEW w \in Workers, worker'[w].pc # "send", \A v \in Workers \ {w} : worker'[v] = worker[v]
        PROVE  S \subseteq T
    BY <2>2 DEF SendingTo
  <2>3. msgs' = msgs
    BY <1>5 DEF Quiet, Withdraws
  <2> HIDE DEF S, T
  <2> QED
    BY <1>4, <1>5, <2>1, <2>2, <2>3 DEF Quiet, Withdraws
<1>6. ASSUME NEW w \in Workers, NEW q \in Recipients, Looks(w, q)
      PROVE  msgs'[r] = msgs[r] /\ (msgs[r] = 1 => S \subseteq T)
  <2>1. /\ \A v \in Workers \ {w} : worker'[v] = worker[v]
        /\ worker'[w].left = worker[w].left
    BY <1>6, Typed DEF Looks, Process
  <2>2. msgs' = msgs
    BY <1>6 DEF Looks
  <2>3. CASE q = r
    BY <1>6, <2>2, <2>3 DEF Looks, WaitingAreNew, Waiting
  <2>4. CASE q # r
    BY <1>6, <2>1, <2>2, <2>4 DEF Looks, SendingTo
  <2> QED
    BY <2>3, <2>4
<1>7. ASSUME NEW w \in Workers, NEW q \in Recipients, NEW c \in {0, 1}, Sends(w, q, c)
      PROVE  \/ msgs'[r] = msgs[r] /\ S \subseteq T
             \/ w \in T /\ msgs'[r] = msgs[r] + c /\ S \subseteq T \ {w}
  <2>1. /\ \A v \in Workers \ {w} : worker'[v] = worker[v]
        /\ worker'[w].pc = "next"
    BY <1>7, Typed DEF Sends, Process
  <2>2. S \subseteq T \ {w}
    BY <2>1 DEF SendingTo
  <2>3. CASE q = r
    <3>1. w \in T /\ msgs'[r] = msgs[r] + c
      BY <1>7, <2>3, Typed DEF Sends, SendingTo
    <3> QED
      BY <2>2, <3>1
  <2>4. CASE q # r
    BY <1>7, <2>2, <2>4, Typed DEF Sends
  <2> QED
    BY <2>3, <2>4
<1> HIDE DEF S, T
<1>8. ASSUME NEW w \in T, NEW c \in {0, 1}, msgs'[r] = msgs[r] + c, S \subseteq T \ {w}
      PROVE  /\ HoldersOf(r) # {}
             /\ One(r) /\ SentOnce(r) => SentOnce(r)'
  <2>1. w \in HoldersOf(r)
    BY <1>2
  <2>2. ASSUME One(r), SentOnce(r) PROVE SentOnce(r)'
    <3>1. S = {}
      BY <1>2, <1>8, <2>2 DEF One, Lone
    <3>2. msgs[r] <= 1 /\ msgs[r] # 1
      BY <2>2 DEF SentOnce, T
    <3> QED
      BY <1>1, <1>3, <1>8, <3>1, <3>2
  <2> QED
    BY <2>1, <2>2
<1>9. msgs'[r] = msgs[r] /\ (msgs[r] = 1 => S \subseteq T) => (SentOnce(r) => SentOnce(r)')
  BY <1>1 DEF SentOnce, T
<1>10. CASE \E w \in Workers, q \in Recipients : Looks(w, q)
  BY <1>6, <1>9, <1>10
<1>11. CASE \E w \in Workers, q \in Recipients, c \in {0, 1} : Sends(w, q, c)
  BY <1>7, <1>8, <1>9, <1>11
<1>12. CASE Quiet \/ Withdraws
  <2>1. msgs' = msgs
    BY <1>12 DEF Quiet, Withdraws
  <2> QED
    BY <1>5, <1>12, <2>1
<1> QED
  BY <1>10, <1>11, <1>12, SendSteps

LEMMA GivenStep ==
    ASSUME TypeOK, StepsAreSound, WaitingAreNew, GivenOutOnce, [Next]_vars
    PROVE  GivenOutOnce'
<1> SUFFICES ASSUME NEW r \in Recipients
             PROVE  /\ handed'[r] = 0 => msgs'[r] = 0 /\ None(r)'
                    /\ handed'[r] = 1 => One(r)' /\ SentOnce(r)'
  BY DEF GivenOutOnce, None, One, SentOnce
<1>1. /\ handed[r] = 0 => msgs[r] = 0 /\ None(r)
      /\ handed[r] = 1 => One(r) /\ SentOnce(r)
  BY DEF GivenOutOnce, None, One, SentOnce
<1>2. /\ HoldersOf(r) = {} => msgs'[r] = msgs[r]
      /\ One(r) /\ SentOnce(r) => SentOnce(r)'
  BY SentOnceAgain
<1>3. CASE HandsOver(r) /\ handed'[r] = handed[r]
  <2>1. (None(r) => None(r)') /\ (One(r) => One(r)')
    BY <1>3, HandedOver
  <2> QED
    BY <1>1, <1>2, <1>3, <2>1 DEF None
<1>4. CASE GivesOut(r)
  <2>1. PICK ids \in SUBSET Recipients :
          /\ r \in ids /\ queue' = BagAdd(queue, Task("batch", ids, 0))
          /\ handed'[r] = IF handed[r] = 0 THEN 1 ELSE 2
          /\ HoldersOf(r)' \subseteq HoldersOf(r) /\ UNCHANGED msgs
    BY <1>4 DEF GivesOut
  <2>2. SUFFICES ASSUME handed[r] = 0, None(r), msgs'[r] = 0, handed'[r] = 1
                 PROVE  One(r)' /\ SentOnce(r)'
    BY <1>1, <2>1
  <2> DEFINE t == Task("batch", ids, 0)
  <2>3. r \in t.ids
    BY <2>1 DEF Task
  <2> HIDE DEF t
  <2>4. t \notin DOMAIN queue /\ QueueOK(queue)
    BY <2>2, <2>3, Typed DEF None, BatchesOf
  <2>5. DOMAIN queue' = DOMAIN queue \union {t} /\ queue'[t] = 1
    BY <2>1, <2>4, Added DEF QueueOK, t
  <2>6. BatchesOf(r)' = {t} /\ HoldersOf(r)' = {}
    <3>1. \A x \in DOMAIN queue : r \notin x.ids
      BY <2>2 DEF None, BatchesOf
    <3>2. {x \in DOMAIN queue' : r \in x.ids} = {t}
      BY <2>3, <2>5, <3>1
    <3> QED
      BY <2>1, <2>2, <3>2 DEF None, BatchesOf
  <2> QED
    BY <2>2, <2>5, <2>6 DEF One, Lone, SentOnce
<1>5. ASSUME NEW w \in Workers, DeferredTwice(w)
      PROVE  /\ handed'[r] = 0 => msgs'[r] = 0 /\ None(r)'
             /\ handed'[r] = 1 => One(r)' /\ SentOnce(r)'
  <2>1. CASE /\ handed'[r] = handed[r]
             /\ (None(r) => None(r)') /\ (One(r) => One(r)')
    BY <1>1, <1>2, <2>1 DEF None
  <2>2. CASE BatchesOf(r) # {} /\ handed'[r] = (IF handed[r] = 0 THEN 1 ELSE 2)
    BY <1>1, <2>2 DEF None
  <2> QED
    BY <1>5, <2>1, <2>2, TwiceHands
<1> QED
  BY <1>3, <1>4, <1>5, BatchMoves

-----------------------------------------------------------------------------
(* Recipients have their rows, and are done with when a campaign is completed *)

\* What a step does to the status of a recipient.
LEMMA RecipStep ==
    ASSUME TypeOK, StepsAreSound, [Next]_vars, NEW r \in Recipients
    PROVE  \/ recip'[r] = recip[r]
           \/ recip'[r] \in {"SENT", "FAILED"}
           \/ recip[r] = "NONE" /\ recip'[r] = "PENDING"
<1>1. ASSUME NEW u \in Users, Receive(u) \/ Answer(u) \/ RequestDies(u)
      PROVE  \/ recip'[r] = recip[r] \/ recip'[r] = "FAILED"
             \/ recip[r] = "NONE" /\ recip'[r] = "PENDING"
  <2>1. CASE Validate(u) \/ Cancel(u)
    BY <2>1, Typed DEF Validate, Cancel
  <2>2. CASE Receive(u) \/ Launch(u) \/ LaunchPublish(u) \/ RequestDies(u)
    BY <2>2 DEF Receive, Launch, LaunchPublish, RequestDies, row
  <2> QED
    BY <1>1, <2>1, <2>2 DEF Answer
<1>2. ASSUME NEW w \in Workers,
             \/ DispatchLock(w) \/ DispatchLoad(w) \/ DispatchMark(w) \/ DispatchPage(w)
             \/ DispatchEnd(w)
      PROVE  UNCHANGED recip
  BY <1>2 DEF DispatchLock, DispatchLoad, DispatchMark, DispatchPage, DispatchEnd, row
<1>3. ASSUME NEW w \in Workers, BatchStart(w) PROVE recip'[r] \in {recip[r], "FAILED"}
  BY <1>3, Typed DEF BatchStart
<1>4. ASSUME NEW w \in Workers, BatchSend(w) \/ SendFails(w)
      PROVE  recip'[r] \in {recip[r], "SENT", "FAILED"}
  <2> DEFINE q == Min(worker[w].left)
  <2>1. \E new \in {"SENT", "FAILED"} : recip' = [recip EXCEPT ![q] = new]
    BY <1>4 DEF BatchSend, SendFails
  <2> HIDE DEF q
  <2> QED
    BY <2>1, Typed
<1>5. ASSUME NEW w \in Workers,
             \/ Deferred(w) \/ BatchThrottled(w) \/ BatchNext(w) \/ BatchEnd(w)
             \/ Poll(w) \/ Finish(w)
      PROVE  UNCHANGED recip
  BY <1>5 DEF Deferred, DispatchDeferred, BatchDeferred, BatchThrottled, BatchNext, BatchEnd, Poll, Finish, row
<1>6. ASSUME NEW w \in Workers,
             \/ TickQueue(w) \/ TickPublish(w) \/ Tick(w) \/ WorkerDies(w) \/ TaskFails(w)
             \/ DeferredTwice(w)
      PROVE  UNCHANGED recip
  BY <1>6 DEF TickQueue, TickPublish, Tick, WorkerDies, TaskFails, DeferredTwice, row
<1>7. CASE DeliveryFails
  BY <1>7, Typed DEF DeliveryFails
<1>8. CASE KeyExpires \/ UNCHANGED vars
  BY <1>8 DEF KeyExpires, vars, row
<1> QED
  BY <1>1, <1>2, <1>3, <1>4, <1>5, <1>6, <1>7, <1>8 DEF Next, Work, Deferred

Placed == {"mark", "page", "queue", "publish", "finish"}
Completing == {w \in Workers : worker[w].pc = "finish" /\ worker[w].saw = "COMPLETED"}

\* It is enough to look at where a step adds to what is to be shown.
LEMMA DoneAgain ==
    ASSUME TypeOK, StepsAreSound, InsertedThenDone, [Next]_vars,
           status' \in {status, "DRAFT", "CANCELLED"} \/ AllInserted',
           \A u \in Users : request'[u].pc # "idle" /\ request'[u].op = "launch" =>
               (request[u].pc # "idle" /\ request[u].op = "launch") \/ AllInserted,
           \A w \in Workers : worker'[w].pc \in Placed => worker[w].pc \in Placed \/ AllInserted,
           status' = "COMPLETED" => EndsWith("COMPLETED"),
           \A w \in Workers : worker'[w].pc = "finish" /\ worker'[w].saw = "COMPLETED" =>
               EndsWith("COMPLETED") \/ Waiting = {}
    PROVE  InsertedThenDone'
<1>1. AllInserted => AllInserted'
  BY RecipStep DEF AllInserted
<1>2. Waiting = {} => Waiting' = {}
  BY RecipStep DEF Waiting
<1>3. /\ status' \notin {"DRAFT", "CANCELLED"} => AllInserted'
      /\ \A u \in Users : request'[u].pc # "idle" /\ request'[u].op = "launch" => AllInserted'
      /\ \A w \in Workers : worker'[w].pc \in Placed => AllInserted'
  BY <1>1 DEF InsertedThenDone, Placed
<1>4. EndsWith("COMPLETED")' => Waiting' = {}
  BY <1>2 DEF InsertedThenDone, EndsWith
<1> QED
  BY <1>3, <1>4 DEF InsertedThenDone, Placed

LEMMA DoneStep ==
    ASSUME TypeOK, StepsAreSound, InsertedThenDone, [Next]_vars
    PROVE  InsertedThenDone'
<1>1. CASE UNCHANGED <<status, request, worker>>
  BY <1>1, DoneAgain DEF EndsWith
<1>2. ASSUME NEW u \in Users, Receive(u) \/ Answer(u) \/ RequestDies(u)
      PROVE  InsertedThenDone'
  <2>1. UNCHANGED worker
    BY <1>2 DEF Receive, Answer, Validate, Launch, LaunchPublish, Cancel, RequestDies
  <2>2. status' \in {status, "DRAFT", "CANCELLED"} \/ AllInserted'
    <3>1. CASE Validate(u)
      BY <3>1 DEF Validate, AllInserted
    <3>2. CASE Launch(u)
      <4>1. AllInserted
        BY <3>2 DEF Launch, InsertedThenDone
      <4> QED
        BY <3>2, <4>1 DEF Launch, AllInserted
    <3>3. CASE Receive(u) \/ LaunchPublish(u) \/ Cancel(u) \/ RequestDies(u)
      BY <3>3 DEF Receive, LaunchPublish, Cancel, RequestDies, row, SetStatus
    <3> QED
      BY <1>2, <3>1, <3>2, <3>3 DEF Answer
  <2>3. ASSUME NEW v \in Users, request'[v].pc # "idle", request'[v].op = "launch"
        PROVE  (request[v].pc # "idle" /\ request[v].op = "launch") \/ AllInserted
    <3>1. CASE Receive(u)
      <4>1. PICK op \in DOMAIN Before :
              /\ request' = [request EXCEPT ![u] = [pc |-> "write", op |-> op, saw |-> status]]
              /\ status \in Before[op]
        BY <3>1 DEF Receive
      <4>2. CASE v = u
        <5>1. op = "launch"
          BY <2>3, <4>1, <4>2, Typed
        <5>2. status = "SCHEDULED"
          BY <4>1, <5>1 DEF Before
        <5> QED
          BY <5>2 DEF InsertedThenDone
      <4>3. CASE v # u
        BY <2>3, <4>1, <4>3, Typed
      <4> QED
        BY <4>2, <4>3
    <3>2. CASE Launch(u)
      BY <2>3, <3>2, Typed DEF Launch
    <3>3. CASE Validate(u) \/ LaunchPublish(u) \/ Cancel(u) \/ RequestDies(u)
      <4>1. request' = [request EXCEPT ![u] = NoRequest]
        BY <3>3 DEF Validate, LaunchPublish, Cancel, RequestDies
      <4> QED
        BY <2>3, <4>1, Typed DEF NoRequest
    <3> QED
      BY <1>2, <3>1, <3>2, <3>3 DEF Answer
  <2>4. status' = "COMPLETED" => status = "COMPLETED"
    BY <1>2 DEF Receive, Answer, Validate, Launch, LaunchPublish, Cancel, RequestDies, row, SetStatus
  <2> QED
    BY <2>1, <2>2, <2>3, <2>4, DoneAgain DEF EndsWith
<1>3. ASSUME NEW w \in Workers,
             Work(w) \/ Tick(w) \/ WorkerDies(w) \/ TaskFails(w) \/ SendFails(w)
      PROVE  InsertedThenDone'
  <2>1. UNCHANGED request
    BY <1>3 DEF Work, DispatchLock, DispatchLoad, DispatchMark, DispatchPage, DispatchEnd,
                Deferred, DispatchDeferred, BatchDeferred, BatchStart, BatchThrottled, BatchNext, BatchSend, BatchEnd,
                Poll, Finish, TickQueue, TickPublish, Tick, WorkerDies, TaskFails, SendFails
  <2>2. \/ status' = status
        \/ DispatchMark(w) /\ status' = "DISPATCHING"
        \/ TickQueue(w) /\ status' = "QUEUED"
        \/ Finish(w) /\ status' = worker[w].saw
    BY <1>3 DEF Work, DispatchLock, DispatchLoad, DispatchMark, DispatchPage, DispatchEnd,
                Deferred, DispatchDeferred, BatchDeferred, BatchStart, BatchThrottled, BatchNext, BatchSend, BatchEnd,
                Poll, Finish, TickQueue, TickPublish, Tick, WorkerDies, TaskFails, SendFails,
                row, SetStatus
  <2>3. status' \in {status, "DRAFT", "CANCELLED"} \/ AllInserted'
    <3>1. CASE worker[w].pc \in {"mark", "queue", "finish"}
      BY <3>1, RecipStep DEF InsertedThenDone, AllInserted
    <3> QED
      BY <2>2, <3>1 DEF DispatchMark, TickQueue, Finish
  <2>4. status' = "COMPLETED" => EndsWith("COMPLETED")
    BY <2>2 DEF EndsWith, Finish
  <2>5. \/ UNCHANGED worker
        \/ worker' = [worker EXCEPT ![w] = Idle]
        \/ \E t : \E pc \in {"load", "next"} : worker' = [worker EXCEPT ![w] = Holding(t, pc)]
        \/ \E pc \in {"mark", "page", "publish"} :
              /\ worker[w].pc \in Placed \/ status \in {"QUEUED", "DISPATCHING"}
              /\ worker' = [worker EXCEPT ![w].pc = pc]
        \/ worker[w].pc = "page" /\ worker' = [worker EXCEPT ![w].at = @ + Batch]
        \/ /\ worker[w].pc \in {"next", "send"}
           /\ \/ worker' = [worker EXCEPT ![w].pc = "send"]
              \/ worker' = [worker EXCEPT ![w].left = @ \ {Min(worker[w].left)}]
              \/ worker' = [worker EXCEPT ![w].pc = "next", ![w].left = @ \ {Min(worker[w].left)}]
        \/ /\ status = "DISPATCHING" /\ Pending = {}
           /\ \E t : worker' = [worker EXCEPT ![w] = [Holding(t, "finish") EXCEPT !.saw = Outcome]]
        \/ /\ status = "SCHEDULED"
           /\ worker' = [worker EXCEPT ![w] = [Idle EXCEPT !.pc = "queue", !.saw = status]]
    <3>1. CASE \/ DispatchLock(w) \/ DispatchLoad(w) \/ DispatchMark(w) \/ DispatchPage(w)
               \/ DispatchEnd(w)
      BY <3>1 DEF DispatchLock, DispatchLoad, DispatchMark, DispatchPage, DispatchEnd, Goto, Done, Placed
    <3>2. CASE \/ Deferred(w) \/ BatchStart(w) \/ BatchThrottled(w) \/ BatchNext(w)
               \/ BatchSend(w) \/ BatchEnd(w) \/ SendFails(w)
      BY <3>2 DEF Deferred, DispatchDeferred, BatchDeferred, BatchStart, BatchThrottled, BatchNext, BatchSend, BatchEnd, SendFails, Goto, Done
    <3>3. CASE \/ Poll(w) \/ Finish(w) \/ Tick(w) \/ TickQueue(w) \/ TickPublish(w)
               \/ WorkerDies(w) \/ TaskFails(w)
      BY <3>3 DEF Poll, Finish, Tick, TickQueue, TickPublish, WorkerDies, TaskFails, Goto, Done, Placed
    <3> QED
      BY <1>3, <3>1, <3>2, <3>3 DEF Work, Deferred
  <2>6. \A v \in Workers \ {w} : worker'[v] = worker[v]
    BY <2>5, Typed
  <2>7. \/ worker'[w].pc \notin Placed
        \/ worker[w].pc \in Placed /\ worker'[w].pc # "finish"
        \/ worker'[w] = worker[w]
        \/ status \in {"QUEUED", "DISPATCHING"} /\ worker'[w].pc # "finish"
        \/ status = "DISPATCHING" /\ Pending = {}
        \/ status = "SCHEDULED" /\ worker'[w].pc # "finish"
    <3>1. worker[w] \in Process
      BY Typed
    <3>2. CASE worker' = [worker EXCEPT ![w] = Idle]
      BY <3>2, Typed DEF Idle, Placed
    <3>3. ASSUME NEW t, NEW pc \in {"load", "next"}, worker' = [worker EXCEPT ![w] = Holding(t, pc)]
          PROVE  worker'[w].pc \notin Placed
      BY <3>3, Typed DEF Holding, Idle, Placed
    <3>4. ASSUME NEW pc \in {"mark", "page", "publish"}, worker' = [worker EXCEPT ![w].pc = pc]
          PROVE  worker'[w].pc # "finish"
      BY <3>1, <3>4, Typed DEF Process
    <3>5. CASE worker[w].pc = "page" /\ worker' = [worker EXCEPT ![w].at = @ + Batch]
      BY <3>1, <3>5, Typed DEF Process, Placed
    <3>6. CASE /\ worker[w].pc \in {"next", "send"}
               /\ \/ worker' = [worker EXCEPT ![w].pc = "send"]
                  \/ worker' = [worker EXCEPT ![w].left = @ \ {Min(worker[w].left)}]
                  \/ worker' = [worker EXCEPT ![w].pc = "next", ![w].left = @ \ {Min(worker[w].left)}]
      BY <3>1, <3>6, Typed DEF Process, Placed
    <3>7. CASE /\ status = "SCHEDULED"
               /\ worker' = [worker EXCEPT ![w] = [Idle EXCEPT !.pc = "queue", !.saw = status]]
      BY <3>7, Typed DEF Idle
    <3> QED
      BY <2>5, <3>2, <3>3, <3>4, <3>5, <3>6, <3>7
  <2>8. status \notin {"DRAFT", "CANCELLED"} => AllInserted
    BY DEF InsertedThenDone
  <2>9. status = "DISPATCHING" /\ Pending = {} => Waiting = {}
    BY <2>8 DEF AllInserted, Pending, Waiting
  <2>10. \A v \in Workers : worker'[v].pc \in Placed => worker[v].pc \in Placed \/ AllInserted
    BY <2>6, <2>7, <2>8
  <2>11. \A v \in Workers : worker'[v].pc = "finish" /\ worker'[v].saw = "COMPLETED" =>
               EndsWith("COMPLETED") \/ Waiting = {}
    BY <2>6, <2>7, <2>9 DEF EndsWith, Placed
  <2> QED
    BY <2>1, <2>3, <2>4, <2>10, <2>11, DoneAgain
<1>4. CASE DeliveryFails \/ KeyExpires \/ (\E w \in Workers : DeferredTwice(w)) \/ UNCHANGED vars
  BY <1>1, <1>4 DEF DeliveryFails, KeyExpires, DeferredTwice, vars, row
<1> QED
  BY <1>2, <1>3, <1>4 DEF Next

-----------------------------------------------------------------------------
(* A campaign under way is attended to *)

\* The two tasks that take a campaign further, and who has them.
LEMMA Tokens ==
    /\ ToDispatch <=> \/ \E t \in DOMAIN queue : t.kind = "dispatch"
                      \/ \E w \in Workers : worker[w].pc \in {"publish", "load", "mark"}
                      \/ \E u \in Users : request[u].pc = "publish"
    /\ ToFinish <=> \/ \E t \in DOMAIN queue : t.kind = "poll"
                    \/ \E w \in Workers : worker[w].pc \in {"page", "finish"}
BY DEF ToDispatch, ToFinish, Steering, At, Publishing

LEMMA TokensAfter ==
    /\ ToDispatch' <=> \/ \E t \in DOMAIN queue' : t.kind = "dispatch"
                       \/ \E w \in Workers : worker'[w].pc \in {"publish", "load", "mark"}
                       \/ \E u \in Users : request'[u].pc = "publish"
    /\ ToFinish' <=> \/ \E t \in DOMAIN queue' : t.kind = "poll"
                     \/ \E w \in Workers : worker'[w].pc \in {"page", "finish"}
BY DEF ToDispatch, ToFinish, Steering, At, Publishing

Steerers == {t \in TaskRow : t.kind \in {"dispatch", "poll"}}
Carriers == {"publish", "load", "mark", "page", "finish"}

LEMMA SteeringOf ==
    /\ QueueOK(queue) => Steering({"dispatch", "poll"}) = Among(queue, Steerers)
    /\ QueueOK(queue') => Steering({"dispatch", "poll"})' = Among(queue', Steerers)
BY DEF Steering, Among, Steerers, QueueOK, Fit

\* Batches come and go beside the tasks that take the campaign further.
Beside == \A t : t.kind # "batch" =>
    (t \in DOMAIN queue' <=> t \in DOMAIN queue) /\ (t \in DOMAIN queue => queue'[t] = queue[t])

SameClass(a, b) == \A C \in {{"publish", "load", "mark"}, {"page", "finish"}} : a \in C <=> b \in C

LEMMA CourseKept ==
    ASSUME OnCourse, Beside, status' = status \/ {status, status'} \subseteq {"DRAFT", "SCHEDULED"},
           \A u \in Users : request'[u].pc = "publish" <=> request[u].pc = "publish",
           \A w \in Workers : SameClass(worker'[w].pc, worker[w].pc)
    PROVE  OnCourse'
<1>1. \A w \in Workers :
        /\ worker'[w].pc \in {"publish", "load", "mark"} <=> worker[w].pc \in {"publish", "load", "mark"}
        /\ worker'[w].pc \in {"page", "finish"} <=> worker[w].pc \in {"page", "finish"}
  BY DEF SameClass
<1>2. (ToDispatch' <=> ToDispatch) /\ (ToFinish' <=> ToFinish)
  <2>1. \A k \in {"dispatch", "poll"} : (\E t \in DOMAIN queue' : t.kind = k) <=> (\E t \in DOMAIN queue : t.kind = k)
    BY DEF Beside
  <2> QED
    BY <1>1, <2>1, Tokens, TokensAfter
<1>3. At({"publish", "load", "mark", "page", "finish"})' = At({"publish", "load", "mark", "page", "finish"})
  <2>1. \A w \in Workers : worker'[w].pc \in {"publish", "load", "mark", "page", "finish"}
                          <=> worker[w].pc \in {"publish", "load", "mark", "page", "finish"}
    BY <1>1
  <2> QED
    BY <2>1 DEF At
<1>4. Publishing' = Publishing
  BY DEF Publishing
<1>5. /\ Steering({"dispatch", "poll"})' = Steering({"dispatch", "poll"})
      /\ \A t \in Steering({"dispatch", "poll"}) : queue'[t] = queue[t]
  BY DEF Steering, Beside
<1>6. Lone(queue, Steering({"dispatch", "poll"}), At(Carriers), Publishing) =>
        Lone(queue', Steering({"dispatch", "poll"}), At(Carriers), Publishing)
  BY <1>5 DEF Lone
<1> QED
  BY <1>2, <1>3, <1>4, <1>5, <1>6 DEF OnCourse, Carriers

\* The lone bearer hands the campaign on.
LEMMA CourseMoves ==
    ASSUME TypeOK, QueueOK(queue'), OnCourse, status \in {"QUEUED", "DISPATCHING"},
           NEW V, V = At(Carriers)', NEW R, R = Publishing', R \subseteq Publishing,
           \/ queue' = queue /\ V \subseteq At(Carriers)
           \/ \E x \in DOMAIN queue : \E w :
                 /\ queue' = BagRemove(queue, x)
                 /\ IF x \in Steerers THEN V \subseteq At(Carriers) \union {w} ELSE V \subseteq At(Carriers)
           \/ \E x : /\ queue' = BagAdd(queue, x) /\ V \subseteq At(Carriers)
                     /\ x \in Steerers => \/ \E w \in At(Carriers) : w \notin V
                                          \/ \E u \in Publishing : u \notin R
           \/ \E x \in DOMAIN queue : \E y :
                 /\ queue' = BagAdd(BagRemove(queue, x), y) /\ V \subseteq At(Carriers)
                 /\ y \in Steerers => x \in Steerers
    PROVE  Lone(queue, Steering({"dispatch", "poll"}), At(Carriers), Publishing)
           /\ Lone(queue', Steering({"dispatch", "poll"})', V, R)
<1> DEFINE W == At(Carriers)
           U == Publishing
<1>1. Lone(queue, Among(queue, Steerers), W, U) /\ queue \in [DOMAIN queue -> Nat \ {0}]
  BY Typed, SteeringOf DEF OnCourse, Carriers, QueueOK
<1>2. Steering({"dispatch", "poll"})' = Among(queue', Steerers)
  BY SteeringOf
<1>3. Lone(queue', Among(queue', Steerers), V, R)
  <2> HIDE DEF W, U
  <2>1. R \subseteq U
    BY DEF U
  <2>2. \/ queue' = queue /\ V \subseteq W
        \/ \E x \in DOMAIN queue : \E w : /\ queue' = BagRemove(queue, x)
                                          /\ IF x \in Steerers THEN V \subseteq W \union {w} ELSE V \subseteq W
        \/ \E x : /\ queue' = BagAdd(queue, x) /\ V \subseteq W
                  /\ x \in Steerers => (\E w \in W : w \notin V) \/ (\E u \in U : u \notin R)
        \/ \E x \in DOMAIN queue : \E y : /\ queue' = BagAdd(BagRemove(queue, x), y) /\ V \subseteq W
                                          /\ y \in Steerers => x \in Steerers
    BY DEF W, U
  <2> QED
    BY <1>1, <2>1, <2>2, LoneMoves
<1> QED
  BY <1>1, <1>2, <1>3, Typed, SteeringOf

\* A bearer that is a process or a request is the only one.
LEMMA BearerAlone ==
    ASSUME OnCourse, status \in {"QUEUED", "DISPATCHING"}
    PROVE  /\ \A w \in At(Carriers) : /\ \A t \in DOMAIN queue : t.kind \notin {"dispatch", "poll"}
                                      /\ \A v \in Workers : v # w => worker[v].pc \notin Carriers
                                      /\ \A u \in Users : request[u].pc # "publish"
           /\ \A t \in DOMAIN queue : t.kind \in {"dispatch", "poll"} =>
                  At(Carriers) = {} /\ (\A u \in Users : request[u].pc # "publish")
<1>1. Lone(queue, Steering({"dispatch", "poll"}), At(Carriers), Publishing)
  BY DEF OnCourse, Carriers
<1>2. ASSUME NEW t \in DOMAIN queue, t.kind \in {"dispatch", "poll"}
      PROVE  At(Carriers) = {} /\ Publishing = {}
  <2>1. t \in Steering({"dispatch", "poll"})
    BY <1>2 DEF Steering
  <2> QED
    BY <1>1, <2>1 DEF Lone
<1>3. ASSUME NEW w \in At(Carriers)
      PROVE  /\ \A v \in Workers : v # w => worker[v].pc \notin Carriers
             /\ Publishing = {}
  BY <1>1, <1>3 DEF Lone, At
<1> QED
  BY <1>2, <1>3 DEF Publishing

LEMMA CleanBefore ==
    ASSUME TypeOK, [Next]_vars, Clean'
    PROVE  Clean
<1>1. faults' = 0 /\ ~gaveUp' /\ ~overwritten'
  BY DEF Clean
<1>2. faults' = faults \/ faults' = faults + 1
  <2>1. ASSUME NEW u \in Users, Receive(u) \/ Answer(u) \/ RequestDies(u)
        PROVE  faults' = faults \/ faults' = faults + 1
    BY <2>1 DEF Receive, Answer, Validate, Launch, LaunchPublish, Cancel, RequestDies, Fault
  <2>2. ASSUME NEW w \in Workers, Work(w) \/ Tick(w)
        PROVE  faults' = faults
    BY <2>2 DEF Work, DispatchLock, DispatchLoad, DispatchMark, DispatchPage, DispatchEnd,
                Deferred, DispatchDeferred, BatchDeferred, BatchStart, BatchThrottled, BatchNext, BatchSend, BatchEnd,
                Poll, Finish, TickQueue, TickPublish, Tick
  <2>3. ASSUME NEW w \in Workers, WorkerDies(w) \/ TaskFails(w) \/ SendFails(w)
        PROVE  faults' = faults + 1
    BY <2>3 DEF WorkerDies, TaskFails, SendFails, Fault
  <2>4. CASE DeliveryFails \/ KeyExpires \/ (\E w \in Workers : DeferredTwice(w)) \/ UNCHANGED vars
    BY <2>4 DEF DeliveryFails, KeyExpires, DeferredTwice, Fault, vars
  <2> QED
    BY <2>1, <2>2, <2>3, <2>4 DEF Next
<1>3. ~gaveUp
  <2>1. gaveUp' = gaveUp \/ gaveUp' = TRUE
    <3>1. ASSUME NEW u \in Users, Receive(u) \/ Answer(u) \/ RequestDies(u)
          PROVE  gaveUp' = gaveUp
      BY <3>1 DEF Receive, Answer, Validate, Launch, LaunchPublish, Cancel, RequestDies
    <3>2. ASSUME NEW w \in Workers, Work(w) \/ Tick(w)
          PROVE  gaveUp' = gaveUp \/ gaveUp' = TRUE
      BY <3>2 DEF Work, DispatchLock, DispatchLoad, DispatchMark, DispatchPage, DispatchEnd,
                  Deferred, DispatchDeferred, BatchDeferred, BatchStart, BatchThrottled, BatchNext, BatchSend, BatchEnd,
                  Poll, Finish, TickQueue, TickPublish, Tick, Retry
    <3>3. ASSUME NEW w \in Workers, WorkerDies(w) \/ TaskFails(w) \/ SendFails(w)
          PROVE  gaveUp' = gaveUp
      BY <3>3 DEF WorkerDies, TaskFails, SendFails
    <3>4. CASE DeliveryFails \/ KeyExpires \/ (\E w \in Workers : DeferredTwice(w)) \/ UNCHANGED vars
      BY <3>4 DEF DeliveryFails, KeyExpires, DeferredTwice, vars
    <3> QED
      BY <3>1, <3>2, <3>3, <3>4 DEF Next
  <2> QED
    BY <1>1, <2>1
<1>4. ~overwritten
  <2>1. overwritten' = overwritten \/ \E a, b : SetStatus(a, b)
    <3>1. ASSUME NEW u \in Users, Receive(u) \/ Answer(u) \/ RequestDies(u)
          PROVE  overwritten' = overwritten \/ \E a, b : SetStatus(a, b)
      BY <3>1 DEF Receive, Answer, Validate, Launch, LaunchPublish, Cancel, RequestDies
    <3>2. ASSUME NEW w \in Workers, Work(w) \/ Tick(w)
          PROVE  overwritten' = overwritten \/ \E a, b : SetStatus(a, b)
      BY <3>2 DEF Work, DispatchLock, DispatchLoad, DispatchMark, DispatchPage, DispatchEnd,
                  Deferred, DispatchDeferred, BatchDeferred, BatchStart, BatchThrottled, BatchNext, BatchSend, BatchEnd,
                  Poll, Finish, TickQueue, TickPublish, Tick
    <3>3. ASSUME NEW w \in Workers, WorkerDies(w) \/ TaskFails(w) \/ SendFails(w)
          PROVE  overwritten' = overwritten
      BY <3>3 DEF WorkerDies, TaskFails, SendFails
    <3>4. CASE DeliveryFails \/ KeyExpires \/ (\E w \in Workers : DeferredTwice(w)) \/ UNCHANGED vars
      BY <3>4 DEF DeliveryFails, KeyExpires, DeferredTwice, vars
    <3> QED
      BY <3>1, <3>2, <3>3, <3>4 DEF Next
  <2> QED
    BY <1>1, <2>1 DEF SetStatus
<1> QED
  BY <1>1, <1>2, <1>3, <1>4, Typed DEF Clean

\* A batch that is given or taken leaves the other tasks as they are.
LEMMA BatchBeside ==
    ASSUME NEW B, B \in [DOMAIN B -> Nat \ {0}], NEW x, x.kind = "batch", NEW t, t.kind # "batch"
    PROVE  /\ t \in DOMAIN BagAdd(B, x) <=> t \in DOMAIN B
           /\ t \in DOMAIN B => BagAdd(B, x)[t] = B[t]
           /\ x \in DOMAIN B => /\ t \in DOMAIN BagRemove(B, x) <=> t \in DOMAIN B
                                /\ t \in DOMAIN B => BagRemove(B, x)[t] = B[t]
<1>1. t # x
  OBVIOUS
<1>2. DOMAIN BagAdd(B, x) = DOMAIN B \union {x} /\ \A e \in DOMAIN B \ {x} : BagAdd(B, x)[e] = B[e]
  BY Added
<1>3. x \in DOMAIN B => /\ DOMAIN BagRemove(B, x) \in {DOMAIN B, DOMAIN B \ {x}}
                        /\ \A e \in DOMAIN B \ {x} : BagRemove(B, x)[e] = B[e]
  BY Removed
<1> QED
  BY <1>1, <1>2, <1>3

\* One more and one less make no difference either.
LEMMA BesideWhen ==
    ASSUME QueueOK(queue),
           \/ UNCHANGED queue
           \/ \E x \in DOMAIN queue : x.kind = "batch" /\ queue' = BagRemove(queue, x)
           \/ \E x : x.kind = "batch" /\ queue' = BagAdd(queue, x)
           \/ \E x \in DOMAIN queue : \E y :
                 x.kind = "batch" /\ y.kind = "batch" /\ queue' = BagAdd(BagRemove(queue, x), y)
    PROVE  Beside
<1>2. queue \in [DOMAIN queue -> Nat \ {0}]
  BY DEF QueueOK
<1>3. ASSUME NEW x \in DOMAIN queue, NEW y, x.kind = "batch", y.kind = "batch",
             queue' = BagAdd(BagRemove(queue, x), y)
      PROVE  Beside
  <2> DEFINE D == BagRemove(queue, x)
  <2>1. D \in [DOMAIN D -> Nat \ {0}]
    BY <1>2, Removed
  <2>2. \A t : t.kind # "batch" => /\ t \in DOMAIN D <=> t \in DOMAIN queue
                                   /\ t \in DOMAIN queue => D[t] = queue[t]
    BY <1>2, BatchBeside, <1>3
  <2>3. queue' = BagAdd(D, y)
    BY <1>3
  <2> HIDE DEF D
  <2>4. \A t : t.kind # "batch" => /\ t \in DOMAIN queue' <=> t \in DOMAIN D
                                   /\ t \in DOMAIN D => queue'[t] = D[t]
    BY BatchBeside, <1>3, <2>1, <2>3
  <2> QED
    BY <2>2, <2>4 DEF Beside
<1>4. ASSUME NEW x, x.kind = "batch", queue' = BagAdd(queue, x)
      PROVE  Beside
  BY <1>2, BatchBeside, <1>4 DEF Beside
<1>5. ASSUME NEW x \in DOMAIN queue, x.kind = "batch", queue' = BagRemove(queue, x)
      PROVE  Beside
  BY <1>2, BatchBeside, <1>5 DEF Beside
<1>6. CASE UNCHANGED queue
  BY <1>6 DEF Beside
<1> QED
  BY <1>3, <1>4, <1>5, <1>6

LEMMA RequestCourse ==
    ASSUME TypeOK, QueueOK(queue'), StepsAreSound, OnCourse, Clean', NEW u \in Users,
           Receive(u) \/ Answer(u) \/ RequestDies(u)
    PROVE  OnCourse'
<1>1. UNCHANGED worker /\ \A w \in Workers : SameClass(worker'[w].pc, worker[w].pc)
  BY DEF Receive, Answer, Validate, Launch, LaunchPublish, Cancel, RequestDies, SameClass
<1>2. ~overwritten' /\ faults' = 0
  BY DEF Clean
<1>3. CASE Receive(u)
  <2>1. \A v \in Users : request'[v].pc = "publish" <=> request[v].pc = "publish"
    BY <1>3, Typed DEF Receive
  <2>2. Beside /\ status' = status
    BY <1>3, Typed, BesideWhen DEF Receive, row
  <2> QED
    BY <1>1, <2>1, <2>2, CourseKept
<1>4. CASE Validate(u)
  <2>1. \A v \in Users : request'[v].pc = "publish" <=> request[v].pc = "publish"
    BY <1>4, Typed DEF Validate, NoRequest
  <2>2. Beside
    BY <1>4, Typed, BesideWhen DEF Validate
  <2>3. {status, status'} \subseteq {"DRAFT", "SCHEDULED"}
    <3>1. request[u].saw = "DRAFT"
      BY <1>4 DEF Validate, StepsAreSound, Before
    <3> QED
      BY <1>2, <1>4, <3>1 DEF Validate, SetStatus
  <2> QED
    BY <1>1, <2>1, <2>2, <2>3, CourseKept
<1>5. CASE Launch(u)
  <2>1. request[u].saw = "SCHEDULED"
    BY <1>5 DEF Launch, StepsAreSound, Before
  <2>2. status = "SCHEDULED" /\ status' = "QUEUED"
    BY <1>2, <1>5, <2>1 DEF Launch, SetStatus
  <2>3. ~ToDispatch /\ ~ToFinish
    BY <2>2 DEF OnCourse
  <2>4. /\ UNCHANGED queue
        /\ request'[u].pc = "publish" /\ \A v \in Users \ {u} : request'[v] = request[v]
    BY <1>5, Typed DEF Launch, Req
  <2>5. ToDispatch' /\ ~ToFinish'
    BY <1>1, <2>3, <2>4, Tokens, TokensAfter
  <2>6. /\ Steering({"dispatch", "poll"})' = {}
        /\ At({"publish", "load", "mark", "page", "finish"})' = {}
        /\ \A v \in Publishing' : v = u
    BY <1>1, <2>3, <2>4, Tokens DEF Steering, At, Publishing
  <2> QED
    BY <2>2, <2>5, <2>6 DEF OnCourse, Lone
<1>6. CASE LaunchPublish(u)
  <2>1. /\ queue' = BagAdd(queue, DispatchTask) /\ request[u].pc = "publish" /\ status' = status
        /\ request' = [request EXCEPT ![u] = NoRequest]
    BY <1>6 DEF LaunchPublish, Publish, row
  <2>2. ToDispatch
    BY <2>1, Tokens
  <2>3. SUFFICES ASSUME status = "QUEUED" PROVE OnCourse'
    BY <2>1, <2>2 DEF OnCourse
  <2>4. DOMAIN queue' = DOMAIN queue \union {DispatchTask} /\ DispatchTask.kind = "dispatch"
    BY <2>1, Typed, QueueDomains DEF DispatchTask, Task
  <2>5. ToDispatch' /\ ~ToFinish'
    BY <1>1, <2>3, <2>4, Tokens, TokensAfter DEF OnCourse
  <2>6. PICK V : V = At(Carriers)'
    OBVIOUS
  <2>7. PICK R : R = Publishing'
    OBVIOUS
  <2>8. V = At(Carriers) /\ u \in Publishing /\ R = Publishing \ {u}
    BY <1>1, <2>1, <2>6, <2>7, Typed DEF At, Publishing, NoRequest
  <2>9. Lone(queue', Steering({"dispatch", "poll"})', V, R)
    BY <2>1, <2>3, <2>6, <2>7, <2>8, CourseMoves
  <2> QED
    BY <2>1, <2>3, <2>5, <2>6, <2>7, <2>9 DEF OnCourse, Carriers
<1>7. CASE Cancel(u)
  BY <1>7 DEF Cancel, SetStatus, OnCourse
<1>8. CASE RequestDies(u)
  BY <1>2, <1>8, Typed DEF RequestDies, Fault
<1> QED
  BY <1>3, <1>4, <1>5, <1>6, <1>7, <1>8 DEF Answer

LEMMA DispatchCourse ==
    ASSUME TypeOK, QueueOK(queue'), StepsAreSound, LockHeld, OnCourse, Clean', NEW w \in Workers,
           \/ DispatchLock(w) \/ DispatchLoad(w) \/ DispatchMark(w) \/ DispatchPage(w)
           \/ DispatchEnd(w)
    PROVE  OnCourse'
<1>1. UNCHANGED request
  BY DEF DispatchLock, DispatchLoad, DispatchMark, DispatchPage, DispatchEnd
<1>2. ~overwritten' /\ Publishing' = Publishing
  BY <1>1 DEF Clean, Publishing
<1>3. worker[w] \in Process /\ \A C : w \in At(C) <=> worker[w].pc \in C
  BY Typed DEF At
<1>4. CASE DispatchLock(w)
  <2>1. PICK t \in DOMAIN queue :
          /\ t.kind = "dispatch" /\ queue' = BagRemove(queue, t) /\ status' = status
          /\ worker' = IF lock THEN worker ELSE [worker EXCEPT ![w] = Holding(t, "load")]
    BY <1>4 DEF DispatchLock, Takes, row
  <2>2. ToDispatch
    BY <2>1, Tokens
  <2>3. SUFFICES ASSUME status = "QUEUED" PROVE OnCourse'
    BY <2>1, <2>2 DEF OnCourse
  <2>4. ~lock
    <3>1. At(Carriers) = {}
      BY <2>1, <2>3, BearerAlone
    <3> QED
      BY <3>1 DEF LockHeld, At, Carriers
  <2>5. worker'[w].pc = "load" /\ \A v \in Workers \ {w} : worker'[v] = worker[v]
    BY <2>1, <2>4, Typed DEF Holding, Idle
  <2>6. ToDispatch' /\ ~ToFinish'
    <3>1. DOMAIN queue' \subseteq DOMAIN queue
      BY <2>1, Typed, QueueDomains
    <3> QED
      BY <2>3, <2>5, <3>1, Tokens, TokensAfter DEF OnCourse
  <2>7. PICK V : V = At(Carriers)'
    OBVIOUS
  <2>8. V \subseteq At(Carriers) \union {w} /\ t \in Steerers
    BY <2>1, <2>5, <2>7, Typed DEF At, Steerers, QueueOK, Fit
  <2>9. PICK R : R = Publishing'
    OBVIOUS
  <2>10. Lone(queue', Steering({"dispatch", "poll"})', V, R)
    BY <1>2, <2>1, <2>3, <2>7, <2>8, <2>9, CourseMoves
  <2> QED
    BY <2>1, <2>3, <2>6, <2>7, <2>9, <2>10 DEF OnCourse, Carriers
<1>5. CASE DispatchLoad(w)
  <2>1. worker[w].pc = "load" /\ status' = status /\ UNCHANGED queue
    BY <1>5 DEF DispatchLoad, row
  <2>2. ToDispatch
    BY <2>1, Tokens
  <2>3. SUFFICES ASSUME status = "QUEUED" PROVE OnCourse'
    BY <2>1, <2>2 DEF OnCourse
  <2>4. worker' = [worker EXCEPT ![w].pc = "mark"]
    BY <1>5, <2>3 DEF DispatchLoad
  <2>5. \A v \in Workers : SameClass(worker'[v].pc, worker[v].pc)
    BY <1>3, <2>1, <2>4, Typed DEF SameClass, Process
  <2> QED
    BY <1>1, <2>1, <2>5, Typed, BesideWhen, CourseKept
<1>6. CASE DispatchMark(w)
  <2>1. worker[w].pc = "mark" /\ status = "QUEUED" /\ status' = "DISPATCHING" /\ UNCHANGED queue
    BY <1>2, <1>6 DEF DispatchMark, SetStatus
  <2>2. /\ \A t \in DOMAIN queue : t.kind \notin {"dispatch", "poll"}
        /\ \A v \in Workers : v # w => worker[v].pc \notin Carriers
        /\ \A u \in Users : request[u].pc # "publish"
    BY <1>3, <2>1, BearerAlone DEF Carriers
  <2>3. worker'[w].pc = "page" /\ \A v \in Workers \ {w} : worker'[v] = worker[v]
    BY <1>3, <1>6, Typed DEF DispatchMark, Goto, Process
  <2>4. ToFinish' /\ ~ToDispatch'
    BY <1>1, <2>1, <2>2, <2>3, TokensAfter DEF Carriers
  <2>5. /\ Steering({"dispatch", "poll"})' = {} /\ Publishing' = {}
        /\ \A v \in At({"publish", "load", "mark", "page", "finish"})' : v = w
    BY <1>1, <2>1, <2>2, <2>3 DEF Steering, At, Publishing, Carriers
  <2> QED
    BY <2>1, <2>4, <2>5 DEF OnCourse, Lone
<1>7. CASE DispatchPage(w)
  <2>1. /\ worker[w].pc = "page" /\ status' = status
        /\ worker' = [worker EXCEPT ![w].at = @ + Batch]
        /\ \E ids : queue' = BagAdd(queue, Task("batch", ids, 0))
    BY <1>7 DEF DispatchPage, row, Publish
  <2>2. \A v \in Workers : SameClass(worker'[v].pc, worker[v].pc)
    BY <1>3, <2>1, Typed DEF SameClass, Process
  <2>3. Beside
    BY <2>1, Typed, BesideWhen DEF Task
  <2> QED
    BY <1>1, <2>1, <2>2, <2>3, CourseKept
<1>8. CASE DispatchEnd(w)
  <2> DEFINE t == Task("poll", {}, 0)
  <2>1. /\ worker[w].pc = "page" /\ status' = status
        /\ queue' = BagAdd(queue, t) /\ t.kind = "poll"
        /\ worker' = [worker EXCEPT ![w] = Idle]
    BY <1>8 DEF DispatchEnd, row, Publish, Done, Task
  <2> HIDE DEF t
  <2>2. ToFinish
    BY <2>1, Tokens
  <2>3. SUFFICES ASSUME status = "DISPATCHING" PROVE OnCourse'
    BY <2>1, <2>2 DEF OnCourse
  <2>4. worker'[w].pc = "idle" /\ \A v \in Workers \ {w} : worker'[v] = worker[v]
    BY <2>1, Typed DEF Idle
  <2>5. ToFinish' /\ ~ToDispatch'
    <3>1. DOMAIN queue' = DOMAIN queue \union {t}
      BY <2>1, Typed, QueueDomains
    <3> QED
      BY <1>1, <2>1, <2>3, <2>4, <3>1, Tokens, TokensAfter DEF OnCourse
  <2>6. PICK V : V = At(Carriers)'
    OBVIOUS
  <2>7. V \subseteq At(Carriers) /\ w \notin V /\ w \in At(Carriers)
    BY <2>1, <2>4, <2>6 DEF At, Carriers
  <2>8. PICK R : R = Publishing'
    OBVIOUS
  <2>9. Lone(queue', Steering({"dispatch", "poll"})', V, R)
    BY <1>2, <2>1, <2>3, <2>6, <2>7, <2>8, CourseMoves
  <2> QED
    BY <2>1, <2>3, <2>5, <2>6, <2>8, <2>9 DEF OnCourse, Carriers
<1> QED
  BY <1>4, <1>5, <1>6, <1>7, <1>8

LEMMA BatchCourse ==
    ASSUME TypeOK, StepsAreSound, OnCourse, Clean', NEW w \in Workers,
           \/ BatchDeferred(w) \/ BatchStart(w) \/ BatchThrottled(w) \/ BatchNext(w)
           \/ BatchSend(w) \/ BatchEnd(w)
    PROVE  OnCourse'
<1>1. UNCHANGED <<request, status>>
  BY DEF BatchDeferred, BatchStart, BatchThrottled, BatchNext, BatchSend, BatchEnd, row
<1>2. worker[w] \in Process
  BY Typed
<1>3. ~gaveUp'
  BY DEF Clean
<1>4. \A v \in Workers : SameClass(worker'[v].pc, worker[v].pc)
  <2>1. CASE UNCHANGED worker
    BY <2>1 DEF SameClass
  <2>2. CASE worker[w].pc \in {"idle", "next", "send"} /\ worker'[w].pc \in {"idle", "next", "send"}
             /\ \A v \in Workers \ {w} : worker'[v] = worker[v]
    BY <2>2 DEF SameClass
  <2>3. CASE BatchDeferred(w) \/ BatchStart(w)
    <3>1. \/ UNCHANGED worker
          \/ worker[w].pc = "idle" /\ \E t : worker' = [worker EXCEPT ![w] = Holding(t, "next")]
      BY <2>3 DEF BatchDeferred, BatchStart, Takes
    <3> QED
      BY <2>1, <2>2, <3>1, Typed DEF Holding, Idle
  <2>4. CASE BatchThrottled(w) \/ BatchEnd(w)
    <3>1. worker[w].pc = "next" /\ worker' = [worker EXCEPT ![w] = Idle]
      BY <2>4 DEF BatchThrottled, BatchEnd, Done
    <3> QED
      BY <2>2, <3>1, Typed DEF Idle
  <2>5. CASE BatchNext(w) \/ BatchSend(w)
    <3>1. /\ worker[w].pc \in {"next", "send"}
          /\ \/ worker' = [worker EXCEPT ![w].pc = "send"]
             \/ worker' = [worker EXCEPT ![w].left = @ \ {Min(worker[w].left)}]
             \/ worker' = [worker EXCEPT ![w].pc = "next", ![w].left = @ \ {Min(worker[w].left)}]
      BY <2>5 DEF BatchNext, BatchSend, Goto
    <3> QED
      BY <1>2, <2>2, <3>1, Typed DEF Process
  <2> QED
    BY <2>3, <2>4, <2>5
<1>5. Beside
  <2>1. CASE BatchDeferred(w)
    <3>1. PICK t \in DOMAIN queue :
            t.kind = "batch" /\ Retry(BagRemove(queue, t), t, t.ids, MaxBatchTries)
      BY <2>1 DEF BatchDeferred
    <3>2. queue' = BagAdd(BagRemove(queue, t), Task("batch", t.ids, t.tries + 1))
      BY <1>3, <3>1 DEF Retry
    <3> QED
      BY <3>1, <3>2, Typed, BesideWhen DEF Task
  <2>2. CASE BatchStart(w)
    <3>1. \E t \in DOMAIN queue : t.kind = "batch" /\ queue' = BagRemove(queue, t)
      BY <2>2 DEF BatchStart, Takes
    <3> QED
      BY <3>1, Typed, BesideWhen
  <2>3. CASE BatchThrottled(w)
    <3>1. worker[w].task.kind = "batch" /\ Retry(queue, worker[w].task, worker[w].left, MaxBatchTries)
      BY <2>3 DEF BatchThrottled, StepsAreSound, AtStep
    <3>2. queue' = BagAdd(queue, Task("batch", worker[w].left, worker[w].task.tries + 1))
      BY <1>3, <3>1 DEF Retry
    <3> QED
      BY <3>2, Typed, BesideWhen DEF Task
  <2>4. CASE BatchNext(w) \/ BatchSend(w) \/ BatchEnd(w)
    BY <2>4, Typed, BesideWhen DEF BatchNext, BatchSend, BatchEnd
  <2> QED
    BY <2>1, <2>2, <2>3, <2>4
<1> QED
  BY <1>1, <1>4, <1>5, CourseKept

\* A dispatch that is put off is still the one that takes the campaign further.
LEMMA DeferCourse ==
    ASSUME TypeOK, QueueOK(queue'), StepsAreSound, OnCourse, Clean', NEW w \in Workers,
           DispatchDeferred(w)
    PROVE  OnCourse'
<1>1. UNCHANGED <<request, status, worker>> /\ ~gaveUp' /\ Publishing' = Publishing
  BY DEF DispatchDeferred, row, Clean, Publishing
<1>2. PICK t \in DOMAIN queue :
        t.kind = "dispatch" /\ Retry(BagRemove(queue, t), t, t.ids, MaxDispatchTries)
  BY DEF DispatchDeferred
<1>3. ToDispatch /\ t \in Steerers /\ QueueOK(queue)
  BY <1>2, Tokens, Typed DEF Steerers, QueueOK, Fit
<1>4. SUFFICES ASSUME status = "QUEUED" PROVE OnCourse'
  BY <1>1, <1>3 DEF OnCourse
<1> DEFINE y == Task("dispatch", t.ids, t.tries + 1)
<1>5. queue' = BagAdd(BagRemove(queue, t), y) /\ y.kind = "dispatch"
  BY <1>1, <1>2 DEF Retry, Task
<1> HIDE DEF y
<1>6. QueueOK(BagRemove(queue, t)) /\ DOMAIN BagRemove(queue, t) \subseteq DOMAIN queue
  BY <1>3, QueueChanges, QueueDomains
<1>7. DOMAIN queue' = DOMAIN BagRemove(queue, t) \union {y}
  BY <1>5, <1>6, QueueDomains
<1>8. ToDispatch' /\ ~ToFinish'
  BY <1>1, <1>4, <1>5, <1>6, <1>7, Tokens, TokensAfter DEF OnCourse
<1>9. PICK V : V = At(Carriers)'
  OBVIOUS
<1>10. PICK R : R = Publishing'
  OBVIOUS
<1>11. V \subseteq At(Carriers)
  BY <1>1, <1>9 DEF At
<1>12. Lone(queue', Steering({"dispatch", "poll"})', V, R)
  BY <1>1, <1>3, <1>4, <1>5, <1>9, <1>10, <1>11, CourseMoves
<1> QED
  BY <1>1, <1>4, <1>8, <1>9, <1>10, <1>12 DEF OnCourse, Carriers

\* A second dispatch is a fault, and a second batch changes nothing here.
LEMMA TwiceCourse ==
    ASSUME TypeOK, OnCourse, Clean', NEW w \in Workers, DeferredTwice(w)
    PROVE  OnCourse'
<1>1. PICK t, y : Twice(t, y)
  BY DeferredTasks
<1>2. t.kind = "batch"
  BY <1>1, Typed DEF Twice, Clean
<1> DEFINE C == BagRemove(queue, t)
           D == BagAdd(C, y)
<1>3. /\ QueueOK(queue) /\ QueueOK(C) /\ QueueOK(D) /\ t \in DOMAIN queue /\ y.kind = "batch"
      /\ queue' = BagAdd(D, y)
  BY <1>1, <1>2, Typed, TwicePut DEF Twice
<1>4. Beside
  <2>1. ASSUME NEW x, x.kind # "batch"
        PROVE  /\ x \in DOMAIN C <=> x \in DOMAIN queue
               /\ x \in DOMAIN queue => C[x] = queue[x]
    BY <1>2, <1>3, <2>1, BatchBeside DEF QueueOK
  <2> HIDE DEF C
  <2>2. ASSUME NEW x, x.kind # "batch"
        PROVE  /\ x \in DOMAIN D <=> x \in DOMAIN C
               /\ x \in DOMAIN C => D[x] = C[x]
    BY <1>3, <2>2, BatchBeside DEF QueueOK
  <2> HIDE DEF D
  <2>3. ASSUME NEW x, x.kind # "batch"
        PROVE  /\ x \in DOMAIN queue' <=> x \in DOMAIN D
               /\ x \in DOMAIN D => queue'[x] = D[x]
    BY <1>3, <2>3, BatchBeside DEF QueueOK
  <2> QED
    BY <2>1, <2>2, <2>3 DEF Beside
<1>5. UNCHANGED <<request, worker, status>>
  BY <1>1 DEF Twice, row
<1> QED
  BY <1>4, <1>5, CourseKept DEF SameClass

LEMMA PollCourse ==
    ASSUME TypeOK, QueueOK(queue'), StepsAreSound, OnCourse, Clean', NEW w \in Workers, Poll(w)
    PROVE  OnCourse'
<1>1. UNCHANGED <<request, status>> /\ ~gaveUp' /\ Publishing' = Publishing
  BY DEF Poll, row, Clean, Publishing
<1>2. PICK t \in DOMAIN queue :
        /\ t.kind = "poll"
        /\ \/ Retry(BagRemove(queue, t), t, {}, MaxPolls) /\ UNCHANGED worker
           \/ /\ queue' = BagRemove(queue, t)
              /\ worker' = IF status # "DISPATCHING" THEN worker ELSE
                   [worker EXCEPT ![w] = [Holding(t, "finish") EXCEPT !.saw = Outcome]]
  BY DEF Poll, Takes
<1>3. ToFinish /\ t \in Steerers /\ QueueOK(queue)
  BY <1>2, Tokens, Typed DEF Steerers, QueueOK, Fit
<1>4. SUFFICES ASSUME status = "DISPATCHING" PROVE OnCourse'
  BY <1>1, <1>3 DEF OnCourse
<1>5. /\ \A v \in Workers : worker[v].pc \notin Carriers
      /\ \A x \in DOMAIN queue : x.kind # "dispatch"
      /\ \A u \in Users : request[u].pc # "publish"
  <2>1. At(Carriers) = {} /\ \A u \in Users : request[u].pc # "publish"
    BY <1>2, <1>4, BearerAlone
  <2>2. ~ToDispatch
    BY <1>4 DEF OnCourse
  <2> QED
    BY <2>1, <2>2, Tokens DEF At
<1>6. PICK V : V = At(Carriers)'
  OBVIOUS
<1>7. PICK R : R = Publishing'
  OBVIOUS
<1>8. QueueOK(BagRemove(queue, t)) /\ DOMAIN BagRemove(queue, t) \subseteq DOMAIN queue
  BY <1>3, QueueChanges, QueueDomains
<1>9. CASE Retry(BagRemove(queue, t), t, {}, MaxPolls) /\ UNCHANGED worker
  <2> DEFINE y == Task("poll", {}, t.tries + 1)
  <2>1. queue' = BagAdd(BagRemove(queue, t), y) /\ y.kind = "poll"
    BY <1>1, <1>2, <1>9 DEF Retry, Task
  <2> HIDE DEF y
  <2>2. DOMAIN queue' = DOMAIN BagRemove(queue, t) \union {y}
    BY <1>8, <2>1, QueueDomains
  <2>3. ToFinish' /\ ~ToDispatch'
    BY <1>1, <1>5, <1>8, <1>9, <2>1, <2>2, TokensAfter DEF Carriers
  <2>4. V \subseteq At(Carriers)
    BY <1>6, <1>9 DEF At
  <2>5. Lone(queue', Steering({"dispatch", "poll"})', V, R)
    BY <1>1, <1>3, <1>4, <1>6, <1>7, <2>1, <2>4, CourseMoves
  <2> QED
    BY <1>1, <1>4, <1>6, <1>7, <2>3, <2>5 DEF OnCourse, Carriers
<1>10. CASE /\ queue' = BagRemove(queue, t)
            /\ worker' = [worker EXCEPT ![w] = [Holding(t, "finish") EXCEPT !.saw = Outcome]]
  <2>1. worker'[w].pc = "finish" /\ \A v \in Workers \ {w} : worker'[v] = worker[v]
    BY <1>10, Typed DEF Holding, Idle
  <2>2. ToFinish' /\ ~ToDispatch'
    BY <1>1, <1>5, <1>8, <1>10, <2>1, TokensAfter DEF Carriers
  <2>3. V \subseteq At(Carriers) \union {w}
    BY <1>6, <2>1 DEF At
  <2>4. Lone(queue', Steering({"dispatch", "poll"})', V, R)
    BY <1>1, <1>3, <1>4, <1>6, <1>7, <1>10, <2>3, CourseMoves
  <2> QED
    BY <1>1, <1>4, <1>6, <1>7, <2>2, <2>4 DEF OnCourse, Carriers
<1> QED
  BY <1>2, <1>4, <1>9, <1>10

LEMMA FinishCourse ==
    ASSUME TypeOK, QueueOK(queue'), StepsAreSound, OnCourse, Clean', NEW w \in Workers,
           Finish(w) \/ Tick(w) \/ TickQueue(w) \/ TickPublish(w)
    PROVE  OnCourse'
<1>1. UNCHANGED request /\ ~overwritten' /\ Publishing' = Publishing
  BY DEF Finish, Tick, TickQueue, TickPublish, Clean, Publishing
<1>2. worker[w] \in Process /\ AtStep(worker[w]) /\ \A C : w \in At(C) <=> worker[w].pc \in C
  BY Typed DEF At, StepsAreSound
<1>3. CASE Finish(w)
  <2>1. /\ worker[w].pc = "finish" /\ status = "DISPATCHING" /\ status' = worker[w].saw
        /\ UNCHANGED queue
    BY <1>1, <1>3 DEF Finish, SetStatus
  <2>2. SUFFICES ASSUME status' = "SCHEDULED" PROVE OnCourse'
    BY <1>2, <2>1 DEF AtStep, OnCourse
  <2>3. /\ \A t \in DOMAIN queue : t.kind \notin {"dispatch", "poll"}
        /\ \A v \in Workers : v # w => worker[v].pc \notin Carriers
        /\ \A u \in Users : request[u].pc # "publish"
    BY <1>2, <2>1, BearerAlone DEF Carriers
  <2>4. worker'[w].pc = "idle" /\ \A v \in Workers \ {w} : worker'[v] = worker[v]
    BY <1>3, Typed DEF Finish, Done, Idle
  <2>5. ~ToFinish' /\ ~ToDispatch'
    BY <1>1, <2>1, <2>3, <2>4, TokensAfter DEF Carriers
  <2> QED
    BY <2>2, <2>5 DEF OnCourse
<1>4. CASE Tick(w)
  <2>1. worker[w].pc = "idle" /\ worker'[w].pc = "queue" /\ \A v \in Workers \ {w} : worker'[v] = worker[v]
    BY <1>4, Typed DEF Tick, Idle
  <2>2. \A v \in Workers : SameClass(worker'[v].pc, worker[v].pc)
    BY <2>1 DEF SameClass
  <2>3. Beside /\ status' = status
    BY <1>4, Typed, BesideWhen DEF Tick, row
  <2> QED
    BY <1>1, <2>2, <2>3, CourseKept
<1>5. CASE TickQueue(w)
  <2>1. /\ worker[w].pc = "queue" /\ status = "SCHEDULED" /\ status' = "QUEUED"
        /\ UNCHANGED queue
    BY <1>1, <1>2, <1>5 DEF TickQueue, SetStatus, AtStep
  <2>2. ~ToDispatch /\ ~ToFinish
    BY <2>1 DEF OnCourse
  <2>3. worker'[w].pc = "publish" /\ \A v \in Workers \ {w} : worker'[v] = worker[v]
    BY <1>2, <1>5, Typed DEF TickQueue, Goto, Process
  <2>4. ToDispatch' /\ ~ToFinish'
    BY <2>1, <2>2, <2>3, Tokens, TokensAfter
  <2>5. /\ Steering({"dispatch", "poll"})' = {} /\ Publishing' = {}
        /\ \A v \in At({"publish", "load", "mark", "page", "finish"})' : v = w
    BY <1>1, <2>1, <2>2, <2>3, Tokens DEF Steering, At, Publishing
  <2> QED
    BY <2>1, <2>4, <2>5 DEF OnCourse, Lone
<1>6. CASE TickPublish(w)
  <2>1. /\ worker[w].pc = "publish" /\ status' = status
        /\ queue' = BagAdd(queue, DispatchTask) /\ DispatchTask.kind = "dispatch"
        /\ worker' = [worker EXCEPT ![w] = Idle]
    BY <1>6 DEF TickPublish, row, Publish, Done, DispatchTask, Task
  <2>2. ToDispatch
    BY <2>1, Tokens
  <2>3. SUFFICES ASSUME status = "QUEUED" PROVE OnCourse'
    BY <2>1, <2>2 DEF OnCourse
  <2>4. worker'[w].pc = "idle" /\ \A v \in Workers \ {w} : worker'[v] = worker[v]
    BY <2>1, Typed DEF Idle
  <2>5. ToDispatch' /\ ~ToFinish'
    <3>1. DOMAIN queue' = DOMAIN queue \union {DispatchTask}
      BY <2>1, Typed, QueueDomains
    <3> QED
      BY <2>1, <2>3, <2>4, <3>1, Tokens, TokensAfter DEF OnCourse
  <2>6. PICK V : V = At(Carriers)'
    OBVIOUS
  <2>7. V \subseteq At(Carriers) /\ w \notin V /\ w \in At(Carriers)
    BY <2>1, <2>4, <2>6 DEF At, Carriers
  <2>8. PICK R : R = Publishing'
    OBVIOUS
  <2>9. Lone(queue', Steering({"dispatch", "poll"})', V, R)
    BY <1>1, <2>1, <2>3, <2>6, <2>7, <2>8, CourseMoves
  <2> QED
    BY <2>1, <2>3, <2>5, <2>6, <2>8, <2>9 DEF OnCourse, Carriers
<1> QED
  BY <1>3, <1>4, <1>5, <1>6

\* The key goes with its holder, at the latest.
LEMMA LockStep ==
    ASSUME TypeOK, LockHeld, Clean', [Next]_vars
    PROVE  LockHeld'
<1>1. LockHeld' <=> (lock' => \E v \in Workers : worker'[v].pc \in {"load", "mark", "page"})
  BY DEF LockHeld, At
<1>2. CASE UNCHANGED lock /\ \A v \in Workers :
             worker[v].pc \in {"load", "mark", "page"} => worker'[v].pc \in {"load", "mark", "page"}
  BY <1>1, <1>2 DEF LockHeld, At
<1>3. CASE UNCHANGED <<lock, worker>>
  BY <1>2, <1>3
<1>4. faults' = 0 /\ faults \in Nat
  BY Typed DEF Clean
<1>5. ASSUME NEW u \in Users, Receive(u) \/ Answer(u) \/ RequestDies(u)
      PROVE  UNCHANGED <<lock, worker>>
  BY <1>5 DEF Receive, Answer, Validate, Launch, LaunchPublish, Cancel, RequestDies
<1>6. ASSUME NEW w \in Workers, Work(w) \/ Tick(w)
      PROVE  LockHeld'
  <2>1. worker[w] \in Process
    BY Typed
  <2>2. CASE DispatchLock(w)
    <3>1. CASE lock
      BY <1>3, <2>2, <3>1 DEF DispatchLock
    <3>2. CASE ~lock
      <4>1. worker'[w].pc = "load"
        BY <2>2, <3>2, Typed DEF DispatchLock, Holding, Idle
      <4> QED
        BY <1>1, <4>1
    <3> QED
      BY <3>1, <3>2
  <2>3. CASE DispatchLoad(w) \/ DispatchMark(w) \/ DispatchPage(w)
    <3>1. \/ ~lock'
          \/ worker' = [worker EXCEPT ![w].pc = "mark"]
          \/ worker' = [worker EXCEPT ![w].pc = "page"]
          \/ worker[w].pc = "page" /\ worker' = [worker EXCEPT ![w].at = @ + Batch]
      BY <2>3 DEF DispatchLoad, DispatchMark, DispatchPage, Unlock, Goto
    <3>2. ~lock' \/ worker'[w].pc \in {"mark", "page"}
      BY <2>1, <3>1, Typed DEF Process
    <3> QED
      BY <1>1, <3>2
  <2>4. CASE DispatchEnd(w)
    BY <1>1, <2>4 DEF DispatchEnd, Unlock
  <2>5. CASE Deferred(w) \/ BatchStart(w) \/ BatchThrottled(w) \/ BatchNext(w) \/ BatchSend(w) \/ BatchEnd(w)
    <3>1. UNCHANGED lock
      BY <2>5 DEF Deferred, DispatchDeferred, BatchDeferred, BatchStart, BatchThrottled, BatchNext, BatchSend, BatchEnd
    <3>2. \/ UNCHANGED worker
          \/ /\ worker[w].pc \notin {"load", "mark", "page"}
             /\ \E p : worker' = [worker EXCEPT ![w] = p]
      BY <2>5 DEF Deferred, DispatchDeferred, BatchDeferred, BatchStart, BatchThrottled, BatchNext, BatchSend, BatchEnd, Takes, Goto, Done
    <3> QED
      BY <1>2, <3>1, <3>2, Typed
  <2>6. CASE Poll(w) \/ Finish(w) \/ Tick(w) \/ TickQueue(w) \/ TickPublish(w)
    <3>1. UNCHANGED lock
      BY <2>6 DEF Poll, Finish, Tick, TickQueue, TickPublish
    <3>2. \/ UNCHANGED worker
          \/ /\ worker[w].pc \notin {"load", "mark", "page"}
             /\ \E p : worker' = [worker EXCEPT ![w] = p]
      BY <2>6 DEF Poll, Finish, Tick, TickQueue, TickPublish, Goto, Done
    <3> QED
      BY <1>2, <3>1, <3>2, Typed
  <2> QED
    BY <1>6, <2>2, <2>3, <2>4, <2>5, <2>6 DEF Work, Deferred
<1>7. ASSUME NEW w \in Workers, WorkerDies(w) \/ TaskFails(w) \/ SendFails(w)
      PROVE  FALSE
  BY <1>4, <1>7 DEF WorkerDies, TaskFails, SendFails, Fault
<1>8. CASE DeliveryFails \/ \E w \in Workers : DeferredTwice(w)
  BY <1>3, <1>8 DEF DeliveryFails, DeferredTwice
<1>9. CASE KeyExpires
  BY <1>1, <1>9 DEF KeyExpires, Unlock
<1>10. CASE UNCHANGED vars
  BY <1>3, <1>10 DEF vars
<1> QED
  BY <1>3, <1>5, <1>6, <1>7, <1>8, <1>9, <1>10 DEF Next

LEMMA AttentionStep ==
    ASSUME TypeOK, TypeOK', StepsAreSound, Attention, [Next]_vars
    PROVE  Attention'
<1> SUFFICES ASSUME Clean' PROVE LockHeld' /\ OnCourse'
  BY DEF Attention
<1>1. Clean /\ LockHeld /\ OnCourse
  BY CleanBefore DEF Attention
<1>2. QueueOK(queue')
  BY DEF TypeOK, QueueOK, Fit, TaskRow
<1>3. faults' = 0 /\ faults \in Nat
  BY Typed DEF Clean
<1>4. ASSUME NEW w \in Workers, WorkerDies(w) \/ TaskFails(w) \/ SendFails(w)
      PROVE  FALSE
  BY <1>3, <1>4 DEF WorkerDies, TaskFails, SendFails, Fault
<1>5. CASE DeliveryFails
  BY <1>3, <1>5 DEF DeliveryFails, Fault
<1>6. CASE KeyExpires \/ UNCHANGED vars
  <2>1. UNCHANGED <<queue, status, request, worker>>
    BY <1>6 DEF KeyExpires, vars, row
  <2>2. Beside
    BY <2>1 DEF Beside
  <2>3. OnCourse'
    BY <1>1, <2>1, <2>2, CourseKept DEF SameClass
  <2> QED
    BY <1>1, <2>3, LockStep
<1>7. CASE Next
  <2>1. OnCourse'
    BY <1>1, <1>2, <1>4, <1>5, <1>6, <1>7, RequestCourse, DispatchCourse, DeferCourse, BatchCourse, PollCourse,
       FinishCourse, TwiceCourse
       DEF Next, Work, Deferred
  <2> QED
    BY <1>1, <2>1, LockStep
<1> QED
  BY <1>6, <1>7

-----------------------------------------------------------------------------
(* The theorem *)

LEMMA InitHolds == Init => IInv
<1> SUFFICES ASSUME Init PROVE IInv
  OBVIOUS
<1>1. TypeOK
  BY InitTyped
<1>2. \A w \in Workers : worker[w] = Idle
  BY DEF Init
<1>3. \A u \in Users : request[u] = NoRequest
  BY DEF Init
<1>4. queue = <<>> /\ DOMAIN queue = {} /\ status = "DRAFT"
  BY DEF Init
<1>5. StepsAreSound
  BY <1>2, <1>3, <1>4, PlainTasks DEF StepsAreSound, NoRequest
<1>6. \A R : SendingTo(R) = {} /\ Cardinality(SendingTo(R)) = 0
  BY <1>2, FS_EmptySet DEF SendingTo, Idle
<1>7. WaitingAreNew /\ FewAtOnce /\ LateWereUnderWay
  BY <1>6, Bounds DEF Init, WaitingAreNew, Waiting, FewAtOnce, LateWereUnderWay
<1>8. GivenOutOnce
  <2>1. \A r : BatchesOf(r) = {} /\ HoldersOf(r) = {}
    BY <1>2, <1>4 DEF BatchesOf, HoldersOf, Idle, TickTask, Task
  <2> QED
    BY <2>1 DEF Init, GivenOutOnce
<1>9. InsertedThenDone
  BY <1>2, <1>3, <1>4 DEF InsertedThenDone, EndsWith, Idle, NoRequest
<1>10. Attention
  <2>1. ~ToDispatch /\ ~ToFinish
    BY <1>2, <1>3, <1>4, Tokens DEF Idle, NoRequest
  <2> QED
    BY <1>4, <2>1 DEF Init, Attention, LockHeld, OnCourse
<1> QED
  BY <1>1, <1>5, <1>7, <1>8, <1>9, <1>10 DEF IInv

LEMMA StepHolds == IInv /\ [Next]_vars => IInv'
<1> SUFFICES ASSUME IInv, [Next]_vars PROVE IInv'
  OBVIOUS
<1>1. TypeOK'
  BY TypeStep DEF IInv
<1> QED
  BY <1>1, SoundStep, NewStep, FewStep, LateStep, GivenStep, DoneStep, AttentionStep DEF IInv

LEMMA IInvImplies == IInv => SendingIsBounded
<1> SUFFICES ASSUME IInv PROVE SendingIsBounded
  OBVIOUS
<1>1. FewMessages
  <2> SUFFICES ASSUME NEW r \in Recipients
               PROVE  msgs[r] <= IF handed[r] = 2 THEN Cardinality(Workers) ELSE handed[r]
    BY DEF FewMessages
  <2>1. handed[r] \in 0..2 /\ msgs[r] \in Nat
    BY Typed DEF IInv
  <2>2. CASE handed[r] = 2
    <3>1. msgs[r] + Cardinality(SendingTo({r})) <= Cardinality(Workers)
      BY DEF IInv, FewAtOnce
    <3>2. Cardinality(SendingTo({r})) \in Nat
      <4>1. SendingTo({r}) \in SUBSET Workers
        BY DEF SendingTo
      <4> QED
        BY <4>1, Bounds, CountType
    <3> QED
      BY <2>1, <2>2, <3>1, <3>2, Bounds
  <2>3. CASE handed[r] # 2
    <3>1. (handed[r] = 0 => msgs[r] = 0) /\ (handed[r] = 1 => msgs[r] <= 1)
      BY DEF IInv, GivenOutOnce
    <3>2. handed[r] = 0 \/ handed[r] = 1
      BY <2>1, <2>3
    <3> QED
      BY <2>1, <2>3, <3>1, <3>2
  <2> QED
    BY <2>2, <2>3
<1>2. CancelStops
  <2>1. late + Cardinality(SendingTo(dropped)) <= underWay /\ late \in Nat /\ underWay \in Nat
    BY Typed DEF IInv, LateWereUnderWay
  <2>2. Cardinality(SendingTo(dropped)) \in Nat
    <3>1. SendingTo(dropped) \in SUBSET Workers
      BY DEF SendingTo
    <3> QED
      BY <3>1, Bounds, CountType
  <2> QED
    BY <2>1, <2>2 DEF CancelStops
<1>3. CompletedMeansDone
  BY DEF IInv, InsertedThenDone, EndsWith, CompletedMeansDone, Waiting, Pending
<1>4. Attended
  <2> SUFFICES ASSUME status \in {"QUEUED", "DISPATCHING"}, Unattended, faults = 0, ~gaveUp, ~overwritten
               PROVE  FALSE
    BY Typed DEF Attended, IInv
  <2>1. ToDispatch \/ ToFinish
    BY DEF IInv, Attention, Clean, OnCourse
  <2>2. DOMAIN queue = {}
    BY DEF Unattended
  <2> QED
    BY <2>1, <2>2, Tokens DEF Unattended
<1> QED
  BY <1>1, <1>2, <1>3, <1>4 DEF SendingIsBounded, IInv

\* A recipient gets no more messages than the batches it was given out in and
\* the processes that looked at it explain, a cancellation lets through what
\* was under way, what is called complete is, and a campaign that is under way
\* has a task or a process that takes it further, unless something went wrong.
THEOREM SendingBounded == Spec => []SendingIsBounded
<1>1. Init => IInv
  BY InitHolds
<1>2. IInv /\ [Next]_vars => IInv'
  BY StepHolds
<1>3. IInv => SendingIsBounded
  BY IInvImplies
<1> QED
  BY <1>1, <1>2, <1>3, PTL DEF Spec

=============================================================================
