-------------------------- MODULE MessagingProofs ---------------------------
(***************************************************************************)
(* The safety properties of Delivery, for any number of tasks, workers,    *)
(* retries, accepted sends and faults; and, for one worker, the exact      *)
(* account of the sends, and that the row implements MessageLife.  Then    *)
(* those of Conversation, for any users, any number of requests in flight  *)
(* and any owner of the contact.                                           *)
(***************************************************************************)
EXTENDS Delivery, Conversation, SetLemmas


-----------------------------------------------------------------------------
(* The inductive invariant *)

\* A task k that will call Meta without a new reason, and one whose call Meta
\* has accepted.
Owes(k) ==
    \/ k.kind = "send" /\ k.pc \in {"queued", "read"}
    \/ k.kind = "reset" /\ k.pc = "committed"
HasCalled(k) == k.kind = "send" /\ k.pc = "called"

Pending == {t \in Slots : Owes(task[t])}
Called == {t \in Slots : HasCalled(task[t])}

\* A task k whose ids are among the n that Meta has given.
Sound(k, n) ==
    /\ k \in Task
    /\ k.id <= n
    /\ k.kind = "status" => k.st \in Reports

\* An answer that is lost is not waited for any more.
LostCalls == lost + Cardinality(Called) <= accepted

\* The calls to come have their causes already.
CallsHaveCauses == accepted + Cardinality(Pending) <= 1 + deliveryRetries + faults

IInv ==
    /\ TypeOK
    /\ \A t \in Slots : Sound(task[t], accepted)
    /\ LostCalls
    /\ CallsHaveCauses

-----------------------------------------------------------------------------
(* Steps of one task *)

\* The counters make up for what t becomes.
Balanced(t, new) ==
    /\ accepted <= accepted'
    /\ lost' + Bit(HasCalled(new)) + accepted <= lost + Bit(HasCalled(task[t])) + accepted'
    /\ accepted' + Bit(Owes(new)) + deliveryRetries + faults
         <= accepted + Bit(Owes(task[t])) + deliveryRetries' + faults'

LEMMA TaskStep ==
    ASSUME IInv, NEW t \in Slots, NEW new,
           task' = [task EXCEPT ![t] = new], Sound(new, accepted'),
           status' \in Statuses, metaId' \in 0..accepted', deliveryRetries' \in Nat,
           dedup' \subseteq (Ids \X Reports), accepted' \in Ids,
           lost' \in Nat, faults' \in 0..MaxFaults, Balanced(t, new)
    PROVE  IInv'
<1>1. /\ task' \in [Slots -> Task] /\ task'[t] = new
      /\ \A s \in Slots \ {t} : task'[s] = task[s]
  BY DEF IInv, TypeOK, Sound
<1>2. /\ accepted \in Nat /\ accepted' \in Nat /\ lost \in Nat /\ faults \in Nat
      /\ deliveryRetries \in Nat /\ faults' \in Nat
  BY BoundsAssumption DEF IInv, TypeOK, Ids
<1>3. \A s \in Slots : Sound(task'[s], accepted')
  BY <1>1, <1>2 DEF IInv, Sound, Task, Ids, Balanced
<1>4. /\ Cardinality(Called) \in Nat /\ Cardinality(Called') \in Nat
      /\ Cardinality(Called') + Bit(HasCalled(task[t])) = Cardinality(Called) + Bit(HasCalled(new))
  <2>1. /\ Called \in SUBSET Slots /\ Called' \in SUBSET Slots
        /\ \A s \in Slots \ {t} : s \in Called <=> s \in Called'
        /\ t \in Called <=> HasCalled(task[t])
        /\ t \in Called' <=> HasCalled(new)
    BY <1>1 DEF Called
  <2> QED
    BY <2>1, BoundsAssumption, CountType, CountStep DEF Bit
<1>5. /\ Cardinality(Pending) \in Nat /\ Cardinality(Pending') \in Nat
      /\ Cardinality(Pending') + Bit(Owes(task[t])) = Cardinality(Pending) + Bit(Owes(new))
  <2>1. /\ Pending \in SUBSET Slots /\ Pending' \in SUBSET Slots
        /\ \A s \in Slots \ {t} : s \in Pending <=> s \in Pending'
        /\ t \in Pending <=> Owes(task[t])
        /\ t \in Pending' <=> Owes(new)
    BY <1>1 DEF Pending
  <2> QED
    BY <2>1, BoundsAssumption, CountType, CountStep DEF Bit
<1>6. LostCalls'
  <2>1. ASSUME NEW a \in Int, NEW c \in Int, NEW l \in Int, NEW x \in Int,
               NEW a1 \in Int, NEW c1 \in Int, NEW l1 \in Int, NEW y \in Int,
               l + c <= a, l1 + y + a <= l + x + a1, c1 + x = c + y
        PROVE  l1 + c1 <= a1
    BY <2>1
  <2>2. /\ lost + Cardinality(Called) <= accepted
        /\ lost' + Bit(HasCalled(new)) + accepted <= lost + Bit(HasCalled(task[t])) + accepted'
        /\ Bit(HasCalled(task[t])) \in Int /\ Bit(HasCalled(new)) \in Int
    BY DEF IInv, LostCalls, Balanced, Bit
  <2>3. lost' + Cardinality(Called') <= accepted'
    BY <1>2, <1>4, <2>1, <2>2
  <2> QED
    BY <2>3 DEF LostCalls
<1>7. CallsHaveCauses'
  <2>1. accepted + Cardinality(Pending) <= 1 + deliveryRetries + faults
    BY DEF IInv, CallsHaveCauses
  <2>2. accepted' + Cardinality(Pending') <= 1 + deliveryRetries' + faults'
    <3>1. ASSUME NEW a \in Int, NEW p \in Int, NEW d \in Int, NEW f \in Int, NEW x \in Int,
                 NEW a1 \in Int, NEW p1 \in Int, NEW d1 \in Int, NEW f1 \in Int, NEW y \in Int,
                 a + p <= 1 + d + f, a1 + y + d + f <= a + x + d1 + f1, p1 + x = p + y
          PROVE  a1 + p1 <= 1 + d1 + f1
      BY <3>1
    <3>2. Bit(Owes(task[t])) \in Int /\ Bit(Owes(new)) \in Int
      BY DEF Bit
    <3> QED
      BY <1>2, <1>5, <2>1, <3>1, <3>2 DEF Balanced
  <2> QED
    BY <2>2 DEF CallsHaveCauses
<1>8. TypeOK'
  BY <1>1, <1>2, <1>4, <1>6 DEF TypeOK, LostCalls
<1> QED
  BY <1>3, <1>6, <1>7, <1>8 DEF IInv

\* A step that leaves the counters alone may not give t a call to make or to answer.
LEMMA QuietStep ==
    ASSUME IInv, NEW t \in Slots, NEW new,
           task' = [task EXCEPT ![t] = new], Sound(new, accepted), UNCHANGED env,
           status' \in Statuses, metaId' \in 0..accepted, UNCHANGED deliveryRetries,
           dedup' \subseteq (Ids \X Reports),
           Owes(new) => Owes(task[t]), HasCalled(new) => HasCalled(task[t])
    PROVE  IInv'
<1>1. /\ accepted \in Ids /\ accepted \in Nat /\ lost \in Nat /\ faults \in 0..MaxFaults
      /\ faults \in Nat /\ deliveryRetries \in Nat
  BY BoundsAssumption DEF IInv, TypeOK, Ids
<1>2. /\ Bit(Owes(new)) <= Bit(Owes(task[t])) /\ Bit(HasCalled(new)) <= Bit(HasCalled(task[t]))
      /\ Bit(Owes(new)) \in Int /\ Bit(Owes(task[t])) \in Int
      /\ Bit(HasCalled(new)) \in Int /\ Bit(HasCalled(task[t])) \in Int
  BY DEF Bit
<1>3. Balanced(t, new)
  BY <1>1, <1>2 DEF env, Balanced
<1> QED
  BY <1>1, <1>3, TaskStep DEF env

-----------------------------------------------------------------------------
(* Tasks *)

\* What is known of a task in a slot.
LEMMA SlotType ==
    ASSUME IInv, NEW t \in Slots
    PROVE  /\ task[t] \in Task /\ Sound(task[t], accepted)
           /\ task[t].kind \in {"none", "send", "reset", "status"}
           /\ task[t].pc \in {"queued", "read", "called", "committed"}
           /\ task[t].id \in Ids /\ task[t].id \in 0..accepted /\ task[t].st \in Statuses
           /\ task[t].n \in Nat /\ task[t].calls \in Nat
           /\ accepted \in Nat /\ accepted \in Ids /\ lost \in 0..accepted
           /\ faults \in 0..MaxFaults /\ faults \in Nat /\ MaxFaults \in Nat
           /\ deliveryRetries \in Nat /\ metaId \in 0..accepted /\ status \in Statuses
           /\ dedup \subseteq (Ids \X Reports)
<1>1. task[t] \in Task /\ Sound(task[t], accepted)
  BY DEF IInv, TypeOK
<1>2. accepted \in Nat /\ accepted \in Ids /\ MaxFaults \in Nat /\ MaxAccepted \in Nat
  BY BoundsAssumption DEF IInv, TypeOK, Ids
<1> QED
  BY <1>1, <1>2 DEF IInv, TypeOK, Sound, Task, Ids

\* The tasks that the code creates.
LEMMA NewTasks ==
    ASSUME IInv
    PROVE  /\ Sound(NoTask, accepted) /\ NoTask.kind = "none" /\ NoTask.pc = "queued"
           /\ Sound(SendTask, accepted) /\ SendTask.kind = "send" /\ SendTask.pc = "queued"
           /\ Sound(ResetTask, accepted) /\ ResetTask.kind = "reset" /\ ResetTask.pc = "queued"
           /\ ~Owes(NoTask) /\ ~Owes(ResetTask) /\ Owes(SendTask)
           /\ ~HasCalled(NoTask) /\ ~HasCalled(ResetTask) /\ ~HasCalled(SendTask)
<1>1. accepted \in Nat /\ 0 \in Ids
  BY BoundsAssumption DEF IInv, TypeOK, Ids
<1> QED
  BY <1>1 DEF NoTask, SendTask, ResetTask, Sound, Task, Statuses, Rank, Owes, HasCalled

LEMMA SendPausedKeeps ==
    ASSUME IInv, NEW t \in Slots, SendPaused(t)
    PROVE  IInv'
<1> USE SlotType, NewTasks DEF SendPaused, Starts
<1>1. CASE task[t].n < RedisRetries
  <2> DEFINE new == [task[t] EXCEPT !.n = @ + 1]
  <2>1. /\ Sound(new, accepted)
        /\ new.kind = task[t].kind /\ new.pc = task[t].pc
    BY DEF Sound, Task
  <2>2. task' = [task EXCEPT ![t] = new]
    BY <1>1 DEF IInv, TypeOK
  <2> QED
    BY <2>1, <2>2, QuietStep DEF msg, env, Owes, HasCalled
<1>2. CASE ~(task[t].n < RedisRetries)
  BY <1>2, QuietStep DEF Ends, Becomes, msg, env
<1> QED
  BY <1>1, <1>2

\* A task that goes on to a pc at which it owes no call.
LEMMA GoesOn ==
    ASSUME IInv, NEW t \in Slots, NEW pc \in {"read", "committed"}, Continues(t, pc)
    PROVE  \E new : /\ task' = [task EXCEPT ![t] = new]
                    /\ Sound(new, accepted)
                    /\ new.kind = task[t].kind /\ new.pc = pc
                    /\ new.id = task[t].id /\ new.st = task[t].st
<1> DEFINE new == [task[t] EXCEPT !.pc = pc]
<1>1. /\ Sound(new, accepted)
      /\ new.kind = task[t].kind /\ new.pc = pc /\ new.id = task[t].id /\ new.st = task[t].st
  BY SlotType DEF Sound, Task
<1>2. task' = [task EXCEPT ![t] = new]
  BY DEF Continues, IInv, TypeOK
<1> QED
  BY <1>1, <1>2

LEMMA SendReadKeeps ==
    ASSUME IInv, NEW t \in Slots, SendRead(t)
    PROVE  IInv'
<1> USE SlotType, NewTasks DEF SendRead, Starts
<1>1. CASE status = "QUEUED"
  <2>1. PICK new : /\ task' = [task EXCEPT ![t] = new] /\ Sound(new, accepted)
                   /\ new.kind = task[t].kind /\ new.pc = "read"
    BY <1>1, GoesOn
  <2> QED
    BY <2>1, QuietStep DEF msg, env, Owes, HasCalled
<1>2. CASE status # "QUEUED"
  BY <1>2, QuietStep DEF Ends, Becomes, msg, env
<1> QED
  BY <1>1, <1>2

LEMMA SendCommitKeeps ==
    ASSUME IInv, NEW t \in Slots, SendCommit(t)
    PROVE  IInv'
<1> USE SlotType DEF SendCommit, At
<1>1. PICK new : /\ task' = [task EXCEPT ![t] = new] /\ Sound(new, accepted)
                 /\ new.kind = task[t].kind /\ new.pc = "committed"
  BY GoesOn
<1>2. status' \in Statuses /\ metaId' \in 0..accepted
  BY DEF Statuses, Rank
<1> QED
  BY <1>1, <1>2, QuietStep DEF env, Owes, HasCalled

LEMMA MetaAcceptsKeeps ==
    ASSUME IInv, NEW t \in Slots, MetaAccepts(t)
    PROVE  IInv'
<1> USE SlotType DEF MetaAccepts, At
<1> DEFINE new == [task[t] EXCEPT !.pc = "called", !.id = accepted + 1]
<1>1. accepted' = accepted + 1 /\ accepted' \in Ids
  BY BoundsAssumption DEF Ids
<1>2. /\ Sound(new, accepted') /\ new.kind = "send" /\ new.pc = "called"
  <2>1. new \in Task /\ new.kind = "send" /\ new.pc = "called" /\ new.id = accepted'
    BY <1>1 DEF Task
  <2> QED
    BY <1>1, <2>1 DEF Sound
<1>3. task' = [task EXCEPT ![t] = new]
  BY DEF IInv, TypeOK
<1>4. /\ Bit(Owes(new)) = 0 /\ Bit(Owes(task[t])) = 1
      /\ Bit(HasCalled(new)) = 1 /\ Bit(HasCalled(task[t])) = 0
  BY <1>2 DEF Bit, Owes, HasCalled
<1> HIDE DEF new
<1>5. Balanced(t, new)
  BY <1>1, <1>4 DEF Balanced, msg
<1>6. /\ status' \in Statuses /\ metaId' \in 0..accepted' /\ deliveryRetries' \in Nat
      /\ dedup' \subseteq (Ids \X Reports) /\ lost' \in Nat /\ faults' \in 0..MaxFaults
  BY <1>1 DEF msg
<1> QED
  BY <1>1, <1>2, <1>3, <1>5, <1>6, TaskStep

\* A failed send leaves no more to do than before.
LEMMA RetryOrFails ==
    ASSUME IInv, NEW t \in Slots, At(t, "send", "read"), RetryOrFail(t)
    PROVE  /\ status' \in Statuses
           /\ \E new : /\ task' = [task EXCEPT ![t] = new] /\ Sound(new, accepted)
                       /\ ~HasCalled(new)
                       /\ \/ new = NoTask /\ status' = "FAILED"
                          \/ new.kind = "send" /\ new.pc = "queued" /\ UNCHANGED status
<1> USE SlotType, NewTasks DEF RetryOrFail
<1>1. CASE task[t].n + 1 > MaxRetries
  BY <1>1 DEF Ends, Becomes, Statuses, Rank
<1>2. CASE ~(task[t].n + 1 > MaxRetries)
  <2> DEFINE new == [SendTask EXCEPT !.n = task[t].n + 1, !.calls = task[t].calls + 1]
  <2>1. task' = [task EXCEPT ![t] = new] /\ UNCHANGED status
    BY <1>2 DEF IInv, TypeOK
  <2>2. Sound(new, accepted) /\ new.kind = "send" /\ new.pc = "queued"
    <3>1. task[t].n + 1 \in Nat /\ task[t].calls + 1 \in Nat
      OBVIOUS
    <3>2. new \in Task /\ new.kind = "send" /\ new.pc = "queued" /\ new.id = SendTask.id
      BY <3>1 DEF Sound, Task
    <3> QED
      BY <3>2 DEF Sound
  <2> HIDE DEF new
  <2> QED
    BY <2>1, <2>2 DEF HasCalled
<1> QED
  BY <1>1, <1>2

LEMMA MetaFailsKeeps ==
    ASSUME IInv, NEW t \in Slots, MetaRefuses(t) \/ MetaTimesOut(t) \/ MetaRejects(t)
    PROVE  IInv'
<1> USE SlotType, NewTasks DEF At
<1>1. CASE MetaRefuses(t)
  <2>1. PICK new : /\ task' = [task EXCEPT ![t] = new] /\ Sound(new, accepted)
                   /\ ~HasCalled(new)
    BY <1>1, RetryOrFails DEF MetaRefuses
  <2>2. status' \in Statuses /\ Owes(task[t])
    BY <1>1, RetryOrFails DEF MetaRefuses, Owes
  <2> QED
    BY <1>1, <2>1, <2>2, QuietStep DEF MetaRefuses, env
<1>2. CASE MetaTimesOut(t)
  <2>1. PICK new : /\ task' = [task EXCEPT ![t] = new] /\ Sound(new, accepted)
                   /\ ~HasCalled(new)
    BY <1>2, RetryOrFails DEF MetaTimesOut
  <2>2. /\ status' \in Statuses /\ accepted' = accepted + 1 /\ lost' = lost + 1
        /\ faults' = faults + 1 /\ faults' \in 0..MaxFaults /\ accepted' \in Ids
        /\ Sound(new, accepted')
    BY <1>2, <2>1, RetryOrFails, BoundsAssumption DEF MetaTimesOut, Ids, Sound, Task
  <2>3. /\ Bit(Owes(task[t])) = 1 /\ Bit(Owes(new)) \in 0..1
        /\ Bit(HasCalled(new)) = 0 /\ Bit(HasCalled(task[t])) = 0
    BY <1>2, <2>1 DEF MetaTimesOut, Owes, HasCalled, Bit
  <2>4. Balanced(t, new)
    BY <1>2, <2>2, <2>3 DEF MetaTimesOut, Balanced
  <2>5. /\ metaId' \in 0..accepted' /\ deliveryRetries' \in Nat
        /\ dedup' \subseteq (Ids \X Reports) /\ lost' \in Nat
    BY <1>2, <2>2 DEF MetaTimesOut
  <2> QED
    BY <2>1, <2>2, <2>4, <2>5, TaskStep
<1>3. CASE MetaRejects(t)
  BY <1>3, QuietStep DEF MetaRejects, env, Ends, Becomes, Statuses, Rank
<1> QED
  BY <1>1, <1>2, <1>3

LEMMA SendFinishKeeps ==
    ASSUME IInv, NEW t \in Slots, SendFinish(t)
    PROVE  IInv'
BY SlotType, NewTasks, QuietStep DEF SendFinish, Ends, Becomes, msg, env

-----------------------------------------------------------------------------
(* Reports and resets *)

LEMMA KeyType ==
    ASSUME IInv, NEW t \in Slots, task[t].kind = "status"
    PROVE  Key(t) \in Ids \X Reports
BY SlotType DEF Key, Sound

LEMMA WebhookKeeps ==
    ASSUME IInv, NEW t \in Slots, Webhook(t)
    PROVE  IInv'
<1>1. PICK id \in 1..accepted, st \in Reports : Becomes(t, StatusTask(id, st))
  BY DEF Webhook
<1> DEFINE new == StatusTask(id, st)
<1>2. id \in Ids /\ id <= accepted /\ st \in Statuses
  BY SlotType, BoundsAssumption DEF Ids, Statuses, Rank
<1>3. Sound(new, accepted) /\ new.kind = "status"
  BY <1>2, NewTasks DEF Sound, Task, StatusTask
<1> HIDE DEF new
<1> QED
  BY <1>1, <1>3, SlotType, QuietStep DEF Webhook, Becomes, msg, env, Owes, HasCalled, new

LEMMA ApplyKeeps ==
    ASSUME IInv, NEW t \in Slots, Apply(t)
    PROVE  IInv'
<1> USE SlotType, NewTasks DEF Starts, At
<1>1. CASE StatusSkip(t)
  BY <1>1, KeyType, QuietStep DEF StatusSkip, Ends, Becomes, msg, env
<1>2. CASE StatusRead(t)
  <2> DEFINE new == [task[t] EXCEPT !.pc = "read", !.n = deliveryRetries]
  <2>1. Sound(new, accepted) /\ new.kind = "status"
    BY <1>2 DEF StatusRead, Sound, Task
  <2>2. task' = [task EXCEPT ![t] = new]
    BY <1>2 DEF StatusRead, IInv, TypeOK
  <2> HIDE DEF new
  <2> QED
    BY <1>2, <2>1, <2>2, QuietStep DEF StatusRead, msg, env, Owes, HasCalled
<1>3. CASE StatusCommit(t)
  <2>1. PICK new : /\ task' = [task EXCEPT ![t] = new] /\ Sound(new, accepted)
                   /\ new.kind = "status"
    BY <1>3, GoesOn DEF StatusCommit
  <2> QED
    BY <1>3, <2>1, QuietStep DEF StatusCommit, env, Owes, HasCalled
<1>4. CASE StatusFinish(t)
  <2>1. dedup' \subseteq (Ids \X Reports)
    BY <1>4, KeyType DEF StatusFinish
  <2> QED
    BY <1>4, <2>1, QuietStep DEF StatusFinish, Ends, Becomes, msg, env
<1> QED
  BY <1>1, <1>2, <1>3, <1>4 DEF Apply

LEMMA ResetKeeps ==
    ASSUME IInv, NEW t \in Slots, Reset(t)
    PROVE  IInv'
<1> USE SlotType, NewTasks DEF Starts, At
<1>1. CASE ResetRead(t)
  <2>1. CASE status = "FAILED"
    <3>1. PICK new : /\ task' = [task EXCEPT ![t] = new] /\ Sound(new, accepted)
                     /\ new.kind = "reset" /\ new.pc = "read"
      BY <1>1, <2>1, GoesOn DEF ResetRead
    <3> QED
      BY <1>1, <3>1, QuietStep DEF ResetRead, msg, env, Owes, HasCalled
  <2>2. CASE status # "FAILED"
    BY <1>1, <2>2, QuietStep DEF ResetRead, Ends, Becomes, msg, env
  <2> QED
    BY <2>1, <2>2
<1>2. CASE ResetCommit(t)
  <2>1. PICK new : /\ task' = [task EXCEPT ![t] = new] /\ Sound(new, accepted)
                   /\ new.kind = "reset"
    BY <1>2, GoesOn DEF ResetCommit
  <2>2. /\ Bit(Owes(new)) \in 0..1 /\ Bit(Owes(task[t])) \in 0..1
        /\ Bit(HasCalled(new)) = 0 /\ Bit(HasCalled(task[t])) = 0
    BY <1>2, <2>1 DEF ResetCommit, HasCalled, Bit
  <2>3. Balanced(t, new)
    BY <1>2, <2>2 DEF ResetCommit, Balanced, env
  <2>4. status' \in Statuses
    BY <1>2 DEF ResetCommit, Statuses, Rank
  <2>5. deliveryRetries' \in Nat
    BY <1>2 DEF ResetCommit
  <2>6. /\ metaId' \in 0..accepted' /\ dedup' \subseteq (Ids \X Reports) /\ accepted' \in Ids
        /\ lost' \in Nat /\ faults' \in 0..MaxFaults /\ Sound(new, accepted')
    BY <1>2, <2>1 DEF ResetCommit, env
  <2> QED
    BY <2>1, <2>3, <2>4, <2>5, <2>6, TaskStep
<1>3. CASE ResetDispatch(t)
  BY <1>3, QuietStep DEF ResetDispatch, Becomes, msg, env, Owes
<1> QED
  BY <1>1, <1>2, <1>3 DEF Reset

-----------------------------------------------------------------------------
(* Faults *)

\* Each is counted, so it may give a task back its call.
LEMMA FaultKeeps ==
    ASSUME IInv, NEW t \in Slots,
           WorkerDies(t) \/ TaskFails(t) \/ \E s \in Slots : Redelivered(t, s)
    PROVE  IInv'
<1> USE SlotType, NewTasks DEF Fault
<1>1. ASSUME NEW s \in Slots, NEW new, task' = [task EXCEPT ![s] = new],
             Sound(new, accepted), ~HasCalled(new), Fault,
             lost' = IF HasCalled(task[s]) THEN lost + 1 ELSE lost,
             UNCHANGED <<msg, dedup, accepted>>
      PROVE  IInv'
  <2>1. /\ Bit(Owes(new)) \in 0..1 /\ Bit(Owes(task[s])) \in 0..1
        /\ Bit(HasCalled(new)) = 0 /\ lost' = lost + Bit(HasCalled(task[s]))
        /\ Bit(HasCalled(task[s])) \in 0..1
    BY <1>1 DEF Bit
  <2>2. faults' = faults + 1 /\ faults' \in 0..MaxFaults /\ lost' \in Nat
    BY <1>1, <2>1
  <2>3. Balanced(s, new)
    BY <1>1, <2>1, <2>2 DEF Balanced, msg
  <2> QED
    BY <1>1, <2>2, <2>3, TaskStep DEF msg
<1>2. CASE WorkerDies(t)
  <2> DEFINE new == [task[t] EXCEPT
                 !.pc = "queued",
                 !.n = IF task[t].kind = "send" THEN @ ELSE 0,
                 !.id = IF task[t].kind = "send" THEN 0 ELSE @]
  <2>1. Sound(new, accepted) /\ new.pc = "queued"
    <3>1. 0 \in Ids
      BY BoundsAssumption DEF Ids
    <3>2. /\ new \in Task /\ new.pc = "queued" /\ new.kind = task[t].kind
          /\ new.st = task[t].st /\ new.id \in {0, task[t].id}
      BY <3>1 DEF Task
    <3> QED
      BY <3>2 DEF Sound
  <2>2. task' = [task EXCEPT ![t] = new]
    BY <1>2 DEF WorkerDies, IInv, TypeOK
  <2> HIDE DEF new
  <2> QED
    BY <1>1, <1>2, <2>1, <2>2 DEF WorkerDies, LosesAnswer, HasCalled, At
<1>3. CASE TaskFails(t)
  BY <1>1, <1>3 DEF TaskFails, LosesAnswer, HasCalled, At, Ends, Becomes
<1>4. ASSUME NEW s \in Slots, Redelivered(t, s)
      PROVE  IInv'
  <2>1. ~HasCalled(task[s])
    BY <1>4 DEF Redelivered, Free, HasCalled
  <2> QED
    BY <1>1, <1>4, <2>1 DEF Redelivered, Becomes
<1> QED
  BY <1>2, <1>3, <1>4

-----------------------------------------------------------------------------
(* The theorems for any number of workers *)

LEMMA InitInv == Init => IInv
<1> SUFFICES ASSUME Init PROVE IInv
  OBVIOUS
<1>1. PICK t \in Slots : task = [s \in Slots |-> IF s = t THEN SendTask ELSE NoTask]
  BY DEF Init
<1>2. /\ SendTask \in Task /\ SendTask.kind = "send" /\ SendTask.pc = "queued" /\ SendTask.id = 0
      /\ NoTask \in Task /\ NoTask.kind = "none" /\ NoTask.pc = "queued" /\ NoTask.id = 0
  BY BoundsAssumption DEF SendTask, NoTask, Task, Ids, Statuses, Rank
<1>3. TypeOK /\ \A s \in Slots : Sound(task[s], accepted)
  BY <1>1, <1>2, BoundsAssumption DEF Init, TypeOK, Sound, Ids, Statuses, Rank
<1>4. Called = {} /\ Pending = {t}
  BY <1>1, <1>2 DEF Called, Pending, HasCalled, Owes
<1>5. Cardinality(Called) = 0 /\ Cardinality(Pending) = 1
  BY <1>4, FS_EmptySet, FS_Singleton
<1> QED
  BY <1>3, <1>5 DEF Init, IInv, LostCalls, CallsHaveCauses

LEMMA NextInv == IInv /\ [Next]_vars => IInv'
<1> SUFFICES ASSUME IInv, [Next]_vars PROVE IInv'
  OBVIOUS
<1>1. ASSUME NEW t \in Slots, Send(t)
      PROVE  IInv'
  BY <1>1, SendReadKeeps, SendCommitKeeps, SendFinishKeeps, MetaAcceptsKeeps, MetaFailsKeeps
     DEF Send
<1>2. ASSUME NEW t \in Slots, Environment(t)
      PROVE  IInv'
  BY <1>2, SendPausedKeeps, MetaFailsKeeps, WebhookKeeps, FaultKeeps DEF Environment
<1>3. CASE UNCHANGED vars
  BY <1>3 DEF vars, msg, env, IInv, TypeOK, LostCalls, Called, CallsHaveCauses, Pending
<1> QED
  BY <1>1, <1>2, <1>3, ApplyKeeps, ResetKeeps DEF Next

LEMMA Invariant == Spec => []IInv
BY InitInv, NextInv, PTL DEF Spec

\* However many workers take the tasks of a message and whatever they lose, Meta
\* accepts it once and once more for each delivery retry and each fault at most.
THEOREM SendsAccounted == Spec => []SendsAreAccounted
<1>1. IInv => SendsAreAccounted
  <2> SUFFICES ASSUME IInv PROVE SendsHaveCauses
    BY DEF SendsAreAccounted, IInv
  <2>1. Cardinality(Pending) \in Nat /\ accepted \in Nat /\ deliveryRetries \in Nat /\ faults \in Nat
    BY BoundsAssumption, CountType DEF Pending, IInv, TypeOK, Ids
  <2> QED
    BY <2>1 DEF IInv, CallsHaveCauses, SendsHaveCauses
<1> QED
  BY <1>1, Invariant, PTL

-----------------------------------------------------------------------------
(* A QUEUED message keeps a task that sends it *)

Drives(k) ==
    \/ k.kind = "send" /\ k.pc # "committed"
    \/ k.kind = "reset" /\ k.pc = "committed"

\* The message is not QUEUED, or has a task.
Cared == status = "QUEUED" => Driven

LEMMA DrivenBy == Driven <=> \E t \in Slots : Drives(task[t])
BY DEF Driven, Drives, At

\* A step of t keeps it so if it leaves t driving, or takes nothing from the row.
LEMMA CaredStep ==
    ASSUME IInv, Cared, NEW t \in Slots,
           \A s \in Slots \ {t} : task'[s] = task[s],
           \/ Drives(task'[t])
           \/ ~Drives(task[t]) /\ UNCHANGED status
           \/ status' # "QUEUED"
    PROVE  Cared'
<1>1. Driven' <=> \E s \in Slots : Drives(task'[s])
  BY DEF Driven, Drives, At
<1> QED
  BY <1>1, DrivenBy DEF Cared

\* What an action makes of its own task.
LEMMA OwnTask ==
    ASSUME IInv, NEW t \in Slots, NEW new, task' = [task EXCEPT ![t] = new]
    PROVE  task'[t] = new /\ \A s \in Slots \ {t} : task'[s] = task[s]
BY DEF IInv, TypeOK

\* The update of some fields of a task.
LEMMA OwnFields ==
    ASSUME IInv, NEW t \in Slots, NEW pc, Continues(t, pc)
    PROVE  /\ task'[t].kind = task[t].kind /\ task'[t].pc = pc
           /\ task'[t].id = task[t].id /\ task'[t].st = task[t].st
           /\ \A s \in Slots \ {t} : task'[s] = task[s]
BY SlotType DEF Continues, IInv, TypeOK, Task

LEMMA SendCares ==
    ASSUME IInv, Cared, NEW t \in Slots, Send(t)
    PROVE  Cared'
<1> USE SlotType, NewTasks, OwnTask, OwnFields, CaredStep DEF Starts, At, Drives
<1>1. CASE SendRead(t)
  <2>1. CASE status = "QUEUED"
    BY <1>1, <2>1 DEF SendRead
  <2>2. CASE status # "QUEUED"
    BY <1>1, <2>2 DEF SendRead, msg, Ends, Becomes
  <2> QED
    BY <2>1, <2>2
<1>2. CASE SendCommit(t)
  BY <1>2 DEF SendCommit
<1>3. CASE SendFinish(t)
  BY <1>3 DEF SendFinish, msg, Ends, Becomes
<1>4. CASE MetaAccepts(t)
  <2>1. /\ task'[t].kind = "send" /\ task'[t].pc = "called"
        /\ \A s \in Slots \ {t} : task'[s] = task[s]
    BY <1>4 DEF MetaAccepts, IInv, TypeOK, Task
  <2> QED
    BY <2>1
<1>5. CASE MetaRefuses(t)
  <2>1. PICK new : /\ task' = [task EXCEPT ![t] = new]
                   /\ \/ new = NoTask /\ status' = "FAILED"
                      \/ new.kind = "send" /\ new.pc = "queued" /\ UNCHANGED status
    BY <1>5, RetryOrFails DEF MetaRefuses
  <2> QED
    BY <2>1
<1>6. CASE MetaRejects(t)
  BY <1>6 DEF MetaRejects, Ends, Becomes
<1> QED
  BY <1>1, <1>2, <1>3, <1>4, <1>5, <1>6 DEF Send

LEMMA ApplyCares ==
    ASSUME IInv, Cared, NEW t \in Slots, Apply(t) \/ Webhook(t)
    PROVE  Cared'
<1> USE SlotType, OwnTask, OwnFields, CaredStep DEF Starts, At, Drives
<1>1. CASE StatusSkip(t)
  BY <1>1 DEF StatusSkip, msg, Ends, Becomes
<1>2. CASE StatusRead(t)
  <2>1. \A s \in Slots \ {t} : task'[s] = task[s]
    BY <1>2 DEF StatusRead, IInv, TypeOK
  <2> QED
    BY <1>2, <2>1 DEF StatusRead, msg
<1>3. CASE StatusCommit(t)
  <2>1. status' # "QUEUED"
    BY <1>3, BoundsAssumption DEF StatusCommit, Sound
  <2> QED
    BY <1>3, <2>1 DEF StatusCommit
<1>4. CASE StatusFinish(t)
  <2>1. \A s \in Slots \ {t} : task'[s] = task[s]
    BY <1>4 DEF StatusFinish, Ends, Becomes
  <2> QED
    BY <1>4, <2>1 DEF StatusFinish, msg
<1>5. CASE Webhook(t)
  <2>1. \A s \in Slots \ {t} : task'[s] = task[s]
    BY <1>5 DEF Webhook, Becomes
  <2> QED
    BY <1>5, <2>1 DEF Webhook, msg, Free
<1> QED
  BY <1>1, <1>2, <1>3, <1>4, <1>5 DEF Apply

LEMMA ResetCares ==
    ASSUME IInv, Cared, NEW t \in Slots, Reset(t)
    PROVE  Cared'
<1> USE SlotType, NewTasks, OwnTask, OwnFields, CaredStep DEF Starts, At, Drives
<1>1. CASE ResetRead(t)
  <2>1. CASE status = "FAILED"
    BY <1>1, <2>1 DEF ResetRead, msg
  <2>2. CASE status # "FAILED"
    BY <1>1, <2>2 DEF ResetRead, msg, Ends, Becomes
  <2> QED
    BY <2>1, <2>2
<1>2. CASE ResetCommit(t)
  BY <1>2 DEF ResetCommit
<1>3. CASE ResetDispatch(t)
  BY <1>3 DEF ResetDispatch, Becomes
<1> QED
  BY <1>1, <1>2, <1>3 DEF Reset

\* A QUEUED message loses its last task only through a fault or at the end of the
\* budget for a Redis outage, however many workers and tasks there are.
THEOREM MessageNeverAbandoned == Spec => NeverAbandoned
<1>1. ASSUME IInv, [Next]_vars, Cared, ~Cared', ~\E t \in Slots : SendPaused(t)
      PROVE  faults' # faults
  <2>1. ~UNCHANGED vars
    BY <1>1 DEF vars, msg, Cared, Driven, At
  <2>2. PICK t \in Slots : Send(t) \/ Apply(t) \/ Reset(t) \/ Environment(t)
    BY <1>1, <2>1 DEF Next
  <2>3. \/ MetaTimesOut(t) \/ WorkerDies(t) \/ TaskFails(t)
        \/ \E s \in Slots : Redelivered(t, s)
    BY <1>1, <2>2, SendCares, ApplyCares, ResetCares DEF Environment
  <2>4. faults' = faults + 1
    BY <2>3 DEF MetaTimesOut, WorkerDies, TaskFails, Redelivered, Fault
  <2> QED
    BY <1>1, <2>4, SlotType
<1>2. IInv /\ [Next]_vars =>
        [(status = "QUEUED" => Driven) /\ ~(status' = "QUEUED" => Driven')
           => faults' # faults \/ \E t \in Slots : SendPaused(t)]_vars
  BY <1>1 DEF Cared
<1> QED
  BY <1>2, Invariant, PTL DEF Spec, NeverAbandoned

-----------------------------------------------------------------------------
(* One worker *)

\* One task at most executes.
Alone == \A s, t \in Executing : s = t

\* Where an executing task k stands tells what the row and the keys hold.
Placed(k) ==
    /\ k.kind = "send" /\ k.pc \in {"read", "called"} => status = "QUEUED"
    /\ HasCalled(k) => \A key \in dedup : key[1] # k.id
    /\ k.kind = "status" /\ k.pc = "read" => metaId = k.id /\ Rank[k.st] > Rank[status]
    /\ k.kind = "status" /\ k.pc = "committed" => metaId = k.id /\ status = k.st

\* A key is about a send that Meta has accepted.
KeysPast == \A key \in dedup : key[1] <= accepted

\* A QUEUED message has the cause of its next send.
Exact == accepted + Bit(status = "QUEUED") <= 1 + deliveryRetries + lost + Cardinality(Called)

SInv ==
    /\ Alone
    /\ \A t \in Slots : Placed(task[t])
    /\ KeysPast /\ Exact /\ KeyMeansApplied

\* Every other task waits in the broker.
OthersWait(t) == \A s \in Slots \ {t} : task[s].pc = "queued"

LEMMA WorkerIsAlone ==
    ASSUME Workers = 1, IInv, SInv, NEW t \in Slots,
           task[t].pc # "queued" \/ \E kind \in {"send", "reset", "status"} : Starts(t, kind)
    PROVE  OthersWait(t)
<1>1. CASE task[t].pc # "queued"
  BY <1>1 DEF SInv, Alone, Executing, OthersWait
<1>2. CASE \E kind \in {"send", "reset", "status"} : Starts(t, kind)
  <2>1. Cardinality(Executing) < 1 /\ Cardinality(Executing) \in Nat /\ IsFiniteSet(Executing)
    BY <1>2, BoundsAssumption, CountType DEF Starts, Executing
  <2>2. Executing = {}
    BY <2>1, FS_EmptySet
  <2> QED
    BY <2>2 DEF Executing, OthersWait
<1> QED
  BY <1>1, <1>2

\* The counters make up for what t becomes and for the row.
Exchanged(t) ==
    accepted' + Bit(status' = "QUEUED") + Bit(HasCalled(task[t])) + deliveryRetries + lost
      <= accepted + Bit(status = "QUEUED") + Bit(HasCalled(task'[t])) + deliveryRetries' + lost'

LEMMA ExactStep ==
    ASSUME IInv, IInv', Exact, NEW t \in Slots, Exchanged(t),
           \A s \in Slots \ {t} : task'[s] = task[s]
    PROVE  Exact'
<1>1. /\ accepted \in Nat /\ accepted' \in Nat /\ lost \in Nat /\ lost' \in Nat
      /\ deliveryRetries \in Nat /\ deliveryRetries' \in Nat
  BY BoundsAssumption DEF IInv, TypeOK, Ids
<1>2. /\ Cardinality(Called) \in Nat /\ Cardinality(Called') \in Nat
      /\ Cardinality(Called') + Bit(HasCalled(task[t]))
            = Cardinality(Called) + Bit(HasCalled(task'[t]))
  <2>1. /\ Called \in SUBSET Slots /\ Called' \in SUBSET Slots
        /\ \A s \in Slots \ {t} : s \in Called <=> s \in Called'
        /\ t \in Called <=> HasCalled(task[t])
        /\ t \in Called' <=> HasCalled(task'[t])
    BY DEF Called
  <2> QED
    BY <2>1, BoundsAssumption, CountType, CountStep DEF Bit
<1>3. ASSUME NEW a \in Int, NEW c \in Int, NEW d \in Int, NEW l \in Int, NEW q \in Int, NEW x \in Int,
             NEW a1 \in Int, NEW c1 \in Int, NEW d1 \in Int, NEW l1 \in Int, NEW q1 \in Int, NEW y \in Int,
             a + q <= 1 + d + l + c, c1 + x = c + y,
             a1 + q1 + x + d + l <= a + q + y + d1 + l1
      PROVE  a1 + q1 <= 1 + d1 + l1 + c1
  BY <1>3
<1>4. /\ Bit(status = "QUEUED") \in Int /\ Bit(status' = "QUEUED") \in Int
      /\ Bit(HasCalled(task[t])) \in Int /\ Bit(HasCalled(task'[t])) \in Int
  BY DEF Bit
<1>5. /\ accepted + Bit(status = "QUEUED") <= 1 + deliveryRetries + lost + Cardinality(Called)
      /\ accepted' + Bit(status' = "QUEUED") + Bit(HasCalled(task[t])) + deliveryRetries + lost
            <= accepted + Bit(status = "QUEUED") + Bit(HasCalled(task'[t])) + deliveryRetries' + lost'
  BY DEF Exact, Exchanged
<1>6. accepted' + Bit(status' = "QUEUED") <= 1 + deliveryRetries' + lost' + Cardinality(Called')
  BY <1>1, <1>2, <1>3, <1>4, <1>5
<1> QED
  BY <1>6 DEF Exact, Bit

\* A step of t while the others wait need only be right about t.
LEMMA SerialStep ==
    ASSUME IInv, IInv', SInv, NEW t \in Slots, OthersWait(t),
           \A s \in Slots \ {t} : task'[s] = task[s],
           Placed(task[t])', Exchanged(t), KeysPast', KeyMeansApplied'
    PROVE  SInv'
<1>1. \A s \in Slots \ {t} : task'[s].pc = "queued"
  BY DEF OthersWait
<1>2. Alone'
  BY <1>1 DEF Alone, Executing
<1>3. \A s \in Slots : Placed(task[s])'
  BY <1>1 DEF Placed, HasCalled
<1> QED
  BY <1>2, <1>3, ExactStep DEF SInv

\* A step that leaves the row and the counters alone, and t waiting.
LEMMA WaitStep ==
    ASSUME IInv, IInv', SInv, NEW t \in Slots,
           \A s \in Slots \ {t} : task'[s] = task[s],
           task'[t].pc = "queued", ~HasCalled(task[t]),
           UNCHANGED <<msg, dedup, accepted, lost>>
    PROVE  SInv'
<1> USE DEF msg
<1>1. Alone'
  BY DEF SInv, Alone, Executing
<1>2. \A s \in Slots : Placed(task[s])'
  BY DEF SInv, Placed, HasCalled
<1>3. KeysPast' /\ KeyMeansApplied'
  BY DEF SInv, KeysPast, KeyMeansApplied
<1>4. Exchanged(t)
  BY BoundsAssumption DEF Exchanged, HasCalled, Bit, IInv, TypeOK, Ids
<1> QED
  BY <1>1, <1>2, <1>3, <1>4, ExactStep DEF SInv

\* Steps that leave the row, the keys and the counters alone.
LEMMA StillStep ==
    ASSUME IInv, IInv', SInv, NEW t \in Slots, OthersWait(t),
           \A s \in Slots \ {t} : task'[s] = task[s],
           Placed(task'[t]), HasCalled(task'[t]) <=> HasCalled(task[t]),
           UNCHANGED <<msg, dedup, accepted, lost>>
    PROVE  SInv'
<1> USE DEF msg
<1>1. Placed(task[t])'
  BY DEF Placed, HasCalled
<1>2. KeysPast' /\ KeyMeansApplied'
  BY DEF SInv, KeysPast, KeyMeansApplied
<1>3. Exchanged(t)
  BY BoundsAssumption DEF Exchanged, Bit, IInv, TypeOK, Ids
<1> QED
  BY <1>1, <1>2, <1>3, SerialStep

LEMMA KeyRanks ==
    ASSUME IInv
    PROVE  /\ Rank["QUEUED"] = 1 /\ Rank["FAILED"] = 3
           /\ \A st \in Statuses : Rank[st] \in Int
           /\ \A key \in dedup : key[2] \in Reports /\ Rank[key[2]] \in Int
<1>1. \A key \in dedup : key[2] \in Reports
  BY DEF IInv, TypeOK
<1>2. Reports \subseteq Statuses
  BY BoundsAssumption DEF Statuses, Rank
<1>3. \A st \in Statuses : Rank[st] \in Int
  BY DEF Statuses, Rank
<1> QED
  BY <1>1, <1>2, <1>3 DEF Rank

\* A send that fails, with or without the message accepted.
LEMMA FailSerial ==
    ASSUME Workers = 1, IInv, IInv', SInv, NEW t \in Slots,
           MetaRefuses(t) \/ MetaTimesOut(t) \/ MetaRejects(t)
    PROVE  SInv'
<1> USE SlotType, NewTasks, OwnTask DEF At, env
<1>1. task[t].kind = "send" /\ task[t].pc = "read" /\ OthersWait(t) /\ status = "QUEUED"
  <2>1. task[t].kind = "send" /\ task[t].pc = "read"
    BY DEF MetaRefuses, MetaTimesOut, MetaRejects
  <2> QED
    BY <2>1, WorkerIsAlone DEF SInv, Placed
<1>2. /\ task'[t].pc = "queued" /\ \A s \in Slots \ {t} : task'[s] = task[s]
      /\ status' \in {"QUEUED", "FAILED"}
  <2>1. CASE MetaRejects(t)
    BY <2>1 DEF MetaRejects, Ends, Becomes
  <2>2. CASE MetaRefuses(t) \/ MetaTimesOut(t)
    <3>1. PICK new : /\ task' = [task EXCEPT ![t] = new]
                     /\ \/ new = NoTask /\ status' = "FAILED"
                        \/ new.kind = "send" /\ new.pc = "queued" /\ UNCHANGED status
      BY <2>2, RetryOrFails DEF MetaRefuses, MetaTimesOut
    <3> QED
      BY <1>1, <3>1
  <2> QED
    BY <2>1, <2>2
<1>3. /\ UNCHANGED <<metaId, deliveryRetries, dedup>>
      /\ \/ UNCHANGED <<accepted, lost>>
         \/ accepted' = accepted + 1 /\ lost' = lost + 1
  BY DEF MetaRefuses, MetaTimesOut, MetaRejects
<1>4. Placed(task[t])'
  BY <1>2 DEF Placed, HasCalled
<1>5. KeysPast'
  BY <1>3, BoundsAssumption DEF SInv, KeysPast, Ids
<1>6. KeyMeansApplied'
  <2>1. /\ Rank["QUEUED"] = 1 /\ Rank["FAILED"] = 3
        /\ \A key \in dedup : Rank[key[2]] \in Int
    BY KeyRanks
  <2>2. Rank[status'] >= Rank[status]
    BY <1>1, <1>2, <2>1
  <2> QED
    BY <1>1, <1>2, <1>3, <2>1, <2>2 DEF SInv, KeyMeansApplied
<1>7. Exchanged(t)
  <2>1. ~HasCalled(task[t]) /\ ~HasCalled(task'[t])
    BY <1>1, <1>2 DEF HasCalled
  <2> QED
    BY <1>1, <1>2, <1>3, <2>1 DEF Exchanged, Bit
<1> QED
  BY <1>1, <1>2, <1>4, <1>5, <1>6, <1>7, SerialStep

LEMMA SendSerial ==
    ASSUME Workers = 1, IInv, IInv', SInv, NEW t \in Slots, Send(t) \/ SendPaused(t)
    PROVE  SInv'
<1> USE SlotType, NewTasks, OwnTask, OwnFields DEF At, msg, env
<1>1. OthersWait(t)
  BY WorkerIsAlone DEF Send, SendPaused, SendRead, SendCommit, SendFinish, MetaAccepts,
     MetaRefuses, MetaRejects
<1>2. Placed(task[t]) /\ KeysPast /\ KeyMeansApplied
  BY DEF SInv
<1>3. CASE SendPaused(t)
  <2>1. /\ task'[t].pc = "queued" /\ \A s \in Slots \ {t} : task'[s] = task[s]
    BY <1>3 DEF SendPaused, Starts, Ends, Becomes, IInv, TypeOK, Task
  <2>2. ~HasCalled(task[t])
    BY <1>3 DEF SendPaused, Starts, HasCalled
  <2> QED
    BY <1>3, <2>1, <2>2, WaitStep DEF SendPaused
<1>4. CASE SendRead(t)
  <2>1. CASE status = "QUEUED"
    <3>1. /\ task'[t].kind = "send" /\ task'[t].pc = "read"
          /\ \A s \in Slots \ {t} : task'[s] = task[s]
      BY <1>4, <2>1 DEF SendRead, Starts
    <3> QED
      BY <1>1, <1>4, <2>1, <3>1, StillStep DEF SendRead, Starts, Placed, HasCalled
  <2>2. CASE status # "QUEUED"
    <3>1. task'[t] = NoTask /\ \A s \in Slots \ {t} : task'[s] = task[s]
      BY <1>4, <2>2 DEF SendRead, Ends, Becomes
    <3> QED
      BY <1>4, <3>1, WaitStep DEF SendRead, Starts, HasCalled
  <2> QED
    BY <2>1, <2>2
<1>5. CASE SendCommit(t)
  <2>1. /\ task'[t].kind = "send" /\ task'[t].pc = "committed"
        /\ \A s \in Slots \ {t} : task'[s] = task[s]
    BY <1>5 DEF SendCommit
  <2>2. Placed(task[t])' /\ KeysPast'
    BY <1>2, <1>5, <2>1 DEF SendCommit, Placed, HasCalled, KeysPast
  <2>3. KeyMeansApplied'
    BY <1>2, <1>5 DEF SendCommit, Placed, HasCalled, KeyMeansApplied
  <2>4. Exchanged(t)
    <3>1. status = "QUEUED" /\ HasCalled(task[t]) /\ ~HasCalled(task'[t]) /\ status' # "QUEUED"
      BY <1>2, <1>5, <2>1 DEF SendCommit, Placed, HasCalled
    <3> QED
      BY <1>5, <3>1 DEF SendCommit, Exchanged, Bit
  <2> QED
    BY <1>1, <2>1, <2>2, <2>3, <2>4, SerialStep
<1>6. CASE SendFinish(t)
  <2>1. task'[t] = NoTask /\ \A s \in Slots \ {t} : task'[s] = task[s]
    BY <1>6 DEF SendFinish, Ends, Becomes
  <2> QED
    BY <1>6, <2>1, WaitStep DEF SendFinish, HasCalled
<1>7. CASE MetaAccepts(t)
  <2>1. /\ task'[t].kind = "send" /\ task'[t].pc = "called" /\ task'[t].id = accepted + 1
        /\ \A s \in Slots \ {t} : task'[s] = task[s]
    BY <1>7 DEF MetaAccepts, IInv, TypeOK, Task
  <2>2. \A key \in dedup : key[1] \in Nat /\ key[1] <= accepted
    BY <1>2, BoundsAssumption DEF KeysPast, Ids
  <2>3. Placed(task[t])'
    <3>1. status = "QUEUED" /\ status' = status /\ dedup' = dedup
      BY <1>2, <1>7 DEF MetaAccepts, Placed
    <3>2. \A key \in dedup : key[1] # accepted + 1
      BY <2>2
    <3> QED
      BY <2>1, <3>1, <3>2 DEF Placed, HasCalled
  <2>4. KeysPast' /\ KeyMeansApplied'
    BY <1>2, <1>7, <2>2 DEF MetaAccepts, KeysPast, KeyMeansApplied
  <2>5. Exchanged(t)
    <3>1. ~HasCalled(task[t]) /\ HasCalled(task'[t]) /\ status' = status /\ accepted' = accepted + 1
      BY <1>7, <2>1 DEF MetaAccepts, HasCalled
    <3> QED
      BY <1>7, <3>1 DEF MetaAccepts, Exchanged, Bit
  <2> QED
    BY <1>1, <2>1, <2>3, <2>5, <2>4, SerialStep
<1>8. CASE MetaRefuses(t) \/ MetaRejects(t)
  BY <1>8, <1>1, <1>2, FailSerial DEF MetaRefuses, MetaRejects
<1> QED
  BY <1>3, <1>4, <1>5, <1>6, <1>7, <1>8 DEF Send

LEMMA ApplySerial ==
    ASSUME Workers = 1, IInv, IInv', SInv, NEW t \in Slots, Apply(t) \/ Webhook(t)
    PROVE  SInv'
<1> USE SlotType, NewTasks, OwnTask, OwnFields DEF At, msg, env
<1>1. Placed(task[t]) /\ KeysPast /\ KeyMeansApplied
  BY DEF SInv
<1>2. CASE Webhook(t)
  <2>1. PICK id \in 1..accepted, st \in Reports : task' = [task EXCEPT ![t] = StatusTask(id, st)]
    BY <1>2 DEF Webhook, Becomes
  <2>2. StatusTask(id, st).pc = "queued"
    BY DEF StatusTask, NoTask
  <2>3. task'[t].pc = "queued" /\ \A s \in Slots \ {t} : task'[s] = task[s]
    BY <2>1, <2>2
  <2> QED
    BY <1>2, <2>3, WaitStep DEF Webhook, Free, HasCalled
<1>3. ASSUME Apply(t)
      PROVE  OthersWait(t) /\ task[t].kind = "status" /\ ~HasCalled(task[t])
  BY <1>3, WorkerIsAlone
     DEF Apply, StatusSkip, StatusRead, StatusCommit, StatusFinish, Starts, HasCalled
<1>4. CASE StatusSkip(t)
  <2>1. task'[t] = NoTask /\ \A s \in Slots \ {t} : task'[s] = task[s]
    BY <1>4 DEF StatusSkip, Ends, Becomes
  <2>2. Placed(task[t])'
    BY <2>1 DEF Placed, HasCalled
  <2>3. dedup' = dedup \union {Key(t)} /\ Key(t)[1] = task[t].id /\ Key(t)[2] = task[t].st
    BY <1>4 DEF StatusSkip, Key
  <2>4. KeysPast'
    BY <1>1, <1>4, <2>3 DEF StatusSkip, KeysPast
  <2>5. KeyMeansApplied'
    <3>1. Key(t) \in dedup \/ metaId # task[t].id \/ Rank[status] >= Rank[task[t].st]
      BY <1>4, KeyRanks DEF StatusSkip, News
    <3> QED
      BY <1>1, <1>4, <2>3, <3>1 DEF StatusSkip, KeyMeansApplied
  <2>6. Exchanged(t)
    BY <1>3, <1>4, <2>1 DEF StatusSkip, Apply, Exchanged, Bit
  <2> QED
    BY <1>3, <1>4, <2>1, <2>2, <2>4, <2>5, <2>6, SerialStep DEF Apply
<1>5. CASE StatusRead(t)
  <2>1. /\ task'[t].kind = "status" /\ task'[t].pc = "read" /\ task'[t].id = task[t].id
        /\ task'[t].st = task[t].st /\ \A s \in Slots \ {t} : task'[s] = task[s]
    BY <1>5 DEF StatusRead, Starts, IInv, TypeOK, Task
  <2>2. Placed(task'[t]) /\ ~HasCalled(task'[t])
    BY <1>5, <2>1 DEF StatusRead, News, Placed, HasCalled
  <2> QED
    BY <1>3, <1>5, <2>1, <2>2, StillStep DEF StatusRead, Apply
<1>6. CASE StatusCommit(t)
  <2>1. /\ task'[t].kind = "status" /\ task'[t].pc = "committed" /\ task'[t].id = task[t].id
        /\ task'[t].st = task[t].st /\ \A s \in Slots \ {t} : task'[s] = task[s]
    BY <1>6 DEF StatusCommit
  <2>2. metaId = task[t].id /\ Rank[task[t].st] > Rank[status] /\ status' = task[t].st
    BY <1>1, <1>6 DEF StatusCommit, Placed
  <2>3. Placed(task[t])' /\ KeysPast'
    BY <1>1, <1>6, <2>1, <2>2 DEF StatusCommit, Placed, HasCalled, KeysPast
  <2>4. KeyMeansApplied'
    BY <1>1, <1>6, <2>2, KeyRanks DEF StatusCommit, KeyMeansApplied
  <2>5. Exchanged(t)
    <3>1. status' # "QUEUED"
      BY <1>6, BoundsAssumption DEF StatusCommit, Sound
    <3>2. ~HasCalled(task'[t]) /\ ~HasCalled(task[t])
      BY <1>6, <2>1 DEF StatusCommit, HasCalled
    <3> QED
      BY <1>6, <3>1, <3>2 DEF StatusCommit, Exchanged, Bit
  <2> QED
    BY <1>3, <1>6, <2>1, <2>3, <2>4, <2>5, SerialStep DEF Apply
<1>7. CASE StatusFinish(t)
  <2>1. task'[t] \in {NoTask, ResetTask} /\ \A s \in Slots \ {t} : task'[s] = task[s]
    BY <1>7 DEF StatusFinish, Ends, Becomes
  <2>2. Placed(task[t])'
    BY <2>1 DEF Placed, HasCalled
  <2>3. dedup' = dedup \union {Key(t)} /\ Key(t)[1] = task[t].id /\ Key(t)[2] = task[t].st
    BY <1>7 DEF StatusFinish, Key
  <2>4. KeysPast'
    BY <1>1, <1>7, <2>3 DEF StatusFinish, KeysPast
  <2>5. KeyMeansApplied'
    <3>1. status = task[t].st
      BY <1>1, <1>7 DEF StatusFinish, Placed
    <3> QED
      BY <1>1, <1>7, <2>3, <3>1, KeyRanks DEF StatusFinish, KeyMeansApplied
  <2>6. Exchanged(t)
    BY <1>3, <1>7, <2>1 DEF StatusFinish, Apply, Exchanged, Bit
  <2> QED
    BY <1>3, <1>7, <2>1, <2>2, <2>4, <2>5, <2>6, SerialStep DEF Apply
<1> QED
  BY <1>2, <1>4, <1>5, <1>6, <1>7 DEF Apply

LEMMA ResetSerial ==
    ASSUME Workers = 1, IInv, IInv', SInv, NEW t \in Slots, Reset(t)
    PROVE  SInv'
<1> USE SlotType, NewTasks, OwnTask, OwnFields DEF At, msg, env
<1>1. Placed(task[t]) /\ KeysPast /\ KeyMeansApplied
  BY DEF SInv
<1>2. OthersWait(t) /\ task[t].kind = "reset" /\ ~HasCalled(task[t])
  BY WorkerIsAlone DEF Reset, ResetRead, ResetCommit, ResetDispatch, Starts, HasCalled
<1>3. CASE ResetRead(t)
  <2>1. CASE status = "FAILED"
    <3>1. /\ task'[t].kind = "reset" /\ \A s \in Slots \ {t} : task'[s] = task[s]
      BY <1>2, <1>3, <2>1 DEF ResetRead
    <3>2. Placed(task'[t]) /\ ~HasCalled(task'[t])
      BY <3>1 DEF Placed, HasCalled
    <3> QED
      BY <1>2, <1>3, <3>1, <3>2, StillStep DEF ResetRead
  <2>2. CASE status # "FAILED"
    <3>1. task'[t] = NoTask /\ \A s \in Slots \ {t} : task'[s] = task[s]
      BY <1>3, <2>2 DEF ResetRead, Ends, Becomes
    <3> QED
      BY <1>2, <1>3, <3>1, WaitStep DEF ResetRead
  <2> QED
    BY <2>1, <2>2
<1>4. CASE ResetCommit(t)
  <2>1. task'[t].kind = "reset" /\ \A s \in Slots \ {t} : task'[s] = task[s]
    BY <1>2, <1>4 DEF ResetCommit
  <2>2. Placed(task[t])' /\ KeysPast'
    BY <1>1, <1>4, <2>1 DEF ResetCommit, Placed, HasCalled, KeysPast
  <2>3. KeyMeansApplied'
    BY <1>4 DEF ResetCommit, KeyMeansApplied
  <2>4. Exchanged(t)
    <3>1. ~HasCalled(task'[t])
      BY <2>1 DEF HasCalled
    <3> QED
      BY <1>2, <1>4, <3>1 DEF ResetCommit, Exchanged, Bit
  <2> QED
    BY <1>2, <2>1, <2>2, <2>3, <2>4, SerialStep
<1>5. CASE ResetDispatch(t)
  <2>1. task'[t] = SendTask /\ \A s \in Slots \ {t} : task'[s] = task[s]
    BY <1>5 DEF ResetDispatch, Becomes
  <2> QED
    BY <1>2, <1>5, <2>1, WaitStep DEF ResetDispatch
<1> QED
  BY <1>3, <1>4, <1>5 DEF Reset

LEMMA FaultSerial ==
    ASSUME Workers = 1, IInv, IInv', SInv, NEW t \in Slots,
           WorkerDies(t) \/ TaskFails(t) \/ \E s \in Slots : Redelivered(t, s)
    PROVE  SInv'
<1> USE SlotType, NewTasks, OwnTask DEF At, msg
<1>1. KeysPast /\ KeyMeansApplied
  BY DEF SInv
<1>2. CASE WorkerDies(t) \/ TaskFails(t)
  <2>1. OthersWait(t)
    BY <1>2, WorkerIsAlone DEF WorkerDies, TaskFails
  <2>2. task'[t].pc = "queued" /\ \A s \in Slots \ {t} : task'[s] = task[s]
    BY <1>2 DEF WorkerDies, TaskFails, Ends, Becomes, IInv, TypeOK, Task
  <2>3. /\ UNCHANGED <<status, metaId, deliveryRetries, dedup, accepted>>
        /\ lost' = lost + Bit(HasCalled(task[t]))
    BY <1>2 DEF WorkerDies, TaskFails, LosesAnswer, HasCalled, Bit
  <2>4. Placed(task[t])' /\ KeysPast' /\ KeyMeansApplied'
    BY <1>1, <2>2, <2>3 DEF Placed, HasCalled, KeysPast, KeyMeansApplied
  <2>5. Exchanged(t)
    <3>1. ~HasCalled(task'[t])
      BY <2>2 DEF HasCalled
    <3> QED
      BY <2>3, <3>1 DEF Exchanged, Bit
  <2> QED
    BY <2>1, <2>2, <2>4, <2>5, SerialStep
<1>3. ASSUME NEW s \in Slots, Redelivered(t, s)
      PROVE  SInv'
  <2>1. task'[s] = ResetTask /\ \A r \in Slots \ {s} : task'[r] = task[r]
    BY <1>3 DEF Redelivered, Becomes
  <2> QED
    BY <1>3, <2>1, WaitStep DEF Redelivered, Free, HasCalled
<1> QED
  BY <1>2, <1>3

LEMMA SerialInit == Init => SInv
<1> SUFFICES ASSUME Init PROVE SInv
  OBVIOUS
<1>1. \A t \in Slots : task[t].pc = "queued"
  BY DEF Init, SendTask, NoTask
<1>2. Called = {}
  BY <1>1 DEF Called, HasCalled
<1> QED
  BY <1>1, <1>2, FS_EmptySet
     DEF Init, SInv, Alone, Executing, Placed, HasCalled, KeysPast, Exact, KeyMeansApplied, Bit

LEMMA SerialNext ==
    ASSUME Workers = 1
    PROVE  IInv /\ SInv /\ [Next]_vars => SInv'
<1> SUFFICES ASSUME IInv, SInv, [Next]_vars PROVE SInv'
  OBVIOUS
<1>1. IInv'
  BY NextInv
<1>2. CASE UNCHANGED vars
  BY <1>2 DEF vars, msg, env, SInv, Alone, Executing, Placed, HasCalled, KeysPast, Exact,
     Called, KeyMeansApplied
<1> QED
  BY <1>1, <1>2, SendSerial, FailSerial, ApplySerial, ResetSerial, FaultSerial
     DEF Next, Environment

\* A call that Meta has accepted and that is not in the row yet is that of the one
\* worker, which found the row QUEUED.
LEMMA SerialExplains == IInv /\ SInv => SerialIsExact
<1> SUFFICES ASSUME IInv, SInv PROVE NoUnexplainedSend
  BY DEF SerialIsExact, SInv
<1>1. /\ accepted \in Nat /\ deliveryRetries \in Nat /\ lost \in Nat
      /\ accepted + Bit(status = "QUEUED") <= 1 + deliveryRetries + lost + Cardinality(Called)
  BY BoundsAssumption DEF IInv, TypeOK, Ids, SInv, Exact
<1>2. CASE Called = {}
  BY <1>1, <1>2, FS_EmptySet DEF NoUnexplainedSend, Bit
<1>3. CASE Called # {}
  <2>1. PICK t \in Called : Called = {t}
    BY <1>3 DEF SInv, Alone, Executing, Called, HasCalled
  <2>2. Cardinality(Called) = 1 /\ status = "QUEUED"
    BY <2>1, FS_Singleton DEF SInv, Placed, Called, HasCalled
  <2> QED
    BY <1>1, <2>2 DEF NoUnexplainedSend, Bit
<1> QED
  BY <1>2, <1>3

\* With one worker Meta gets a message once, once more for every delivery retry
\* and once more for every answer that was lost, exactly; and a report whose key
\* is set is in the row.
THEOREM SerialExact ==
    ASSUME Workers = 1
    PROVE  Spec => []SerialIsExact
<1>1. IInv /\ SInv /\ [Next]_vars => SInv'
  BY SerialNext
<1> QED
  BY <1>1, SerialInit, SerialExplains, Invariant, PTL DEF Spec
-----------------------------------------------------------------------------
(* The row's life, for one worker *)

\* A reset k that has not put the message back yet.
Waits(k) == k.kind = "reset" /\ k.pc \in {"queued", "read"}
Resets == {t \in Slots : Waits(task[t])}

\* The row says that a send is over, well or badly.
Over == status \notin {"QUEUED", "SENT"}

\* Where an executing task k stands tells what it may make of the row.
Limited(k) ==
    /\ k.kind = "reset" /\ k.pc = "read" => status = "FAILED"
    /\ k.kind = "status" /\ k.pc \in {"read", "committed"} => k.n = deliveryRetries
    /\ k.kind = "status" /\ k.pc = "committed" /\ k.st = "FAILED"
         => Cardinality(Resets) <= faults

\* A reset has a failure of its own or a fault, and its place within the limit.
LInv ==
    /\ \A t \in Slots : Limited(task[t])
    /\ Cardinality(Resets) <= faults + Bit(Over)
    /\ deliveryRetries + Cardinality(Resets) <= MaxDeliveryRetries + faults

LEMMA CountResets ==
    ASSUME NEW t \in Slots, \A s \in Slots \ {t} : task'[s] = task[s]
    PROVE  /\ Cardinality(Resets) \in Nat /\ Cardinality(Resets') \in Nat
           /\ Cardinality(Resets') + Bit(Waits(task[t]))
                 = Cardinality(Resets) + Bit(Waits(task'[t]))
           /\ Waits(task[t]) => Cardinality(Resets) >= 1
<1>1. /\ Resets \in SUBSET Slots /\ Resets' \in SUBSET Slots
      /\ \A s \in Slots \ {t} : s \in Resets <=> s \in Resets'
      /\ t \in Resets <=> Waits(task[t])
      /\ t \in Resets' <=> Waits(task'[t])
  BY DEF Resets
<1>2. /\ Cardinality(Resets) \in Nat /\ Cardinality(Resets') \in Nat
      /\ Cardinality(Resets') + Bit(Waits(task[t]))
            = Cardinality(Resets) + Bit(Waits(task'[t]))
  BY <1>1, BoundsAssumption, CountType, CountStep DEF Bit
<1>3. ASSUME Waits(task[t]) PROVE Cardinality(Resets) >= 1
  <2>1. Cardinality(Resets) # 0
    BY <1>1, <1>3, BoundsAssumption, CountType, FS_EmptySet
  <2> QED
    BY <1>2, <2>1
<1> QED
  BY <1>2, <1>3

\* The counters make up for what t becomes and for the row.
Paid(t) ==
    /\ Bit(Waits(task'[t])) + faults + Bit(Over) <= Bit(Waits(task[t])) + faults' + Bit(Over')
    /\ deliveryRetries' + Bit(Waits(task'[t])) + faults
         <= deliveryRetries + Bit(Waits(task[t])) + faults'

LEMMA LifeStep ==
    ASSUME IInv, IInv', LInv, NEW t \in Slots, Paid(t),
           \A s \in Slots \ {t} : task'[s] = task[s], Limited(task[t])',
           OthersWait(t) \/ UNCHANGED msg
    PROVE  LInv'
<1>1. /\ deliveryRetries \in Nat /\ deliveryRetries' \in Nat /\ faults \in Nat /\ faults' \in Nat
      /\ MaxDeliveryRetries \in Nat
  BY BoundsAssumption DEF IInv, TypeOK
<1>2. /\ Cardinality(Resets) \in Nat /\ Cardinality(Resets') \in Nat
      /\ Cardinality(Resets') + Bit(Waits(task[t]))
            = Cardinality(Resets) + Bit(Waits(task'[t]))
  BY CountResets
<1>3. /\ Bit(Waits(task[t])) \in Int /\ Bit(Waits(task'[t])) \in Int
      /\ Bit(Over) \in Int /\ Bit(Over') \in Int
  BY DEF Bit
<1>4. /\ Cardinality(Resets) <= faults + Bit(Over)
      /\ deliveryRetries + Cardinality(Resets) <= MaxDeliveryRetries + faults
      /\ \A s \in Slots : Limited(task[s])
  BY DEF LInv
<1>5. ASSUME NEW r \in Int, NEW f \in Int, NEW o \in Int, NEW x \in Int,
             NEW r1 \in Int, NEW f1 \in Int, NEW o1 \in Int, NEW y \in Int,
             r1 + x = r + y, r <= f + o, y + f + o <= x + f1 + o1
      PROVE  r1 <= f1 + o1
  BY <1>5
<1>6. Cardinality(Resets') <= faults' + Bit(Over')
  BY <1>1, <1>2, <1>3, <1>4, <1>5 DEF Paid
<1>7. ASSUME NEW r \in Int, NEW f \in Int, NEW d \in Int, NEW x \in Int, NEW m \in Int,
             NEW r1 \in Int, NEW f1 \in Int, NEW d1 \in Int, NEW y \in Int,
             r1 + x = r + y, d + r <= m + f, d1 + y + f <= d + x + f1
      PROVE  d1 + r1 <= m + f1
  BY <1>7
<1>8. deliveryRetries' + Cardinality(Resets') <= MaxDeliveryRetries + faults'
  BY <1>1, <1>2, <1>3, <1>4, <1>7 DEF Paid
<1>9. ASSUME NEW s \in Slots \ {t}
      PROVE  Limited(task[s])'
  <2>1. CASE OthersWait(t)
    BY <1>9, <2>1 DEF OthersWait, Limited
  <2>2. CASE UNCHANGED msg
    <3>1. UNCHANGED <<status, deliveryRetries>> /\ Bit(Over') = Bit(Over)
      BY <2>2 DEF msg, Over
    <3>2. ASSUME NEW r \in Int, NEW f \in Int, NEW o \in Int, NEW x \in Int,
                 NEW r1 \in Int, NEW f1 \in Int, NEW y \in Int,
                 r1 + x = r + y, r <= f, y + f + o <= x + f1 + o
          PROVE  r1 <= f1
      BY <3>2
    <3>3. Cardinality(Resets) <= faults => Cardinality(Resets') <= faults'
      BY <1>1, <1>2, <1>3, <3>1, <3>2 DEF Paid
    <3> QED
      BY <1>4, <1>9, <3>1, <3>3 DEF Limited
  <2> QED
    BY <2>1, <2>2
<1>10. \A s \in Slots : Limited(task[s])'
  BY <1>9
<1> QED
  BY <1>6, <1>8, <1>10 DEF LInv

\* What a step of a send does to the row.
LEMMA SendMoves ==
    ASSUME Workers = 1, IInv, SInv, NEW t \in Slots,
           Send(t) \/ SendPaused(t) \/ MetaTimesOut(t)
    PROVE  /\ OthersWait(t) /\ \A s \in Slots \ {t} : task'[s] = task[s]
           /\ task[t].kind = "send" /\ task'[t].kind \in {"send", "none"}
           /\ UNCHANGED deliveryRetries /\ faults' \in {faults, faults + 1}
           /\ \/ UNCHANGED status
              \/ status = "QUEUED" /\ status' \in {"SENT", "FAILED"}
<1> USE SlotType, NewTasks, OwnTask, OwnFields DEF At, msg, env
<1>1. task[t].kind = "send" /\ OthersWait(t)
  BY WorkerIsAlone DEF Send, SendPaused, SendRead, SendCommit, SendFinish, MetaAccepts,
     MetaRefuses, MetaRejects, MetaTimesOut, Starts
<1>2. CASE SendPaused(t)
  BY <1>1, <1>2 DEF SendPaused, Ends, Becomes, IInv, TypeOK, Task
<1>3. CASE SendRead(t)
  <2>1. CASE status = "QUEUED"
    BY <1>1, <1>3, <2>1 DEF SendRead
  <2>2. CASE status # "QUEUED"
    BY <1>1, <1>3, <2>2 DEF SendRead, Ends, Becomes
  <2> QED
    BY <2>1, <2>2
<1>4. CASE SendCommit(t)
  <2>1. status = "QUEUED"
    BY <1>4 DEF SendCommit, SInv, Placed
  <2> QED
    BY <1>1, <1>4, <2>1 DEF SendCommit
<1>5. CASE SendFinish(t) \/ MetaRejects(t)
  <2>1. MetaRejects(t) => status = "QUEUED"
    BY <1>5 DEF MetaRejects, SInv, Placed
  <2> QED
    BY <1>1, <1>5, <2>1 DEF SendFinish, MetaRejects, Ends, Becomes
<1>6. CASE MetaAccepts(t)
  BY <1>1, <1>6 DEF MetaAccepts, IInv, TypeOK, Task
<1>7. CASE MetaRefuses(t) \/ MetaTimesOut(t)
  <2>1. status = "QUEUED"
    BY <1>7 DEF MetaRefuses, MetaTimesOut, SInv, Placed
  <2>2. PICK new : /\ task' = [task EXCEPT ![t] = new]
                   /\ \/ new = NoTask /\ status' = "FAILED"
                      \/ new.kind = "send" /\ new.pc = "queued" /\ UNCHANGED status
    BY <1>7, RetryOrFails DEF MetaRefuses, MetaTimesOut
  <2> QED
    BY <1>1, <1>7, <2>1, <2>2 DEF MetaRefuses, MetaTimesOut
<1> QED
  BY <1>2, <1>3, <1>4, <1>5, <1>6, <1>7 DEF Send

LEMMA SendLife ==
    ASSUME Workers = 1, IInv, IInv', SInv, LInv, NEW t \in Slots,
           Send(t) \/ SendPaused(t) \/ MetaTimesOut(t)
    PROVE  LInv'
<1>1. /\ OthersWait(t) /\ \A s \in Slots \ {t} : task'[s] = task[s]
      /\ task[t].kind = "send" /\ task'[t].kind \in {"send", "none"}
      /\ UNCHANGED deliveryRetries /\ faults' \in {faults, faults + 1}
      /\ \/ UNCHANGED status
         \/ status = "QUEUED" /\ status' \in {"SENT", "FAILED"}
  BY SendMoves
<1>2. Limited(task[t])'
  BY <1>1 DEF Limited
<1>3. Paid(t)
  BY <1>1, SlotType DEF Paid, Waits, Over, Bit
<1> QED
  BY <1>1, <1>2, <1>3, LifeStep

LEMMA ApplyLife ==
    ASSUME Workers = 1, IInv, IInv', SInv, LInv, NEW t \in Slots, Apply(t) \/ Webhook(t)
    PROVE  LInv'
<1> USE SlotType, NewTasks, OwnTask, OwnFields DEF At, msg, env
<1>1. CASE Webhook(t)
  <2>1. PICK id \in 1..accepted, st \in Reports : task' = [task EXCEPT ![t] = StatusTask(id, st)]
    BY <1>1 DEF Webhook, Becomes
  <2>2. StatusTask(id, st).kind = "status" /\ StatusTask(id, st).pc = "queued"
    BY DEF StatusTask, NoTask
  <2>3. /\ task'[t].kind = "status" /\ task'[t].pc = "queued" /\ task[t].kind = "none"
        /\ \A s \in Slots \ {t} : task'[s] = task[s]
    BY <1>1, <2>1, <2>2 DEF Webhook, Free
  <2>4. Limited(task[t])' /\ Paid(t)
    BY <1>1, <2>3 DEF Webhook, Limited, Paid, Waits, Over, Bit
  <2> QED
    BY <1>1, <2>3, <2>4, LifeStep DEF Webhook
<1>2. ASSUME Apply(t)
      PROVE  OthersWait(t) /\ task[t].kind = "status"
  BY <1>2, WorkerIsAlone
     DEF Apply, StatusSkip, StatusRead, StatusCommit, StatusFinish, Starts
<1>3. CASE StatusSkip(t)
  <2>1. task'[t] = NoTask /\ \A s \in Slots \ {t} : task'[s] = task[s]
    BY <1>3 DEF StatusSkip, Ends, Becomes
  <2>2. Limited(task[t])' /\ Paid(t)
    BY <1>2, <1>3, <2>1 DEF StatusSkip, Apply, Limited, Paid, Waits, Over, Bit
  <2> QED
    BY <1>2, <1>3, <2>1, <2>2, LifeStep DEF Apply
<1>4. CASE StatusRead(t)
  <2>1. /\ task'[t].kind = "status" /\ task'[t].pc = "read" /\ task'[t].n = deliveryRetries
        /\ \A s \in Slots \ {t} : task'[s] = task[s]
    BY <1>4 DEF StatusRead, Starts, IInv, TypeOK, Task
  <2>2. Limited(task[t])' /\ Paid(t)
    BY <1>2, <1>4, <2>1 DEF StatusRead, Apply, Limited, Paid, Waits, Over, Bit
  <2> QED
    BY <1>2, <1>4, <2>1, <2>2, LifeStep DEF Apply
<1>5. CASE StatusCommit(t)
  <2>1. /\ task'[t].kind = "status" /\ task'[t].pc = "committed" /\ task'[t].st = task[t].st
        /\ task'[t].n = task[t].n /\ \A s \in Slots \ {t} : task'[s] = task[s]
    BY <1>5 DEF StatusCommit, Continues, IInv, TypeOK, Task
  <2>2. /\ Rank[task[t].st] > Rank[status] /\ status' = task[t].st
        /\ task[t].n = deliveryRetries
    BY <1>5 DEF StatusCommit, SInv, Placed, LInv, Limited
  <2>3. Over' \/ ~Over
    BY <2>2 DEF Over, Rank, Statuses
  <2>4. Paid(t)
    BY <1>5, <2>1, <2>3 DEF StatusCommit, Paid, Waits, Bit
  <2>5. Limited(task[t])'
    <3>1. status' = "FAILED" => ~Over
      BY <2>2 DEF Over, Rank, Statuses
    <3>2. /\ Cardinality(Resets) \in Nat /\ Cardinality(Resets') \in Nat
          /\ Cardinality(Resets') = Cardinality(Resets)
      BY <1>5, <2>1, CountResets DEF StatusCommit, Waits, Bit
    <3>3. status' = "FAILED" => Cardinality(Resets') <= faults'
      BY <1>5, <3>1, <3>2 DEF StatusCommit, LInv, Bit
    <3> QED
      BY <1>5, <2>1, <2>2, <3>3 DEF StatusCommit, Limited
  <2> QED
    BY <1>2, <1>5, <2>1, <2>4, <2>5, LifeStep DEF Apply
<1>6. CASE StatusFinish(t)
  <2>1. /\ \A s \in Slots \ {t} : task'[s] = task[s]
        /\ \/ task'[t] = NoTask
           \/ task'[t] = ResetTask /\ MayRetry(t)
    BY <1>6 DEF StatusFinish, Ends, Becomes
  <2>2. Limited(task[t])'
    BY <2>1 DEF Limited
  <2>3. CASE task'[t] = NoTask
    <3>1. Paid(t)
      BY <1>2, <1>6, <2>3 DEF StatusFinish, Apply, Paid, Waits, Over, Bit
    <3> QED
      BY <1>2, <1>6, <2>1, <2>2, <3>1, LifeStep DEF Apply
  <2>4. CASE task'[t] = ResetTask /\ MayRetry(t)
    <3>1. /\ status = "FAILED" /\ Over /\ Cardinality(Resets) <= faults
          /\ deliveryRetries < MaxDeliveryRetries
      BY <1>6, <2>4 DEF StatusFinish, MayRetry, SInv, Placed, LInv, Limited, Over
    <3>2. /\ Cardinality(Resets) \in Nat /\ Cardinality(Resets') \in Nat
          /\ Cardinality(Resets') = Cardinality(Resets) + 1
      BY <1>6, <2>1, <2>4, CountResets DEF StatusFinish, Waits, Bit
    <3>3. UNCHANGED <<status, deliveryRetries, faults>> /\ Over'
      BY <1>6, <3>1 DEF StatusFinish, Over
    <3>4. /\ Cardinality(Resets') <= faults' + Bit(Over')
          /\ deliveryRetries' + Cardinality(Resets') <= MaxDeliveryRetries + faults'
      BY <3>1, <3>2, <3>3, BoundsAssumption DEF Bit
    <3>5. \A s \in Slots : Limited(task[s])'
      BY <1>2, <1>6, <2>1, <2>2 DEF Apply, OthersWait, Limited
    <3> QED
      BY <3>4, <3>5 DEF LInv
  <2> QED
    BY <2>1, <2>3, <2>4
<1> QED
  BY <1>1, <1>3, <1>4, <1>5, <1>6 DEF Apply

LEMMA ResetLife ==
    ASSUME Workers = 1, IInv, IInv', SInv, LInv, NEW t \in Slots, Reset(t)
    PROVE  LInv'
<1> USE SlotType, NewTasks, OwnTask, OwnFields DEF At, msg, env
<1>1. OthersWait(t) /\ task[t].kind = "reset"
  BY WorkerIsAlone DEF Reset, ResetRead, ResetCommit, ResetDispatch, Starts
<1>2. CASE ResetRead(t)
  <2>1. /\ \A s \in Slots \ {t} : task'[s] = task[s]
        /\ \/ task'[t] = NoTask
           \/ task'[t].kind = "reset" /\ task'[t].pc = "read" /\ status = "FAILED"
    BY <1>1, <1>2 DEF ResetRead, Ends, Becomes
  <2>2. Limited(task[t])' /\ Paid(t)
    BY <1>1, <1>2, <2>1 DEF ResetRead, Starts, Limited, Paid, Waits, Over, Bit
  <2> QED
    BY <1>1, <2>1, <2>2, LifeStep
<1>3. CASE ResetCommit(t)
  <2>1. /\ task'[t].kind = "reset" /\ task'[t].pc = "committed"
        /\ \A s \in Slots \ {t} : task'[s] = task[s]
    BY <1>1, <1>3 DEF ResetCommit
  <2>2. Limited(task[t])' /\ Paid(t)
    BY <1>1, <1>3, <2>1 DEF ResetCommit, Limited, Paid, Waits, Over, Bit
  <2> QED
    BY <1>1, <2>1, <2>2, LifeStep
<1>4. CASE ResetDispatch(t)
  <2>1. task'[t] = SendTask /\ \A s \in Slots \ {t} : task'[s] = task[s]
    BY <1>4 DEF ResetDispatch, Becomes
  <2>2. Limited(task[t])' /\ Paid(t)
    BY <1>1, <1>4, <2>1 DEF ResetDispatch, Limited, Paid, Waits, Over, Bit
  <2> QED
    BY <1>1, <2>1, <2>2, LifeStep
<1> QED
  BY <1>2, <1>3, <1>4 DEF Reset

LEMMA FaultLife ==
    ASSUME Workers = 1, IInv, IInv', SInv, LInv, NEW t \in Slots,
           WorkerDies(t) \/ TaskFails(t) \/ \E s \in Slots : Redelivered(t, s)
    PROVE  LInv'
<1> USE SlotType, NewTasks, OwnTask DEF At, msg
<1>1. faults' = faults + 1 /\ UNCHANGED <<status, metaId, deliveryRetries>>
  BY DEF WorkerDies, TaskFails, Redelivered, Fault
<1>2. CASE WorkerDies(t) \/ TaskFails(t)
  <2>1. task'[t].pc = "queued" /\ \A s \in Slots \ {t} : task'[s] = task[s]
    BY <1>2 DEF WorkerDies, TaskFails, Ends, Becomes, IInv, TypeOK, Task
  <2>2. Limited(task[t])' /\ Paid(t)
    BY <1>1, <2>1 DEF Limited, Paid, Over, Bit
  <2> QED
    BY <1>1, <2>1, <2>2, LifeStep
<1>3. ASSUME NEW s \in Slots, Redelivered(t, s)
      PROVE  LInv'
  <2>1. task'[s] = ResetTask /\ \A r \in Slots \ {s} : task'[r] = task[r]
    BY <1>3 DEF Redelivered, Becomes
  <2>2. Limited(task[s])' /\ Paid(s)
    BY <1>1, <2>1 DEF Limited, Paid, Over, Bit
  <2> QED
    BY <1>1, <1>3, <2>1, <2>2, LifeStep
<1> QED
  BY <1>2, <1>3

LEMMA LifeInit == Init => LInv
<1> SUFFICES ASSUME Init PROVE LInv
  OBVIOUS
<1>1. \A t \in Slots : task[t].pc = "queued" /\ task[t].kind # "reset"
  BY DEF Init, SendTask, NoTask
<1>2. Resets = {}
  BY <1>1 DEF Resets, Waits
<1> QED
  BY <1>1, <1>2, FS_EmptySet, BoundsAssumption DEF Init, LInv, Limited, Over, Bit

LEMMA LifeNext ==
    ASSUME Workers = 1
    PROVE  IInv /\ SInv /\ LInv /\ [Next]_vars => LInv'
<1> SUFFICES ASSUME IInv, SInv, LInv, [Next]_vars PROVE LInv'
  OBVIOUS
<1>1. IInv'
  BY NextInv
<1>2. CASE UNCHANGED vars
  BY <1>2 DEF vars, msg, env, LInv, Limited, Resets, Waits, Over
<1> QED
  BY <1>1, <1>2, SendLife, ApplyLife, ResetLife, FaultLife DEF Next, Environment

-----------------------------------------------------------------------------
(* The row implements MessageLife *)

\* A fault may repeat a reset, which then counts one delivery retry more.
FaultyLife == INSTANCE MessageLife
                  WITH MaxDeliveryRetries <- MaxDeliveryRetries + MaxFaults

\* A status of higher rank is further on.
LEMMA Climbs ==
    ASSUME status \in Statuses, status' \in Statuses, Rank[status'] > Rank[status],
           UNCHANGED deliveryRetries
    PROVE  FaultyLife!Advance
<1>1. \A st \in Statuses : Rank[st] \in 1..5 /\ FaultyLife!Order[Rank[st]] = st
  BY DEF Statuses, Rank, FaultyLife!Order
<1>2. Rank[status] \in 1..5 /\ Rank[status'] \in Rank[status] + 1 .. 5
  BY <1>1
<1> QED
  BY <1>1, <1>2 DEF FaultyLife!Advance

LEMMA StepIsLife ==
    ASSUME Workers = 1, IInv, SInv, LInv, [Next]_vars
    PROVE  \/ FaultyLife!Advance \/ FaultyLife!QueueAgain
           \/ UNCHANGED <<status, deliveryRetries>>
<1> USE DEF msg
<1>1. CASE UNCHANGED vars
  BY <1>1 DEF vars
<1>2. ASSUME NEW t \in Slots, Send(t) \/ SendPaused(t) \/ MetaTimesOut(t)
      PROVE  FaultyLife!Advance \/ UNCHANGED <<status, deliveryRetries>>
  <2>1. /\ UNCHANGED deliveryRetries
        /\ UNCHANGED status \/ (status = "QUEUED" /\ status' \in {"SENT", "FAILED"})
    BY <1>2, SendMoves
  <2> QED
    BY <2>1, Climbs DEF Statuses, Rank
<1>3. ASSUME NEW t \in Slots, Apply(t)
      PROVE  FaultyLife!Advance \/ UNCHANGED <<status, deliveryRetries>>
  <2>1. CASE StatusCommit(t)
    <3>1. /\ status' = task[t].st /\ Rank[task[t].st] > Rank[status]
          /\ UNCHANGED deliveryRetries
      BY <2>1 DEF StatusCommit, At, SInv, Placed
    <3> QED
      BY <1>3, <3>1, SlotType, Climbs
  <2>2. CASE ~StatusCommit(t)
    BY <1>3, <2>2 DEF Apply, StatusSkip, StatusRead, StatusFinish
  <2> QED
    BY <2>1, <2>2
<1>4. ASSUME NEW t \in Slots, Reset(t)
      PROVE  FaultyLife!QueueAgain \/ UNCHANGED <<status, deliveryRetries>>
  <2>1. CASE ResetCommit(t)
    <3>1. /\ status = "FAILED" /\ status' = "QUEUED"
          /\ deliveryRetries' = deliveryRetries + 1
      BY <1>4, <2>1 DEF ResetCommit, At, LInv, Limited
    <3>2. Cardinality(Resets) \in Nat /\ Cardinality(Resets) >= 1
      <4>1. \A s \in Slots \ {t} : task'[s] = task[s]
        BY <1>4, <2>1, OwnFields DEF ResetCommit
      <4> QED
        BY <1>4, <2>1, <4>1, CountResets DEF ResetCommit, At, Waits
    <3>3. deliveryRetries < MaxDeliveryRetries + MaxFaults
      BY <1>4, <3>2, SlotType, BoundsAssumption DEF LInv
    <3> QED
      BY <3>1, <3>3 DEF FaultyLife!QueueAgain
  <2>2. CASE ~ResetCommit(t)
    BY <1>4, <2>2 DEF Reset, ResetRead, ResetDispatch
  <2> QED
    BY <2>1, <2>2
<1>5. ASSUME NEW t \in Slots,
             \/ Webhook(t) \/ WorkerDies(t) \/ TaskFails(t)
             \/ \E s \in Slots : Redelivered(t, s)
      PROVE  UNCHANGED <<status, deliveryRetries>>
  BY <1>5 DEF Webhook, WorkerDies, TaskFails, Redelivered
<1> QED
  BY <1>1, <1>2, <1>3, <1>4, <1>5 DEF Next, Environment

\* With one worker the row implements MessageLife: the status of a message only
\* advances, and a failed one is queued again no oftener than the limit, and once
\* more for every fault, says.
THEOREM LifeWithFaults ==
    ASSUME Workers = 1
    PROVE  Spec => FaultyLife!Spec
<1>1. Init => FaultyLife!Init
  BY DEF Init, FaultyLife!Init, FaultyLife!Order
<1>2. IInv /\ SInv /\ LInv /\ [Next]_vars
        => [FaultyLife!Advance \/ FaultyLife!QueueAgain]_<<status, deliveryRetries>>
  BY StepIsLife
<1>3. Spec => []SInv
  BY SerialInit, SerialNext, Invariant, PTL DEF Spec
<1>4. Spec => []LInv
  BY <1>3, LifeInit, LifeNext, Invariant, PTL DEF Spec
<1> QED
  BY <1>1, <1>2, <1>3, <1>4, Invariant, PTL DEF Spec, FaultyLife!Spec

\* Without faults the limit is exact.
THEOREM LifeWithoutFaults ==
    ASSUME Workers = 1, MaxFaults = 0
    PROVE  Spec => IsMessageLife
<1>1. FaultyLife!Init => Life!Init
  BY DEF FaultyLife!Init, FaultyLife!Order, Life!Init, Life!Order
<1>2. [FaultyLife!Advance \/ FaultyLife!QueueAgain]_<<status, deliveryRetries>>
        => [Life!Advance \/ Life!QueueAgain]_<<status, deliveryRetries>>
  <2>1. FaultyLife!Advance => Life!Advance
    BY DEF FaultyLife!Advance, FaultyLife!Order, Life!Advance, Life!Order
  <2>2. FaultyLife!QueueAgain => Life!QueueAgain
    BY BoundsAssumption DEF FaultyLife!QueueAgain, Life!QueueAgain
  <2> QED
    BY <2>1, <2>2
<1> QED
  BY <1>1, <1>2, LifeWithFaults, PTL DEF IsMessageLife, FaultyLife!Spec, Life!Spec

-----------------------------------------------------------------------------
(* Conversation *)

\* The words an operation and its two steps are made of.
USE DEF Users, row, conversationVars

-----------------------------------------------------------------------------
(* Types *)

\* Beginning a request keeps the type of req.
LEMMA BeginType ==
    ASSUME NEW r \in Requests, NEW op \in Ops, NEW seen \in States,
           NEW to \in States, NEW who \in Users \union {None},
           NEW lock \in Users \union {None},
           ConversationTypeOK, Begin(r, op, seen, to, who, lock)
    PROVE  ConversationTypeOK'
BY DEF ConversationTypeOK, Begin, Request

\* The states that _ALLOWED names are states.
LEMMA AllowedStates == \A s \in States : Allowed[s] \subseteq States
BY DEF Allowed, States

LEMMA ReadType ==
    ASSUME NEW r \in Requests, ConversationTypeOK, Read(r)
    PROVE  ConversationTypeOK'
<1> DEFINE Holders == Users \union {None}
<1>1. state \in States /\ lockedBy \in Holders /\ None \in Holders
  BY DEF ConversationTypeOK
<1>2. Users \subseteq Holders
  OBVIOUS
<1>3. {"pause", "resume", "assign", "approve", "reject", "close", "force",
       "bulk", "renew", "release", "ai"} \subseteq Ops
  BY DEF Ops
<1>4. {"AI_ACTIVE", "AI_PAUSED", "HUMAN_ASSIGNED", "CLOSED"} \subseteq States
  BY DEF States
<1>5. ASSUME NEW op \in Ops, NEW seen \in States, NEW to \in States,
             NEW who \in Holders, NEW lock \in Holders,
             Begin(r, op, seen, to, who, lock)
      PROVE  ConversationTypeOK'
  BY <1>5, BeginType
<1> HIDE DEF Holders
<1>6. CASE PauseRead(r)
  <2>1. PICK u \in Users : Begin(r, "pause", "AI_ACTIVE", "AI_PAUSED", None, None)
    BY <1>6 DEF PauseRead
  <2> QED BY <2>1, <1>1, <1>2, <1>3, <1>4, <1>5
<1>7. CASE ResumeRead(r)
  BY <1>7, <1>1, <1>3, <1>4, <1>5 DEF ResumeRead
<1>8. CASE AssignRead(r)
  <2>1. PICK a \in Users : Begin(r, "assign", state, "HUMAN_ASSIGNED", a, None)
    BY <1>8 DEF AssignRead
  <2> QED BY <2>1, <1>1, <1>2, <1>3, <1>4, <1>5
<1>9. CASE ApproveRead(r)
  BY <1>9, <1>1, <1>3, <1>4, <1>5 DEF ApproveRead
<1>10. CASE RejectRead(r)
  BY <1>10, <1>1, <1>3, <1>4, <1>5 DEF RejectRead
<1>11. CASE CloseRead(r)
  <2>1. PICK u \in Users : Begin(r, "close", state, "CLOSED", None, lockedBy)
    BY <1>11 DEF CloseRead
  <2> QED BY <2>1, <1>1, <1>2, <1>3, <1>4, <1>5
<1>12. CASE ForceRead(r)
  <2>1. PICK to \in Allowed[state] : Begin(r, "force", state, to, None, None)
    BY <1>12 DEF ForceRead
  <2> QED BY <2>1, <1>1, <1>3, <1>5, AllowedStates
<1>13. CASE BulkRead(r)
  <2>1. PICK u \in Users, to \in Allowed[state] :
             Begin(r, "bulk", state, to, None, None)
    BY <1>13 DEF BulkRead
  <2> QED BY <2>1, <1>1, <1>2, <1>3, <1>5, AllowedStates
<1>14. CASE RenewRead(r)
  <2>1. PICK u \in Users : Begin(r, "renew", state, state, u, None)
    BY <1>14 DEF RenewRead
  <2> QED BY <2>1, <1>1, <1>2, <1>3, <1>5
<1>15. CASE ReleaseRead(r)
  <2>1. Begin(r, "release", state, state, None, lockedBy)
    BY <1>15 DEF ReleaseRead
  <2> QED BY <2>1, <1>1, <1>3, <1>5
<1>16. CASE AiRead(r)
  BY <1>16, <1>1, <1>3, <1>5 DEF AiRead
<1>17. CASE AiFailRead(r)
  <2>1. req[r] \in Request
    BY <1>17 DEF AiFailRead, ConversationTypeOK, Idle
  <2>2. [req[r] EXCEPT !.op = "aiFail", !.seen = state] \in Request
    BY <2>1, <1>1 DEF Request, Ops
  <2> QED
    BY <1>17, <2>2 DEF AiFailRead, ConversationTypeOK
<1> QED
  BY <1>6, <1>7, <1>8, <1>9, <1>10, <1>11, <1>12, <1>13, <1>14, <1>15, <1>16,
     <1>17 DEF Read

\* A request that ends leaves its slot idle.
LEMMA FinishType ==
    ASSUME NEW r \in Requests, ConversationTypeOK, Finish(r)
    PROVE  req' \in [Requests -> Request \union {Idle}]
BY DEF ConversationTypeOK, Finish

\* A slot that is not idle holds a request, whose fields have their types.
LEMMA RequestType ==
    ASSUME NEW r \in Requests, ConversationTypeOK, req[r].op # "idle"
    PROVE  /\ req[r] \in Request
           /\ req[r].op \in Ops
           /\ req[r].seen \in States
           /\ req[r].to \in States
           /\ req[r].who \in Users \union {None}
           /\ req[r].lock \in Users \union {None}
BY DEF ConversationTypeOK, Idle, Request

LEMMA WriteType ==
    ASSUME NEW r \in Requests, ConversationTypeOK, AllPrepared, Write(r)
    PROVE  ConversationTypeOK'
<1> USE RequestType, FinishType
<1>1. CASE PlainWrite(r)
  BY <1>1 DEF PlainWrite, Transition, Move, KeepLock, ConversationTypeOK
<1>2. CASE ReleasingWrite(r)
  BY <1>2 DEF ReleasingWrite, Transition, Move, KeepLock, ClearLock, ConversationTypeOK
<1>3. CASE AssignWrite(r)
  <2>1. req[r].who \in Users
    BY <1>3 DEF AssignWrite, AllPrepared, Prepared
  <2>2. audit' \in [from: States, to: States] /\ state' \in States
    BY <1>3 DEF AssignWrite, Transition, Move, States
  <2>3. lockedBy' \in Users /\ lockLive' = TRUE
    BY <1>3, <2>1 DEF AssignWrite, SetLock
  <2>4. req' \in [Requests -> Request \union {Idle}] /\ aiEnabled' = aiEnabled
    BY <1>3 DEF AssignWrite
  <2> QED
    BY <2>2, <2>3, <2>4, NoneAssumption DEF ConversationTypeOK
<1>4. CASE AssignLockRefused(r)
  <2>1. req[r] \in Request
    BY <1>4 DEF AssignLockRefused
  <2>2. [req[r] EXCEPT !.op = "assignUnlocked"] \in Request
    BY <2>1 DEF Request, Ops
  <2> QED
    BY <1>4, <2>2 DEF AssignLockRefused, ConversationTypeOK
<1>5. CASE ForceFromHuman(r)
  BY <1>5 DEF ForceFromHuman, ClearLock, ConversationTypeOK
<1>6. CASE ForceWrite(r)
  BY <1>6 DEF ForceWrite, Transition, Move, KeepLock, ConversationTypeOK
<1>7. CASE BulkWrite(r)
  BY <1>7 DEF BulkWrite, Move, KeepLock, ClearLock, ConversationTypeOK
<1>8. CASE Conflict(r)
  BY <1>8 DEF Conflict, ConversationTypeOK
<1>9. CASE RenewWrite(r)
  <2>1. req[r].who \in Users
    BY <1>9 DEF RenewWrite, AllPrepared, Prepared
  <2> QED
    BY <1>9, <2>1, NoneAssumption DEF RenewWrite, SetLock, KeepLock, ConversationTypeOK
<1>10. CASE ReleaseWrite(r)
  BY <1>10 DEF ReleaseWrite, ClearLock, KeepLock, ConversationTypeOK
<1>11. CASE AiEscalate(r)
  BY <1>11 DEF AiEscalate, AiMove, Move, KeepLock, ConversationTypeOK, States
<1>12. CASE AiAskApproval(r)
  BY <1>12 DEF AiAskApproval, AiMove, Move, KeepLock, ConversationTypeOK, States
<1>13. CASE AiLeave(r)
  BY <1>13 DEF AiLeave, ConversationTypeOK
<1>14. CASE AiFailWrite(r)
  BY <1>14 DEF AiFailWrite, Move, KeepLock, ConversationTypeOK, States
<1> QED
  BY <1>1, <1>2, <1>3, <1>4, <1>5, <1>6, <1>7, <1>8, <1>9, <1>10, <1>11,
     <1>12, <1>13, <1>14 DEF Write
\* The steps that no request takes.
LEMMA OtherType ==
    ASSUME ConversationTypeOK, AcquireLock \/ LockExpires \/ ReapExpiredLock \/ InboundMessage
    PROVE  ConversationTypeOK'
<1>1. CASE AcquireLock
  BY <1>1, NoneAssumption DEF AcquireLock, SetLock, ConversationTypeOK
<1>2. CASE LockExpires \/ ReapExpiredLock
  BY <1>2 DEF LockExpires, ReapExpiredLock, ClearLock, ConversationTypeOK
<1>3. CASE InboundMessage
  BY <1>3 DEF InboundMessage, ConversationTypeOK, States
<1> QED
  BY <1>1, <1>2, <1>3

-----------------------------------------------------------------------------
(* What a request may rely on between its read and its write *)

\* A step of request r changes r's slot only.
LEMMA OnlySlot ==
    ASSUME NEW r \in Requests, ConversationTypeOK, Read(r) \/ Write(r)
    PROVE  \A s \in Requests \ {r} : req'[s] = req[s]
BY DEF ConversationTypeOK, Read, Write, Begin, Finish, PauseRead, ResumeRead, AssignRead,
   ApproveRead, RejectRead, CloseRead, ForceRead, BulkRead, RenewRead,
   ReleaseRead, AiRead, AiFailRead, PlainWrite, ReleasingWrite, AssignWrite,
   AssignLockRefused, ForceFromHuman, ForceWrite, BulkWrite, Conflict,
   RenewWrite, ReleaseWrite, AiEscalate, AiAskApproval, AiLeave, AiFailWrite

\* A slot that a write leaves holds nothing, or the assignment whose lock was
\* refused.
LEMMA WriteSlot ==
    ASSUME NEW r \in Requests, ConversationTypeOK, Write(r)
    PROVE  req'[r] = Idle \/ AssignLockRefused(r)
BY DEF ConversationTypeOK, Write, Finish, PlainWrite, ReleasingWrite, AssignWrite,
   ForceFromHuman, ForceWrite, BulkWrite, Conflict, RenewWrite, ReleaseWrite,
   AiEscalate, AiAskApproval, AiLeave, AiFailWrite

\* A read prepares its write.
LEMMA ReadPrepares ==
    ASSUME NEW r \in Requests, ConversationTypeOK, Read(r)
    PROVE  Prepared(req'[r])
<1>1. ASSUME NEW op, NEW seen, NEW to, NEW who, NEW lock,
             Begin(r, op, seen, to, who, lock)
      PROVE  /\ req'[r].op = op
             /\ req'[r].seen = seen
             /\ req'[r].to = to
             /\ req'[r].who = who
  BY <1>1 DEF Begin, ConversationTypeOK
<1>2. state \in States
  BY DEF ConversationTypeOK
<1> USE DEF Prepared
<1>3. CASE PauseRead(r)
  BY <1>3, <1>1 DEF PauseRead
<1>4. CASE ResumeRead(r)
  BY <1>4, <1>1 DEF ResumeRead
<1>5. CASE AssignRead(r)
  BY <1>5, <1>1, NoneAssumption DEF AssignRead
<1>6. CASE ApproveRead(r)
  BY <1>6, <1>1 DEF ApproveRead
<1>7. CASE RejectRead(r)
  BY <1>7, <1>1 DEF RejectRead
<1>8. CASE CloseRead(r)
  BY <1>8, <1>1 DEF CloseRead
<1>9. CASE ForceRead(r)
  BY <1>9, <1>1 DEF ForceRead
<1>10. CASE BulkRead(r)
  BY <1>10, <1>1 DEF BulkRead
<1>11. CASE RenewRead(r)
  BY <1>11, <1>1, NoneAssumption DEF RenewRead
<1>12. CASE ReleaseRead(r)
  BY <1>12, <1>1 DEF ReleaseRead
<1>13. CASE AiRead(r)
  BY <1>13, <1>1, <1>2 DEF AiRead, States
<1>14. CASE AiFailRead(r)
  BY <1>14 DEF AiFailRead, ConversationTypeOK, Request, Idle
<1> QED
  BY <1>3, <1>4, <1>5, <1>6, <1>7, <1>8, <1>9, <1>10, <1>11, <1>12, <1>13,
     <1>14 DEF Read

LEMMA WritePrepares ==
    ASSUME NEW r \in Requests, ConversationTypeOK, AllPrepared, Write(r)
    PROVE  Prepared(req'[r])
<1>1. CASE req'[r] = Idle
  BY <1>1 DEF Prepared, Idle
<1>2. CASE AssignLockRefused(r)
  <2>1. req[r] \in Request
    BY <1>2, RequestType DEF AssignLockRefused
  <2> QED
    BY <1>2, <2>1 DEF AssignLockRefused, AllPrepared, Prepared, ConversationTypeOK, Request
<1> QED
  BY <1>1, <1>2, WriteSlot
-----------------------------------------------------------------------------
(* The inductive invariant *)

\* The code's guards make sense only of rows and snapshots of their type, and
\* the type of the lock columns rests on what an assignment has prepared, so
\* the two are proved together.
ConversationInv == ConversationTypeOK /\ AllPrepared

LEMMA ConversationInitInv == ConversationInit => ConversationInv
<1> SUFFICES ASSUME ConversationInit PROVE ConversationTypeOK /\ AllPrepared
  BY DEF ConversationInv
<1>1. ConversationTypeOK
  BY DEF ConversationInit, ConversationTypeOK, States
<1>2. AllPrepared
  BY DEF ConversationInit, AllPrepared, Prepared, Idle
<1> QED
  BY <1>1, <1>2

LEMMA ConversationNextInv == ConversationInv /\ [ConversationNext]_conversationVars => ConversationInv'
<1> SUFFICES ASSUME ConversationTypeOK, AllPrepared, [ConversationNext]_conversationVars PROVE ConversationTypeOK' /\ AllPrepared'
  BY DEF ConversationInv
<1>1. ASSUME NEW r \in Requests, Read(r) \/ Write(r)
      PROVE  ConversationTypeOK' /\ AllPrepared'
  <2>1. ConversationTypeOK'
    BY <1>1, ReadType, WriteType
  <2>2. Prepared(req'[r])
    BY <1>1, ReadPrepares, WritePrepares
  <2>3. \A s \in Requests \ {r} : Prepared(req'[s])
    BY <1>1, OnlySlot DEF AllPrepared
  <2> QED
    BY <2>1, <2>2, <2>3 DEF AllPrepared
<1>2. ASSUME AcquireLock \/ LockExpires \/ ReapExpiredLock \/ InboundMessage
      PROVE  ConversationTypeOK' /\ AllPrepared'
  <2>1. req' = req
    BY <1>2 DEF AcquireLock, LockExpires, ReapExpiredLock, InboundMessage
  <2> QED
    BY <1>2, <2>1, OtherType DEF AllPrepared
<1>3. CASE UNCHANGED conversationVars
  BY <1>3 DEF ConversationTypeOK, AllPrepared
<1> QED
  BY <1>1, <1>2, <1>3 DEF ConversationNext

LEMMA ConversationInvariant == ConversationSpec => []ConversationInv
BY ConversationInitInv, ConversationNextInv, PTL DEF ConversationSpec

\* Whatever the requests in flight do to each other, every column keeps its
\* type; in particular lock_expires_at is set only beside a locked_by, the
\* database's ck_conversations_lock_invariant.
THEOREM TypeCorrect == ConversationSpec => []ConversationTypeOK
BY ConversationInvariant, PTL DEF ConversationInv

\* An operation between its read and its write always holds a move that
\* _ALLOWED has for the state it has seen.
THEOREM AlwaysPrepared == ConversationSpec => []AllPrepared
BY ConversationInvariant, PTL DEF ConversationInv
-----------------------------------------------------------------------------
(* The properties of steps *)

\* A read changes no column and no audit row.
LEMMA ReadKeepsRow ==
    ASSUME NEW r \in Requests, Read(r)
    PROVE  UNCHANGED <<row, audit>>
BY DEF Read, Begin, PauseRead, ResumeRead, AssignRead, ApproveRead, RejectRead,
   CloseRead, ForceRead, BulkRead, RenewRead, ReleaseRead, AiRead, AiFailRead

\* A request that writes was not idle, and is not what it was.
LEMMA WriterActs ==
    ASSUME NEW r \in Requests, ConversationTypeOK, Write(r)
    PROVE  Acts(r)
<1>1. req[r] # Idle
  BY DEF Write, Idle, PlainWrite, ReleasingWrite, AssignWrite,
     AssignLockRefused, ForceFromHuman, ForceWrite, BulkWrite, Conflict,
     RenewWrite, ReleaseWrite, AiEscalate, AiAskApproval, AiLeave,
     AiFailWrite, Ops
<1>2. CASE req'[r] = Idle
  BY <1>1, <1>2 DEF Acts
<1>3. CASE AssignLockRefused(r)
  <2>1. req[r] \in Request
    BY <1>3, RequestType DEF AssignLockRefused
  <2>2. req'[r].op = "assignUnlocked" /\ req[r].op = "assign"
    BY <1>3, <2>1 DEF AssignLockRefused, ConversationTypeOK, Request
  <2> QED
    BY <1>1, <2>2 DEF Acts
<1> QED
  BY <1>2, <1>3, WriteSlot

\* A write that changes the state replaces the state it has seen by one that
\* _ALLOWED has for it, or is the override.
LEMMA WriteMoves ==
    ASSUME NEW r \in Requests, ConversationTypeOK, Prepared(req[r]), Write(r), state' # state
    PROVE  Override(r) \/ (req[r].seen = state /\ state' \in Allowed[state])
<1> USE DEF Prepared, Allowed
<1>1. Acts(r) /\ state \in States
  BY WriterActs DEF ConversationTypeOK
<1>2. CASE PlainWrite(r)
  BY <1>1, <1>2 DEF PlainWrite, Transition, Move, States
<1>3. CASE ReleasingWrite(r)
  BY <1>1, <1>3 DEF ReleasingWrite, Transition, Move, States
<1>4. CASE AssignWrite(r)
  BY <1>1, <1>4 DEF AssignWrite, Transition, Move, States
<1>5. CASE ForceFromHuman(r)
  BY <1>1, <1>5 DEF ForceFromHuman, Override
<1>6. CASE ForceWrite(r)
  BY <1>1, <1>6 DEF ForceWrite, Transition, Move, States
<1>7. CASE BulkWrite(r)
  BY <1>1, <1>7 DEF BulkWrite, Move, States
<1>8. CASE AiEscalate(r)
  BY <1>1, <1>8 DEF AiEscalate, AiMove, Move, States
<1>9. CASE AiAskApproval(r)
  BY <1>1, <1>9 DEF AiAskApproval, AiMove, Move, States
<1>10. CASE AiFailWrite(r)
  BY <1>1, <1>10 DEF AiFailWrite, Move, States
<1>11. CASE \/ AssignLockRefused(r) \/ Conflict(r) \/ RenewWrite(r)
            \/ ReleaseWrite(r) \/ AiLeave(r)
  BY <1>11 DEF AssignLockRefused, Conflict, RenewWrite, ReleaseWrite, AiLeave
<1> QED
  BY <1>2, <1>3, <1>4, <1>5, <1>6, <1>7, <1>8, <1>9, <1>10, <1>11 DEF Write
\* Every step is a read, a write or a step without a request.
LEMMA Steps ==
    ASSUME [ConversationNext]_conversationVars
    PROVE  \/ \E r \in Requests : Read(r)
           \/ \E r \in Requests : Write(r)
           \/ AcquireLock \/ LockExpires \/ ReapExpiredLock \/ InboundMessage
           \/ UNCHANGED conversationVars
BY DEF ConversationNext

\* Of two requests only the one whose step it is acts.
LEMMA OneActs ==
    ASSUME NEW r \in Requests, NEW s \in Requests, ConversationTypeOK,
           Read(r) \/ Write(r), Acts(s)
    PROVE  s = r
BY OnlySlot DEF Acts

\* Without a step of a request, none acts.
LEMMA NobodyActs ==
    ASSUME \/ AcquireLock \/ LockExpires \/ ReapExpiredLock \/ InboundMessage
           \/ UNCHANGED conversationVars
    PROVE  \A s \in Requests : ~Acts(s)
BY DEF Acts, AcquireLock, LockExpires, ReapExpiredLock, InboundMessage

\* The state moves along the arcs of _ALLOWED only, but for an override.
THEOREM ArcsAreLegal == ConversationSpec => LegalArcs
<1>1. ASSUME ConversationInv, [ConversationNext]_conversationVars, state' # state
      PROVE  state' \in Allowed[state] \/ \E r \in Requests : Override(r)
  <2>1. CASE \E r \in Requests : Read(r)
    BY <1>1, <2>1, ReadKeepsRow
  <2>2. CASE \E r \in Requests : Write(r)
    BY <1>1, <2>2, WriteMoves DEF ConversationInv, AllPrepared
  <2>3. CASE AcquireLock \/ LockExpires \/ ReapExpiredLock \/ UNCHANGED conversationVars
    BY <1>1, <2>3 DEF AcquireLock, LockExpires, ReapExpiredLock
  <2>4. CASE InboundMessage
    BY <2>4 DEF InboundMessage, Allowed, States
  <2> QED
    BY <1>1, <2>1, <2>2, <2>3, <2>4, Steps
<1>2. ConversationInv /\ [ConversationNext]_conversationVars =>
          [state' # state =>
              state' \in Allowed[state] \/ \E r \in Requests : Override(r)]_conversationVars
  BY <1>1
<1> QED
  BY <1>2, ConversationInvariant, PTL DEF ConversationSpec, LegalArcs

\* No request overwrites a decision it has not seen, but for an override.
THEOREM UpdatesAreNotLost == ConversationSpec => NoLostUpdate
<1>1. ASSUME ConversationInv, [ConversationNext]_conversationVars, NEW s \in Requests, Acts(s), state' # state
      PROVE  req[s].seen = state \/ Override(s)
  <2>1. CASE \E r \in Requests : Read(r)
    BY <1>1, <2>1, ReadKeepsRow
  <2>2. ASSUME NEW r \in Requests, Write(r)
        PROVE  req[s].seen = state \/ Override(s)
    BY <1>1, <2>2, OneActs, WriteMoves DEF ConversationInv, AllPrepared
  <2> QED
    BY <1>1, <2>1, <2>2, NobodyActs, Steps
<1>2. ConversationInv /\ [ConversationNext]_conversationVars =>
          [\A r \in Requests :
              Acts(r) /\ state' # state => req[r].seen = state \/ Override(r)]_conversationVars
  BY <1>1
<1> QED
  BY <1>2, ConversationInvariant, PTL DEF ConversationSpec, NoLostUpdate

\* The AI worker leaves alone what a human has taken over or closed.
THEOREM HumansAreNotOverridden == ConversationSpec => AiNeverOverridesHuman
<1>1. ASSUME ConversationInv, [ConversationNext]_conversationVars, NEW s \in Requests, Acts(s),
             req[s].op \in {"ai", "aiFail"}, state \in {"HUMAN_ASSIGNED", "CLOSED"}
      PROVE  UNCHANGED row
  <2>1. CASE \E r \in Requests : Read(r)
    BY <1>1, <2>1, ReadKeepsRow
  <2>2. ASSUME NEW r \in Requests, Write(r)
        PROVE  UNCHANGED row
    <3>1. s = r /\ Prepared(req[r])
      BY <1>1, <2>2, OneActs DEF ConversationInv, AllPrepared
    <3>2. CASE AiEscalate(r)
      BY <1>1, <3>1, <3>2 DEF AiEscalate, AiMove, Move, Prepared
    <3>3. CASE AiAskApproval(r)
      BY <1>1, <3>1, <3>3 DEF AiAskApproval, AiMove, Move, KeepLock, Prepared
    <3>4. CASE AiFailWrite(r)
      BY <1>1, <3>1, <3>4 DEF AiFailWrite, Move, Prepared
    <3>5. CASE AiLeave(r) \/ Conflict(r)
      BY <3>5 DEF AiLeave, Conflict
    <3> QED
      BY <1>1, <2>2, <3>1, <3>2, <3>3, <3>4, <3>5
      DEF Write, PlainWrite, ReleasingWrite, AssignWrite, AssignLockRefused,
          ForceFromHuman, ForceWrite, BulkWrite, RenewWrite, ReleaseWrite
  <2> QED
    BY <1>1, <2>1, <2>2, NobodyActs, Steps
<1>2. ConversationInv /\ [ConversationNext]_conversationVars =>
          [\A r \in Requests :
              /\ Acts(r)
              /\ req[r].op \in {"ai", "aiFail"}
              /\ state \in {"HUMAN_ASSIGNED", "CLOSED"}
              => UNCHANGED row]_conversationVars
  BY <1>1
<1> QED
  BY <1>2, ConversationInvariant, PTL DEF ConversationSpec, AiNeverOverridesHuman

\* An audit row records the transition that its transaction makes.
THEOREM AuditRowsAreTrue == ConversationSpec => AuditIsTrue
<1>1. ASSUME [ConversationNext]_conversationVars, audit' # audit
      PROVE  audit' = [from |-> state, to |-> state']
  <2>1. CASE \E r \in Requests : Read(r)
    BY <1>1, <2>1, ReadKeepsRow
  <2>2. CASE \E r \in Requests : Write(r)
    BY <1>1, <2>2
    DEF Write, Transition, Move, PlainWrite, ReleasingWrite, AssignWrite,
        AssignLockRefused, ForceFromHuman, ForceWrite, BulkWrite, Conflict,
        RenewWrite, ReleaseWrite, AiEscalate, AiAskApproval, AiLeave, AiFailWrite
  <2>3. CASE \/ AcquireLock \/ LockExpires \/ ReapExpiredLock \/ InboundMessage
             \/ UNCHANGED conversationVars
    BY <1>1, <2>3 DEF AcquireLock, LockExpires, ReapExpiredLock, InboundMessage
  <2> QED
    BY <1>1, <2>1, <2>2, <2>3, Steps
<1>2. [ConversationNext]_conversationVars => [audit' # audit => audit' = [from |-> state, to |-> state']]_conversationVars
  BY <1>1
<1> QED
  BY <1>2, PTL DEF ConversationSpec, AuditIsTrue

-----------------------------------------------------------------------------
(* Refinement *)

\* An UPDATE of the lock columns grants a free lock, renews the holder's own,
\* frees the lock or leaves it alone.
LEMMA LockSteps ==
    ASSUME ConversationTypeOK,
           \/ KeepLock \/ ClearLock
           \/ lockedBy' = lockedBy /\ lockLive' = FALSE
           \/ \E u \in Users : CanAcquire(u) /\ SetLock(u)
    PROVE  [Lock!Next]_LockHolder
BY NoneAssumption
DEF ConversationTypeOK, KeepLock, ClearLock, CanAcquire, SetLock, LockHolder, Lock!Next,
    Lock!Free, Lock!Grant

\* Conversation implements Lease: a live lock never passes directly from one
\* user to another.
THEOREM LockIsALease == ConversationSpec => LockIsLease
<1>1. ConversationInit => Lock!Init
  BY DEF ConversationInit, Lock!Init, LockHolder
<1>2. ASSUME ConversationInv, [ConversationNext]_conversationVars PROVE [Lock!Next]_LockHolder
  <2>1. ConversationTypeOK
    BY <1>2 DEF ConversationInv
  <2>2. ASSUME NEW r \in Requests, Write(r) PROVE [Lock!Next]_LockHolder
    <3>1. CASE AssignWrite(r) \/ RenewWrite(r)
      <4>1. req[r].who \in Users
        BY <1>2, <3>1, RequestType
        DEF AssignWrite, RenewWrite, ConversationInv, AllPrepared, Prepared
      <4> QED
        BY <3>1, <4>1, <2>1, LockSteps DEF AssignWrite, RenewWrite
    <3>2. KeepLock \/ ClearLock \/ AssignWrite(r) \/ RenewWrite(r)
      BY <2>2
      DEF Write, KeepLock, PlainWrite, ReleasingWrite, AssignLockRefused,
          ForceFromHuman, ForceWrite, BulkWrite, Conflict, ReleaseWrite,
          AiEscalate, AiAskApproval, AiLeave, AiFailWrite
    <3> QED
      BY <3>1, <3>2, <2>1, LockSteps
  <2>3. CASE \E r \in Requests : Read(r)
    BY <2>1, <2>3, ReadKeepsRow, LockSteps DEF KeepLock
  <2>4. CASE AcquireLock
    BY <2>1, <2>4, LockSteps DEF AcquireLock
  <2>5. CASE LockExpires \/ ReapExpiredLock \/ InboundMessage \/ UNCHANGED conversationVars
    BY <2>1, <2>5, LockSteps
    DEF LockExpires, ReapExpiredLock, InboundMessage, KeepLock
  <2> QED
    BY <1>2, <2>2, <2>3, <2>4, <2>5, Steps
<1> QED
  BY <1>1, <1>2, ConversationInvariant, PTL DEF ConversationSpec, LockIsLease, Lock!Spec
=============================================================================
