--------------------------- MODULE EngagementProofs ---------------------------
(***************************************************************************)
(* Engagement, for any number of sweeps, workers and messages.  That few   *)
(* follow-ups go out is a matter of counting: the first schedule finds     *)
(* outreach_state NONE and nothing sets it back, so every other follow-up  *)
(* is owed to a task delivered again or a schedule written over a state.   *)
(***************************************************************************)
EXTENDS Engagement, SetLemmas

-----------------------------------------------------------------------------
(* The inductive invariant *)

Dispatching == {s \in Sweepers : sweep[s].pc = "dispatch"}
Generating  == {w \in Workers : worker[w].pc = "generate"}

\* A sweep acts on the state NONE, and what it dispatches is a follow-up.
SweepsSawNone == \A s \in Sweepers :
    /\ sweep[s].saw = "NONE"
    /\ sweep[s].pc = "dispatch" => sweep[s].to \in Cadence

\* Whoever converts the cadence has seen one.
CadenceWasSeen ==
    /\ \A i \in Inbounds : inbound[i].pc = "convert" => inbound[i].saw \in Cadence
    /\ \A w \in Workers : worker[w].pc = "cancel" => worker[w].saw \in Cadence

NoTasks == Queued = {} /\ \A w \in Workers : worker[w].pc = "idle"

\* Before the first message there is nothing to do.
QuietBefore ==
    /\ state = "NEW" => inbounds = 0
    /\ inbounds = 0 => NoTasks /\ \A s \in Sweepers : sweep[s].pc = "idle"

\* Before the first schedule, too.
FreshIsQuiet == outreach = "NONE" => NoTasks /\ Dispatching = {} /\ sent = 0

\* Every follow-up that was sent, is being written or waits has its cause.
TasksHaveCauses ==
    sent + Cardinality(Queued) + Cardinality(Dispatching) + Cardinality(Generating)
        <= again + raced + Bit(outreach # "NONE")

\* A worker that is not overtaken may still write its follow-up.
StillDue == \A w \in Workers : worker[w].pc = "generate" /\ ~worker[w].overtaken =>
    /\ ~dnc
    /\ worker[w].task.kind = "RESCUE_1" => state = "AI_ACTIVE"
    /\ newer => ~answered

Sound == SweepsSawNone /\ CadenceWasSeen /\ QuietBefore /\ FreshIsQuiet /\ StillDue

IInv == TypeOK /\ Sound /\ TasksHaveCauses

-----------------------------------------------------------------------------
(* The queue *)

LEMMA MaxOfTwo ==
    ASSUME NEW a \in Int, NEW b \in Int
    PROVE  Max({a, b}) = IF a >= b THEN a ELSE b
BY DEF Max

LEMMA MinOfTwo ==
    ASSUME NEW a \in Int, NEW b \in Int
    PROVE  Min({a, b}) = IF a <= b THEN a ELSE b
BY DEF Min

LEMMA FiniteParts ==
    /\ IsFiniteSet(Slots) /\ IsFiniteSet(Sweepers) /\ IsFiniteSet(Workers)
    /\ Queued \in SUBSET Slots /\ Dispatching \in SUBSET Sweepers /\ Generating \in SUBSET Workers
    /\ {Cardinality(Queued), Cardinality(Dispatching), Cardinality(Generating)} \subseteq Nat
<1>1. IsFiniteSet(Sweepers) /\ IsFiniteSet(Workers) /\ MaxFaults \in Nat
  BY EngagementAssumption
<1>2. IsFiniteSet(Slots)
  BY <1>1, FS_CardinalityType, FS_Interval DEF Slots
<1>3. Queued \in SUBSET Slots /\ Dispatching \in SUBSET Sweepers /\ Generating \in SUBSET Workers
  BY DEF Queued, Dispatching, Generating
<1> QED
  BY <1>1, <1>2, <1>3, CountType

\* A task that is no placeholder takes a slot of its own.
LEMMA PublishAdds ==
    ASSUME TypeOK, NEW t \in Task, Publish(t)
    PROVE  /\ queue' \in [Slots -> Task \union {NoTask}]
           /\ Queued' # {}
           /\ Cardinality(Queued') = Cardinality(Queued) + 1
<1>1. PICK i \in Slots \ Queued : queue' = [queue EXCEPT ![i] = t]
  BY DEF Publish
<1>2. t # NoTask
  BY DEF Task, NoTask, Cadence
<1>3. queue' \in [Slots -> Task \union {NoTask}]
  BY <1>1 DEF TypeOK
<1>4. Queued' = Queued \union {i}
  BY <1>1, <1>2 DEF TypeOK, Queued
<1>5. Cardinality(Queued \union {i}) = Cardinality(Queued) + 1
  BY <1>1, FiniteParts, CountType, FS_AddElement
<1> QED
  BY <1>3, <1>4, <1>5

\* A task that is taken leaves its slot.
LEMMA TakeRemoves ==
    ASSUME TypeOK, NEW i \in Queued, queue' = [queue EXCEPT ![i] = NoTask]
    PROVE  /\ queue' \in [Slots -> Task \union {NoTask}]
           /\ Cardinality(Queued') + 1 = Cardinality(Queued)
<1>1. i \in Slots /\ Queued' = Queued \ {i}
  BY DEF TypeOK, Queued
<1>2. Cardinality(Queued \ {i}) = Cardinality(Queued) - 1
  BY FiniteParts, CountType, FS_RemoveElement
<1>3. Cardinality(Queued) \in Nat
  BY FiniteParts
<1>4. queue' \in [Slots -> Task \union {NoTask}]
  BY DEF TypeOK
<1> QED
  BY <1>1, <1>2, <1>3, <1>4

\* Time takes no task away and adds none.
LEMMA LaterKeeps ==
    ASSUME TypeOK, queue' = Later(queue)
    PROVE  queue' \in [Slots -> Task \union {NoTask}] /\ Queued' = Queued
<1>1. ASSUME NEW i \in Slots, queue[i] # NoTask
      PROVE  queue'[i] \in Task
  <2>1. queue[i] \in Task /\ RescueAt \in Nat /\ ReengageAt \in Nat
    BY <1>1, EngagementAssumption DEF TypeOK
  <2>2. queue[i].left \in 0..ReengageAt
    BY <2>1 DEF Task
  <2>3. Max({queue[i].left - 1, 0}) \in 0..ReengageAt
    BY <2>1, <2>2, MaxOfTwo
  <2> QED
    BY <1>1, <2>1, <2>3 DEF Later, Task
<1>2. ASSUME NEW i \in Slots, queue[i] = NoTask
      PROVE  queue'[i] = NoTask
  BY <1>2 DEF Later
<1>3. NoTask \notin Task
  BY DEF Task, NoTask, Cadence
<1>4. queue' = [i \in Slots |-> queue'[i]]
  BY DEF Later
<1> QED
  BY <1>1, <1>2, <1>3, <1>4 DEF Queued

-----------------------------------------------------------------------------
(* Types *)

Sweep == [pc: {"idle", "select", "write", "dispatch"}, saw: Outreach,
          to: Cadence \union {"UNRESPONSIVE"}, left: 0..ReengageAt]
Work == [pc: {"idle", "generate", "cancel", "ack"}, task: Task, saw: Outreach,
         overtaken: BOOLEAN]

LEMMA IdleTyped == NoSweep \in Sweep /\ NoWork \in Work /\ NoInbound.saw \in Outreach
BY EngagementAssumption DEF NoSweep, NoWork, NoInbound, Sweep, Work, Task, Outreach, Cadence, Terminal

\* Whoever is overtaken goes on with the same task.
LEMMA OvertakeKeeps ==
    ASSUME TypeOK, NEW W \in SUBSET Workers, Overtake(W) \/ UNCHANGED worker
    PROVE  /\ worker' \in [Workers -> Work]
           /\ \A w \in Workers : /\ worker'[w].pc = worker[w].pc
                                 /\ worker'[w].task = worker[w].task
                                 /\ worker'[w].saw = worker[w].saw
                                 /\ worker[w].overtaken => worker'[w].overtaken
<1>1. worker \in [Workers -> Work]
  BY DEF TypeOK, Work
<1>2. CASE Overtake(W)
  <2>1. ASSUME NEW w \in Workers
        PROVE  /\ worker'[w] \in Work
               /\ worker'[w].pc = worker[w].pc /\ worker'[w].task = worker[w].task
               /\ worker'[w].saw = worker[w].saw
               /\ worker[w].overtaken => worker'[w].overtaken
    <3>1. \/ worker'[w] = worker[w]
          \/ worker'[w] = [worker[w] EXCEPT !.overtaken = TRUE]
      BY <1>2 DEF Overtake
    <3> QED
      BY <1>1, <3>1 DEF Work
  <2>2. worker' = [w \in Workers |-> worker'[w]]
    BY <1>2 DEF Overtake
  <2> QED
    BY <2>1, <2>2
<1> QED
  BY <1>1, <1>2

LEMMA PlanTyped ==
    ASSUME TypeOK, NEW s \in Sweepers,
           Plan(s, "REENGAGE_1", ReengageAt) \/ Plan(s, "RESCUE_1", RescueAt)
    PROVE  sweep' \in [Sweepers -> Sweep]
<1>1. /\ RescueAt \in Nat /\ ReengageAt \in Nat /\ RescueAt <= ReengageAt
      /\ age \in Nat /\ Window \in Nat
  BY EngagementAssumption DEF TypeOK
<1>2. \A at \in {RescueAt, ReengageAt} : Max({at - age, 0}) \in 0..ReengageAt
  BY <1>1, MaxOfTwo
<1> QED
  BY <1>2 DEF Plan, TypeOK, Sweep, Cadence

LEMMA InitInv == Init => IInv
<1> SUFFICES ASSUME Init PROVE IInv
  OBVIOUS
<1> USE DEF Init
<1>1. TypeOK
  <2>1. /\ state \in ConvStates /\ outreach \in Outreach /\ age \in 0..Window
        /\ inbounds \in 0..MaxMessages /\ moves \in 0..MaxHumanMoves /\ faults \in 0..MaxFaults
    BY EngagementAssumption DEF ConvStates, Outreach
  <2>2. /\ sweep \in [Sweepers -> Sweep] /\ worker \in [Workers -> Work]
        /\ inbound \in [Inbounds -> [pc: {"idle", "optout", "read", "convert"}, saw: Outreach]]
    BY IdleTyped DEF NoInbound
  <2>3. queue \in [Slots -> Task \union {NoTask}]
    OBVIOUS
  <2>4. {sent, again, raced} \subseteq Nat
    OBVIOUS
  <2> HIDE DEF Init
  <2> QED
    BY <2>1, <2>2, <2>3, <2>4 DEF Init, TypeOK, Sweep, Work
<1>2. Queued = {} /\ Dispatching = {} /\ Generating = {}
  BY DEF Queued, Dispatching, Generating, NoSweep, NoWork
<1>3. Sound
  BY <1>2 DEF Sound, SweepsSawNone, CadenceWasSeen, QuietBefore, FreshIsQuiet, StillDue,
              NoTasks, NoSweep, NoWork, NoInbound
<1>4. TasksHaveCauses
  BY <1>2, FS_EmptySet DEF TasksHaveCauses, Bit
<1> QED
  BY <1>1, <1>3, <1>4 DEF IInv

-----------------------------------------------------------------------------
(* Types, action by action *)

LEMMA PassType ==
    ASSUME TypeOK, Pass
    PROVE  TypeOK'
<1>1. age \in Nat /\ Window \in Nat /\ age <= Window
  BY EngagementAssumption DEF TypeOK
<1>2. age' \in 0..Window
  BY <1>1, MinOfTwo DEF Pass
<1>3. queue' \in [Slots -> Task \union {NoTask}]
  BY LaterKeeps DEF Pass
<1>4. worker' \in [Workers -> Work]
  BY OvertakeKeeps DEF Pass
<1>5. UNCHANGED <<conv, inbounds, answered, newer, sweep, inbound, moves, faults, seen>>
  BY DEF Pass
<1> HIDE DEF Pass
<1> QED
  BY <1>2, <1>3, <1>4, <1>5 DEF TypeOK, Work, conv, seen

LEMMA InboundType ==
    ASSUME TypeOK, NEW i \in Inbounds, InboundArrives(i) \/ InboundStep(i)
    PROVE  TypeOK'
<1>1. /\ MaxMessages \in Nat /\ Window \in Nat
      /\ {"SUPPRESSED", "CONVERTED", "NONE"} \subseteq Outreach
  BY EngagementAssumption DEF Outreach, Terminal
<1>2. CASE InboundArrives(i)
  <2>1. /\ state' \in ConvStates /\ inbounds' \in 0..MaxMessages /\ inbounds' > 0
        /\ age' \in 0..Window /\ newer' = TRUE
    BY <1>1, <1>2 DEF InboundArrives, TypeOK, ConvStates
  <2>2. inbound' \in [Inbounds -> [pc: {"idle", "optout", "read", "convert"}, saw: Outreach]]
    BY <1>2 DEF InboundArrives, TypeOK
  <2>3. worker' \in [Workers -> Work]
    BY <1>2, OvertakeKeeps DEF InboundArrives
  <2>4. UNCHANGED <<outreach, dnc, tagged, answered, queue, sweep, moves, faults, seen>>
    BY <1>2 DEF InboundArrives
  <2> QED
    BY <2>1, <2>2, <2>3, <2>4 DEF TypeOK, Work, seen
<1>3. CASE OptOut(i)
  <2>1. inbound' \in [Inbounds -> [pc: {"idle", "optout", "read", "convert"}, saw: Outreach]]
    BY <1>3 DEF OptOut, TypeOK
  <2>2. worker' \in [Workers -> Work]
    BY <1>3, OvertakeKeeps DEF OptOut
  <2>3. /\ dnc' = TRUE /\ outreach' \in Outreach
        /\ UNCHANGED <<state, tagged, msgs, queue, sweep, moves, faults, seen>>
    BY <1>1, <1>3 DEF OptOut
  <2> QED
    BY <2>1, <2>2, <2>3 DEF TypeOK, Work, msgs, seen
<1>4. CASE ReadOutreach(i)
  <2>1. inbound' \in [Inbounds -> [pc: {"idle", "optout", "read", "convert"}, saw: Outreach]]
    BY <1>1, <1>4 DEF ReadOutreach, TypeOK, NoInbound
  <2>2. UNCHANGED <<conv, msgs, queue, sweep, worker, moves, faults, seen>>
    BY <1>4 DEF ReadOutreach
  <2> QED
    BY <2>1, <2>2 DEF TypeOK, conv, msgs, seen
<1>5. CASE Convert(i)
  <2>1. inbound' \in [Inbounds -> [pc: {"idle", "optout", "read", "convert"}, saw: Outreach]]
    BY <1>1, <1>5 DEF Convert, TypeOK, NoInbound
  <2>2. /\ outreach' \in Outreach
        /\ UNCHANGED <<state, dnc, tagged, msgs, queue, sweep, worker, moves, faults, seen>>
    BY <1>1, <1>5 DEF Convert
  <2> QED
    BY <2>1, <2>2 DEF TypeOK, msgs, seen
<1> QED
  BY <1>2, <1>3, <1>4, <1>5 DEF InboundStep

LEMMA OthersType ==
    ASSUME TypeOK, Answer \/ HumanMove \/ PermanentFailure \/ Redeliver
    PROVE  TypeOK'
<1>1. MaxHumanMoves \in Nat /\ MaxFaults \in Nat /\ moves \in Nat /\ faults \in Nat
  BY EngagementAssumption DEF TypeOK
<1>2. CASE Answer
  BY <1>2 DEF Answer, TypeOK, conv, seen
<1>3. CASE HumanMove
  <2>1. worker' \in [Workers -> Work]
    BY <1>3, OvertakeKeeps DEF HumanMove, Rescuers
  <2>2. /\ moves' \in 0..MaxHumanMoves /\ state' \in ConvStates
        /\ UNCHANGED <<outreach, dnc, tagged, msgs, queue, sweep, inbound, faults, seen>>
    BY <1>1, <1>3 DEF HumanMove, ConvStates
  <2> QED
    BY <2>1, <2>2 DEF TypeOK, Work, msgs, seen
<1>4. CASE PermanentFailure
  <2>1. /\ faults' \in 0..MaxFaults /\ outreach' \in Outreach
        /\ UNCHANGED <<state, dnc, tagged, msgs, queue, sweep, worker, inbound, moves, seen>>
    BY <1>1, <1>4 DEF PermanentFailure, Outreach, Terminal
  <2> QED
    BY <2>1 DEF TypeOK, msgs, seen
<1>5. CASE Redeliver
  <2>1. PICK i \in Queued : Publish(queue[i])
    BY <1>5 DEF Redeliver
  <2>2. queue[i] \in Task
    BY DEF Queued, TypeOK
  <2>3. queue' \in [Slots -> Task \union {NoTask}]
    BY <2>1, <2>2, PublishAdds
  <2>4. /\ faults' \in 0..MaxFaults /\ again' = again + 1
        /\ UNCHANGED <<conv, msgs, sweep, worker, inbound, moves, sent, raced, ran, lost>>
    BY <1>1, <1>5 DEF Redeliver
  <2> QED
    BY <2>3, <2>4 DEF TypeOK, conv, msgs
<1> QED
  BY <1>2, <1>3, <1>4, <1>5

LEMMA SweepType ==
    ASSUME TypeOK, Sound, NEW s \in Sweepers, SweepStart(s) \/ SweepStep(s) \/ SweepDies(s)
    PROVE  TypeOK'
<1>1. MaxFaults \in Nat /\ faults \in Nat /\ sweep \in [Sweepers -> Sweep]
  BY EngagementAssumption DEF TypeOK, Sweep
<1>2. CASE SweepStart(s)
  <2>1. sweep' \in [Sweepers -> Sweep]
    BY <1>1, <1>2 DEF SweepStart, Sweep
  <2> QED
    BY <1>2, <2>1 DEF SweepStart, TypeOK, Sweep, conv, msgs, seen
<1>3. CASE SelectRegime(s)
  <2>1. sweep' \in [Sweepers -> Sweep]
    BY <1>1, <1>3, PlanTyped, IdleTyped DEF SelectRegime
  <2> QED
    BY <1>3, <2>1 DEF SelectRegime, TypeOK, Sweep, conv, msgs, seen
<1>4. CASE SweepCommit(s)
  <2>1. sweep' \in [Sweepers -> Sweep]
    BY <1>1, <1>4, IdleTyped DEF SweepCommit, Sweep
  <2>2. outreach' \in Outreach
    BY <1>1, <1>4 DEF SweepCommit, Sweep, Outreach, Terminal
  <2>3. raced' \in Nat /\ tagged' \in BOOLEAN
    <3>1. raced \in Nat /\ tagged \in BOOLEAN
      BY DEF TypeOK
    <3>2. raced' = raced + Bit(outreach # sweep[s].saw) \/ raced' = raced
      BY <1>4 DEF SweepCommit, Bit
    <3>3. raced' \in Nat
      BY <3>1, <3>2 DEF Bit
    <3>4. tagged' = TRUE \/ tagged' = tagged
      BY <1>4 DEF SweepCommit
    <3> QED
      BY <3>1, <3>3, <3>4
  <2>4. UNCHANGED <<state, dnc, msgs, queue, worker, inbound, moves, faults, sent, again, ran, lost>>
    BY <1>4 DEF SweepCommit
  <2> QED
    BY <2>1, <2>2, <2>3, <2>4 DEF TypeOK, Sweep, msgs
<1>5. CASE SweepDispatch(s)
  <2>1. [kind |-> sweep[s].to, left |-> sweep[s].left] \in Task
    BY <1>1, <1>5 DEF SweepDispatch, Sound, SweepsSawNone, Task, Sweep
  <2>2. queue' \in [Slots -> Task \union {NoTask}]
    BY <1>5, <2>1, PublishAdds DEF SweepDispatch
  <2>3. sweep' \in [Sweepers -> Sweep]
    BY <1>1, <1>5, IdleTyped DEF SweepDispatch
  <2>4. UNCHANGED <<conv, msgs, worker, inbound, moves, faults, seen>>
    BY <1>5 DEF SweepDispatch
  <2> QED
    BY <2>2, <2>3, <2>4 DEF TypeOK, Sweep, conv, msgs, seen
<1>6. CASE SweepDies(s)
  <2>1. sweep' \in [Sweepers -> Sweep]
    BY <1>1, <1>6, IdleTyped DEF SweepDies
  <2>2. faults' \in 0..MaxFaults
    BY <1>1, <1>6 DEF SweepDies
  <2>3. lost' \in BOOLEAN
    BY <1>6, Zenon DEF SweepDies, TypeOK
  <2>4. UNCHANGED <<conv, msgs, queue, worker, inbound, moves, sent, again, raced, ran>>
    BY <1>6 DEF SweepDies
  <2> QED
    BY <2>1, <2>2, <2>3, <2>4 DEF TypeOK, Sweep, conv, msgs
<1> QED
  BY <1>2, <1>3, <1>4, <1>5, <1>6 DEF SweepStep

LEMMA WorkType ==
    ASSUME TypeOK, NEW w \in Workers,
           FollowUpStart(w) \/ WorkStep(w) \/ NoContent(w) \/ WorkerDies(w)
    PROVE  TypeOK'
<1>1. MaxFaults \in Nat /\ faults \in Nat /\ worker \in [Workers -> Work]
  BY EngagementAssumption DEF TypeOK, Work
<1>2. CASE FollowUpStart(w)
  <2>1. PICK i \in Queued :
          /\ queue' = [queue EXCEPT ![i] = NoTask]
          /\ \/ UNCHANGED worker
             \/ \E pc \in {"generate", "cancel"}, saw \in {"NONE", outreach} :
                  worker' = [worker EXCEPT ![w] =
                      [pc |-> pc, task |-> queue[i], saw |-> saw, overtaken |-> FALSE]]
          /\ ran' \in {ran, TRUE}
    BY <1>2 DEF FollowUpStart
  <2>2. queue[i] \in Task /\ "NONE" \in Outreach /\ outreach \in Outreach
    BY DEF Queued, TypeOK, Outreach
  <2>3. worker' \in [Workers -> Work]
    <3>1. CASE UNCHANGED worker
      BY <1>1, <3>1
    <3>2. ASSUME NEW pc \in {"generate", "cancel"}, NEW saw \in {"NONE", outreach}
          PROVE  [pc |-> pc, task |-> queue[i], saw |-> saw, overtaken |-> FALSE] \in Work
      BY <2>2 DEF Work
    <3> QED
      BY <1>1, <2>1, <3>1, <3>2
  <2>4. queue' \in [Slots -> Task \union {NoTask}]
    BY <2>1, TakeRemoves
  <2>5. /\ ran' \in BOOLEAN
        /\ UNCHANGED <<conv, msgs, sweep, inbound, moves, faults, sent, again, raced, lost>>
    BY <1>2, <2>1 DEF FollowUpStart, TypeOK
  <2> QED
    BY <2>3, <2>4, <2>5 DEF TypeOK, Work, conv, msgs
<1>3. CASE Cancel(w)
  <2>1. worker' \in [Workers -> Work]
    BY <1>1, <1>3, IdleTyped DEF Cancel, End
  <2>2. /\ outreach' \in Outreach /\ ran' = TRUE
        /\ UNCHANGED <<state, dnc, tagged, msgs, queue, sweep, inbound, moves, faults,
                       sent, again, raced, lost>>
    BY <1>3 DEF Cancel, End, Outreach, Terminal
  <2> QED
    BY <2>1, <2>2 DEF TypeOK, Work, msgs
<1>4. CASE CreateFollowUp(w)
  <2>1. worker' \in [Workers -> Work]
    BY <1>1, <1>4 DEF CreateFollowUp, Work
  <2>2. sent' \in Nat /\ answered' = TRUE /\ newer' = FALSE
    BY <1>4 DEF CreateFollowUp, TypeOK
  <2>3. UNCHANGED <<conv, inbounds, age, queue, sweep, inbound, moves, faults, again, raced,
                    ran, lost>>
    BY <1>4 DEF CreateFollowUp
  <2> QED
    BY <2>1, <2>2, <2>3 DEF TypeOK, Work, conv
<1>5. CASE NoContent(w) \/ Acknowledge(w)
  <2>1. worker' \in [Workers -> Work]
    BY <1>1, <1>5, IdleTyped DEF NoContent, Acknowledge, End
  <2>2. faults' \in 0..MaxFaults
    BY <1>1, <1>5 DEF NoContent, Acknowledge, TypeOK
  <2>3. ran' = TRUE /\ UNCHANGED <<conv, msgs, queue, sweep, inbound, moves, sent, again, raced, lost>>
    BY <1>5 DEF NoContent, Acknowledge, End
  <2> QED
    BY <2>1, <2>2, <2>3 DEF TypeOK, Work, conv, msgs
<1>6. CASE WorkerDies(w)
  <2>1. worker' \in [Workers -> Work] /\ worker[w].task \in Task
    BY <1>1, <1>6, IdleTyped DEF WorkerDies, Work
  <2>2. queue' \in [Slots -> Task \union {NoTask}]
    BY <1>6, <2>1, PublishAdds DEF WorkerDies
  <2>3. /\ faults' \in 0..MaxFaults /\ again' = again + 1
        /\ UNCHANGED <<conv, msgs, sweep, inbound, moves, sent, raced, ran, lost>>
    BY <1>1, <1>6 DEF WorkerDies
  <2> QED
    BY <2>1, <2>2, <2>3 DEF TypeOK, Work, conv, msgs
<1> QED
  BY <1>2, <1>3, <1>4, <1>5, <1>6 DEF WorkStep

LEMMA TypeStep ==
    ASSUME TypeOK, Sound, [Next]_vars
    PROVE  TypeOK'
<1>1. CASE UNCHANGED vars
  BY <1>1 DEF TypeOK, vars, conv, msgs, seen
<1>2. CASE Next
  BY <1>2, PassType, InboundType, OthersType, SweepType, WorkType DEF Next
<1> QED
  BY <1>1, <1>2

-----------------------------------------------------------------------------
(* Soundness, conjunct by conjunct *)

\* What each kind of step leaves alone.
LEMMA Frames ==
    ASSUME TypeOK
    PROVE  /\ Pass \/ Answer \/ HumanMove => UNCHANGED <<outreach, dnc, sweep, inbound, sent>>
           /\ PermanentFailure \/ Redeliver => UNCHANGED <<state, dnc, msgs, sweep, inbound, worker, sent>>
           /\ \A i \in Inbounds : InboundArrives(i) \/ InboundStep(i) =>
                  UNCHANGED <<queue, sweep, sent>>
           /\ \A s \in Sweepers : SweepStart(s) \/ SweepStep(s) \/ SweepDies(s) =>
                  UNCHANGED <<state, dnc, msgs, worker, inbound, sent>>
           /\ \A w \in Workers : FollowUpStart(w) \/ WorkStep(w) \/ NoContent(w) \/ WorkerDies(w) =>
                  UNCHANGED <<state, dnc, inbounds, sweep, inbound>>
<1>1. Pass \/ Answer \/ HumanMove => UNCHANGED <<outreach, dnc, sweep, inbound, sent>>
  BY DEF Pass, Answer, HumanMove, conv, seen
<1>2. PermanentFailure \/ Redeliver => UNCHANGED <<state, dnc, msgs, sweep, inbound, worker, sent>>
  BY DEF PermanentFailure, Redeliver, conv, seen
<1>3. ASSUME NEW i \in Inbounds, InboundArrives(i) \/ InboundStep(i)
      PROVE  UNCHANGED <<queue, sweep, sent>>
  BY <1>3 DEF InboundArrives, InboundStep, OptOut, ReadOutreach, Convert, seen
<1>4. ASSUME NEW s \in Sweepers, SweepStart(s) \/ SweepStep(s) \/ SweepDies(s)
      PROVE  UNCHANGED <<state, dnc, msgs, worker, inbound, sent>>
  BY <1>4 DEF SweepStart, SweepStep, SweepDies, SelectRegime, SweepCommit, SweepDispatch, conv, seen
<1>5. ASSUME NEW w \in Workers, FollowUpStart(w) \/ WorkStep(w) \/ NoContent(w) \/ WorkerDies(w)
      PROVE  UNCHANGED <<state, dnc, inbounds, sweep, inbound>>
  BY <1>5 DEF FollowUpStart, WorkStep, NoContent, WorkerDies, Cancel, CreateFollowUp, Acknowledge,
              conv, msgs
<1> QED
  BY <1>1, <1>2, <1>3, <1>4, <1>5

\* All but its own steps leave a worker at its task; they may only overtake it.
LEMMA WorkersGoOn ==
    ASSUME TypeOK,
           \/ Pass \/ Answer \/ HumanMove \/ PermanentFailure \/ Redeliver
           \/ \E i \in Inbounds : InboundArrives(i) \/ InboundStep(i)
           \/ \E s \in Sweepers : SweepStart(s) \/ SweepStep(s) \/ SweepDies(s)
    PROVE  \A w \in Workers : /\ worker'[w].pc = worker[w].pc
                              /\ worker'[w].task = worker[w].task
                              /\ worker'[w].saw = worker[w].saw
                              /\ worker[w].overtaken => worker'[w].overtaken
<1>1. ASSUME Pass \/ Answer \/ HumanMove \/ PermanentFailure \/ Redeliver
      PROVE  \E W \in SUBSET Workers : Overtake(W) \/ UNCHANGED worker
  BY <1>1 DEF Pass, Answer, HumanMove, PermanentFailure, Redeliver, Rescuers
<1>2. ASSUME NEW i \in Inbounds, InboundArrives(i) \/ InboundStep(i)
      PROVE  \E W \in SUBSET Workers : Overtake(W) \/ UNCHANGED worker
  BY <1>2 DEF InboundArrives, InboundStep, OptOut, ReadOutreach, Convert
<1>3. PICK W \in SUBSET Workers : Overtake(W) \/ UNCHANGED worker
  BY <1>1, <1>2, Frames
<1> QED
  BY <1>3, OvertakeKeeps

LEMMA SweepsSawNoneStep ==
    ASSUME TypeOK, SweepsSawNone, [Next]_vars
    PROVE  SweepsSawNone'
<1>1. CASE UNCHANGED sweep
  BY <1>1 DEF SweepsSawNone
<1>2. ASSUME NEW s \in Sweepers, SweepStart(s) \/ SweepStep(s) \/ SweepDies(s)
      PROVE  SweepsSawNone'
  <2>1. /\ \A t \in Sweepers \ {s} : sweep'[t] = sweep[t]
        /\ sweep'[s].saw \in {"NONE", sweep[s].saw}
        /\ sweep'[s].pc = "dispatch" => sweep'[s].to \in Cadence
    BY <1>2 DEF SweepStart, SweepStep, SweepDies, SelectRegime, SweepCommit, SweepDispatch, Plan,
                NoSweep, TypeOK
  <2> QED
    BY <2>1 DEF SweepsSawNone
<1> QED
  BY <1>1, <1>2, Frames DEF Next, vars

LEMMA CadenceWasSeenStep ==
    ASSUME TypeOK, CadenceWasSeen, [Next]_vars
    PROVE  CadenceWasSeen'
<1>1. (\A i \in Inbounds : inbound[i].pc = "convert" => inbound[i].saw \in Cadence)'
  <2>1. CASE UNCHANGED inbound
    BY <2>1 DEF CadenceWasSeen
  <2>2. ASSUME NEW i \in Inbounds, InboundArrives(i) \/ InboundStep(i)
        PROVE  (\A j \in Inbounds : inbound[j].pc = "convert" => inbound[j].saw \in Cadence)'
    BY <2>2 DEF CadenceWasSeen, InboundArrives, InboundStep, OptOut, ReadOutreach, Convert, NoInbound,
                TypeOK
  <2> QED
    BY <2>1, <2>2, Frames DEF Next, vars
<1>2. (\A w \in Workers : worker[w].pc = "cancel" => worker[w].saw \in Cadence)'
  <2>1. CASE \A w \in Workers : worker'[w].pc = worker[w].pc /\ worker'[w].saw = worker[w].saw
    BY <2>1 DEF CadenceWasSeen
  <2>2. ASSUME NEW w \in Workers, FollowUpStart(w) \/ WorkStep(w) \/ NoContent(w) \/ WorkerDies(w)
        PROVE  (\A v \in Workers : worker[v].pc = "cancel" => worker[v].saw \in Cadence)'
    <3>1. /\ \A v \in Workers \ {w} : worker'[v] = worker[v]
          /\ worker'[w].pc = "cancel" =>
                \/ worker'[w].saw = worker[w].saw /\ worker'[w].pc = worker[w].pc
                \/ worker'[w].saw \in Cadence
      <4>1. CASE FollowUpStart(w)
        BY <4>1 DEF FollowUpStart, TypeOK
      <4>2. CASE WorkStep(w) \/ NoContent(w) \/ WorkerDies(w)
        BY <4>2 DEF WorkStep, NoContent, WorkerDies, Cancel, CreateFollowUp, Acknowledge, End,
                    NoWork, TypeOK
      <4> QED
        BY <2>2, <4>1, <4>2
    <3> QED
      BY <3>1 DEF CadenceWasSeen
  <2> QED
    BY <2>1, <2>2, WorkersGoOn DEF Next, vars
<1> QED
  BY <1>1, <1>2 DEF CadenceWasSeen

\* Where nothing is queued and no worker is busy, no worker and no broker begins.
LEMMA NothingToDo ==
    ASSUME TypeOK, NoTasks, Next, UNCHANGED queue
    PROVE  NoTasks'
<1>1. Queued' = Queued
  BY DEF Queued
<1>2. ASSUME NEW w \in Workers
      PROVE  ~(FollowUpStart(w) \/ WorkStep(w) \/ NoContent(w) \/ WorkerDies(w))
  BY DEF NoTasks, FollowUpStart, WorkStep, NoContent, WorkerDies, Cancel, CreateFollowUp, Acknowledge
<1>3. \A w \in Workers : worker'[w].pc = worker[w].pc
  BY <1>2, WorkersGoOn DEF Next
<1> QED
  BY <1>1, <1>3 DEF NoTasks

LEMMA QuietBeforeStep ==
    ASSUME TypeOK, QuietBefore, [Next]_vars
    PROVE  QuietBefore'
<1>1. CASE UNCHANGED vars
  BY <1>1 DEF QuietBefore, NoTasks, Queued, vars, conv, msgs
<1>2. CASE Next
  <2>1. inbounds \in Nat /\ (newer => inbounds > 0)
    BY DEF TypeOK
  <2>2. (\E i \in Inbounds : InboundArrives(i)) \/ UNCHANGED inbounds
    BY <1>2, Frames DEF Next, Pass, Answer, HumanMove, PermanentFailure, Redeliver, InboundStep,
                        OptOut, ReadOutreach, Convert, msgs
  <2>3. ASSUME NEW i \in Inbounds, InboundArrives(i)
        PROVE  state' # "NEW" /\ inbounds' # 0
    BY <2>1, <2>3 DEF InboundArrives
  <2>4. state' = "NEW" => state = "NEW"
    BY <1>2, Frames DEF Next, Pass, Answer, HumanMove, PermanentFailure, Redeliver, InboundArrives,
                        InboundStep, OptOut, ReadOutreach, Convert, conv
  <2>5. ASSUME inbounds = 0, UNCHANGED inbounds
        PROVE  NoTasks' /\ \A s \in Sweepers : sweep'[s].pc = "idle"
    <3>1. NoTasks /\ \A s \in Sweepers : sweep[s].pc = "idle"
      BY <2>5 DEF QuietBefore
    <3>2. \A s \in Sweepers : ~(SweepStart(s) \/ SweepStep(s) \/ SweepDies(s))
      BY <2>5, <3>1 DEF SweepStart, SweepStep, SelectRegime, SweepCommit, SweepDispatch, SweepDies
    <3>3. \A w \in Workers : ~(FollowUpStart(w) \/ WorkStep(w) \/ NoContent(w) \/ WorkerDies(w))
      BY <3>1 DEF NoTasks, FollowUpStart, WorkStep, NoContent, WorkerDies, Cancel, CreateFollowUp,
                  Acknowledge
    <3>4. ~Pass /\ ~Redeliver
      BY <2>5, <3>1 DEF Pass, Redeliver, NoTasks
    <3>5. UNCHANGED <<queue, sweep>>
      BY <1>2, <3>2, <3>3, <3>4, Frames DEF Next, Answer, HumanMove, PermanentFailure
    <3> QED
      BY <1>2, <3>1, <3>5, NothingToDo
  <2> QED
    BY <2>2, <2>3, <2>4, <2>5 DEF QuietBefore
<1> QED
  BY <1>1, <1>2

LEMMA FreshIsQuietStep ==
    ASSUME TypeOK, FreshIsQuiet, [Next]_vars
    PROVE  FreshIsQuiet'
<1>1. CASE UNCHANGED vars
  BY <1>1 DEF FreshIsQuiet, NoTasks, Queued, Dispatching, vars, conv, seen
<1>2. CASE Next /\ outreach' = "NONE"
  <2>1. ASSUME NEW s \in Sweepers PROVE ~SweepCommit(s)
    BY <1>2 DEF SweepCommit, TypeOK, Cadence
  <2>2. outreach = "NONE"
    BY <1>2, <2>1 DEF Next, Pass, Answer, HumanMove, PermanentFailure, Redeliver, InboundArrives,
          InboundStep, OptOut, ReadOutreach, Convert, SweepStart, SweepStep, SelectRegime,
          SweepDispatch, SweepDies, FollowUpStart, WorkStep, NoContent, WorkerDies, Cancel,
          CreateFollowUp, Acknowledge, conv
  <2>3. NoTasks /\ Dispatching = {} /\ sent = 0
    BY <2>2 DEF FreshIsQuiet
  <2>4. \A w \in Workers : ~(FollowUpStart(w) \/ WorkStep(w) \/ NoContent(w) \/ WorkerDies(w))
    BY <2>3 DEF NoTasks, FollowUpStart, WorkStep, NoContent, WorkerDies, Cancel, CreateFollowUp,
                Acknowledge
  <2>5. ASSUME NEW s \in Sweepers PROVE ~SweepDispatch(s) /\ ~Redeliver
    BY <2>3 DEF SweepDispatch, Dispatching, Redeliver, NoTasks
  <2>6. Queued' = {}
    <3>1. CASE Pass
      BY <2>3, <3>1, LaterKeeps DEF Pass, NoTasks
    <3>2. CASE ~Pass
      <4>1. UNCHANGED queue
        BY <1>2, <2>1, <2>3, <2>4, <2>5, <3>2, Frames
           DEF Next, Answer, HumanMove, PermanentFailure, Redeliver, NoTasks, SweepStart, SweepStep,
               SelectRegime, SweepDies
      <4> QED
        BY <2>3, <4>1 DEF NoTasks, Queued
    <3> QED
      BY <3>1, <3>2
  <2>7. \A w \in Workers : worker'[w].pc = "idle"
    BY <1>2, <2>3, <2>4, WorkersGoOn DEF Next, NoTasks
  <2>8. sent' = 0
    BY <1>2, <2>3, <2>4, Frames DEF Next
  <2>9. Dispatching' = {}
    <3>1. CASE UNCHANGED sweep
      BY <2>3, <3>1 DEF Dispatching
    <3>2. ASSUME NEW s \in Sweepers, SweepStart(s) \/ SelectRegime(s) \/ SweepDies(s)
          PROVE  Dispatching' = {}
      BY <2>3, <3>2 DEF Dispatching, SweepStart, SelectRegime, Plan, SweepDies, NoSweep, TypeOK
    <3> QED
      BY <1>2, <2>1, <2>4, <2>5, <3>1, <3>2, Frames DEF Next, SweepStep
  <2> QED
    BY <2>6, <2>7, <2>8, <2>9 DEF FreshIsQuiet, NoTasks
<1> QED
  BY <1>1, <1>2 DEF FreshIsQuiet

\* A worker that goes on, not overtaken, goes on with what is still due.
LEMMA StillDueKept ==
    ASSUME StillDue,
           \A w \in Workers : /\ worker'[w].pc = worker[w].pc
                              /\ worker'[w].task = worker[w].task
                              /\ worker[w].overtaken => worker'[w].overtaken,
           dnc' => dnc, newer' /\ answered' => newer /\ answered,
           state = "AI_ACTIVE" => state' = "AI_ACTIVE"
    PROVE  StillDue'
BY DEF StillDue

\* What an opt-out, a message or a closed window puts an end to is overtaken.
LEMMA OvertakenNotDue ==
    ASSUME TypeOK, Overtake(Workers)
    PROVE  StillDue'
<1>1. \A w \in Workers : worker'[w].pc = "generate" => worker'[w].overtaken
  BY DEF Overtake, TypeOK
<1> QED
  BY <1>1 DEF StillDue

LEMMA StillDueStep ==
    ASSUME TypeOK, Sound, [Next]_vars
    PROVE  StillDue'
<1> USE DEF Sound
<1>1. CASE UNCHANGED vars
  BY <1>1 DEF StillDue, vars, conv, msgs
<1>2. CASE Pass
  BY <1>2, WorkersGoOn, StillDueKept DEF Pass, conv
<1>3. CASE Answer
  BY <1>3, WorkersGoOn, StillDueKept DEF Answer, conv
<1>4. CASE HumanMove
  <2>1. CASE state' = "AI_ACTIVE"
    <3>1. UNCHANGED <<dnc, newer, answered>>
      BY <1>4 DEF HumanMove, msgs
    <3> QED
      BY <1>4, <2>1, <3>1, WorkersGoOn, StillDueKept
  <2>2. CASE state' = "HUMAN_ASSIGNED"
    <3>1. \A w \in Rescuers : worker'[w].pc = "generate" => worker'[w].overtaken
      BY <1>4, <2>2 DEF HumanMove, Overtake, Rescuers, TypeOK
    <3>2. \A w \in Workers : worker'[w].pc = "generate" /\ ~worker'[w].overtaken =>
              worker'[w].task.kind # "RESCUE_1"
      BY <1>4, <3>1, WorkersGoOn DEF Rescuers
    <3>3. UNCHANGED <<dnc, newer, answered>>
      BY <1>4 DEF HumanMove, msgs
    <3> QED
      BY <1>4, <3>2, <3>3, WorkersGoOn DEF StillDue
  <2> QED
    BY <1>4, <2>1, <2>2 DEF HumanMove
<1>5. CASE PermanentFailure \/ Redeliver
  BY <1>5, Frames, WorkersGoOn, StillDueKept DEF msgs
<1>6. ASSUME NEW i \in Inbounds, InboundArrives(i) \/ InboundStep(i)
      PROVE  StillDue'
  <2>1. CASE InboundArrives(i) \/ OptOut(i)
    BY <2>1, OvertakenNotDue DEF InboundArrives, OptOut
  <2>2. CASE ReadOutreach(i) \/ Convert(i)
    <3>1. UNCHANGED <<state, dnc, msgs, worker>>
      BY <2>2 DEF ReadOutreach, Convert, conv
    <3> QED
      BY <3>1, StillDueKept DEF msgs
  <2> QED
    BY <1>6, <2>1, <2>2 DEF InboundStep
<1>7. ASSUME NEW s \in Sweepers, SweepStart(s) \/ SweepStep(s) \/ SweepDies(s)
      PROVE  StillDue'
  BY <1>7, Frames, StillDueKept DEF msgs
<1>8. ASSUME NEW w \in Workers, FollowUpStart(w) \/ WorkStep(w) \/ NoContent(w) \/ WorkerDies(w)
      PROVE  StillDue'
  <2>1. UNCHANGED <<state, dnc>> /\ (newer' /\ answered' => newer /\ answered)
    BY <1>8 DEF FollowUpStart, WorkStep, NoContent, WorkerDies, Cancel, CreateFollowUp, Acknowledge,
                conv, msgs
  <2>2. \A v \in Workers \ {w} : worker'[v] = worker[v]
    BY <1>8 DEF FollowUpStart, WorkStep, NoContent, WorkerDies, Cancel, CreateFollowUp, Acknowledge,
                End, TypeOK
  <2>3. worker'[w].pc = "generate" => FollowUpStart(w)
    BY <1>8 DEF WorkStep, NoContent, WorkerDies, Cancel, CreateFollowUp, Acknowledge, End, NoWork,
                TypeOK
  <2>4. ASSUME FollowUpStart(w), worker'[w].pc = "generate"
        PROVE  /\ ~dnc
               /\ worker'[w].task.kind = "RESCUE_1" => state = "AI_ACTIVE"
               /\ newer' => ~answered'
    <3>1. PICK i \in Queued :
            /\ worker[w].pc = "idle"
            /\ worker'[w].pc = "generate" =>
                  pre_fire_checks(queue[i].kind) = "none" /\ worker'[w].task = queue[i]
      BY <2>4 DEF FollowUpStart, TypeOK
    <3>2. outreach # "NONE" /\ state # "NEW"
      BY <3>1 DEF FreshIsQuiet, QuietBefore, NoTasks
    <3>3. UNCHANGED <<newer, answered>>
      BY <2>4 DEF FollowUpStart, msgs
    <3>4. state \in ConvStates
      BY DEF TypeOK
    <3> QED
      BY <2>4, <3>1, <3>2, <3>3, <3>4 DEF pre_fire_checks, ConvStates
  <2> QED
    BY <2>1, <2>2, <2>3, <2>4 DEF StillDue
<1> QED
  BY <1>1, <1>2, <1>3, <1>4, <1>5, <1>6, <1>7, <1>8 DEF Next

LEMMA SoundStep ==
    ASSUME TypeOK, Sound, [Next]_vars
    PROVE  Sound'
BY SweepsSawNoneStep, CadenceWasSeenStep, QuietBeforeStep, FreshIsQuietStep, StillDueStep DEF Sound

-----------------------------------------------------------------------------
(* Counting *)

Count == sent + Cardinality(Queued) + Cardinality(Dispatching) + Cardinality(Generating)
Causes == again + raced + Bit(outreach # "NONE")

\* The numbers are numbers, before the step and after it.
LEMMA CountsAreNumbers ==
    ASSUME TypeOK
    PROVE  /\ sent \in Nat /\ again \in Nat /\ raced \in Nat
           /\ Cardinality(Queued) \in Nat /\ Cardinality(Dispatching) \in Nat
           /\ Cardinality(Generating) \in Nat
           /\ Bit(outreach # "NONE") \in 0..1
<1>1. {sent, again, raced} \subseteq Nat
  BY DEF TypeOK
<1>2. Bit(outreach # "NONE") \in 0..1
  BY DEF Bit
<1> QED
  BY <1>1, <1>2, FiniteParts

LEMMA CountsStayNumbers ==
    ASSUME TypeOK'
    PROVE  /\ sent' \in Nat /\ again' \in Nat /\ raced' \in Nat
           /\ Cardinality(Queued') \in Nat /\ Cardinality(Dispatching') \in Nat
           /\ Cardinality(Generating') \in Nat
           /\ Bit(outreach' # "NONE") \in 0..1
<1>1. {sent', again', raced'} \subseteq Nat
  BY DEF TypeOK
<1>2. Bit(outreach' # "NONE") \in 0..1
  BY DEF Bit
<1>3. Queued' \in SUBSET Slots /\ Dispatching' \in SUBSET Sweepers /\ Generating' \in SUBSET Workers
  BY DEF Queued, Dispatching, Generating
<1> QED
  BY <1>1, <1>2, <1>3, FiniteParts, CountType

\* One sweep, or one worker, makes a difference of one.
LEMMA OneSweep ==
    ASSUME NEW s \in Sweepers, \A t \in Sweepers \ {s} : sweep'[t] = sweep[t]
    PROVE  Cardinality(Dispatching') + Bit(sweep[s].pc = "dispatch")
               = Cardinality(Dispatching) + Bit(sweep'[s].pc = "dispatch")
<1>1. Dispatching \in SUBSET Sweepers /\ Dispatching' \in SUBSET Sweepers
  BY DEF Dispatching
<1>2. \A t \in Sweepers \ {s} : t \in Dispatching <=> t \in Dispatching'
  BY DEF Dispatching
<1>3. Bit(s \in Dispatching) = Bit(sweep[s].pc = "dispatch")
  BY DEF Bit, Dispatching
<1>4. Bit(s \in Dispatching') = Bit(sweep'[s].pc = "dispatch")
  BY DEF Bit, Dispatching
<1> QED
  BY <1>1, <1>2, <1>3, <1>4, FiniteParts, CountStep

LEMMA OneWorker ==
    ASSUME NEW w \in Workers, \A v \in Workers \ {w} : worker'[v].pc = worker[v].pc
    PROVE  Cardinality(Generating') + Bit(worker[w].pc = "generate")
               = Cardinality(Generating) + Bit(worker'[w].pc = "generate")
<1>1. Generating \in SUBSET Workers /\ Generating' \in SUBSET Workers
  BY DEF Generating
<1>2. \A v \in Workers \ {w} : v \in Generating <=> v \in Generating'
  BY DEF Generating
<1>3. Bit(w \in Generating) = Bit(worker[w].pc = "generate")
  BY DEF Bit, Generating
<1>4. Bit(w \in Generating') = Bit(worker'[w].pc = "generate")
  BY DEF Bit, Generating
<1> QED
  BY <1>1, <1>2, <1>3, <1>4, FiniteParts, CountStep

\* outreach_state never goes back to NONE.
LEMMA NoneIsGone ==
    ASSUME TypeOK, [Next]_vars, outreach # "NONE"
    PROVE  outreach' # "NONE"
<1>1. ASSUME NEW s \in Sweepers, SweepCommit(s) PROVE outreach' # "NONE"
  BY <1>1 DEF SweepCommit, TypeOK, Cadence
<1> QED
  BY <1>1 DEF Next, Pass, Answer, HumanMove, PermanentFailure, Redeliver, InboundArrives,
          InboundStep, OptOut, ReadOutreach, Convert, SweepStart, SweepStep, SelectRegime,
          SweepDispatch, SweepDies, FollowUpStart, WorkStep, NoContent, WorkerDies, Cancel,
          CreateFollowUp, Acknowledge, conv, vars

LEMMA CountOfOthers ==
    ASSUME TypeOK,
           \/ Pass \/ Answer \/ HumanMove \/ PermanentFailure \/ Redeliver
           \/ \E i \in Inbounds : InboundArrives(i) \/ InboundStep(i)
    PROVE  /\ raced' = raced
           /\ Count' - Count = again' - again
<1>1. Generating' = Generating
  BY WorkersGoOn DEF Generating
<1>2. Dispatching' = Dispatching /\ sent' = sent
  BY Frames DEF Dispatching
<1>3. CASE Redeliver
  <2>1. PICK i \in Queued : Publish(queue[i])
    BY <1>3 DEF Redeliver
  <2>2. queue[i] \in Task
    BY DEF Queued, TypeOK
  <2>3. Cardinality(Queued') = Cardinality(Queued) + 1
    BY <2>1, <2>2, PublishAdds
  <2>4. again' = again + 1 /\ raced' = raced
    BY <1>3 DEF Redeliver
  <2> QED
    BY <1>1, <1>2, <2>3, <2>4, CountsAreNumbers DEF Count
<1>4. CASE ~Redeliver
  <2>1. Queued' = Queued
    <3>1. CASE Pass
      BY <3>1, LaterKeeps DEF Pass
    <3>2. CASE ~Pass
      BY <1>4, <3>2, Frames DEF Answer, HumanMove, PermanentFailure, Queued
    <3> QED
      BY <3>1, <3>2
  <2>2. again' = again /\ raced' = raced
    BY <1>4 DEF Pass, Answer, HumanMove, PermanentFailure, InboundArrives, InboundStep, OptOut,
                ReadOutreach, Convert, seen
  <2> QED
    BY <1>1, <1>2, <2>1, <2>2, CountsAreNumbers DEF Count
<1> QED
  BY <1>3, <1>4

\* A schedule is counted when it is written, over NONE or over what it never saw.
LEMMA CountOfSweep ==
    ASSUME TypeOK, Sound, NEW s \in Sweepers, SweepStart(s) \/ SweepStep(s) \/ SweepDies(s)
    PROVE  /\ again' = again /\ raced' \in Nat
           /\ Count' - Count <= raced' - raced + Bit(outreach' # "NONE") - Bit(outreach # "NONE")
<1>1. Generating' = Generating /\ sent' = sent
  BY Frames DEF Generating
<1>2. \A t \in Sweepers \ {s} : sweep'[t] = sweep[t]
  BY DEF SweepStart, SweepStep, SweepDies, SelectRegime, Plan, SweepCommit, SweepDispatch, TypeOK
<1>3. /\ Cardinality(Dispatching') + Bit(sweep[s].pc = "dispatch")
             = Cardinality(Dispatching) + Bit(sweep'[s].pc = "dispatch")
      /\ Cardinality(Dispatching') \in Nat /\ Cardinality(Queued') \in Nat
  BY <1>2, OneSweep, CountsStayNumbers, SweepType
<1>4. CASE SweepStart(s) \/ SelectRegime(s) \/ SweepDies(s)
  <2>1. UNCHANGED <<queue, again, raced, outreach>>
    BY <1>4 DEF SweepStart, SelectRegime, SweepDies, conv, seen
  <2>2. sweep'[s].pc # "dispatch"
    BY <1>4 DEF SweepStart, SelectRegime, Plan, SweepDies, NoSweep, TypeOK
  <2>3. Queued' = Queued
    BY <2>1 DEF Queued
  <2>4. Cardinality(Dispatching') <= Cardinality(Dispatching)
    BY <1>3, <2>2, CountsAreNumbers DEF Bit
  <2> QED
    BY <1>1, <1>3, <2>1, <2>3, <2>4, CountsAreNumbers DEF Count
<1>5. CASE SweepDispatch(s)
  <2>1. [kind |-> sweep[s].to, left |-> sweep[s].left] \in Task
    BY <1>5 DEF SweepDispatch, Sound, SweepsSawNone, TypeOK, Task
  <2>2. Cardinality(Queued') = Cardinality(Queued) + 1
    BY <1>5, <2>1, PublishAdds DEF SweepDispatch
  <2>3. Cardinality(Dispatching') + 1 = Cardinality(Dispatching)
    <3>1. sweep[s].pc = "dispatch" /\ sweep'[s].pc # "dispatch"
      BY <1>5 DEF SweepDispatch, NoSweep, TypeOK
    <3> QED
      BY <1>3, <3>1, CountsAreNumbers DEF Bit
  <2>4. UNCHANGED <<again, raced, outreach>>
    BY <1>5 DEF SweepDispatch, conv, seen
  <2> QED
    BY <1>1, <1>3, <2>2, <2>3, <2>4, CountsAreNumbers DEF Count
<1>6. CASE SweepCommit(s)
  <2>1. UNCHANGED <<queue, again>> /\ sweep[s].pc # "dispatch" /\ outreach' # "NONE"
    BY <1>6 DEF SweepCommit, msgs, TypeOK, Cadence
  <2>2. Queued' = Queued
    BY <2>1 DEF Queued
  <2>3. Cardinality(Dispatching') = Cardinality(Dispatching) + Bit(sweep'[s].pc = "dispatch")
    BY <1>3, <2>1, CountsAreNumbers DEF Bit
  <2>4. Count' - Count = Bit(sweep'[s].pc = "dispatch")
    BY <1>1, <2>2, <2>3, CountsAreNumbers DEF Count, Bit
  <2>5. raced' = raced + Bit(sweep'[s].pc = "dispatch" /\ outreach # "NONE")
    <3>1. sweep[s].saw = "NONE"
      BY DEF Sound, SweepsSawNone
    <3>2. CASE sweep[s].to = "UNRESPONSIVE"
      <4>1. raced' = raced /\ sweep'[s].pc # "dispatch"
        BY <1>6, <3>2 DEF SweepCommit, NoSweep, TypeOK
      <4> QED
        BY <4>1, CountsAreNumbers DEF Bit
    <3>3. CASE sweep[s].to # "UNRESPONSIVE"
      <4>1. raced' = raced + Bit(outreach # "NONE") /\ sweep'[s].pc = "dispatch"
        BY <1>6, <3>1, <3>3 DEF SweepCommit, TypeOK, Bit
      <4> QED
        BY <4>1 DEF Bit
    <3> QED
      BY <3>2, <3>3
  <2> QED
    BY <2>1, <2>4, <2>5, CountsAreNumbers DEF Bit
<1> QED
  BY <1>4, <1>5, <1>6 DEF SweepStep

\* A task becomes a follow-up, or comes to nothing, or is delivered again.
LEMMA CountOfWork ==
    ASSUME TypeOK, NEW w \in Workers,
           FollowUpStart(w) \/ WorkStep(w) \/ NoContent(w) \/ WorkerDies(w)
    PROVE  /\ raced' = raced /\ again' \in Nat
           /\ Count' - Count <= again' - again
<1>1. Dispatching' = Dispatching
  BY Frames DEF Dispatching
<1>2. \A v \in Workers \ {w} : worker'[v] = worker[v]
  BY DEF FollowUpStart, WorkStep, NoContent, WorkerDies, Cancel, CreateFollowUp, Acknowledge,
         End, TypeOK
<1>3. /\ Cardinality(Generating') + Bit(worker[w].pc = "generate")
             = Cardinality(Generating) + Bit(worker'[w].pc = "generate")
      /\ Cardinality(Generating') \in Nat /\ Cardinality(Queued') \in Nat /\ sent' \in Nat
      /\ again' \in Nat
  BY <1>2, OneWorker, WorkType, CountsStayNumbers
<1>4. CASE FollowUpStart(w)
  <2>1. PICK i \in Queued : queue' = [queue EXCEPT ![i] = NoTask]
    BY <1>4 DEF FollowUpStart
  <2>2. Cardinality(Queued') + 1 = Cardinality(Queued)
    BY <2>1, TakeRemoves
  <2>3. UNCHANGED <<sent, again, raced>>
    BY <1>4 DEF FollowUpStart
  <2>4. Cardinality(Generating') <= Cardinality(Generating) + 1
    BY <1>3, CountsAreNumbers DEF Bit
  <2> QED
    BY <1>1, <1>3, <2>2, <2>3, <2>4, CountsAreNumbers DEF Count
<1>5. CASE CreateFollowUp(w)
  <2>1. /\ worker[w].pc = "generate" /\ worker'[w].pc # "generate"
        /\ sent' = sent + 1 /\ UNCHANGED <<queue, again, raced>>
    BY <1>5 DEF CreateFollowUp, TypeOK
  <2>2. Queued' = Queued
    BY <2>1 DEF Queued
  <2>3. Cardinality(Generating') + 1 = Cardinality(Generating)
    BY <1>3, <2>1, CountsAreNumbers DEF Bit
  <2>4. sent' = sent + 1 /\ again' = again /\ raced' = raced
    BY <2>1
  <2>5. Count' - Count <= again' - again
    BY <1>1, <1>3, <2>2, <2>3, <2>4, CountsAreNumbers DEF Count
  <2> QED
    BY <1>3, <2>4, <2>5
<1>6. CASE Cancel(w) \/ NoContent(w) \/ Acknowledge(w)
  <2>1. worker'[w].pc # "generate" /\ UNCHANGED <<queue, sent, again, raced>>
    BY <1>6 DEF Cancel, NoContent, Acknowledge, End, NoWork, TypeOK
  <2>2. Queued' = Queued
    BY <2>1 DEF Queued
  <2>3. Cardinality(Generating') <= Cardinality(Generating)
    BY <1>3, <2>1, CountsAreNumbers DEF Bit
  <2> QED
    BY <1>1, <1>3, <2>1, <2>2, <2>3, CountsAreNumbers DEF Count
<1>7. CASE WorkerDies(w)
  <2>1. worker[w].task \in Task /\ worker'[w].pc # "generate"
    BY <1>7 DEF WorkerDies, NoWork, TypeOK
  <2>2. Cardinality(Queued') = Cardinality(Queued) + 1
    BY <1>7, <2>1, PublishAdds DEF WorkerDies
  <2>3. again' = again + 1 /\ UNCHANGED <<sent, raced>>
    BY <1>7 DEF WorkerDies
  <2>4. Cardinality(Generating') <= Cardinality(Generating)
    BY <1>3, <2>1, CountsAreNumbers DEF Bit
  <2> QED
    BY <1>1, <1>3, <2>2, <2>3, <2>4, CountsAreNumbers DEF Count
<1> QED
  BY <1>4, <1>5, <1>6, <1>7 DEF WorkStep

LEMMA CausesStep ==
    ASSUME IInv, [Next]_vars
    PROVE  TasksHaveCauses'
<1>1. TypeOK /\ Sound /\ TypeOK'
  BY TypeStep DEF IInv
<1>2. Bit(outreach # "NONE") <= Bit(outreach' # "NONE")
  BY <1>1, NoneIsGone DEF Bit
<1>3. sent + Cardinality(Queued) + Cardinality(Dispatching) + Cardinality(Generating)
          <= again + raced + Bit(outreach # "NONE")
  BY DEF IInv, TasksHaveCauses
<1>4. CASE UNCHANGED vars
  BY <1>3, <1>4 DEF TasksHaveCauses, Queued, Dispatching, Generating, vars, conv, seen
<1>5. CASE Next
  <2>1. Count \in Int /\ Count' \in Int
    BY <1>1, CountsAreNumbers, CountsStayNumbers DEF Count
  <2>2. \/ raced' = raced /\ Count' - Count <= again' - again
        \/ /\ again' = again
           /\ Count' - Count <= raced' - raced + Bit(outreach' # "NONE") - Bit(outreach # "NONE")
    <3>1. CASE \/ Pass \/ Answer \/ HumanMove \/ PermanentFailure \/ Redeliver
               \/ \E i \in Inbounds : InboundArrives(i) \/ InboundStep(i)
      <4>1. raced' = raced /\ Count' - Count = again' - again
        BY <1>1, <3>1, CountOfOthers
      <4> QED
        BY <1>1, <4>1, CountsAreNumbers, CountsStayNumbers
    <3>2. CASE \E s \in Sweepers : SweepStart(s) \/ SweepStep(s) \/ SweepDies(s)
      BY <1>1, <3>2, CountOfSweep
    <3>3. CASE \E w \in Workers : FollowUpStart(w) \/ WorkStep(w) \/ NoContent(w) \/ WorkerDies(w)
      BY <1>1, <3>3, CountOfWork
    <3> QED
      BY <1>5, <3>1, <3>2, <3>3 DEF Next
  <2>3. Count <= again + raced + Bit(outreach # "NONE")
    BY <1>3 DEF Count
  <2>4. Count' <= again' + raced' + Bit(outreach' # "NONE")
    <3> HIDE DEF Count
    <3> QED
      BY <1>1, <1>2, <2>1, <2>2, <2>3, CountsAreNumbers, CountsStayNumbers
  <2> QED
    BY <2>4 DEF Count, TasksHaveCauses
<1> QED
  BY <1>4, <1>5

-----------------------------------------------------------------------------
(* The theorems *)

LEMMA IInvAlways == Spec => []IInv
<1>1. IInv /\ [Next]_vars => IInv'
  BY TypeStep, SoundStep, CausesStep DEF IInv
<1> QED
  BY <1>1, InitInv, PTL DEF Spec

\* A conversation gets one follow-up, and one more for each task that the broker
\* delivered again and each schedule written over a state its sweep never saw,
\* for any number of sweeps, workers, messages and faults.
THEOREM FollowUpsHaveCauses == Spec => []FollowUpsAreFew
<1>1. IInv => FollowUpsAreFew
  <2> SUFFICES ASSUME IInv PROVE FollowUpsAreFew
    OBVIOUS
  <2>1. /\ TypeOK
        /\ sent + Cardinality(Queued) + Cardinality(Dispatching) + Cardinality(Generating)
               <= again + raced + Bit(outreach # "NONE")
    BY DEF IInv, TasksHaveCauses
  <2>2. sent <= 1 + again + raced
    BY <2>1, CountsAreNumbers
  <2> QED
    BY <2>1, <2>2 DEF FollowUpsAreFew, FewFollowUps
<1> QED
  BY <1>1, IInvAlways, PTL

LEMMA TerminalStandsStep ==
    ASSUME TypeOK, Sound, Next
    PROVE  TerminalStands
<1> SUFFICES ASSUME outreach' # outreach, outreach \in Terminal,
                    outreach' \notin {"SUPPRESSED", "UNDELIVERABLE"}
             PROVE  \/ \E s \in Sweepers : Writes(sweep[s]) /\ sweep'[s] # sweep[s]
                    \/ \E w \in Workers : Writes(worker[w]) /\ worker'[w] # worker[w]
                    \/ \E i \in Inbounds : Writes(inbound[i]) /\ inbound'[i] = NoInbound
  BY DEF TerminalStands
<1>1. ~(Pass \/ Answer \/ HumanMove \/ PermanentFailure \/ Redeliver)
  BY DEF Pass, Answer, HumanMove, PermanentFailure, Redeliver, conv
<1>2. ASSUME NEW i \in Inbounds, InboundArrives(i) \/ InboundStep(i)
      PROVE  Writes(inbound[i]) /\ inbound'[i] = NoInbound
  <2>1. Convert(i)
    BY <1>2 DEF InboundArrives, InboundStep, OptOut, ReadOutreach, conv
  <2>2. inbound[i].saw \in Cadence
    BY <2>1 DEF Convert, Sound, CadenceWasSeen
  <2> QED
    BY <2>1, <2>2 DEF Convert, Writes, Cadence, Terminal, TypeOK
<1>3. ASSUME NEW s \in Sweepers, SweepStart(s) \/ SweepStep(s) \/ SweepDies(s)
      PROVE  Writes(sweep[s]) /\ sweep'[s] # sweep[s]
  <2>1. SweepCommit(s)
    BY <1>3 DEF SweepStart, SweepStep, SelectRegime, SweepDispatch, SweepDies, conv
  <2>2. sweep[s].saw = "NONE"
    BY DEF Sound, SweepsSawNone
  <2>3. sweep'[s].pc # sweep[s].pc
    BY <2>1 DEF SweepCommit, NoSweep, TypeOK
  <2> QED
    BY <2>1, <2>2, <2>3 DEF SweepCommit, Writes, Terminal
<1>4. ASSUME NEW w \in Workers,
             FollowUpStart(w) \/ WorkStep(w) \/ NoContent(w) \/ WorkerDies(w)
      PROVE  Writes(worker[w]) /\ worker'[w] # worker[w]
  <2>1. Cancel(w)
    BY <1>4 DEF FollowUpStart, WorkStep, NoContent, WorkerDies, CreateFollowUp, Acknowledge, conv
  <2>2. worker[w].saw \in Cadence
    BY <2>1 DEF Cancel, Sound, CadenceWasSeen
  <2>3. worker'[w].pc # worker[w].pc
    BY <2>1 DEF Cancel, End, NoWork, TypeOK
  <2> QED
    BY <2>1, <2>2, <2>3 DEF Cancel, Writes, Cadence, Terminal
<1> QED
  BY <1>1, <1>2, <1>3, <1>4 DEF Next

LEMMA StopsAreHeededStep ==
    ASSUME TypeOK, Sound, Next
    PROVE  StopsAreHeeded
<1> SUFFICES ASSUME NEW w \in Workers, sent' > sent, worker'[w] # worker[w], ~worker[w].overtaken
             PROVE  /\ ~dnc
                    /\ worker[w].task.kind = "RESCUE_1" => state = "AI_ACTIVE"
                    /\ newer => ~answered \/ outreach = "NONE"
  BY DEF StopsAreHeeded
<1>1. sent' # sent
  BY CountsAreNumbers
<1>2. PICK v \in Workers : FollowUpStart(v) \/ WorkStep(v) \/ NoContent(v) \/ WorkerDies(v)
  BY <1>1, Frames DEF Next
<1>3. CreateFollowUp(v)
  BY <1>1, <1>2 DEF FollowUpStart, WorkStep, NoContent, WorkerDies, Cancel, Acknowledge
<1>4. worker[v].pc = "generate" /\ w = v
  BY <1>3 DEF CreateFollowUp, TypeOK
<1> QED
  BY <1>4 DEF Sound, StillDue

\* An opt-out, a reply, a tagged silence and a dead address stand, and no
\* follow-up goes out over one of them or over a human's takeover, except by a
\* process that had looked before.
THEOREM StopsHold == Spec => StopsStand
<1>1. IInv /\ [Next]_vars => [TerminalStands /\ StopsAreHeeded]_vars
  BY TerminalStandsStep, StopsAreHeededStep DEF IInv
<1> QED
  BY <1>1, IInvAlways, PTL DEF Spec, StopsStand
=============================================================================
