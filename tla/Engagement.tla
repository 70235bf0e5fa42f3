----------------------------- MODULE Engagement -----------------------------
(***************************************************************************)
(* The follow-ups of one conversation with ai_enabled: the sweep that      *)
(* finds it silent and schedules one, the delayed task that sends it, and  *)
(* what calls it off: a reply, an opt-out, a human, a failed delivery.     *)
(*                                                                         *)
(* Everyone writes outreach_state by the conversation's id alone, so a     *)
(* read and the write it leads to are two steps.  The sweep publishes its  *)
(* task after its commit.  The broker delivers a task again when its       *)
(* worker dies, and when its countdown outlasts the visibility timeout.    *)
(*                                                                         *)
(* Time is counted from the last inbound message, in units that only keep  *)
(* the order of the policy's delays.  The cold track is left out: nothing  *)
(* ever writes the OUTREACH_SENT that it starts from.  So are REENGAGE_2   *)
(* and RESCUE_2: the audit action they are derived from is never written.  *)
(***************************************************************************)
EXTENDS Integers, FiniteSets, FiniteSetsExt

CONSTANTS
    Sweepers,       \* runs of engagement_sweep_task that may overlap (a bound)
    Workers,        \* the workers that run delayed tasks
    Inbounds,       \* inbound tasks at the same time (a bound)
    MaxMessages,    \* inbound messages (a bound)
    MaxHumanMoves,  \* takeovers and returns to the AI (a bound)
    MaxFaults,      \* crashes and exceptions (a bound)
    Visibility,     \* the countdown from which the broker delivers again
    RescueMin, RescueAt, ReengageMin, ReengageAt, \* when sweeps look, and tasks fire
    Window          \* FREE_WINDOW_HOURS

ASSUME EngagementAssumption ==
    /\ {MaxMessages, MaxHumanMoves, MaxFaults, Visibility, RescueMin} \subseteq Nat
    /\ {RescueAt, ReengageMin, ReengageAt, Window} \subseteq Nat
    /\ IsFiniteSet(Sweepers) /\ IsFiniteSet(Workers)
    /\ RescueMin < RescueAt /\ RescueAt < ReengageMin
    /\ ReengageMin < ReengageAt /\ ReengageAt < Window

Cadence    == {"REENGAGE_1", "RESCUE_1"}
Terminal   == {"CONVERTED", "UNRESPONSIVE", "UNDELIVERABLE", "SUPPRESSED"}
Outreach   == {"NONE"} \union Cadence \union Terminal

\* HUMAN_ASSIGNED stands for each of the _RESCUE_BLOCKED_STATES.
ConvStates == {"NEW", "AI_ACTIVE", "HUMAN_ASSIGNED"}

VARIABLES
    state,          \* conversations.state
    outreach,       \* conversations.outreach_state
    dnc,            \* contacts.do_not_contact
    tagged,         \* the contact has the tag UNRESPONSIVE
    inbounds,       \* the inbound messages
    answered,       \* there is an outbound message
    newer,          \* the newest message is inbound
    age,            \* time since the last inbound message, up to Window
    queue,          \* the delayed tasks
    sweep, worker, inbound, \* what each process is doing
    moves, faults,
    sent,           \* follow-ups created
    again,          \* tasks that the broker delivered once more
    raced,          \* schedules written over a state the sweep never saw
    ran,            \* a task has come to its end
    lost            \* a schedule or its task is gone

conv == <<state, outreach, dnc, tagged>>
msgs == <<inbounds, answered, newer, age>>
seen == <<sent, again, raced, ran, lost>>
vars == <<conv, msgs, queue, sweep, worker, inbound, moves, faults, seen>>

Task == [kind: Cadence, left: 0..ReengageAt]

\* The broker keeps its tasks in slots.  There are as many as there can be tasks:
\* no sweep schedules a second one, and every other delivery is a fault.
Slots  == 1..(Cardinality(Sweepers) + MaxFaults)
NoTask == [kind |-> "none", left |-> 0]
Queued == {i \in Slots : queue[i] # NoTask}

NoSweep   == [pc |-> "idle", saw |-> "NONE", to |-> "UNRESPONSIVE", left |-> 0]
NoWork    == [pc |-> "idle", task |-> [kind |-> "RESCUE_1", left |-> 0],
              saw |-> "NONE", overtaken |-> FALSE]
NoInbound == [pc |-> "idle", saw |-> "NONE"]

TypeOK ==
    /\ state \in ConvStates /\ outreach \in Outreach
    /\ dnc \in BOOLEAN /\ tagged \in BOOLEAN
    /\ inbounds \in 0..MaxMessages /\ age \in 0..Window
    /\ answered \in BOOLEAN /\ newer \in BOOLEAN
    /\ newer => inbounds > 0
    /\ newer \/ answered \/ inbounds = 0
    /\ queue \in [Slots -> Task \union {NoTask}]
    /\ sweep \in [Sweepers -> [pc: {"idle", "select", "write", "dispatch"}, saw: Outreach,
                               to: Cadence \union {"UNRESPONSIVE"}, left: 0..ReengageAt]]
    /\ worker \in [Workers -> [pc: {"idle", "generate", "cancel", "ack"}, task: Task,
                               saw: Outreach, overtaken: BOOLEAN]]
    /\ inbound \in [Inbounds -> [pc: {"idle", "optout", "read", "convert"}, saw: Outreach]]
    /\ moves \in 0..MaxHumanMoves /\ faults \in 0..MaxFaults
    /\ {sent, again, raced} \subseteq Nat /\ ran \in BOOLEAN /\ lost \in BOOLEAN

Init ==
    /\ state \in {"NEW", "AI_ACTIVE"}
    /\ outreach = "NONE" /\ dnc = FALSE /\ tagged = FALSE
    /\ inbounds = 0 /\ answered \in BOOLEAN /\ newer = FALSE /\ age = 0
    /\ queue = [i \in Slots |-> NoTask]
    /\ sweep = [s \in Sweepers |-> NoSweep]
    /\ worker = [w \in Workers |-> NoWork]
    /\ inbound = [i \in Inbounds |-> NoInbound]
    /\ moves = 0 /\ faults = 0
    /\ sent = 0 /\ again = 0 /\ raced = 0 /\ ran = FALSE /\ lost = FALSE

-----------------------------------------------------------------------------
\* Fault: the opt-out is left to the sweep.
PassSuppressed(kind) ==
    IF kind = "RESCUE_1" /\ state = "HUMAN_ASSIGNED" THEN "human_took_over"
    ELSE IF outreach # "NONE" /\ answered /\ newer THEN "inbound_since_scheduled"
    ELSE IF outreach \in Cadence /\ age = Window THEN "window_closed"
    ELSE "none"

\* The first reason to hold a task of this kind back, the active hours apart.
pre_fire_checks(kind) ==
    IF dnc THEN "contact_suppressed"
    ELSE IF kind = "RESCUE_1" /\ state = "HUMAN_ASSIGNED" THEN "human_took_over"
    ELSE IF outreach # "NONE" /\ answered /\ newer THEN "inbound_since_scheduled"
    ELSE IF outreach \in Cadence /\ age = Window THEN "window_closed"
    ELSE "none"

\* Workers that generate a follow-up are overtaken by what happens meanwhile.
Overtake(W) == worker' = [w \in Workers |->
    IF w \in W /\ worker[w].pc = "generate" THEN [worker[w] EXCEPT !.overtaken = TRUE]
                                            ELSE worker[w]]
Rescuers == {w \in Workers : worker[w].task.kind = "RESCUE_1"}

\* Fault: a countdown goes on below zero.
LaterBelowZero(tasks) == [i \in Slots |->
    IF tasks[i] = NoTask THEN NoTask ELSE [tasks[i] EXCEPT !.left = @ - 1]]

\* Each task is one unit nearer to its time.
Later(tasks) == [i \in Slots |->
    IF tasks[i] = NoTask THEN NoTask ELSE [tasks[i] EXCEPT !.left = Max({@ - 1, 0})]]

\* A task comes to the broker: the slots before its own are taken.
Publish(t) == \E i \in Slots \ Queued :
    /\ \A j \in Slots \ Queued : i <= j
    /\ queue' = [queue EXCEPT ![i] = t]

\* An hour or so goes by, and the delayed tasks come nearer.
Pass ==
    /\ inbounds > 0
    /\ age < Window \/ \E i \in Queued : queue[i].left > 0
    /\ age' = Min({age + 1, Window})
    /\ queue' = Later(queue)
    /\ IF age' = Window THEN Overtake(Workers) ELSE UNCHANGED worker
    /\ UNCHANGED <<conv, inbounds, answered, newer, sweep, inbound, moves, faults, seen>>

-----------------------------------------------------------------------------
(* process_inbound_webhook_task *)


\* The contact writes: a NEW conversation becomes AI_ACTIVE.
InboundArrives(i) ==
    /\ inbound[i].pc = "idle" /\ inbounds < MaxMessages
    /\ inbounds' = inbounds + 1 /\ newer' = TRUE /\ age' = 0
    /\ state' = IF state = "NEW" THEN "AI_ACTIVE" ELSE state
    /\ \E pc \in {"optout", "read"} : inbound' = [inbound EXCEPT ![i].pc = pc]
    /\ Overtake(Workers)
    /\ UNCHANGED <<outreach, dnc, tagged, answered, queue, sweep, moves, faults, seen>>

\* The message opts out, in a transaction of its own.
OptOut(i) ==
    /\ inbound[i].pc = "optout"
    /\ dnc' = TRUE /\ outreach' = "SUPPRESSED"
    /\ inbound' = [inbound EXCEPT ![i].pc = "read"]
    /\ Overtake(Workers)
    /\ UNCHANGED <<state, tagged, msgs, queue, sweep, moves, faults, seen>>

\* _cancel_pending_outreach_on_reply reads the state ...
ReadOutreach(i) ==
    /\ inbound[i].pc = "read"
    /\ inbound' = [inbound EXCEPT ![i] =
           IF outreach \in Cadence THEN [pc |-> "convert", saw |-> outreach] ELSE NoInbound]
    /\ UNCHANGED <<conv, msgs, queue, sweep, worker, moves, faults, seen>>

\* ... and converts it, whatever it is by now.
Convert(i) ==
    /\ inbound[i].pc = "convert"
    /\ outreach' = "CONVERTED"
    /\ inbound' = [inbound EXCEPT ![i] = NoInbound]
    /\ UNCHANGED <<state, dnc, tagged, msgs, queue, sweep, worker, moves, faults, seen>>

\* The AI or an agent answers.
Answer ==
    /\ newer /\ state # "NEW"
    /\ answered' = TRUE /\ newer' = FALSE
    /\ UNCHANGED <<conv, inbounds, age, queue, sweep, worker, inbound, moves, faults, seen>>

\* A human takes over, or hands the conversation back.
HumanMove ==
    /\ moves < MaxHumanMoves /\ state # "NEW"
    /\ moves' = moves + 1
    /\ state' = IF state = "AI_ACTIVE" THEN "HUMAN_ASSIGNED" ELSE "AI_ACTIVE"
    /\ IF state' = "HUMAN_ASSIGNED" THEN Overtake(Rescuers) ELSE UNCHANGED worker
    /\ UNCHANGED <<outreach, dnc, tagged, msgs, queue, sweep, inbound, faults, seen>>

\* Meta reports that an outbound message can never be delivered.
PermanentFailure ==
    /\ answered /\ outreach # "UNDELIVERABLE" /\ faults < MaxFaults
    /\ outreach' = "UNDELIVERABLE"
    /\ faults' = faults + 1
    /\ UNCHANGED <<state, dnc, tagged, msgs, queue, sweep, worker, inbound, moves, seen>>

-----------------------------------------------------------------------------
(* engagement_sweep_task *)
OneMessage == inbounds = 1 /\ ~answered

\* Fault: a silence longer than the window is passed over for one message, too.
SweepWithinWindow(s) ==
    /\ sweep[s].pc = "idle"
    /\ outreach = "NONE" /\ inbounds > 0 /\ age < Window
    /\ \/ age >= ReengageMin
       \/ ~OneMessage /\ state = "AI_ACTIVE" /\ age >= RescueMin
    /\ sweep' = [sweep EXCEPT ![s].pc = "select"]
    /\ UNCHANGED <<conv, msgs, queue, worker, inbound, moves, faults, seen>>

\* The query finds the conversation: silent for good, or worth a follow-up.
SweepStart(s) ==
    /\ sweep[s].pc = "idle"
    /\ outreach = "NONE" /\ inbounds > 0
    /\ \/ OneMessage /\ age = Window
          /\ sweep' = [sweep EXCEPT ![s].pc = "write", ![s].to = "UNRESPONSIVE"]
       \/ OneMessage /\ age \in ReengageMin..(Window - 1)
          /\ sweep' = [sweep EXCEPT ![s].pc = "select"]
       \/ ~OneMessage /\ state = "AI_ACTIVE" /\ age \in RescueMin..(Window - 1)
          /\ sweep' = [sweep EXCEPT ![s].pc = "select"]
    /\ UNCHANGED <<conv, msgs, queue, worker, inbound, moves, faults, seen>>

\* A follow-up of this kind, fire_at after the last inbound message.
Plan(s, kind, at) == sweep' = [sweep EXCEPT ![s] =
    [pc |-> "write", saw |-> outreach, to |-> kind, left |-> Max({at - age, 0})]]

\* Fault: the state that the query saw is not read again.
SelectAnyway(s) ==
    /\ sweep[s].pc = "select"
    /\ \/ age \in ReengageMin..(Window - 1) /\ Plan(s, "REENGAGE_1", ReengageAt)
       \/ age \notin ReengageMin..(Window - 1) /\ sweep' = [sweep EXCEPT ![s] = NoSweep]
    /\ UNCHANGED <<conv, msgs, queue, worker, inbound, moves, faults, seen>>

\* select_regime reads the row and counts again, now the inbound messages alone.
SelectRegime(s) ==
    /\ sweep[s].pc = "select"
    /\ LET reengage == outreach = "NONE" /\ inbounds = 1 /\ age \in ReengageMin..(Window - 1)
           rescue   == outreach = "NONE" /\ inbounds > 1 /\ age \in RescueMin..(Window - 1)
                       /\ state = "AI_ACTIVE"
       IN  \/ reengage /\ Plan(s, "REENGAGE_1", ReengageAt)
           \/ rescue   /\ Plan(s, "RESCUE_1", RescueAt)
           \/ ~reengage /\ ~rescue /\ sweep' = [sweep EXCEPT ![s] = NoSweep]
    /\ UNCHANGED <<conv, msgs, queue, worker, inbound, moves, faults, seen>>

\* Fault: what is to be dispatched is not collected.
CommitAndForget(s) ==
    /\ sweep[s].pc = "write"
    /\ outreach' = sweep[s].to
    /\ sweep' = [sweep EXCEPT ![s] = NoSweep]
    /\ UNCHANGED <<state, dnc, tagged, msgs, queue, worker, inbound, moves, faults, seen>>

\* schedule_followup, or the end of the cadence with its tag; then the commit.
SweepCommit(s) ==
    /\ sweep[s].pc = "write"
    /\ outreach' = sweep[s].to
    /\ IF sweep[s].to = "UNRESPONSIVE"
          THEN tagged' = TRUE /\ sweep' = [sweep EXCEPT ![s] = NoSweep] /\ UNCHANGED raced
          ELSE /\ sweep' = [sweep EXCEPT ![s].pc = "dispatch"]
               /\ raced' = raced + (IF outreach # sweep[s].saw THEN 1 ELSE 0)
               /\ UNCHANGED tagged
    /\ UNCHANGED <<state, dnc, msgs, queue, worker, inbound, moves, faults, sent, again, ran, lost>>

\* apply_async, after the commit.
SweepDispatch(s) ==
    /\ sweep[s].pc = "dispatch"
    /\ Publish([kind |-> sweep[s].to, left |-> sweep[s].left])
    /\ sweep' = [sweep EXCEPT ![s] = NoSweep]
    /\ UNCHANGED <<conv, msgs, worker, inbound, moves, faults, seen>>

\* The sweep dies; the broker runs it again, but what it committed is there.
SweepDies(s) ==
    /\ sweep[s].pc # "idle" /\ faults < MaxFaults
    /\ faults' = faults + 1
    /\ sweep' = [sweep EXCEPT ![s] = NoSweep]
    /\ lost' = (lost \/ sweep[s].pc = "dispatch")
    /\ UNCHANGED <<conv, msgs, queue, worker, inbound, moves, sent, again, raced, ran>>

-----------------------------------------------------------------------------
(* process_scheduled_followup_task *)
End(w) == worker' = [worker EXCEPT ![w] = NoWork] /\ ran' = TRUE

\* A task that is due: the checks, outside or inside the active hours.
FollowUpStart(w) == \E i \in Queued :
    /\ worker[w].pc = "idle" /\ queue[i].left = 0
    /\ queue' = [queue EXCEPT ![i] = NoTask]
    /\ LET reason == pre_fire_checks(queue[i].kind)
           cancel == reason = "human_took_over" /\ outreach \in Cadence
           To(pc, saw) == /\ worker' = [worker EXCEPT ![w] =
                                [pc |-> pc, task |-> queue[i], saw |-> saw, overtaken |-> FALSE]]
                          /\ UNCHANGED ran
       IN  \/ reason = "none" /\ To("generate", "NONE")
           \/ cancel /\ To("cancel", outreach)
           \/ ~cancel /\ ran' = TRUE /\ UNCHANGED worker
    /\ UNCHANGED <<conv, msgs, sweep, inbound, moves, faults, sent, again, raced, lost>>

\* cancel_pending_followups, of the state that the checks have read.
Cancel(w) ==
    /\ worker[w].pc = "cancel"
    /\ outreach' = "CONVERTED"
    /\ End(w)
    /\ UNCHANGED <<state, dnc, tagged, msgs, queue, sweep, inbound, moves, faults, sent, again, raced, lost>>

\* Fault: a follow-up arms the cadence again.
CreateAndRearm(w) ==
    /\ worker[w].pc = "generate"
    /\ worker' = [worker EXCEPT ![w].pc = "ack", ![w].overtaken = FALSE]
    /\ sent' = sent + 1 /\ answered' = TRUE /\ newer' = FALSE
    /\ outreach' = "NONE"
    /\ UNCHANGED <<state, dnc, tagged, inbounds, age, queue, sweep, inbound, moves, faults, again, raced, ran, lost>>

\* The AI has written the follow-up: the message is committed and handed to
\* send_outbound_message_task.  outreach_state stays as it is.
CreateFollowUp(w) ==
    /\ worker[w].pc = "generate"
    /\ worker' = [worker EXCEPT ![w].pc = "ack", ![w].overtaken = FALSE]
    /\ sent' = sent + 1 /\ answered' = TRUE /\ newer' = FALSE
    /\ UNCHANGED <<conv, inbounds, age, queue, sweep, inbound, moves, faults, again, raced, ran, lost>>

\* The AI gives nothing, and the task ends for good.
NoContent(w) ==
    /\ worker[w].pc = "generate" /\ faults < MaxFaults
    /\ faults' = faults + 1
    /\ End(w)
    /\ UNCHANGED <<conv, msgs, queue, sweep, inbound, moves, sent, again, raced, lost>>

Acknowledge(w) ==
    /\ worker[w].pc = "ack"
    /\ End(w)
    /\ UNCHANGED <<conv, msgs, queue, sweep, inbound, moves, faults, sent, again, raced, lost>>

\* A worker dies with its task, which is delivered again ...
WorkerDies(w) ==
    /\ worker[w].pc # "idle" /\ faults < MaxFaults
    /\ faults' = faults + 1
    /\ Publish(worker[w].task)
    /\ worker' = [worker EXCEPT ![w] = NoWork]
    /\ again' = again + 1
    /\ UNCHANGED <<conv, msgs, sweep, inbound, moves, sent, raced, ran, lost>>

\* ... and so is one that waits for longer than the visibility timeout.
Redeliver == \E i \in Queued :
    /\ queue[i].left >= Visibility /\ faults < MaxFaults
    /\ faults' = faults + 1
    /\ Publish(queue[i])
    /\ again' = again + 1
    /\ UNCHANGED <<conv, msgs, sweep, worker, inbound, moves, sent, raced, ran, lost>>

-----------------------------------------------------------------------------
SweepStep(s) == SelectRegime(s) \/ SweepCommit(s) \/ SweepDispatch(s)
WorkStep(w)  == Cancel(w) \/ CreateFollowUp(w) \/ Acknowledge(w)
InboundStep(i) == OptOut(i) \/ ReadOutreach(i) \/ Convert(i)

Next ==
    \/ Pass \/ Answer \/ HumanMove \/ PermanentFailure \/ Redeliver
    \/ \E i \in Inbounds : InboundArrives(i) \/ InboundStep(i)
    \/ \E s \in Sweepers : SweepStart(s) \/ SweepStep(s) \/ SweepDies(s)
    \/ \E w \in Workers : FollowUpStart(w) \/ WorkStep(w) \/ NoContent(w) \/ WorkerDies(w)

Spec == Init /\ [][Next]_vars

\* Time goes on, the beat starts the sweep every two minutes, and what has
\* started goes on as long as its process lives.
FairSpec ==
    /\ Spec
    /\ WF_vars(Pass)
    /\ \A s \in Sweepers : WF_vars(SweepStart(s)) /\ WF_vars(SweepStep(s))
    /\ \A w \in Workers : WF_vars(FollowUpStart(w)) /\ WF_vars(WorkStep(w))
    /\ \A i \in Inbounds : WF_vars(InboundStep(i))

-----------------------------------------------------------------------------
\* Overlapping sweeps, replies and handovers give a conversation one follow-up,
\* and one more for each task delivered again and each schedule that was
\* written over a state its sweep had not seen.
FewFollowUps == sent <= 1 + again + raced

Writes(p) == p.pc \in {"write", "convert", "cancel"} /\ p.saw # outreach

\* A reply, an opt-out and a tagged silence stand: no reply converts them and
\* no sweep takes them up again, but for a writer that had read an older state.
\* An opt-out and a permanent failure are written over anything.
TerminalStands ==
    outreach' # outreach /\ outreach \in Terminal =>
          \/ outreach' \in {"SUPPRESSED", "UNDELIVERABLE"}
          \/ \E s \in Sweepers : Writes(sweep[s]) /\ sweep'[s] # sweep[s]
          \/ \E w \in Workers : Writes(worker[w]) /\ worker'[w] # worker[w]
          \/ \E i \in Inbounds : Writes(inbound[i]) /\ inbound'[i] = NoInbound

\* No follow-up goes to a contact who has opted out, into a thread that a human
\* has taken over, or over an answer that is still owed, unless the AI was at
\* work on it when that happened.
StopsAreHeeded ==
    \A w \in Workers : sent' > sent /\ worker'[w] # worker[w] =>
          \/ worker[w].overtaken
          \/ /\ ~dnc
             /\ (worker[w].task.kind = "RESCUE_1" => state = "AI_ACTIVE")
             /\ (newer => ~answered \/ outreach = "NONE")

\* A contact who writes once and hears nothing does not stay out of the
\* cadence: a sweep schedules a follow-up or marks the contact UNRESPONSIVE.
SilentIsClassified == inbounds = 1 /\ ~answered ~> outreach # "NONE" \/ ~OneMessage

\* What a sweep has scheduled is attended to, unless the sweep died between
\* its commit and apply_async.
ScheduledRuns == outreach \in Cadence ~> ran \/ lost

-----------------------------------------------------------------------------
(* What the run checks of these together *)

\* A conversation gets the follow-ups that its schedules explain, and no more.
FollowUpsAreFew == TypeOK /\ FewFollowUps

\* A stop stands, and no follow-up goes out over one.
StopsStand == [][TerminalStands /\ StopsAreHeeded]_vars

\* A silence is noticed, and what is scheduled for it is done.
SilentAreAttended == SilentIsClassified /\ ScheduledRuns
=============================================================================
