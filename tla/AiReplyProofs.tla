--------------------------- MODULE AiReplyProofs ----------------------------
(***************************************************************************)
(* The safety properties of AiReply, for any number of messages, runs,     *)
(* retries and crashes: what a human decides of the AI's drafts stands.    *)
(***************************************************************************)
EXTENDS AiReply, SetLemmas

-----------------------------------------------------------------------------
(* Types *)

\* Every run in progress has a number, and so a draft of its own to write.
Numbered == \A m \in Messages : Running(m) => req[m].run \in Runs

Basic == TypeOK /\ Numbered

\* The requests and drafts that the code writes.
LEMMA Values ==
    /\ Queued \in Request /\ Queued.pc = "queued"
    /\ Done \in Request /\ Done.pc = "done"
    /\ \A n \in 0..AiRetries : [Queued EXCEPT !.tries = n] \in Request
                               /\ [Queued EXCEPT !.tries = n].pc = "queued"
<1>1. 0 \in 0..AiRetries /\ 0 \in 0..MaxRuns /\ 0 \in 0..MaxMessages
  BY BoundsAssumption
<1>2. NoRequest \in Request
  BY <1>1 DEF NoRequest, Request, States
<1>3. Queued \in Request /\ Queued.pc = "queued" /\ Done \in Request /\ Done.pc = "done"
  BY <1>2 DEF Queued, Done, Request
<1> QED
  BY <1>3 DEF Request

\* A request m that becomes new.
LEMMA Becomes ==
    ASSUME TypeOK, NEW m \in Messages, NEW new \in Request, req' = [req EXCEPT ![m] = new]
    PROVE  /\ req' \in [Messages -> Request]
           /\ req'[m] = new
           /\ \A n \in Messages \ {m} : req'[n] = req[n] /\ (Running(n)' <=> Running(n))
           /\ Running(m)' <=> new.pc \in {"gated", "asking", "failing", "committed"}
BY DEF TypeOK, Running

\* One that ends or waits again is not in progress.
LEMMA Rests ==
    ASSUME TypeOK, NEW m \in Messages, NEW new \in Request, req' = [req EXCEPT ![m] = new],
           new.pc \in {"queued", "done"}
    PROVE  /\ req' \in [Messages -> Request] /\ ~Running(m)'
           /\ \A n \in Messages \ {m} : req'[n] = req[n] /\ (Running(n)' <=> Running(n))
           /\ Numbered => Numbered'
BY Becomes DEF Numbered

\* One that goes on keeps its run.
LEMMA GoesOn ==
    ASSUME TypeOK, NEW m \in Messages, Running(m), NEW new \in Request,
           new.run = req[m].run, req' = [req EXCEPT ![m] = new]
    PROVE  /\ req' \in [Messages -> Request] /\ req'[m] = new
           /\ \A n \in Messages \ {m} : req'[n] = req[n] /\ (Running(n)' <=> Running(n))
           /\ Numbered => Numbered'
BY Becomes DEF Numbered

\* What is known of a request.
LEMMA RequestType ==
    ASSUME TypeOK, NEW m \in Messages
    PROVE  /\ req[m] \in Request /\ req[m].run \in 0..MaxRuns /\ req[m].at \in 0..MaxMessages
           /\ req[m].tries \in 0..AiRetries /\ req[m].snap \in States
           /\ arrived \in 0..MaxMessages /\ runs \in 0..MaxRuns /\ crashes \in 0..MaxCrashes
           /\ MaxRuns \in Nat /\ MaxMessages \in Nat /\ AiRetries \in Nat /\ MaxCrashes \in Nat
BY BoundsAssumption DEF TypeOK, Request

\* The states that _ALLOWED names are states.
LEMMA AllowedStates == \A s \in States : Allowed[s] \subseteq States
BY DEF Allowed, States

\* Steps that end a request before or after its run, and those that queue it again.
LEMMA RestsBasic ==
    ASSUME Basic, NEW m \in Messages,
           \/ Dropped(m) \/ Refused(m) \/ SayNothing(m) \/ Leave(m) \/ AskAgain(m)
           \/ AssignHuman(m) \/ WorkerDies(m)
    PROVE  Basic' /\ ~Running(m)'
<1> USE Values, RequestType, Rests
         DEF Basic, conv, human, queues
<1>1. CASE Dropped(m) \/ Refused(m) \/ SayNothing(m)
  BY <1>1 DEF Dropped, Refused, SayNothing, Skips, Returns, TypeOK
<1>2. CASE Leave(m)
  <2>1. req[m].run \in Runs
    BY <1>2 DEF Leave, Numbered, Running
  <2> QED
    BY <1>2, <2>1 DEF Leave, Returns, TypeOK
<1>3. CASE AskAgain(m)
  <2> DEFINE new == [Queued EXCEPT !.tries = req[m].tries + 1]
  <2>1. new \in Request /\ new.pc = "queued" /\ req' = [req EXCEPT ![m] = new]
    BY <1>3 DEF AskAgain, Again
  <2>2. ~Running(m)' /\ req' \in [Messages -> Request] /\ Numbered'
    <3> HIDE DEF new
    <3> QED
      BY <2>1
  <2>3. runs' \in 0..MaxRuns
    BY <1>3 DEF AskAgain, Again, Numbered, Running, Runs
  <2> QED
    BY <1>3, <2>2, <2>3 DEF AskAgain, Again, TypeOK
<1>4. CASE AssignHuman(m)
  BY <1>4 DEF AssignHuman, Returns, TypeOK, States
<1>5. CASE WorkerDies(m)
  <2> DEFINE new == [Queued EXCEPT !.tries = req[m].tries]
  <2>1. new \in Request /\ new.pc = "queued" /\ req' = [req EXCEPT ![m] = new]
    BY <1>5 DEF WorkerDies
  <2>2. ~Running(m)' /\ req' \in [Messages -> Request] /\ Numbered'
    <3> HIDE DEF new
    <3> QED
      BY <2>1
  <2>3. crashes' \in 0..MaxCrashes
    BY <1>5 DEF WorkerDies, Crash
  <2> QED
    BY <1>5, <2>2, <2>3 DEF WorkerDies, TypeOK
<1> QED
  BY <1>1, <1>2, <1>3, <1>4, <1>5

\* The run of request m writes its draft.
LEMMA WritesDraft ==
    ASSUME Basic, NEW m \in Messages, Running(m),
           NEW s \in {"DRAFT", "QUEUED"}, NEW auto \in BOOLEAN, Writes(m, s, auto)
    PROVE  /\ draft' \in [Runs -> Draft]
           /\ draft'[req[m].run].status = s /\ draft'[req[m].run].auto = auto
           /\ \A i \in Runs \ {req[m].run} : draft'[i] = draft[i]
<1>1. req[m].run \in Runs /\ req[m].at \in 0..MaxMessages
  BY RequestType DEF Basic, Numbered
<1>2. [status |-> s, auto |-> auto, at |-> req[m].at] \in Draft
  BY <1>1 DEF Draft
<1> QED
  BY <1>1, <1>2 DEF Basic, TypeOK, Writes

\* The steps of a run in progress.
LEMMA RunsBasic ==
    ASSUME Basic, NEW m \in Messages,
           LoadHistory(m) \/ Escalate(m) \/ AskApproval(m) \/ AutoSend(m) \/ GiveUp(m)
    PROVE  Basic'
<1> USE Values, RequestType DEF Basic, conv, human, queues
<1>1. Running(m)
  BY DEF LoadHistory, Escalate, AskApproval, AutoSend, GiveUp, Running
<1>2. ASSUME Stays(m, "committed")
      PROVE  req' \in [Messages -> Request] /\ Numbered' /\ UNCHANGED lock
  <2> DEFINE new == [req[m] EXCEPT !.pc = "committed"]
  <2>1. new \in Request /\ new.run = req[m].run
    BY DEF Request
  <2>2. req' = [req EXCEPT ![m] = new]
    BY <1>2 DEF Stays, TypeOK
  <2> QED
    BY <1>1, <1>2, <2>1, <2>2, GoesOn DEF Stays
<1>3. CASE LoadHistory(m)
  <2> DEFINE new == [req[m] EXCEPT !.pc = "asking", !.seen = arrived]
  <2>1. new \in Request /\ new.run = req[m].run
    BY DEF Request
  <2>2. req' = [req EXCEPT ![m] = new]
    BY <1>3 DEF LoadHistory, TypeOK
  <2>3. req' \in [Messages -> Request] /\ Numbered'
    BY <1>1, <2>1, <2>2, GoesOn
  <2> QED
    BY <1>3, <2>3 DEF LoadHistory, TypeOK
<1>4. CASE Escalate(m)
  BY <1>2, <1>4 DEF Escalate, AiMove, TypeOK, States
<1>5. CASE AskApproval(m)
  <2>1. draft' \in [Runs -> Draft]
    BY <1>1, <1>5, WritesDraft DEF AskApproval
  <2> QED
    BY <1>2, <1>5, <2>1 DEF AskApproval, AiMove, TypeOK, States
<1>6. CASE AutoSend(m)
  <2>1. draft' \in [Runs -> Draft]
    BY <1>1, <1>6, WritesDraft DEF AutoSend
  <2> QED
    BY <1>2, <1>6, <2>1 DEF AutoSend, TypeOK
<1>7. CASE GiveUp(m)
  <2>1. CASE state \in {"HUMAN_ASSIGNED", "CLOSED"}
    BY <1>7, <2>1, Rests DEF GiveUp, Returns, TypeOK
  <2>2. CASE state \notin {"HUMAN_ASSIGNED", "CLOSED"}
    <3> DEFINE new == [req[m] EXCEPT !.pc = "failing", !.snap = state]
    <3>1. new \in Request /\ new.run = req[m].run
      BY DEF Request, TypeOK
    <3>2. req' = [req EXCEPT ![m] = new]
      BY <1>7, <2>2 DEF GiveUp, TypeOK
    <3>3. req' \in [Messages -> Request] /\ Numbered'
      BY <1>1, <3>1, <3>2, GoesOn
    <3> QED
      BY <1>7, <2>2, <3>3 DEF GiveUp, TypeOK
  <2> QED
    BY <2>1, <2>2
<1> QED
  BY <1>3, <1>4, <1>5, <1>6, <1>7

\* What a run becomes at the gate.
LEMMA Gated ==
    ASSUME TypeOK, NEW m \in Messages, Gate(m)
    PROVE  /\ req' \in [Messages -> Request] /\ runs' = runs + 1 /\ runs' \in Runs
           /\ req'[m].pc = "gated" /\ req'[m].run = runs'
           /\ \A n \in Messages \ {m} : req'[n] = req[n] /\ (Running(n)' <=> Running(n))
<1> USE RequestType
<1> DEFINE new == [req[m] EXCEPT !.pc = "gated", !.run = runs + 1, !.snap = state, !.at = arrived]
<1>1. runs' = runs + 1 /\ runs + 1 \in Runs /\ runs + 1 \in 0..MaxRuns /\ state \in States
  BY DEF Gate, Runs, TypeOK
<1>2. new \in Request /\ new.pc = "gated" /\ new.run = runs + 1
  BY <1>1 DEF Request
<1>3. req' = [req EXCEPT ![m] = new]
  BY DEF Gate, TypeOK
<1> HIDE DEF new
<1> QED
  BY <1>1, <1>2, <1>3, Becomes

LEMMA GateBasic ==
    ASSUME Basic, NEW m \in Messages, Gate(m)
    PROVE  Basic'
<1>1. TypeOK'
  <2>1. lock' \in BOOLEAN
    BY Zenon DEF Gate
  <2>2. req' \in [Messages -> Request] /\ runs' \in 0..MaxRuns
    BY Gated DEF Basic, Runs
  <2> QED
    BY <2>1, <2>2 DEF Basic, Gate, TypeOK, conv, human, queues
<1>2. Numbered'
  BY Gated DEF Basic, Numbered
<1> QED
  BY <1>1, <1>2 DEF Basic

\* The steps of the contact, the humans, the timers and the broker.
LEMMA OthersBasic ==
    ASSUME Basic,
           \/ Arrive \/ LockExpires \/ Resume \/ Review \/ Approve \/ Reject
           \/ HumanMoves \/ HandBack \/ \E i \in Runs : Fire(i) \/ Deliver(i)
    PROVE  Basic'
<1> USE Values DEF Basic, conv, human, queues
<1>1. CASE Arrive
  <2>1. arrived + 1 \in Messages /\ arrived' = arrived + 1 /\ arrived' \in 0..MaxMessages
    BY <1>1, BoundsAssumption DEF Arrive, TypeOK, Messages
  <2>2. PICK new \in {Queued, Done} : req' = [req EXCEPT ![arrived + 1] = new]
    BY <1>1 DEF Arrive
  <2>3. req' \in [Messages -> Request] /\ Numbered'
    BY <2>1, <2>2, Rests
  <2> QED
    BY <1>1, <2>1, <2>3 DEF Arrive, TypeOK
<1>2. CASE Resume
  <2>1. CASE UNCHANGED req
    BY <1>2, <2>1 DEF Resume, TypeOK, Numbered, Running
  <2>2. CASE ~UNCHANGED req
    <3>1. arrived \in Messages /\ req' = [req EXCEPT ![arrived] = Queued]
      BY <1>2, <2>2 DEF Resume, Unreplied, TypeOK, Messages
    <3>2. req' \in [Messages -> Request] /\ Numbered'
      BY <3>1, Rests
    <3> QED
      BY <1>2, <3>2 DEF Resume, TypeOK
  <2> QED
    BY <2>1, <2>2
<1>3. CASE LockExpires \/ HandBack \/ Reject
  <2>1. aiEnabled' \in BOOLEAN /\ lock' \in BOOLEAN /\ resume' \in BOOLEAN
    BY <1>3, Zenon DEF LockExpires, HandBack, Reject, TypeOK
  <2>2. state' \in States /\ rejected' \subseteq Runs /\ reviewed' \in 0..MaxRuns
    BY <1>3, BoundsAssumption DEF LockExpires, HandBack, Reject, Pending, TypeOK, States
  <2>3. UNCHANGED <<byHand, arrived, req, runs, draft, timer, outbox, crashes>>
    BY <1>3 DEF LockExpires, HandBack, Reject
  <2> QED
    BY <2>1, <2>2, <2>3 DEF TypeOK, Numbered, Running
<1>4. CASE HumanMoves
  BY <1>4, AllowedStates DEF HumanMoves, TypeOK, Numbered, Running
<1>5. CASE Review
  <2>1. Latest \in Runs
    BY <1>5, BoundsAssumption, MaxIsGreatest DEF Review, Latest, Pending, Runs
  <2> QED
    BY <1>5, <2>1 DEF Review, TypeOK, Numbered, Running, Runs
<1>6. CASE Approve
  <2>1. CASE Pending = {}
    BY <1>6, <2>1, BoundsAssumption DEF Approve, TypeOK, Numbered, Running, States
  <2>2. CASE Pending # {}
    <3>1. Latest \in Runs
      BY <2>2, BoundsAssumption, MaxIsGreatest DEF Latest, Pending, Runs
    <3>2. draft' \in [Runs -> Draft]
      BY <1>6, <2>2, <3>1 DEF Approve, TypeOK, Draft
    <3>3. outbox' \subseteq Runs /\ crashes' \in 0..MaxCrashes
      BY <1>6, <2>2, <3>1, BoundsAssumption DEF Approve, Crash, TypeOK
    <3> QED
      BY <1>6, <3>2, <3>3, BoundsAssumption DEF Approve, TypeOK, Numbered, Running, States
  <2> QED
    BY <2>1, <2>2
<1>7. ASSUME NEW i \in Runs, Fire(i) \/ Deliver(i)
      PROVE  Basic'
  <2>1. CASE Fire(i)
    BY <2>1, BoundsAssumption DEF Fire, Crash, TypeOK, Numbered, Running
  <2>2. CASE Deliver(i)
    BY <2>2 DEF Deliver, TypeOK, Numbered, Running, Draft
  <2> QED
    BY <1>7, <2>1, <2>2
<1> QED
  BY <1>1, <1>2, <1>3, <1>4, <1>5, <1>6, <1>7

LEMMA BasicInit == Init => Basic
<1> SUFFICES ASSUME Init PROVE Basic
  OBVIOUS
<1>1. NoRequest \in Request /\ NoRequest.pc = "none"
  BY BoundsAssumption DEF NoRequest, Request, States
<1>2. [status |-> "none", auto |-> FALSE, at |-> 0] \in Draft
  BY BoundsAssumption DEF Draft
<1> QED
  <2>1. {aiEnabled, lock, resume, byHand} \subseteq BOOLEAN
    BY Zenon DEF Init
  <2>2. /\ state \in States /\ arrived \in 0..MaxMessages /\ runs \in 0..MaxRuns
        /\ reviewed \in 0..MaxRuns /\ crashes \in 0..MaxCrashes
    BY BoundsAssumption DEF Init, States
  <2>3. req \in [Messages -> Request] /\ draft \in [Runs -> Draft] /\ Numbered
    BY <1>1, <1>2 DEF Init, Numbered, Running
  <2> QED
    BY <2>1, <2>2, <2>3 DEF Init, Basic, TypeOK

LEMMA BasicNext == Basic /\ [Next]_vars => Basic'
<1> SUFFICES ASSUME Basic, [Next]_vars PROVE Basic'
  OBVIOUS
<1>1. CASE UNCHANGED vars
  BY <1>1 DEF vars, conv, human, queues, Basic, TypeOK, Numbered, Running
<1> QED
  BY <1>1, RestsBasic, RunsBasic, GateBasic, OthersBasic DEF Next, Step

LEMMA BasicInvariant == Spec => []Basic
BY BasicInit, BasicNext, PTL DEF Spec

-----------------------------------------------------------------------------
(* An approval comes before a reply that needs one *)

\* The step is an approval.
Approval == state = "AWAITING_APPROVAL" /\ state' = "AI_ACTIVE"

\* The only steps that change drafts.
LEMMA DraftSteps ==
    ASSUME [Next]_vars
    PROVE  \/ UNCHANGED draft
           \/ \E m \in Messages : AskApproval(m) \/ AutoSend(m)
           \/ \E i \in Runs : Deliver(i)
           \/ Approve
BY DEF vars, Next, Step, Dropped, Gate, Refused, LoadHistory, Escalate, SayNothing, Leave,
   AskAgain, Again, GiveUp, AssignHuman, WorkerDies, Fire, Arrive, LockExpires, Resume, Review,
   Reject, HumanMoves, HandBack

\* A reply that needs a verdict leaves DRAFT by an approval only, however many runs
\* overlap and whatever is delivered again.
THEOREM RepliesAreApproved == Spec => SentIsApproved
<1>1. ASSUME Basic, [Next]_vars, NEW i \in Runs,
             draft[i].status \in {"none", "DRAFT"}, draft'[i].status \in {"QUEUED", "SENT"}
      PROVE  draft'[i].auto \/ Approval
  <2>1. draft \in [Runs -> Draft] /\ draft'[i] # draft[i]
    BY <1>1 DEF Basic, TypeOK
  <2>2. ASSUME NEW m \in Messages, AskApproval(m) \/ AutoSend(m)
        PROVE  draft'[i].auto
    <3>1. Running(m)
      BY <2>2 DEF AskApproval, AutoSend, Running
    <3>2. CASE AskApproval(m)
      <4>1. draft'[req[m].run].status = "DRAFT" /\ \A j \in Runs \ {req[m].run} : draft'[j] = draft[j]
        BY <1>1, <3>1, <3>2, WritesDraft DEF AskApproval
      <4> QED
        BY <1>1, <2>1, <4>1
    <3>3. CASE AutoSend(m)
      <4>1. /\ draft'[req[m].run].auto = TRUE
            /\ \A j \in Runs \ {req[m].run} : draft'[j] = draft[j]
        BY <1>1, <3>1, <3>3, WritesDraft DEF AutoSend
      <4> QED
        BY <2>1, <4>1
    <3> QED
      BY <2>2, <3>2, <3>3
  <2>3. ASSUME NEW j \in Runs, Deliver(j)
        PROVE  FALSE
    BY <1>1, <2>1, <2>3 DEF Deliver, Draft
  <2>4. CASE Approve
    BY <2>4 DEF Approve, Approval
  <2> QED
    BY <1>1, <2>1, <2>2, <2>3, <2>4, DraftSteps
<1>2. Basic /\ [Next]_vars =>
        [\A i \in Runs :
            /\ draft[i].status \in {"none", "DRAFT"}
            /\ draft'[i].status \in {"QUEUED", "SENT"}
            => draft'[i].auto \/ (state = "AWAITING_APPROVAL" /\ state' = "AI_ACTIVE")]_vars
  BY <1>1 DEF Approval
<1> QED
  BY <1>2, BasicInvariant, PTL DEF Spec, SentIsApproved

-----------------------------------------------------------------------------
(* Runs that do not outlast their lock *)

\* Who runs holds the lock, is alone and the latest, and has written nothing yet.
Exclusive == \A m \in Messages : Running(m) =>
    /\ lock
    /\ req[m].run = runs
    /\ req[m].pc # "committed" => draft[runs].status = "none"
    /\ \A n \in Messages : Running(n) => n = m

\* Drafts are those of the runs so far.
Aged == \A i \in Runs : draft[i].status # "none" => i <= runs

\* What is handed over has left DRAFT.
HandedOver == \A i \in outbox : draft[i].status \in {"QUEUED", "SENT"}

\* What is rejected has not.
RejectedWait == byHand \/ \A i \in rejected : draft[i].status = "DRAFT"

\* A conversation that waits for approval has a draft newer than all rejected ones.
NewestWaits ==
    state = "AWAITING_APPROVAL" /\ ~byHand =>
        \E i \in Pending : \A j \in rejected : j < i

Verdicts == HandedOver /\ RejectedWait /\ NewestWaits

Order == Exclusive /\ Aged /\ Verdicts

\* Verdicts stand while drafts and verdicts are left alone.
LEMMA VerdictsKept ==
    ASSUME Verdicts, UNCHANGED <<draft, outbox, rejected, byHand>>,
           UNCHANGED state \/ state' # "AWAITING_APPROVAL"
    PROVE  Verdicts'
BY DEF Verdicts, HandedOver, RejectedWait, NewestWaits, Pending

\* A request that ends, or waits again, leaves the others alone.
LEMMA ExclusiveRests ==
    ASSUME Basic, Order, NEW m \in Messages, ~Running(m)', UNCHANGED <<runs, draft>>,
           \A n \in Messages \ {m} : req'[n] = req[n] /\ (Running(n)' <=> Running(n)),
           UNCHANGED lock \/ Running(m)
    PROVE  Exclusive' /\ Aged'
BY DEF Order, Exclusive, Aged

\* The steps of requests that are not in progress, or end.
LEMMA EndsOrder ==
    ASSUME Basic, Order, NEW m \in Messages,
           \/ Dropped(m) \/ Refused(m) \/ SayNothing(m) \/ Leave(m)
           \/ AssignHuman(m) \/ WorkerDies(m)
    PROVE  Order'
<1>1. ~Running(m)'
  BY RestsBasic
<1>2. \A n \in Messages \ {m} : req'[n] = req[n] /\ (Running(n)' <=> Running(n))
  BY DEF Dropped, Refused, SayNothing, Leave, AssignHuman, WorkerDies, Skips, Returns, Running,
         Basic, TypeOK
<1>3. UNCHANGED <<runs, draft, outbox, rejected, byHand>> /\ (UNCHANGED lock \/ Running(m))
  BY DEF Dropped, Refused, SayNothing, Leave, AssignHuman, WorkerDies, Skips, Returns, Running,
         conv, human, queues
<1>4. UNCHANGED state \/ state' # "AWAITING_APPROVAL"
  BY DEF Dropped, Refused, SayNothing, Leave, AssignHuman, WorkerDies, conv
<1> QED
  BY <1>1, <1>2, <1>3, <1>4, ExclusiveRests, VerdictsKept DEF Order

\* A retry gives the number of its run, which has written nothing, back.
LEMMA AgainOrder ==
    ASSUME Basic, Order, NEW m \in Messages, AskAgain(m)
    PROVE  Order'
<1>1. /\ Running(m) /\ req[m].run = runs /\ draft[runs].status = "none" /\ runs \in Runs
      /\ \A n \in Messages : Running(n) => n = m
  BY DEF AskAgain, Running, Order, Exclusive, Basic, Numbered
<1>2. ~Running(m)' /\ \A n \in Messages \ {m} : ~Running(n)'
  BY <1>1, RestsBasic DEF AskAgain, Again, Running, Basic, TypeOK
<1>3. Exclusive'
  BY <1>2 DEF Exclusive
<1>4. runs' = runs - 1 /\ UNCHANGED <<draft, outbox, rejected, byHand, state>>
  BY <1>1 DEF AskAgain, Again, conv, human, queues
<1>5. Aged'
  BY <1>1, <1>4, BoundsAssumption DEF Order, Aged, Runs
<1> QED
  BY <1>3, <1>4, <1>5, VerdictsKept DEF Order

LEMMA GateOrder ==
    ASSUME Basic, Order, NEW m \in Messages, Gate(m)
    PROVE  Order'
<1>1. \A n \in Messages : ~Running(n)
  BY DEF Gate, Order, Exclusive
<1>2. /\ runs' = runs + 1 /\ runs' \in Runs /\ req'[m].run = runs'
      /\ \A n \in Messages \ {m} : ~Running(n)'
  BY <1>1, Gated DEF Basic
<1>3. lock' /\ UNCHANGED <<draft, outbox, rejected, byHand, state>>
  BY DEF Gate, conv, human, queues
<1>4. draft[runs'].status = "none"
  BY <1>2, RequestType DEF Order, Aged, Basic, TypeOK
<1>5. Exclusive'
  BY <1>2, <1>3, <1>4 DEF Exclusive
<1>6. Aged'
  BY <1>2, <1>3, RequestType, BoundsAssumption DEF Order, Aged, Basic, Runs
<1> QED
  BY <1>3, <1>5, <1>6, VerdictsKept DEF Order

\* A run that goes on without writing.
LEMMA RunsOrder ==
    ASSUME Basic, Order, NEW m \in Messages, LoadHistory(m) \/ Escalate(m) \/ GiveUp(m)
    PROVE  Order'
<1>1. /\ Running(m) /\ req[m].pc # "committed"
      /\ UNCHANGED <<runs, draft, outbox, rejected, byHand>>
      /\ UNCHANGED state \/ state' # "AWAITING_APPROVAL"
  BY DEF LoadHistory, Escalate, GiveUp, Running, AiMove, conv, human, queues
<1>2. \A n \in Messages \ {m} : req'[n] = req[n] /\ (Running(n)' <=> Running(n))
  BY DEF LoadHistory, Escalate, GiveUp, Stays, Returns, Running, Basic, TypeOK
<1>3. Exclusive'
  <2>1. CASE ~Running(m)'
    BY <1>1, <1>2, <2>1, ExclusiveRests
  <2>2. CASE Running(m)'
    <3>1. req'[m].run = req[m].run /\ UNCHANGED lock
      BY <2>2, Values DEF LoadHistory, Escalate, GiveUp, Stays, Returns, Running, Basic, TypeOK, Request
    <3> QED
      BY <1>1, <1>2, <3>1 DEF Order, Exclusive
  <2> QED
    BY <2>1, <2>2
<1> QED
  BY <1>1, <1>3, VerdictsKept DEF Order, Aged

\* The draft of a run is newer than whatever a human has rejected.
LEMMA WritesOrder ==
    ASSUME Basic, Order, NEW m \in Messages, AskApproval(m) \/ AutoSend(m)
    PROVE  Order'
<1>1. /\ Running(m) /\ req[m].run = runs /\ draft[runs].status = "none" /\ runs \in Runs
      /\ lock /\ \A n \in Messages : Running(n) => n = m
  BY DEF AskApproval, AutoSend, Running, Order, Exclusive, Basic, Numbered
<1>2. PICK s \in {"DRAFT", "QUEUED"} :
          /\ draft'[runs].status = s
          /\ \A i \in Runs \ {runs} : draft'[i] = draft[i]
          /\ AskApproval(m) => s = "DRAFT"
          /\ AutoSend(m) => UNCHANGED state
  BY <1>1, WritesDraft DEF AskApproval, AutoSend, conv
<1>3. UNCHANGED <<runs, outbox, rejected, byHand, lock>>
  BY DEF AskApproval, AutoSend, Stays, conv, human, queues
<1>4. Exclusive'
  <2>1. /\ req'[m].pc = "committed" /\ req'[m].run = req[m].run
        /\ \A n \in Messages \ {m} : req'[n] = req[n] /\ (Running(n)' <=> Running(n))
    BY DEF AskApproval, AutoSend, Stays, Running, Basic, TypeOK, Request
  <2> QED
    BY <1>1, <1>3, <2>1 DEF Exclusive
<1>5. Aged'
  BY <1>1, <1>2, <1>3, BoundsAssumption DEF Order, Aged, Runs
<1>6. HandedOver'
  BY <1>1, <1>2, <1>3 DEF Order, Verdicts, HandedOver, Basic, TypeOK
<1>7. RejectedWait'
  BY <1>1, <1>2, <1>3 DEF Order, Verdicts, RejectedWait, Basic, TypeOK
<1>8. NewestWaits'
  <2>1. CASE AskApproval(m)
    <3>1. runs \in Pending'
      BY <1>1, <1>2, <2>1 DEF Pending
    <3>2. ~byHand => \A j \in rejected : j < runs
      <4> SUFFICES ASSUME ~byHand, NEW j \in rejected
                   PROVE  j < runs
        OBVIOUS
      <4>1. j \in Runs /\ draft[j].status = "DRAFT"
        BY DEF Order, Verdicts, RejectedWait, Basic, TypeOK
      <4>2. j <= runs /\ j # runs
        BY <1>1, <4>1 DEF Order, Aged
      <4> QED
        BY <4>1, <4>2, BoundsAssumption DEF Runs, Basic, TypeOK
    <3> QED
      BY <1>3, <3>1, <3>2 DEF NewestWaits
  <2>2. CASE AutoSend(m)
    <3>1. Pending \subseteq Pending'
      BY <1>1, <1>2 DEF Pending
    <3> QED
      BY <1>2, <1>3, <2>2, <3>1 DEF Order, Verdicts, NewestWaits
  <2> QED
    BY <2>1, <2>2
<1> QED
  BY <1>4, <1>5, <1>6, <1>7, <1>8 DEF Order, Verdicts

\* The reply that an approval promotes is not a rejected one.
LEMMA ApproveOrder ==
    ASSUME Basic, Order, Approve
    PROVE  Order'
<1>1. UNCHANGED <<byHand, req, lock, runs, rejected>> /\ state' = "AI_ACTIVE"
  BY DEF Approve
<1>2. CASE Pending = {}
  BY <1>1, <1>2, VerdictsKept DEF Approve, Order, Exclusive, Running, Aged
<1>3. CASE Pending # {}
  <2>1. /\ Latest \in Runs /\ draft[Latest].status = "DRAFT"
        /\ \A i \in Pending : Latest >= i
    BY <1>3, BoundsAssumption, MaxIsGreatest DEF Latest, Pending, Runs
  <2>2. /\ draft'[Latest].status = "QUEUED" /\ outbox' \subseteq outbox \union {Latest}
        /\ \A i \in Runs \ {Latest} : draft'[i] = draft[i]
    BY <1>3, <2>1 DEF Approve, Basic, TypeOK, Draft
  <2>3. ~byHand => Latest \notin rejected
    BY <2>1, BoundsAssumption
       DEF Approve, Order, Verdicts, NewestWaits, Pending, Runs, Basic, TypeOK
  <2>4. Exclusive'
    BY <1>1, <2>1, <2>2 DEF Order, Exclusive, Running, Basic, Numbered
  <2>5. Aged'
    BY <1>1, <2>1, <2>2 DEF Order, Aged
  <2>6. HandedOver' /\ RejectedWait' /\ NewestWaits'
    BY <1>1, <2>2, <2>3 DEF Order, Verdicts, HandedOver, RejectedWait, NewestWaits, Basic, TypeOK
  <2> QED
    BY <2>4, <2>5, <2>6 DEF Order, Verdicts
<1> QED
  BY <1>2, <1>3

\* The rest of what humans and the broker do.
LEMMA OthersOrder ==
    ASSUME Basic, Order, SlowRuns = FALSE,
           \/ Arrive \/ LockExpires \/ Resume \/ Review \/ Reject
           \/ HumanMoves \/ HandBack \/ \E i \in Runs : Fire(i) \/ Deliver(i)
    PROVE  Order'
<1> USE DEF conv, human, queues
<1>1. CASE Arrive \/ Resume
  <2>1. \A n \in Messages : (Running(n)' => Running(n) /\ req'[n] = req[n])
    BY <1>1, Values DEF Arrive, Resume, Running, Basic, TypeOK
  <2>2. UNCHANGED <<lock, runs, draft, outbox, rejected, byHand, state>>
    BY <1>1 DEF Arrive, Resume
  <2>3. Exclusive' /\ Aged'
    BY <2>1, <2>2 DEF Order, Exclusive, Aged
  <2> QED
    BY <2>2, <2>3, VerdictsKept DEF Order
<1>2. CASE LockExpires
  BY <1>2, VerdictsKept DEF LockExpires, Order, Exclusive, Running, Aged
<1>3. CASE Review \/ HandBack
  BY <1>3, VerdictsKept DEF Review, HandBack, Order, Exclusive, Running, Aged
<1>4. CASE Reject
  BY <1>4 DEF Reject, Order, Exclusive, Running, Aged, Verdicts, HandedOver, RejectedWait,
     NewestWaits, Pending
<1>5. CASE HumanMoves
  BY <1>5 DEF HumanMoves, Order, Exclusive, Running, Aged, Verdicts, HandedOver, RejectedWait,
     NewestWaits, Pending
<1>6. ASSUME NEW i \in Runs, Fire(i)
      PROVE  Order'
  <2>1. UNCHANGED <<req, lock, runs, draft, rejected, byHand, state>>
    BY <1>6 DEF Fire
  <2>2. HandedOver'
    BY <1>6, <2>1 DEF Fire, Order, Verdicts, HandedOver
  <2> QED
    BY <2>1, <2>2 DEF Order, Exclusive, Running, Aged, Verdicts, RejectedWait, NewestWaits, Pending
<1>7. ASSUME NEW i \in Runs, Deliver(i)
      PROVE  Order'
  <2>1. UNCHANGED <<req, lock, runs, rejected, byHand, state>> /\ outbox' \subseteq outbox
    BY <1>7 DEF Deliver
  <2>2. \A j \in Runs : \/ draft'[j].status = draft[j].status
                        \/ draft[j].status = "QUEUED" /\ draft'[j].status = "SENT"
    BY <1>7 DEF Deliver, Basic, TypeOK, Draft
  <2>3. Exclusive' /\ Aged'
    BY <2>1, <2>2 DEF Order, Exclusive, Running, Aged, Basic, Numbered
  <2>4. HandedOver' /\ RejectedWait'
    BY <2>1, <2>2 DEF Order, Verdicts, HandedOver, RejectedWait, Basic, TypeOK
  <2>5. Pending' = Pending
    BY <2>2 DEF Pending
  <2>6. NewestWaits'
    BY <2>1, <2>5 DEF Order, Verdicts, NewestWaits
  <2> QED
    BY <2>3, <2>4, <2>6 DEF Order, Verdicts
<1> QED
  BY <1>1, <1>2, <1>3, <1>4, <1>5, <1>6, <1>7

LEMMA OrderInit == Init => Order
BY DEF Init, Order, Exclusive, Running, NoRequest, Aged, Verdicts, HandedOver, RejectedWait,
   NewestWaits

LEMMA OrderNext ==
    ASSUME SlowRuns = FALSE
    PROVE  Basic /\ Order /\ [Next]_vars => Order'
<1> SUFFICES ASSUME Basic, Order, [Next]_vars PROVE Order'
  OBVIOUS
<1>1. CASE UNCHANGED vars
  BY <1>1 DEF vars, conv, human, queues, Order, Exclusive, Running, Aged, Verdicts, HandedOver,
     RejectedWait, NewestWaits, Pending
<1> QED
  BY <1>1, EndsOrder, AgainOrder, GateOrder, RunsOrder, WritesOrder, ApproveOrder, OthersOrder
     DEF Next, Step

LEMMA OrderSuffices == Basic /\ Order => DraftsInOrder
<1> SUFFICES ASSUME Basic, Order PROVE DraftsInOrder
  OBVIOUS
<1>1. OneRunAtATime
  BY AtMostOne DEF Order, Exclusive, OneRunAtATime
<1>2. AwaitingHasDraft
  BY DEF Order, Verdicts, NewestWaits, AwaitingHasDraft
<1>3. RejectedStaysUnsent
  BY DEF Order, Verdicts, RejectedWait, HandedOver, RejectedStaysUnsent
<1> QED
  BY <1>1, <1>2, <1>3 DEF Basic, DraftsInOrder

\* While no run outlasts its lock: one run at a time, whatever crashes; who is asked
\* to approve has a draft to approve; and what a human has rejected is never handed
\* over, by any later approval.
THEOREM VerdictsStand ==
    ASSUME SlowRuns = FALSE
    PROVE  Spec => []DraftsInOrder
<1>1. Basic /\ Order /\ [Next]_vars => Order'
  BY OrderNext
<1> QED
  BY <1>1, OrderInit, OrderSuffices, BasicInvariant, PTL DEF Spec
=============================================================================
