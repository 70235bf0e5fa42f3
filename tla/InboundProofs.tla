---------------------------- MODULE InboundProofs ----------------------------
(***************************************************************************)
(* The safety properties of Inbound, for any webhooks, any number of tasks *)
(* and any number of repeated deliveries, retries, faults and steps of     *)
(* humans.                                                                 *)
(***************************************************************************)
EXTENDS Inbound, SetLemmas

-----------------------------------------------------------------------------
(* The inductive invariant *)

\* A task that has stored its message and has not finished with it.
Stored(w) == task[w].pc \in {"optout", "reply", "key"}

\* Where a task stands tells what has become of its message.
Position(w) ==
    /\ Stored(w) => stored[Msg(w)] # 0
    /\ task[w].pc \in {"optout", "reply"} => requests[Msg(w)] = 0
    /\ task[w].pc \in {"reply", "key"} /\ Msg(w) \in OptOuts => optedOut
    /\ task[w].pc = "key" /\ Msg(w) \in due => requests[Msg(w)] = 1

\* A message is stored once, so one task at most goes on from there.
OneOwner == \A v, w \in Tasks : Stored(v) /\ Stored(w) /\ Msg(v) = Msg(w) => v = w

\* Nobody asks the AI about a message that is not stored.
NotAskedYet == \A m \in Messages : stored[m] = 0 => requests[m] = 0

\* An open conversation that a worker has opened.
OpenedBy(s, c) == s[c].by = "inbound" /\ s[c].state # "CLOSED"

OneOpened == \A c, d \in DOMAIN convs : OpenedBy(convs, c) /\ OpenedBy(convs, d) => c = d

\* Who holds the contact's row and has found no open conversation will open one;
\* nobody else has, since.
WillOpen ==
    \A w \in Tasks : task[w].pc = "write" =>
        /\ task[w].conv \in 0..Len(convs)
        /\ task[w].conv = 0 => \A c \in DOMAIN convs : ~OpenedBy(convs, c)

\* The conversations that a step of a human has opened or closed.
Moved(s) == {c \in DOMAIN s : ~OpenedBy(s, c)}

\* Each of them has cost a step.
Paid == Cardinality(Moved(convs)) + (IF starting THEN 1 ELSE 0) <= moves

IInv ==
    /\ TypeOK
    /\ \A w \in Tasks : Position(w)
    /\ OneOwner /\ NotAskedYet /\ AskedOnce /\ KeyMeansDone
    /\ OneOpened /\ WillOpen /\ Paid

-----------------------------------------------------------------------------
(* Types *)

\* What TypeOK says of one task.
LEMMA TaskType ==
    ASSUME TypeOK, NEW w \in Tasks
    PROVE  /\ task[w] \in Task
           /\ task[w].payload \in Payloads
           /\ task[w].payload \in Seq(Messages)
           /\ task[w].at \in 1..Len(task[w].payload)
           /\ task[w].tries \in 0..MaxRetries
           /\ Msg(w) \in Messages
<1>1. task[w] \in Task /\ task[w].at \in DOMAIN task[w].payload
  BY DEF TypeOK
<1>2. task[w].payload \in Payloads /\ task[w].tries \in 0..MaxRetries
  BY <1>1 DEF Task
<1>3. task[w].payload \in Seq(Messages)
  BY <1>2, InboundAssumption
<1> QED
  BY <1>1, <1>2, <1>3 DEF Msg

\* A task that waits for a worker is a task.
LEMMA FreshType ==
    ASSUME NEW p \in Payloads
    PROVE  /\ Fresh(p) \in Task
           /\ Fresh(p).pc = "check" /\ Fresh(p).payload = p /\ Fresh(p).at = 1
           /\ 1 \in DOMAIN p
<1>1. p \in Seq(Messages) /\ p # <<>> /\ MaxRetries \in Nat /\ MaxMoves \in Nat
  BY InboundAssumption
<1> QED
  BY <1>1 DEF Fresh, Task, States, MaxConvs

LEMMA IdleType ==
    /\ Idle \in Task
    /\ Idle.pc = "idle"
    /\ Idle.at \in DOMAIN Idle.payload
<1> DEFINE p == CHOOSE q \in Payloads : TRUE
<1>1. p \in Payloads
  BY InboundAssumption
<1> HIDE DEF p
<1>2. Idle = [Fresh(p) EXCEPT !.pc = "idle"]
  BY DEF Idle, p
<1> QED
  BY <1>1, <1>2, FreshType DEF Task

\* Task w is over, or begins with a message again.
Restarts(w) == \E new \in Task :
    /\ new.pc \in {"idle", "check"}
    /\ new.at \in DOMAIN new.payload
    /\ task' = [task EXCEPT ![w] = new]

LEMMA NextMessageRestarts ==
    ASSUME TypeOK, NEW w \in Tasks, NextMessage(w)
    PROVE  Restarts(w)
<1> DEFINE p == task[w].payload
           new == [Fresh(p) EXCEPT !.at = task[w].at + 1, !.tries = task[w].tries]
<1>1. p \in Payloads /\ p \in Seq(Messages) /\ task[w].at \in 1..Len(p)
      /\ task[w].tries \in 0..MaxRetries
  BY TaskType
<1>2. CASE task[w].at = Len(p)
  <2>1. task' = [task EXCEPT ![w] = Idle]
    BY <1>2 DEF NextMessage, TypeOK
  <2> QED
    BY <2>1, IdleType DEF Restarts
<1>3. CASE task[w].at # Len(p)
  <2>1. task' = [task EXCEPT ![w] = new]
    BY <1>3 DEF NextMessage, TypeOK
  <2>2. /\ Fresh(p) \in Task /\ Fresh(p).pc = "check" /\ Fresh(p).payload = p
        /\ task[w].at + 1 \in Nat
    BY <1>1, FreshType
  <2>3. new \in Task /\ new.pc = "check" /\ new.payload = p /\ new.at = task[w].at + 1
    BY <1>1, <2>2 DEF Task
  <2>4. new.at \in DOMAIN new.payload
    BY <1>1, <1>3, <2>3
  <2> QED
    BY <2>1, <2>3, <2>4 DEF Restarts
<1> QED
  BY <1>2, <1>3

LEMMA AgainRestarts ==
    ASSUME TypeOK, NEW w \in Tasks, NEW n \in 0..MaxRetries, Again(w, n)
    PROVE  Restarts(w)
<1> DEFINE p == task[w].payload
           new == [Fresh(p) EXCEPT !.tries = n]
<1>1. p \in Payloads
  BY TaskType
<1>2. task' = [task EXCEPT ![w] = new]
  BY DEF Again, TypeOK
<1>3. new \in Task /\ new.pc = "check" /\ new.at \in DOMAIN new.payload
  BY <1>1, FreshType DEF Task
<1> QED
  BY <1>2, <1>3 DEF Restarts

LEMMA RetryRestarts ==
    ASSUME TypeOK, NEW w \in Tasks, Retry(w)
    PROVE  Restarts(w)
<1>1. task[w].tries \in 0..MaxRetries /\ MaxRetries \in Nat
  BY TaskType, InboundAssumption
<1>2. CASE task[w].tries < MaxRetries
  BY <1>1, <1>2, AgainRestarts DEF Retry
<1>3. CASE ~(task[w].tries < MaxRetries)
  BY <1>3, IdleType DEF Retry, Restarts
<1> QED
  BY <1>2, <1>3

\* A task that goes on with its message.
LEMMA GoesOn ==
    ASSUME TypeOK, NEW w \in Tasks, NEW new \in Task,
           new.payload = task[w].payload, new.at = task[w].at,
           task' = [task EXCEPT ![w] = new]
    PROVE  /\ task' \in [Tasks -> Task]
           /\ task'[w] = new
           /\ \A v \in Tasks :
                 /\ task'[v].payload = task[v].payload /\ task'[v].at = task[v].at
                 /\ Msg(v)' = Msg(v)
                 /\ v # w => task'[v] = task[v]
BY DEF TypeOK, Msg

LEMMA ToType ==
    ASSUME TypeOK, NEW w \in Tasks, NEW pc \in {"read", "reply", "key"}, To(w, pc)
    PROVE  /\ task' \in [Tasks -> Task]
           /\ task'[w].pc = pc
           /\ \A v \in Tasks :
                 /\ task'[v].payload = task[v].payload /\ task'[v].at = task[v].at
                 /\ v # w => task'[v] = task[v]
BY DEF TypeOK, To, Task

-----------------------------------------------------------------------------
(* Conversations *)

\* At most one more than humans have moved.
LEMMA FewConversations ==
    ASSUME NEW s \in Seq(Conv),
           \A c, d \in DOMAIN s : OpenedBy(s, c) /\ OpenedBy(s, d) => c = d
    PROVE  /\ IsFiniteSet(Moved(s)) /\ Cardinality(Moved(s)) \in Nat
           /\ Len(s) <= Cardinality(Moved(s)) + 1
<1>1. DOMAIN s = 1..Len(s) /\ Len(s) \in Nat
  OBVIOUS
<1>2. IsFiniteSet(1..Len(s)) /\ Cardinality(1..Len(s)) = Len(s)
  BY <1>1, FS_Interval
<1>3. IsFiniteSet(Moved(s)) /\ Cardinality(Moved(s)) \in Nat
  BY <1>1, <1>2, FS_Subset, FS_CardinalityType DEF Moved
<1>4. CASE \E c \in DOMAIN s : OpenedBy(s, c)
  <2>1. PICK c \in DOMAIN s : OpenedBy(s, c)
    BY <1>4
  <2>2. 1..Len(s) = Moved(s) \cup {c} /\ c \notin Moved(s)
    BY <2>1, <1>1 DEF Moved
  <2> QED
    BY <2>2, <1>2, <1>3, FS_AddElement
<1>5. CASE ~\E c \in DOMAIN s : OpenedBy(s, c)
  <2>1. Moved(s) = 1..Len(s)
    BY <1>5, <1>1 DEF Moved
  <2> QED
    BY <2>1, <1>2, <1>1
<1> QED
  BY <1>3, <1>4, <1>5

-----------------------------------------------------------------------------
(* Steps *)

\* Steps of a task that leave the conversations alone keep what is said of them.
LEMMA ConvsKept ==
    ASSUME IInv, UNCHANGED <<convs, starting, moves>>,
           \A w \in Tasks : task'[w].pc = "write" => task'[w] = task[w]
    PROVE  OneOpened' /\ WillOpen' /\ Paid'
<1>1. OneOpened'
  BY DEF IInv, OneOpened, OpenedBy
<1>2. WillOpen'
  BY DEF IInv, WillOpen, OpenedBy
<1>3. Paid'
  BY DEF IInv, Paid, Moved, OpenedBy
<1> QED
  BY <1>1, <1>2, <1>3

\* A task that begins again, or ends, lets go of the contact's row and of its message.
LEMMA RestartKeeps ==
    ASSUME IInv, NEW w \in Tasks, Restarts(w),
           Unlock(w) \/ (task[w].pc # "write" /\ UNCHANGED rowLock),
           UNCHANGED <<toHuman, convs, stored, optedOut, requests, due, starting, moves>>,
           sent' \subseteq Payloads, repeats' \in 0..MaxRepeats,
           faults' \in 0..MaxFaults, struck' \in BOOLEAN,
           keys' = keys \/ (task[w].pc = "key" /\ keys' = keys \union {Msg(w)})
    PROVE  IInv'
<1> USE DEF IInv
<1>1. PICK new \in Task :
          /\ new.pc \in {"idle", "check"} /\ new.at \in DOMAIN new.payload
          /\ task' = [task EXCEPT ![w] = new]
  BY DEF Restarts
<1>2. Msg(w) \in Messages
  BY TaskType
<1>3. /\ task' \in [Tasks -> Task]
      /\ task'[w] = new /\ \A v \in Tasks \ {w} : task'[v] = task[v]
  BY <1>1 DEF TypeOK
<1>4. TypeOK'
  <2>1. rowLock' \in Tasks \union {none} /\ \A v \in Tasks : rowLock' = v <=> task'[v].pc = "write"
    BY <1>1, <1>3, InboundAssumption DEF TypeOK, Unlock
  <2> QED
    BY <1>1, <1>2, <1>3, <2>1 DEF TypeOK
<1>5. /\ ~Stored(w)'
      /\ \A v \in Tasks \ {w} : Msg(v)' = Msg(v) /\ (Stored(v)' <=> Stored(v)) /\ (Position(v) => Position(v)')
  BY <1>1, <1>3 DEF Stored, Msg, Position
<1>6. \A v \in Tasks : Position(v)'
  BY <1>1, <1>3, <1>5 DEF Position, Stored
<1>7. OneOwner'
  BY <1>5 DEF OneOwner
<1>8. NotAskedYet' /\ AskedOnce'
  BY DEF NotAskedYet, AskedOnce
<1>9. KeyMeansDone'
  <2>1. Position(w)
    OBVIOUS
  <2> QED
    BY <1>2, <2>1 DEF KeyMeansDone, Position, Stored
<1>10. OneOpened' /\ WillOpen' /\ Paid'
  BY <1>1, <1>3, ConvsKept
<1> QED
  BY <1>4, <1>6, <1>7, <1>8, <1>9, <1>10

LEMMA WebhookKeeps ==
    ASSUME IInv, NEW w \in Tasks, Webhook(w)
    PROVE  IInv'
<1>1. PICK p \in Payloads :
          /\ task[w].pc = "idle"
          /\ IF p \in sent THEN repeats < MaxRepeats /\ repeats' = repeats + 1
                           ELSE UNCHANGED repeats
          /\ sent' = sent \union {p}
          /\ task' = [task EXCEPT ![w] = Fresh(p)]
          /\ UNCHANGED <<rows, keys, requests, due, rowLock, starting, moves, faults, struck>>
  BY DEF Webhook
<1>2. Restarts(w)
  BY <1>1, FreshType DEF Restarts
<1>3. repeats' \in 0..MaxRepeats /\ sent' \subseteq Payloads
  <2>1. repeats \in 0..MaxRepeats /\ MaxRepeats \in Nat /\ sent \subseteq Payloads
    BY InboundAssumption DEF IInv, TypeOK
  <2> QED
    BY <1>1, <2>1
<1> QED
  BY <1>1, <1>2, <1>3, RestartKeeps DEF IInv, TypeOK, rows

\* A task whose message's key is not set looks at the database.
LEMMA ToReadKeeps ==
    ASSUME IInv, NEW w \in Tasks, task[w].pc = "check", To(w, "read"),
           UNCHANGED <<rows, keys, requests, due, rowLock, others, faults, struck>>
    PROVE  IInv'
<1> USE DEF IInv, rows, others
<1>1. /\ task' \in [Tasks -> Task] /\ task'[w].pc = "read"
      /\ \A v \in Tasks :
            /\ task'[v].payload = task[v].payload /\ task'[v].at = task[v].at
            /\ v # w => task'[v] = task[v]
  BY ToType
<1>2. TypeOK'
  BY <1>1 DEF TypeOK
<1>3. \A v \in Tasks : Msg(v)' = Msg(v) /\ (Stored(v)' <=> Stored(v)) /\ Position(v)'
  BY <1>1 DEF Stored, Msg, Position
<1>4. OneOwner' /\ NotAskedYet' /\ AskedOnce' /\ KeyMeansDone'
  BY <1>3 DEF OneOwner, NotAskedYet, AskedOnce, KeyMeansDone
<1>5. OneOpened' /\ WillOpen' /\ Paid'
  BY <1>1, ConvsKept
<1> QED
  BY <1>2, <1>3, <1>4, <1>5

LEMMA CheckKeyKeeps ==
    ASSUME IInv, NEW w \in Tasks, CheckKey(w)
    PROVE  IInv'
<1>1. CASE Msg(w) \in keys
  <2>1. Restarts(w)
    BY <1>1, NextMessageRestarts DEF CheckKey, IInv
  <2> QED
    BY <2>1, RestartKeeps DEF CheckKey, IInv, TypeOK, rows, others
<1>2. CASE Msg(w) \notin keys
  BY <1>2, ToReadKeeps DEF CheckKey
<1> QED
  BY <1>1, <1>2

\* The newest open conversation is a conversation, and open.
LEMMA ActiveIsOpen ==
    ASSUME convs \in Seq(Conv)
    PROVE  /\ Active \in 0..Len(convs)
           /\ Active = 0 => \A c \in DOMAIN convs : convs[c].state = "CLOSED"
           /\ Active # 0 => convs[Active].state \in States
<1>1. CASE Open = {}
  BY <1>1 DEF Active, Open
<1>2. CASE Open # {}
  <2>1. IsFiniteSet(Open) /\ Open \subseteq 1..Len(convs) /\ Len(convs) \in Nat
    BY FS_Interval, FS_Subset DEF Open
  <2>2. Active \in Open
    BY <1>2, <2>1, MaxIsGreatest DEF Active
  <2>3. Active \in 1..Len(convs) /\ convs[Active] \in Conv
    BY <2>1, <2>2
  <2> QED
    BY <2>3 DEF Conv
<1> QED
  BY <1>1, <1>2

LEMMA ReadKeeps ==
    ASSUME IInv, NEW w \in Tasks, Read(w)
    PROVE  IInv'
<1> USE DEF IInv, Read, rows, others
<1> DEFINE snap == IF Active = 0 THEN "NEW" ELSE convs[Active].state
<1>1. /\ Active \in 0..Len(convs) /\ Len(convs) <= MaxConvs
      /\ Active = 0 => \A c \in DOMAIN convs : convs[c].state = "CLOSED"
      /\ snap \in States
  BY ActiveIsOpen DEF TypeOK, States
<1>2. task' = [task EXCEPT ![w].pc = "write", ![w].conv = Active, ![w].snap = snap]
  OBVIOUS
<1> HIDE DEF snap
<1>3. Active \in 0..MaxConvs
  BY <1>1, InboundAssumption DEF TypeOK, MaxConvs
<1>4. /\ task' \in [Tasks -> Task]
      /\ task'[w].pc = "write" /\ task'[w].conv = Active
      /\ \A v \in Tasks :
            /\ task'[v].payload = task[v].payload /\ task'[v].at = task[v].at
            /\ v # w => task'[v] = task[v]
  <2> DEFINE new == [task[w] EXCEPT !.pc = "write", !.conv = Active, !.snap = snap]
  <2>1. task[w] \in Task
    BY TaskType
  <2>2. /\ new \in Task /\ new.pc = "write" /\ new.conv = Active
        /\ new.payload = task[w].payload /\ new.at = task[w].at
    BY <1>1, <1>3, <2>1 DEF Task
  <2>3. task' = [task EXCEPT ![w] = new]
    BY <1>2, <2>1 DEF TypeOK
  <2> HIDE DEF new
  <2> QED
    BY <2>2, <2>3, GoesOn
<1>5. \A v \in Tasks : rowLock' = v <=> task'[v].pc = "write"
  BY <1>4, InboundAssumption DEF TypeOK
<1>6. TypeOK'
  BY <1>4, <1>5 DEF TypeOK
<1>7. \A v \in Tasks : Msg(v)' = Msg(v) /\ (Stored(v)' <=> Stored(v)) /\ Position(v)'
  BY <1>4 DEF Stored, Msg, Position
<1>8. OneOwner' /\ NotAskedYet' /\ AskedOnce' /\ KeyMeansDone'
  BY <1>7 DEF OneOwner, NotAskedYet, AskedOnce, KeyMeansDone
<1>9. OneOpened' /\ Paid'
  BY DEF OneOpened, Paid, Moved, OpenedBy
<1>10. WillOpen'
  BY <1>1, <1>4 DEF WillOpen, OpenedBy
<1> QED
  BY <1>6, <1>7, <1>8, <1>9, <1>10

\* A message is stored in a conversation c.
LEMMA CommitKeeps ==
    ASSUME IInv, NEW w \in Tasks, NEW c \in 1..Len(convs'),
           task[w].pc = "write", stored[Msg(w)] = 0, Commit(w, c), Unlock(w),
           convs' \in Seq(Conv), Len(convs') <= MaxConvs, Len(convs) <= Len(convs'),
           UNCHANGED <<toHuman, optedOut, keys, requests, others, faults, struck>>
    PROVE  /\ TypeOK' /\ \A v \in Tasks : Position(v)'
           /\ OneOwner' /\ NotAskedYet' /\ AskedOnce' /\ KeyMeansDone'
           /\ \A v \in Tasks : task'[v].pc # "write"
<1> USE DEF IInv, others
<1> DEFINE new == [task[w] EXCEPT !.conv = 0, !.snap = "NEW",
                                  !.pc = IF Msg(w) \in OptOuts THEN "optout" ELSE "reply"]
<1>1. Msg(w) \in Messages /\ task[w] \in Task
  BY TaskType
<1>2. /\ new \in Task /\ new.pc = (IF Msg(w) \in OptOuts THEN "optout" ELSE "reply")
      /\ new.payload = task[w].payload /\ new.at = task[w].at
  <2>1. 0 \in 0..MaxConvs /\ "NEW" \in States
    BY InboundAssumption DEF MaxConvs, States
  <2> QED
    BY <1>1, <2>1 DEF Task
<1>3. task' = [task EXCEPT ![w] = new]
  BY DEF Commit, TypeOK
<1> HIDE DEF new
<1>4. /\ task' \in [Tasks -> Task] /\ task'[w] = new
      /\ \A v \in Tasks :
            /\ task'[v].payload = task[v].payload /\ task'[v].at = task[v].at
            /\ Msg(v)' = Msg(v)
            /\ v # w => task'[v] = task[v]
  BY <1>2, <1>3, GoesOn
<1>5. /\ stored' = [stored EXCEPT ![Msg(w)] = c]
      /\ due' \in SUBSET Messages
      /\ \A m \in Messages \ {Msg(w)} : m \in due' => m \in due
  BY <1>1 DEF Commit, TypeOK
<1>6. rowLock = w /\ rowLock' = none /\ \A v \in Tasks : task'[v].pc # "write"
  BY <1>2, <1>4, InboundAssumption DEF Unlock, TypeOK
<1>7. TypeOK'
  <2>1. stored' \in [Messages -> 0..Len(convs')]
    BY <1>1, <1>5 DEF TypeOK
  <2> QED
    BY <1>4, <1>5, <1>6, <2>1, InboundAssumption DEF TypeOK
<1>8. \A v \in Tasks \ {w} : Stored(v) => Msg(v) # Msg(w)
  BY DEF Position
<1>9. \A v \in Tasks : Position(v)'
  <2>1. ASSUME NEW v \in Tasks \ {w}
        PROVE  Position(v)'
    <3>1. Stored(v)' => stored'[Msg(v)] # 0
      BY <1>1, <1>4, <1>5, TaskType DEF Position, Stored, TypeOK
    <3>2. task[v].pc = "key" /\ Msg(v) \in due' => Msg(v) \in due
      BY <1>5, <1>8, TaskType DEF Stored
    <3> QED
      BY <1>4, <3>1, <3>2 DEF Position, Stored
  <2>2. Position(w)'
    BY <1>1, <1>2, <1>4, <1>5 DEF Position, Stored, NotAskedYet, TypeOK
  <2> QED
    BY <2>1, <2>2
<1>10. OneOwner'
  BY <1>4, <1>8 DEF OneOwner, Stored
<1>11. NotAskedYet' /\ AskedOnce'
  BY <1>1, <1>5 DEF NotAskedYet, AskedOnce, TypeOK
<1>12. KeyMeansDone'
  <2>1. Msg(w) \notin keys
    BY DEF KeyMeansDone
  <2> QED
    BY <1>1, <1>5, <2>1 DEF KeyMeansDone, TypeOK
<1> QED
  BY <1>6, <1>7, <1>9, <1>10, <1>11, <1>12

LEMMA StoreKeeps ==
    ASSUME IInv, NEW w \in Tasks, Store(w)
    PROVE  IInv'
<1> USE DEF IInv
<1>1. /\ task[w].pc = "write" /\ stored[Msg(w)] = 0 /\ Unlock(w)
      /\ UNCHANGED <<toHuman, optedOut, keys, requests, others, faults, struck>>
      /\ UNCHANGED <<starting, moves>>
  BY DEF Store, others
<1>2. convs \in Seq(Conv) /\ Len(convs) <= MaxConvs /\ moves \in 0..MaxMoves /\ starting \in BOOLEAN
      /\ Len(convs) \in Nat /\ toHuman \in BOOLEAN /\ task[w].conv \in 0..Len(convs)
  BY <1>1 DEF TypeOK, WillOpen
<1>3. CASE StoreInNew(w)
  <2> DEFINE new == [state |-> Entry(~toHuman), ai |-> ~toHuman, by |-> "inbound"]
  <2>1. new \in Conv /\ new.by = "inbound" /\ new.state # "CLOSED"
    BY <1>2 DEF Conv, Entry, States
  <2> HIDE DEF new
  <2>2. convs' = Append(convs, new) /\ Commit(w, Len(convs) + 1) /\ task[w].conv = 0
    BY <1>3 DEF StoreInNew, new
  <2>3. /\ convs' \in Seq(Conv) /\ Len(convs') = Len(convs) + 1
        /\ convs'[Len(convs')] = new /\ \A c \in 1..Len(convs) : convs'[c] = convs[c]
        /\ DOMAIN convs' = 1..Len(convs) + 1
    BY <1>2, <2>1, <2>2
  <2>4. \A c \in DOMAIN convs : ~OpenedBy(convs, c)
    BY <1>1, <2>2 DEF WillOpen
  <2>5. \A c \in DOMAIN convs' : OpenedBy(convs', c) => c = Len(convs')
    BY <1>2, <2>3, <2>4 DEF OpenedBy
  <2>6. Moved(convs') = Moved(convs)
    BY <1>2, <2>1, <2>3 DEF Moved, OpenedBy
  <2>7. OneOpened' /\ Paid'
    BY <1>1, <2>5, <2>6 DEF OneOpened, Paid
  <2>8. Len(convs') <= MaxConvs
    <3>1. Len(convs') <= Cardinality(Moved(convs')) + 1 /\ Cardinality(Moved(convs')) \in Nat
      BY <2>3, <2>5, FewConversations
    <3>2. Cardinality(Moved(convs')) <= moves
      BY <1>2, <2>6, <3>1 DEF Paid
    <3> QED
      BY <1>2, <2>3, <3>1, <3>2, InboundAssumption DEF MaxConvs
  <2>9. /\ TypeOK' /\ \A v \in Tasks : Position(v)'
        /\ OneOwner' /\ NotAskedYet' /\ AskedOnce' /\ KeyMeansDone'
        /\ \A v \in Tasks : task'[v].pc # "write"
    BY <1>1, <1>2, <2>2, <2>3, <2>8, CommitKeeps
  <2> QED
    BY <2>7, <2>9 DEF WillOpen
<1>4. CASE StoreInOpen(w)
  <2> DEFINE c == task[w].conv
             entered == [convs[c] EXCEPT !.state = Entry(convs[c].ai)]
  <2>1. c \in 1..Len(convs) /\ Commit(w, c) /\ convs[c] \in Conv
    BY <1>2, <1>4 DEF StoreInOpen
  <2>2. \/ convs' = convs
        \/ convs[c].state = "NEW" /\ convs' = [convs EXCEPT ![c] = entered]
    BY <1>2, <1>4, <2>1 DEF StoreInOpen, Outdated
  <2>3. /\ entered \in Conv /\ entered.by = convs[c].by /\ entered.state # "CLOSED"
    BY <2>1 DEF Conv, Entry, States
  <2> HIDE DEF entered
  <2>4. /\ convs' \in Seq(Conv) /\ Len(convs') = Len(convs) /\ DOMAIN convs' = DOMAIN convs
        /\ \A d \in DOMAIN convs : OpenedBy(convs', d) <=> OpenedBy(convs, d)
    BY <1>2, <2>1, <2>2, <2>3 DEF OpenedBy
  <2>5. OneOpened' /\ Moved(convs') = Moved(convs)
    BY <2>4 DEF OneOpened, Moved
  <2>6. Paid'
    BY <1>1, <2>5 DEF Paid
  <2>7. /\ TypeOK' /\ \A v \in Tasks : Position(v)'
        /\ OneOwner' /\ NotAskedYet' /\ AskedOnce' /\ KeyMeansDone'
        /\ \A v \in Tasks : task'[v].pc # "write"
    BY <1>1, <1>2, <2>1, <2>4, CommitKeeps
  <2> QED
    BY <2>5, <2>6, <2>7 DEF WillOpen
<1> QED
  BY <1>3, <1>4 DEF Store

LEMMA OptOutKeeps ==
    ASSUME IInv, NEW w \in Tasks, OptOut(w)
    PROVE  IInv'
<1> USE DEF IInv, OptOut, others
<1>1. /\ task' \in [Tasks -> Task] /\ task'[w].pc = "reply"
      /\ \A v \in Tasks :
            /\ task'[v].payload = task[v].payload /\ task'[v].at = task[v].at
            /\ v # w => task'[v] = task[v]
  BY ToType
<1>2. Msg(w) \in Messages
  BY TaskType
<1>3. TypeOK'
  BY <1>1, <1>2 DEF TypeOK
<1>4. \A v \in Tasks : Msg(v)' = Msg(v) /\ (Stored(v)' <=> Stored(v))
  BY <1>1 DEF Stored, Msg
<1>5. \A v \in Tasks : Position(v)'
  BY <1>1, <1>4 DEF Stored, Position
<1>6. OneOwner' /\ NotAskedYet' /\ AskedOnce' /\ KeyMeansDone'
  BY <1>4 DEF OneOwner, NotAskedYet, AskedOnce, KeyMeansDone
<1>7. OneOpened' /\ WillOpen' /\ Paid'
  BY <1>1, ConvsKept
<1> QED
  BY <1>3, <1>5, <1>6, <1>7

\* The task that owns a message asks the AI about it, which nobody has done.
LEMMA DispatchKeeps ==
    ASSUME IInv, NEW w \in Tasks, Dispatch(w)
    PROVE  IInv'
<1> USE DEF IInv, Dispatch, rows, others
<1>1. /\ task' \in [Tasks -> Task] /\ task'[w].pc = "key"
      /\ \A v \in Tasks :
            /\ task'[v].payload = task[v].payload /\ task'[v].at = task[v].at
            /\ v # w => task'[v] = task[v]
  BY ToType
<1>2. /\ Msg(w) \in Messages /\ stored[Msg(w)] # 0 /\ requests[Msg(w)] = 0
      /\ Msg(w) \in OptOuts => optedOut
  BY TaskType DEF Position, Stored
<1>3. /\ requests' \in [Messages -> Nat]
      /\ requests'[Msg(w)] = IF Msg(w) \in due THEN 1 ELSE 0
      /\ \A m \in Messages \ {Msg(w)} : requests'[m] = requests[m]
  BY <1>2 DEF TypeOK
<1>4. TypeOK'
  BY <1>1, <1>3 DEF TypeOK
<1>5. \A v \in Tasks : Msg(v)' = Msg(v) /\ (Stored(v)' <=> Stored(v))
  BY <1>1 DEF Stored, Msg
<1>6. \A v \in Tasks \ {w} : Stored(v) => Msg(v) # Msg(w)
  BY DEF OneOwner, Stored
<1>7. \A v \in Tasks : Position(v)'
  <2>1. Position(w)'
    BY <1>1, <1>2, <1>3, <1>5 DEF Stored, Position
  <2>2. ASSUME NEW v \in Tasks \ {w}
        PROVE  Position(v)'
    BY <1>1, <1>3, <1>5, <1>6, TaskType DEF Stored, Position
  <2> QED
    BY <2>1, <2>2
<1>8. OneOwner'
  BY <1>5 DEF OneOwner
<1>9. NotAskedYet' /\ AskedOnce'
  BY <1>2, <1>3 DEF NotAskedYet, AskedOnce
<1>10. KeyMeansDone'
  BY <1>2, <1>3 DEF KeyMeansDone, TypeOK
<1>11. OneOpened' /\ WillOpen' /\ Paid'
  BY <1>1, ConvsKept
<1> QED
  BY <1>4, <1>7, <1>8, <1>9, <1>10, <1>11

\* The steps that end a task's work on a message, well or not.
LEMMA EndKeeps ==
    ASSUME IInv, NEW w \in Tasks,
           \/ SetKey(w) \/ StoreFails(w)
           \/ PersistFails(w) \/ RedisFails(w) \/ WorkerDies(w)
    PROVE  IInv'
<1> USE DEF IInv, rows, others
<1>1. /\ faults \in 0..MaxFaults /\ struck \in BOOLEAN /\ MaxFaults \in Nat
      /\ sent \subseteq Payloads /\ repeats \in 0..MaxRepeats
  BY InboundAssumption DEF TypeOK
<1>2. CASE SetKey(w)
  BY <1>1, <1>2, NextMessageRestarts, RestartKeeps DEF SetKey
<1>3. CASE StoreFails(w)
  BY <1>1, <1>3, RetryRestarts, RestartKeeps DEF StoreFails
<1>4. CASE PersistFails(w)
  <2>1. faults' \in 0..MaxFaults /\ struck' \in BOOLEAN
    BY <1>1, <1>4 DEF PersistFails, Fault
  <2> QED
    BY <1>1, <1>4, <2>1, RetryRestarts, RestartKeeps DEF PersistFails
<1>5. CASE RedisFails(w)
  <2>1. faults' \in 0..MaxFaults /\ struck' \in BOOLEAN
    BY <1>1, <1>5 DEF RedisFails, Fault
  <2>2. Restarts(w)
    BY <1>5, IdleType DEF RedisFails, Restarts
  <2>3. task[w].pc # "write" /\ UNCHANGED rowLock
    BY <1>5 DEF RedisFails
  <2> QED
    BY <1>1, <1>5, <2>1, <2>2, <2>3, RestartKeeps DEF RedisFails
<1>6. CASE WorkerDies(w)
  <2>1. faults' \in 0..MaxFaults /\ struck' \in BOOLEAN
    BY <1>1, <1>6 DEF WorkerDies, Fault
  <2>2. Restarts(w)
    BY <1>6, TaskType, AgainRestarts DEF WorkerDies
  <2> QED
    BY <1>1, <1>6, <2>1, <2>2, RestartKeeps DEF WorkerDies
<1> QED
  BY <1>2, <1>3, <1>4, <1>5, <1>6

LEMMA StepKeeps ==
    ASSUME IInv, NEW w \in Tasks, Step(w)
    PROVE  IInv'
BY CheckKeyKeeps, ReadKeeps, StoreKeeps, OptOutKeeps, DispatchKeeps, EndKeeps DEF Step

-----------------------------------------------------------------------------
(* Humans *)

\* The steps of humans are no steps of tasks.
LEMMA TasksKept ==
    ASSUME IInv, UNCHANGED <<toHuman, stored, optedOut, keys, requests, due, task,
                             rowLock, sent, repeats, faults, struck>>,
           convs' \in Seq(Conv), Len(convs) <= Len(convs'), Len(convs') <= MaxConvs,
           moves' \in 0..MaxMoves, starting' \in BOOLEAN
    PROVE  /\ TypeOK' /\ \A w \in Tasks : Position(w)'
           /\ OneOwner' /\ NotAskedYet' /\ AskedOnce' /\ KeyMeansDone'
<1> USE DEF IInv
<1>1. TypeOK'
  BY DEF TypeOK
<1>2. \A w \in Tasks : Position(w)'
  BY DEF Position, Stored, Msg
<1>3. OneOwner' /\ NotAskedYet' /\ AskedOnce' /\ KeyMeansDone'
  BY DEF OneOwner, NotAskedYet, AskedOnce, KeyMeansDone, Stored, Msg
<1> QED
  BY <1>1, <1>2, <1>3

\* No move leads out of CLOSED, so a conversation that a worker has opened stays
\* as it was or is closed.
LEMMA HumanMovesKeeps ==
    ASSUME IInv, HumanMoves
    PROVE  IInv'
<1> USE DEF IInv
<1>1. PICK c \in DOMAIN convs :
          /\ moves < MaxMoves /\ moves' = moves + 1
          /\ \E s \in Allowed[convs[c].state] \cap Targets :
                convs' = [convs EXCEPT ![c].state = s]
          /\ UNCHANGED <<toHuman, stored, optedOut, keys, requests, due, task, rowLock,
                         starting, sent, repeats, faults, struck>>
  BY DEF HumanMoves
<1>2. PICK s \in Allowed[convs[c].state] \cap Targets :
          convs' = [convs EXCEPT ![c].state = s]
  BY <1>1
<1> DEFINE new == [convs[c] EXCEPT !.state = s]
<1>3. /\ convs \in Seq(Conv) /\ convs[c] \in Conv /\ Len(convs) <= MaxConvs
      /\ moves \in 0..MaxMoves /\ MaxMoves \in Nat
  BY InboundAssumption DEF TypeOK
<1>4. convs[c].state # "CLOSED"
  BY <1>2, <1>3 DEF Allowed, Conv
<1>5. new \in Conv /\ new.by = convs[c].by
  BY <1>2, <1>3, InboundAssumption DEF Conv
<1>6. convs' = [convs EXCEPT ![c] = new]
  BY <1>2, <1>3
<1> HIDE DEF new
<1>7. /\ convs' \in Seq(Conv) /\ Len(convs') = Len(convs) /\ DOMAIN convs' = DOMAIN convs
      /\ \A d \in DOMAIN convs : OpenedBy(convs', d) => OpenedBy(convs, d)
      /\ \A d \in DOMAIN convs \ {c} : OpenedBy(convs', d) <=> OpenedBy(convs, d)
  BY <1>3, <1>4, <1>5, <1>6 DEF OpenedBy
<1>8. OneOpened'
  BY <1>7 DEF OneOpened
<1>9. WillOpen'
  BY <1>1, <1>7 DEF WillOpen
<1>10. Paid'
  <2>1. IsFiniteSet(Moved(convs)) /\ Cardinality(Moved(convs)) \in Nat
    BY <1>3, FewConversations DEF OneOpened
  <2>2. Moved(convs') \subseteq Moved(convs) \union {c}
    BY <1>7 DEF Moved
  <2>3. /\ IsFiniteSet(Moved(convs) \union {c})
        /\ Cardinality(Moved(convs) \union {c}) <= Cardinality(Moved(convs)) + 1
        /\ Cardinality(Moved(convs) \union {c}) \in Nat
    <3>1. Cardinality(Moved(convs) \union {c})
            = IF c \in Moved(convs) THEN Cardinality(Moved(convs)) ELSE Cardinality(Moved(convs)) + 1
      BY <2>1, FS_AddElement
    <3>2. IsFiniteSet(Moved(convs) \union {c})
      BY <2>1, FS_AddElement
    <3> QED
      BY <2>1, <3>1, <3>2
  <2>4. Cardinality(Moved(convs')) <= Cardinality(Moved(convs)) + 1
        /\ Cardinality(Moved(convs')) \in Nat
    BY <2>1, <2>2, <2>3, FS_Subset, FS_CardinalityType
  <2> QED
    BY <1>1, <1>3, <2>1, <2>4 DEF Paid, TypeOK
<1> QED
  BY <1>1, <1>3, <1>7, <1>8, <1>9, <1>10, TasksKept DEF TypeOK

\* Two requests to start a conversation may both find none; each costs a step.
LEMMA StartKeeps ==
    ASSUME IInv, StartRead \/ StartCreate
    PROVE  IInv'
<1> USE DEF IInv
<1>1. /\ convs \in Seq(Conv) /\ Len(convs) <= MaxConvs /\ Len(convs) \in Nat
      /\ moves \in 0..MaxMoves /\ MaxMoves \in Nat /\ starting \in BOOLEAN
  BY InboundAssumption DEF TypeOK
<1>2. /\ IsFiniteSet(Moved(convs)) /\ Cardinality(Moved(convs)) \in Nat
      /\ Len(convs) <= Cardinality(Moved(convs)) + 1
  BY <1>1, FewConversations DEF OneOpened
<1>3. CASE StartRead
  <2>1. OneOpened' /\ WillOpen'
    BY <1>3 DEF StartRead, rows, OneOpened, WillOpen, OpenedBy
  <2>2. Paid'
    BY <1>1, <1>2, <1>3 DEF StartRead, rows, Paid, Moved, OpenedBy
  <2>3. moves' \in 0..MaxMoves
    BY <1>1, <1>3 DEF StartRead
  <2> QED
    BY <1>1, <1>3, <2>1, <2>2, <2>3, TasksKept DEF StartRead, rows
<1>4. CASE StartCreate
  <2> DEFINE new == [state |-> "NEW", ai |-> TRUE, by |-> "start"]
             last == Len(convs) + 1
  <2>1. new \in Conv /\ new.by = "start"
    BY DEF Conv, States
  <2> HIDE DEF new
  <2>2. convs' = Append(convs, new)
    BY <1>4 DEF StartCreate, new
  <2>3. /\ convs' \in Seq(Conv) /\ Len(convs') = last /\ DOMAIN convs' = 1..last
        /\ convs'[last] = new /\ \A c \in 1..Len(convs) : convs'[c] = convs[c]
    BY <1>1, <2>1, <2>2
  <2>4. /\ ~OpenedBy(convs', last)
        /\ \A c \in 1..Len(convs) : OpenedBy(convs', c) <=> OpenedBy(convs, c)
    BY <2>1, <2>3 DEF OpenedBy
  <2>5. OneOpened'
    BY <1>1, <2>3, <2>4 DEF OneOpened
  <2>6. WillOpen'
    <3> SUFFICES ASSUME NEW w \in Tasks, task'[w].pc = "write"
                 PROVE  /\ task'[w].conv \in 0..Len(convs')
                        /\ task'[w].conv = 0 => \A c \in DOMAIN convs' : ~OpenedBy(convs', c)
      BY DEF WillOpen
    <3>1. /\ task'[w].conv \in 0..Len(convs)
          /\ task'[w].conv = 0 => \A c \in 1..Len(convs) : ~OpenedBy(convs, c)
      BY <1>1, <1>4 DEF StartCreate, WillOpen
    <3>2. task'[w].conv = 0 => \A c \in 1..last : ~OpenedBy(convs', c)
      BY <1>1, <2>4, <3>1
    <3> QED
      BY <1>1, <2>3, <3>1, <3>2
  <2>7. Moved(convs') = Moved(convs) \union {last} /\ last \notin Moved(convs)
    BY <1>1, <2>3, <2>4 DEF Moved
  <2>8. Cardinality(Moved(convs')) = Cardinality(Moved(convs)) + 1
    BY <1>2, <2>7, FS_AddElement
  <2>9. Paid'
    BY <1>1, <1>2, <1>4, <2>8 DEF StartCreate, Paid
  <2>10. Len(convs') <= MaxConvs
    BY <1>1, <1>2, <1>4, <2>3 DEF StartCreate, Paid, MaxConvs
  <2>11. Len(convs) <= Len(convs') /\ moves' \in 0..MaxMoves /\ starting' \in BOOLEAN
    <3>1. starting' \in BOOLEAN
      BY <1>4, Zenon DEF StartCreate
    <3>2. Len(convs) <= Len(convs')
      BY <1>1, <2>3
    <3> QED
      BY <1>1, <1>4, <3>1, <3>2 DEF StartCreate
  <2>12. /\ TypeOK' /\ \A w \in Tasks : Position(w)'
         /\ OneOwner' /\ NotAskedYet' /\ AskedOnce' /\ KeyMeansDone'
    BY <1>4, <2>3, <2>10, <2>11, TasksKept DEF StartCreate
  <2> QED
    BY <2>5, <2>6, <2>9, <2>12
<1> QED
  BY <1>3, <1>4

-----------------------------------------------------------------------------
(* The theorems *)

LEMMA InitInv == Init => IInv
<1> SUFFICES ASSUME Init PROVE IInv
  OBVIOUS
<1>1. /\ convs = <<>> /\ DOMAIN convs = {} /\ \A w \in Tasks : task[w] = Idle
      /\ task \in [Tasks -> Task]
  BY IdleType DEF Init
<1>2. TypeOK
  <2>1. convs \in Seq(Conv) /\ Len(convs) = 0 /\ 0 <= MaxConvs
    BY <1>1, InboundAssumption DEF MaxConvs
  <2>2. /\ stored \in [Messages -> 0..Len(convs)] /\ requests \in [Messages -> Nat]
        /\ {0} \subseteq (0..MaxRepeats) \cap (0..MaxMoves) \cap (0..MaxFaults)
    BY <2>1, InboundAssumption DEF Init
  <2>3. \A w \in Tasks : /\ task[w].at \in DOMAIN task[w].payload
                         /\ rowLock = w <=> task[w].pc = "write"
    BY <1>1, IdleType, InboundAssumption DEF Init
  <2> QED
    BY <1>1, <2>1, <2>2, <2>3 DEF Init, TypeOK
<1>3. /\ \A w \in Tasks : Position(w)
      /\ OneOwner /\ NotAskedYet /\ AskedOnce /\ KeyMeansDone /\ OneOpened /\ WillOpen
  BY <1>1, IdleType
     DEF Init, Position, Stored, OneOwner, NotAskedYet, AskedOnce, KeyMeansDone,
         OneOpened, WillOpen
<1>4. Paid
  <2>1. Moved(convs) = {}
    BY <1>1 DEF Moved
  <2> QED
    BY <2>1, FS_EmptySet DEF Init, Paid
<1> QED
  BY <1>2, <1>3, <1>4 DEF IInv

LEMMA NextInv == IInv /\ [Next]_vars => IInv'
<1> SUFFICES ASSUME IInv, [Next]_vars PROVE IInv'
  OBVIOUS
<1>1. CASE UNCHANGED vars
  BY <1>1 DEF IInv, vars, rows, others, TypeOK, Position, Stored, Msg, OneOwner,
     NotAskedYet, AskedOnce, KeyMeansDone, OneOpened, OpenedBy, WillOpen, Paid, Moved
<1> QED
  BY <1>1, WebhookKeeps, StepKeeps, EndKeeps, HumanMovesKeeps, StartKeeps DEF Next

\* Workers open one conversation between them.
LEMMA OneIsOpen == IInv => OneInboundConversation
<1> SUFFICES ASSUME IInv PROVE OneInboundConversation
  OBVIOUS
<1> DEFINE S == {c \in Open : convs[c].by = "inbound"}
<1>1. \A c, d \in S : c = d
  BY DEF IInv, OneOpened, OpenedBy, Open
<1> HIDE DEF S
<1>2. Cardinality(S) <= 1
  BY <1>1, AtMostOne
<1> QED
  BY <1>2 DEF OneInboundConversation, S

LEMMA Invariant == Spec => []IInv
BY InitInv, NextInv, PTL DEF Spec

\* However many tasks handle the messages of a contact, and whatever is delivered
\* again, retried or cut off: the AI is asked at most once about a message, a
\* message with a dedup key is done with, and one conversation is opened.
THEOREM MessagesHandledOnce == Spec => []EachMessageOnce
<1>1. IInv => EachMessageOnce
  BY OneIsOpen DEF IInv, EachMessageOnce
<1> QED
  BY <1>1, Invariant, PTL

\* A message that is stored and has not been finished with has one task.
THEOREM OneTaskPerMessage == Spec => []OneOwner
BY Invariant, PTL DEF IInv
=============================================================================
