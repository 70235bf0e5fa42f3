------------------------------- MODULE Threads -------------------------------
(***************************************************************************)
(* What agents do with the conversations and messages of the inbox: they   *)
(* page through it, open a conversation, start one with a template, send,  *)
(* forward and delete messages, while customers write and the workers hand *)
(* over what is queued.                                                    *)
(*                                                                         *)
(* moment counts what customers write and agents look at: the clocks of    *)
(* Meta, the API and the workers agree.  Of the states of a conversation   *)
(* there are those that the inbox is filtered by; their transitions are    *)
(* those of module Conversation, here only the first and the last.  The    *)
(* outcomes of a send other than success are those of module Delivery.     *)
(***************************************************************************)
EXTENDS Tags, Media, FiniteSetsExt

CONSTANTS
    ThreadPage      \* messages on the page of a conversation, 50 in the code

ASSUME ThreadsAssumption == ThreadPage \in Nat

VARIABLES
    convs,          \* conversations, by id
    msgs,           \* messages, by id
    sending,        \* send_outbound_message_task: "queued" or "called", by message
    deleting,       \* request_meta_deletion_task: messages
    atMeta,         \* how Meta got the messages that it has: "media", "text"
    removed,        \* those that Meta has deleted, or refuses to
    moment,
    shown,          \* messages that an agent has had before him
    forwards        \* how often each message was read to be forwarded

threadState == <<convs, msgs, mediaState, sending, deleting, atMeta, removed, moment, shown, forwards>>
tasks == <<sending, deleting, atMeta, removed>>
looks == <<moment, shown, forwards>>

ConversationState == {"NEW", "AI_ACTIVE", "AWAITING_APPROVAL", "HUMAN_ASSIGNED", "CLOSED"}
Conversation == [contact: Nat, state: ConversationState, holder: Agents \union {Nobody},
                 read: Nat, last: Nat]
\* source: context_message_id; deleted_for_everyone: at which delivery status.
Message == [conv: Nat, direction: {"inbound", "outbound"}, at: Nat, status: {"QUEUED", "SENT", "DELIVERED", "FAILED"},
            media: BOOLEAN, source: Nat, deleted_by: BOOLEAN, deleted_for_everyone: {"no", "QUEUED", "SENT", "DELIVERED", "FAILED"}]

NewConversation(contact) ==
    [contact |-> contact, state |-> "NEW", holder |-> Nobody, read |-> 0, last |-> 0]
NewMessage(conv, direction, at, status, media, source) ==
    [conv |-> conv, direction |-> direction, at |-> at, status |-> status, media |-> media,
     source |-> source, deleted_by |-> FALSE, deleted_for_everyone |-> "no"]
Queued(conv, media, source) == NewMessage(conv, "outbound", moment, "QUEUED", media, source)

InitThreads(threads) ==
    /\ convs = threads.convs /\ msgs = threads.msgs /\ InitMedia(threads.assets)
    /\ sending = [m \in {x \in DOMAIN msgs : msgs[x].status = "QUEUED"} |-> "queued"]
    /\ deleting = {} /\ removed = {} /\ shown = {} /\ forwards = <<>>
    /\ atMeta = [m \in {x \in DOMAIN msgs : msgs[x].status = "SENT"} |-> "media"]
    /\ moment = 1

MaxOr0(S) == Max(S \union {0})
NextConv == MaxOr0(DOMAIN convs) + 1
NextMsg  == MaxOr0(DOMAIN msgs) + 1

\* Fault: a conversation that is in progress is not found.
OnlyNew(contact) ==
    MaxOr0({c \in DOMAIN convs : convs[c].contact = contact /\ convs[c].state = "NEW"})
\* The newest that is not closed, or 0.
get_open_for_contact(contact) ==
    MaxOr0({c \in DOMAIN convs : convs[c].contact = contact /\ convs[c].state # "CLOSED"})

-----------------------------------------------------------------------------
(* A customer writes, and a worker stores it later: _persist_inbound *)

CustomerWrites(q) ==
    /\ IF q.id \notin DOMAIN rows THEN Refuse(q) /\ UNCHANGED <<moment, mediaState>>
       ELSE \E fetched \in Fetches(q) :
            /\ Begin(q, [pc |-> "written", at |-> moment + 1, fetched |-> fetched])
            /\ moment' = moment + 1 /\ prefetch_inbound_media(q, fetched)
    /\ UNCHANGED <<convs, msgs, tasks, shown, forwards>>

\* The update of the contact keeps other workers waiting until the commit.
FindConversation(q) ==
    /\ open[q].pc = "written" /\ q.id \in DOMAIN rows
    /\ ~ \E p \in DOMAIN open : p.op = "receive" /\ p.id = q.id /\ open[p].pc = "found"
    /\ LET c == get_open_for_contact(q.id) IN
       Proceed(q, [pc |-> "found", at |-> open[q].at, fetched |-> open[q].fetched, conv |-> c,
                   state |-> IF c = 0 THEN "NEW" ELSE convs[c].state])
    /\ UNCHANGED threadState

\* A new conversation goes to the AI, or to the human that the contact has.
Activated(contact) == IF rows[contact].ai \/ rows[contact].agent = Nobody THEN "AI_ACTIVE" ELSE "HUMAN_ASSIGNED"

\* The conversation that was found, or a new one.
With(found, contact) == IF found = 0 THEN Added(convs, NextConv, NewConversation(contact)) ELSE convs
Chosen(found) == IF found = 0 THEN NextConv ELSE found

\* The message and its time, which is the customer's; a NEW conversation that is
\* no longer new makes the task try again.
persist_inbound(q) ==
    /\ open[q].pc = "found"
    /\ LET found == open[q].conv   c == Chosen(found) IN
       IF found # 0 /\ open[q].state = "NEW" /\ convs[c].state # "NEW"
       THEN Proceed(q, [pc |-> "written", at |-> open[q].at, fetched |-> open[q].fetched])
            /\ UNCHANGED <<convs, msgs, mediaState>>
       ELSE /\ Commit(q)
            /\ convs' = [With(found, q.id) EXCEPT
                  ![c].last = open[q].at,
                  ![c].state = IF open[q].state = "NEW" THEN Activated(q.id) ELSE @]
            /\ msgs' = Added(msgs, NextMsg, NewMessage(c, "inbound", open[q].at, "DELIVERED", q.asset # 0, 0))
            /\ _download_and_store_media(q, NextMsg, open[q].fetched)
    /\ UNCHANGED <<tasks, looks>>

-----------------------------------------------------------------------------
(* An agent starts a conversation, sends, and forwards.  A message is      *)
(* committed before its task is published, and the process may die between.*)

Queue(ms, dies) == sending' = IF dies THEN sending ELSE Over([m \in ms |-> "queued"], sending)

StartRead(q) ==
    /\ IF q.id \notin DOMAIN rows THEN Refuse(q)
       ELSE Begin(q, [pc |-> "start", conv |-> get_open_for_contact(q.id)])
    /\ UNCHANGED threadState
start_conversation_with_template(q) ==
    /\ IF open[q].conv \notin DOMAIN convs \union {0} \/ q.id \notin DOMAIN rows
       THEN Fail(q) /\ UNCHANGED <<convs, msgs, sending>>
       ELSE /\ Commit(q)
            /\ convs' = With(open[q].conv, q.id)
            /\ msgs' = Added(msgs, NextMsg, Queued(Chosen(open[q].conv), FALSE, 0))
            /\ Queue({NextMsg}, q.dies)
    /\ UNCHANGED <<mediaState, deleting, atMeta, removed, looks>>

Closed(c) == c \notin DOMAIN convs \/ convs[c].state = "CLOSED"

ComposeRead(q) ==
    /\ IF Closed(q.to) THEN Refuse(q) ELSE Begin(q, [pc |-> "send"])
    /\ UNCHANGED threadState
\* With a file that was uploaded before.
send_message(q) ==
    /\ IF q.to \notin DOMAIN convs THEN Fail(q) /\ UNCHANGED <<msgs, mediaState, sending>>
       ELSE /\ Commit(q)
            /\ msgs' = Added(msgs, NextMsg, Queued(q.to, q.asset \in DOMAIN assets, 0))
            /\ assets' = [a \in DOMAIN assets |-> IF a = q.asset THEN NextMsg ELSE assets[a]]
            /\ Queue({NextMsg}, q.dies)
    /\ UNCHANGED <<convs, kept, disk, deleting, atMeta, removed, looks>>

\* The messages that are there, and where their assets are.
ForwardRead(q) ==
    LET found == {i \in DOMAIN q.msgs : q.msgs[i] \in DOMAIN msgs} IN
    /\ IF Closed(q.to) THEN Refuse(q) /\ UNCHANGED forwards
       ELSE /\ Begin(q, [pc |-> "forward", found |-> found, media |-> [i \in found |-> msgs[q.msgs[i]].media],
                         assets |-> [i \in found |-> {a \in DOMAIN assets : assets[a] = q.msgs[i]}]])
            /\ forwards' = [m \in DOMAIN forwards \union {q.msgs[i] : i \in found} |->
                  (IF m \in DOMAIN forwards THEN forwards[m] ELSE 0)
                  + (IF \E i \in found : q.msgs[i] = m THEN 1 ELSE 0)]
    /\ UNCHANGED <<convs, msgs, mediaState, tasks, moment, shown>>

CopyOf(i) == NextMsg + i - 1
\* Fault: the assets stay where they are.
AssetsStay(q) == assets
\* The asset of a message that is copied goes over to the copy.
HandedOn(q) == [a \in DOMAIN assets |->
    LET by == {i \in open[q].found : a \in open[q].assets[i]} IN
    IF by = {} THEN assets[a] ELSE CopyOf(Max(by))]

forward_message(q) ==
    LET copies == {CopyOf(i) : i \in open[q].found}   of(m) == m - NextMsg + 1 IN
    /\ IF q.to \notin DOMAIN convs \/ \E i \in open[q].found : q.msgs[i] \notin DOMAIN msgs
       THEN Fail(q) /\ UNCHANGED <<msgs, mediaState, sending>>
       ELSE /\ Commit(q)
            /\ msgs' = Over(msgs, [m \in copies |-> Queued(q.to, open[q].media[of(m)], q.msgs[of(m)])])
            /\ assets' = HandedOn(q)
            /\ Queue(copies, FALSE)
    /\ UNCHANGED <<convs, kept, disk, deleting, atMeta, removed, looks>>

-----------------------------------------------------------------------------
(* An agent deletes messages, opens a conversation and closes one *)

Publish(ms, dies) == deleting' = IF dies THEN deleting ELSE deleting \union ms

DeletionRead(q) == Begin(q, [pc |-> "delete"]) /\ UNCHANGED threadState
\* Fault: the scopes are mixed up.
DeletedForMe(q) == IF q.scope = "for_me" THEN q.ids ELSE {}
ToBeDeleted(q)  == IF q.scope = "for_everyone" THEN q.ids ELSE {}

\* Whatever was sent already is to be deleted at Meta, by a task of its own.
delete_messages(q) ==
    LET everyone == q.scope = "for_everyone"   found == q.ids \intersect DOMAIN msgs IN
    /\ Commit(q)
    /\ msgs' = [m \in DOMAIN msgs |->
          IF m \notin found THEN msgs[m]
          ELSE [msgs[m] EXCEPT !.deleted_by = TRUE,
                               !.deleted_for_everyone = IF everyone THEN msgs[m].status ELSE @]]
    /\ Publish(ToBeDeleted(q), q.dies)
    /\ UNCHANGED <<convs, mediaState, sending, atMeta, removed, looks>>

\* Fault: a conversation is read up to its last message.
ReadToLast(q) == convs' = [convs EXCEPT ![q.conv].read = convs[q.conv].last]
mark_read(q) == convs' = [convs EXCEPT ![q.conv].read = moment + 1]

\* It answers without the messages.
get_conversation(q) ==
    /\ IF q.conv \notin DOMAIN convs THEN UNCHANGED <<convs, moment>>
       ELSE mark_read(q) /\ moment' = moment + 1
    /\ UNCHANGED <<msgs, mediaState, tasks, shown, forwards>>

\* The newest, those of one time in some order.  No message that was deleted is left
\* out: the time of its deletion is compared with the agent's id.
Newest(c) == LET listed == {m \in DOMAIN msgs : msgs[m].conv = c} IN
    {L \in SUBSET listed :
       /\ Cardinality(L) = Min({ThreadPage, Cardinality(listed)})
       /\ \A m \in L, n \in listed \ L : msgs[m].at >= msgs[n].at}

\* It marks nothing.
list_messages(q) ==
    /\ \E L \in Newest(q.conv) : shown' = shown \union L
    /\ UNCHANGED <<convs, msgs, mediaState, tasks, moment, forwards>>

close_conversation(q) ==
    /\ IF Closed(q.conv) THEN Refuse(q) /\ UNCHANGED convs
       ELSE AtOnce(q) /\ convs' = [convs EXCEPT ![q.conv].state = "CLOSED", ![q.conv].holder = Nobody]
    /\ UNCHANGED <<msgs, mediaState, tasks, looks>>

-----------------------------------------------------------------------------
(* The workers: a message goes to Meta, and is SENT; a deletion *)

\* What is not QUEUED, or gone, is left alone; a message whose file is not to be
\* had fails for good.
MetaSend(m) ==
    /\ m \in DOMAIN sending /\ sending[m] = "queued"
    /\ LET sendable == m \in DOMAIN msgs /\ msgs[m].status = "QUEUED"
           there == _ensure_media_file_on_disk(Attached(m)) IN
       IF sendable /\ there
       THEN /\ atMeta' = Added(atMeta, m, IF Attached(m) # {} THEN "media" ELSE "text")
            /\ sending' = [sending EXCEPT ![m] = "called"]
            /\ WrittenToDisk(Attached(m)) /\ UNCHANGED msgs
       ELSE /\ sending' = Without(sending, {m})
            /\ msgs' = IF sendable THEN [msgs EXCEPT ![m].status = "FAILED"] ELSE msgs
            /\ UNCHANGED <<atMeta, disk>>
    /\ UNCHANGED <<convs, assets, kept, deleting, removed, looks>>

touch_last_message(c) == convs' = [convs EXCEPT ![c].last = moment]
RecordSent(m) ==
    /\ m \in DOMAIN sending /\ sending[m] = "called"
    /\ sending' = Without(sending, {m})
    /\ IF m \in DOMAIN msgs
       THEN msgs' = [msgs EXCEPT ![m].status = "SENT"] /\ touch_last_message(msgs[m].conv)
       ELSE UNCHANGED <<msgs, convs>>
    /\ UNCHANGED <<mediaState, deleting, atMeta, removed, looks>>

\* A message without an id at Meta was never sent.
HasMetaId(m) == m \in DOMAIN msgs /\ msgs[m].status \notin {"QUEUED", "FAILED"}
request_meta_deletion(m) ==
    /\ m \in deleting /\ deleting' = deleting \ {m}
    /\ removed' = IF HasMetaId(m) THEN removed \union {m} ELSE removed
    /\ UNCHANGED <<convs, msgs, mediaState, sending, atMeta, looks>>

-----------------------------------------------------------------------------
(* The inbox *)

Tagged(contact, tag) == Link(contact, tag) \in links
\* The conversations that a filter lets through: its parts are optional.
list_inbox(f) == {c \in DOMAIN convs :
    LET contact == convs[c].contact IN
    /\ contact \in DOMAIN rows
    /\ "states" \in DOMAIN f => convs[c].state \in f.states
    /\ "contact" \in DOMAIN f => contact = f.contact
    /\ "tag" \in DOMAIN f => Tagged(contact, f.tag)
    /\ "agent" \in DOMAIN f => f.agent \in {convs[c].holder, rows[contact].agent}
    /\ "text" \in DOMAIN f => f.text \in {rows[contact].name, rows[contact].phone}}

\* The order of the rows, newest first; a conversation without messages is last.
Above(c, d) == \/ convs[c].last > convs[d].last
               \/ convs[c].last = convs[d].last /\ c > d

unread(c) == \E m \in DOMAIN msgs :
    msgs[m].conv = c /\ msgs[m].direction = "inbound" /\ msgs[m].at > convs[c].read

NeedsHuman == {"AWAITING_APPROVAL", "HUMAN_ASSIGNED"}
count_needs_human == Cardinality({c \in DOMAIN convs : convs[c].state \in NeedsHuman})

Lasts(f) == [c \in list_inbox(f) |-> convs[c].last]
ListStart(q) ==
    /\ Begin(q, [pc |-> "list", offset |-> 0, shown |-> {}, still |-> list_inbox(q.filter),
                 lasts |-> Lasts(q.filter), fell |-> FALSE])
    /\ UNCHANGED threadState

\* Fault: the rows come oldest first.
OldestFirst(S, offset) == {c \in S : Cardinality({d \in S : Above(c, d)}) = offset}
page(S, offset) == {c \in S : Cardinality({d \in S : Above(d, c)}) = offset}

\* The next page, of one row.  still: untouched since the start; fell: a row
\* has left the list, or gone down in it, since the page before.
ListPage(q) ==
    /\ open[q].pc = "list"
    /\ LET now  == Lasts(q.filter)   was == open[q].lasts
           rowsNow == page(DOMAIN now, open[q].offset)
           new  == [open[q] EXCEPT
              !.pc = IF rowsNow = {} THEN "end" ELSE "list", !.offset = @ + 1, !.lasts = now,
              !.shown = @ \union rowsNow,
              !.still = {c \in @ : c \in DOMAIN now /\ now[c] = was[c]},
              !.fell = @ \/ \E c \in DOMAIN was : c \notin DOMAIN now \/ now[c] < was[c]]
       IN  Proceed(q, new)
    /\ UNCHANGED threadState

-----------------------------------------------------------------------------
Receive(q) == q.op = "receive" /\ (\/ q \in todo /\ CustomerWrites(q)
                                   \/ q \in DOMAIN open /\ (FindConversation(q) \/ persist_inbound(q)))
PostStart(q) == q.op = "start" /\ (\/ q \in todo /\ StartRead(q)
                                   \/ q \in DOMAIN open /\ start_conversation_with_template(q))
PostSend(q) == q.op = "sendMessage" /\ (\/ q \in todo /\ ComposeRead(q)
                                        \/ q \in DOMAIN open /\ send_message(q))
bulk_forward(q) == q.op = "forward" /\ (\/ q \in todo /\ ForwardRead(q)
                                        \/ q \in DOMAIN open /\ forward_message(q))
PostDeletion(q) == q.op = "deleteMessages" /\ (\/ q \in todo /\ DeletionRead(q)
                                               \/ q \in DOMAIN open /\ delete_messages(q))
\* An agent opens a conversation: his browser sends both requests at the same time.
loadThread(q) == q.op = "open" /\
    (\/ Begin(q, [pc |-> "marked"]) /\ get_conversation(q)
     \/ Begin(q, [pc |-> "listed"]) /\ list_messages(q)
     \/ Commit(q) /\ open[q].pc = "listed" /\ get_conversation(q)
     \/ Commit(q) /\ open[q].pc = "marked" /\ list_messages(q))
PostClose(q) == q.op = "close" /\ q \in todo /\ close_conversation(q)
PostMedia(q) == /\ q.op = "upload" /\ q \in todo /\ upload(q)
                /\ UNCHANGED <<convs, msgs, tasks, looks>>
GetInbox(q) == q.op = "inbox" /\ (\/ q \in todo /\ ListStart(q)
                                  \/ q \in DOMAIN open /\ ListPage(q))

ThreadRequest(q) ==
    /\ \/ Receive(q) \/ PostStart(q) \/ PostSend(q) \/ bulk_forward(q) \/ PostDeletion(q)
       \/ PostMedia(q) \/ loadThread(q) \/ PostClose(q) \/ GetInbox(q)
    /\ UNCHANGED <<contactState, tagState>>

\* A worker goes on with a message.
HandOver(m) == MetaSend(m) \/ RecordSent(m) \/ request_meta_deletion(m)

\* Fault: the conversations of a contact stay.
ThreadsStay(gone) == UNCHANGED threadState
\* The conversations of contacts go with them, their messages with these; the
\* assets stay behind without a message.
ThreadsWithout(gone) ==
    LET cs == {c \in DOMAIN convs : convs[c].contact \in gone}
        ms == {m \in DOMAIN msgs : msgs[m].conv \in cs}
    IN  /\ convs' = Without(convs, cs)
        /\ msgs' = Without(msgs, ms)
        /\ assets' = [a \in DOMAIN assets |-> IF assets[a] \in ms THEN 0 ELSE assets[a]]
        /\ UNCHANGED <<kept, disk, tasks, looks>>

-----------------------------------------------------------------------------
(* Properties *)

\* While nobody is opening a conversation it is marked as unread because of those of
\* its messages that no agent has had before him.  The mark is wrong of no more
\* messages than came in while an agent opened the conversation: what he is shown
\* and what he is taken to have read are two requests.  Who opens it is shown a page,
\* and is taken to have read what is further back.
WronglyMarked(c) == {m \in DOMAIN msgs :
    /\ msgs[m].conv = c /\ msgs[m].direction = "inbound"
    /\ (m \in shown) = (msgs[m].at > convs[c].read)}
FurtherBack(m) ==
    Cardinality({n \in DOMAIN msgs \ {m} : msgs[n].conv = msgs[m].conv /\ msgs[n].at >= msgs[m].at}) >= ThreadPage
Opening(c) == {q \in done \union DOMAIN open : q.op = "open" /\ q.conv = c}

UnreadIsUnseen == \A c \in DOMAIN convs : LET opened == Opening(c) IN
    \/ opened \intersect DOMAIN open # {}
    \/ Cardinality({m \in WronglyMarked(c) : m \in shown \/ ~FurtherBack(m)})
       <= Cardinality({p \in done : /\ p.op = "receive" /\ p.id = convs[c].contact
                                    /\ \E q \in opened : Overlapped(p, q)})

\* A contact has one open conversation, however the requests overlap, unless an
\* agent started one with a template while another request was about to create one.
OneOpenConversation == \A c, d \in DOMAIN convs :
    /\ c # d /\ convs[c].contact = convs[d].contact /\ convs[c].state # "CLOSED" /\ convs[d].state # "CLOSED"
    => \E p, q \in done : p # q /\ p.op = "start" /\ q.op \in {"start", "receive"} /\ Overlapped(p, q)

\* A message with a file reaches Meta with it, unless the message was forwarded
\* before it was sent, or one it was copied from was forwarded more than once:
\* the file is with the last copy; or nobody could fetch the file when it came in.
ForwardedTwice[m \in DOMAIN msgs] ==
    \/ m \in DOMAIN forwards /\ forwards[m] > 1
    \/ msgs[m].source \in DOMAIN msgs /\ ForwardedTwice[msgs[m].source]
MediaGoesOut == \A m \in DOMAIN msgs \intersect DOMAIN atMeta :
    msgs[m].media /\ atMeta[m] = "text" =>
        \/ m \in DOMAIN forwards \/ ForwardedTwice[m]
        \/ \E q \in done : q.op = "receive" /\ q.asset \notin DOMAIN assets \union {0}

\* A message with an uploaded file never fails for want of the file, whichever
\* process sends it: this is so only of files that a customer has sent.
UploadsGoOut == \A q \in done : q.op = "upload" /\ assets[q.asset] \in DOMAIN msgs =>
    msgs[assets[q.asset]].status # "FAILED"

\* The file of a message is shown to agents, unless the API could not fetch it when
\* it came in and a worker did, or Meta's copy of it is all that there is.
FilesAreShown == \A a \in DOMAIN assets :
    serve_media(a) \/ (a \notin kept /\ File("worker", a) \in disk)

\* The number of conversations that wait for a human is the number of those that
\* the inbox shows under these states, also after contacts were deleted.
BadgeAgrees == count_needs_human = Cardinality(list_inbox([states |-> NeedsHuman]))

\* Who turns the pages of the inbox to the end has seen every conversation that
\* was in it all the time and got no message, unless another one left the list or
\* went down in it: new messages alone never hide a conversation.
PagesShowAll == \A q \in DOMAIN open :
    q.op = "inbox" /\ open[q].pc = "end" => open[q].fell \/ open[q].still \subseteq open[q].shown

\* What an agent deletes for everyone after it was sent is asked of Meta in the
\* end, unless the API dies between the commit and the task.
DeletedIsGone == <>[](\A m \in DOMAIN msgs :
    msgs[m].deleted_for_everyone \in {"SENT", "DELIVERED"} =>
       m \in removed \/ \E q \in done : q.op = "deleteMessages" /\ q.dies /\ m \in q.ids)
=============================================================================
