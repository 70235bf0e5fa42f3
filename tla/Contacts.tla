------------------------------ MODULE Contacts ------------------------------
(***************************************************************************)
(* The contacts: their creation and upserts by phone, the agents' patches, *)
(* the CSV import, deletion, and what messages do to them: a send marks a  *)
(* contact as contacted, an inbound message is its reply, and the sweep    *)
(* moves those that do not reply to follow_up.                             *)
(*                                                                         *)
(* An ORM update writes the columns whose value differs from the one that  *)
(* was read, onto whatever the row holds by then.  A name that is "" is    *)
(* NULL.  The information of a contact is the set of the notes in it.      *)
(***************************************************************************)
EXTENDS Requests

CONSTANTS
    Phones, Agents, Nobody,
    Window,             \* the silence after which the sweep takes a contact
    MaxTime             \* the end of the clock (a bound)

ASSUME ContactsAssumption == Window \in Nat /\ MaxTime \in Nat /\ Nobody \notin Agents

ContactStatus == {"active", "inactive", "blocked", "contacted", "follow_up", "interested",
                  "not_interested"}

VARIABLES
    rows,           \* contacts, by id
    ids,            \* ids given so far
    clock,
    heard,          \* contacts that have written since their last message was handed over
    overtaken       \* contacts whose reply was stored before that message was marked as sent

contactState == <<rows, ids, clock, heard, overtaken>>

Contact == [phone: Phones, name: STRING, status: ContactStatus, agent: Agents \union {Nobody},
            ai: BOOLEAN, info: SUBSET STRING, contacted: 0..MaxTime, inbound: 0..MaxTime]

\* Longer than the column; nothing but the CSV import lets it through.
LongName == "<overlong>"

NewContact(phone, name, info) ==
    [phone |-> phone, name |-> name, status |-> "active", agent |-> Nobody, ai |-> FALSE,
     info |-> info, contacted |-> 0, inbound |-> 0]

NoteSet(note) == {note} \ {""}

InitContacts ==
    /\ ids = Cardinality(DOMAIN rows)
    /\ heard = {} /\ overtaken = {}

-----------------------------------------------------------------------------
(* Reading and writing rows *)

get_by_phone(phone) == {i \in DOMAIN rows : rows[i].phone = phone}
Seen(i) == [id |-> i, row |-> rows[i]]
Nothing == [id |-> 0]
SeenByPhone(phone) == IF get_by_phone(phone) = {} THEN Nothing
                      ELSE Seen(CHOOSE i \in get_by_phone(phone) : TRUE)

\* What is written of new, where old was read and row is there now.
Written(new, old, row) == [f \in DOMAIN row |->
                             IF f \in DOMAIN new /\ new[f] # old[f] THEN new[f] ELSE row[f]]
Changes(new, old) == \E f \in DOMAIN new : new[f] # old[f]

Insert(row) == rows' = Added(rows, ids + 1, row) /\ ids' = ids + 1

-----------------------------------------------------------------------------
(* Creation, and the upsert that appends *)

\* Fault: a patch may set both.
_normalize_nothing(patch) == patch
_normalize_assignment(patch) ==
    IF "ai" \in DOMAIN patch /\ patch.ai THEN Over([agent |-> Nobody], patch)
    ELSE IF "agent" \in DOMAIN patch /\ patch.agent # Nobody THEN Over([ai |-> FALSE], patch)
    ELSE patch

CreateCheck(q) ==
    /\ IF get_by_phone(q.phone) # {} THEN Refuse(q) ELSE Begin(q, Nothing)
    /\ UNCHANGED contactState
create_contact(q) ==
    /\ IF get_by_phone(q.phone) # {} THEN Fail(q) /\ UNCHANGED <<rows, ids>>
       ELSE /\ Commit(q)
            /\ Insert(Over(_normalize_assignment([agent |-> q.agent, ai |-> q.ai]), NewContact(q.phone, q.name, {})))
    /\ UNCHANGED <<clock, heard, overtaken>>

UpsertRead(q) == Begin(q, SeenByPhone(q.phone)) /\ UNCHANGED contactState

\* The name and the note, added to what was read.
Appended(q, old) == [name |-> IF old.name = "" THEN q.name ELSE old.name,
                     info |-> old.info \union NoteSet(q.info)]

\* Fault: the row that another has inserted meanwhile is returned as it is.
AppendLate(q, i) == UNCHANGED rows
\* Read once more after the violation of the unique index.
AppendAgain(q, i) == rows' = [rows EXCEPT ![i] = Written(Appended(q, @), @, @)]

\* Fault: an insert that another precedes is an error.
AppendOnce(q) ==
    /\ LET old == open[q] IN
       IF old.id # 0
       THEN /\ Commit(q) /\ UNCHANGED ids
            /\ rows' = [i \in DOMAIN rows |-> IF i = old.id THEN Written(Appended(q, old.row), old.row, rows[i])
                                               ELSE rows[i]]
       ELSE IF get_by_phone(q.phone) # {} THEN Fail(q) /\ UNCHANGED <<rows, ids>>
       ELSE Commit(q) /\ Insert(NewContact(q.phone, q.name, NoteSet(q.info)))
    /\ UNCHANGED <<clock, heard, overtaken>>
upsert_by_phone_append(q) ==
    /\ LET old == open[q] IN
       IF old.id # 0
       THEN /\ UNCHANGED ids
            /\ LET new == Appended(q, old.row) IN
               IF old.id \in DOMAIN rows
               THEN Commit(q) /\ rows' = [rows EXCEPT ![old.id] = Written(new, old.row, @)]
               ELSE UNCHANGED rows /\ IF Changes(new, old.row) THEN Fail(q) ELSE Commit(q)
       ELSE /\ Commit(q)
            /\ IF get_by_phone(q.phone) = {} THEN Insert(NewContact(q.phone, q.name, NoteSet(q.info)))
               ELSE AppendAgain(q, CHOOSE i \in get_by_phone(q.phone) : TRUE) /\ UNCHANGED ids
    /\ UNCHANGED <<clock, heard, overtaken>>

-----------------------------------------------------------------------------
(* Patches of one contact or many, and deletion *)

UpdateRead(q) ==
    /\ IF q.ids \intersect DOMAIN rows = {} \/ q.patch = <<>> THEN Refuse(q)
       ELSE Begin(q, Restrict(rows, q.ids \intersect DOMAIN rows))
    /\ UNCHANGED contactState

\* The contacts of the ids that were found are patched, the others skipped; a
\* row that is gone by then ends the request, if there is anything to change.
bulk_update(q) ==
    /\ LET old == open[q]   new == _normalize_assignment(q.patch) IN
       IF \E i \in DOMAIN old \ DOMAIN rows : Changes(new, old[i])
       THEN Fail(q) /\ UNCHANGED rows
       ELSE /\ Commit(q)
            /\ rows' = [i \in DOMAIN rows |->
                          IF i \in DOMAIN old THEN Written(new, old[i], rows[i]) ELSE rows[i]]
    /\ UNCHANGED <<ids, clock, heard, overtaken>>
update_contact(q) == bulk_update(q)

DeleteRead(q) == Begin(q, q.ids \intersect DOMAIN rows) /\ UNCHANGED contactState
bulk_delete(q) == Commit(q) /\ rows' = Without(rows, open[q])
                  /\ UNCHANGED <<ids, clock, heard, overtaken>>

-----------------------------------------------------------------------------
(* The CSV import *)

ImportRead(q) == Begin(q, [phone \in {r.phone : r \in q.rows} |-> SeenByPhone(phone)])
                 /\ UNCHANGED contactState

\* An overlong name: a new contact is skipped, the savepoint keeps the rest; for
\* a contact that is there the flush fails outside a savepoint, and the session
\* with it, as it does when the row is gone.
Breaks(q, r) ==
    LET old == open[q][r.phone] IN
    /\ r.name # ""
    /\ \/ old.id # 0 /\ r.name # old.row.name /\ (r.name = LongName \/ old.id \notin DOMAIN rows)
       \/ old.id = 0 /\ r.name = LongName /\ get_by_phone(r.phone) # {}

\* Fault: the name in the file is for new contacts only.
NamedIfNew(r, old, row) == row
Named(r, old, row) == IF r.name = "" THEN row ELSE Written([name |-> r.name], old, row)

\* A row that another has inserted meanwhile is read once more.
ImportedRow(q, i) ==
    LET r == CHOOSE x \in q.rows : x.phone = rows[i].phone
        old == open[q][r.phone]
    IN  Named(r, IF old.id = 0 THEN rows[i] ELSE old.row, rows[i])
Absent(q) == {r \in q.rows : get_by_phone(r.phone) = {} /\ open[q][r.phone].id = 0
                             /\ r.name # LongName}
\* Contacts of the file, which are those that q has read, or that it reads now.
FoundBy(q) == {i \in DOMAIN rows : /\ rows[i].phone \in {r.phone : r \in q.rows}
                                   /\ open[q][rows[i].phone].id \in {0, i}}
Imported(q, order) == Over([i \in DOMAIN rows |-> IF i \in FoundBy(q) THEN ImportedRow(q, i) ELSE rows[i]],
                           [i \in DOMAIN order |-> NewContact(order[i].phone, order[i].name, {})])

import_csv(q) ==
    /\ IF \E r \in q.rows : Breaks(q, r) THEN Fail(q) /\ UNCHANGED <<rows, ids>>
       ELSE /\ Commit(q) /\ ids' = ids + Cardinality(Absent(q))
            /\ \E order \in Bijection((ids + 1)..ids', Absent(q)) : rows' = Imported(q, order)
    /\ UNCHANGED <<clock, heard, overtaken>>

-----------------------------------------------------------------------------
(* The AI fills in what nobody has noted, from the contact's messages, before *)
(* it answers: it asks the model for seconds, and commits with its answer.    *)

\* Fault: whether there is any information is not asked.
ExtractAnyway(q) ==
    /\ IF q.id \notin DOMAIN rows THEN Refuse(q) ELSE Begin(q, Seen(q.id))
    /\ UNCHANGED contactState
ExtractRead(q) ==
    /\ IF q.id \notin DOMAIN rows \/ rows[q.id].info # {} THEN Refuse(q) ELSE Begin(q, Seen(q.id))
    /\ UNCHANGED contactState

\* The model does not answer, or the AI's transaction is rolled back.
_extract_information_direct(q) == Drop(q) /\ UNCHANGED contactState

\* What is there by now is not looked at again.
_ensure_contact_information(q) ==
    /\ IF q.id \notin DOMAIN rows THEN Fail(q) /\ UNCHANGED rows
       ELSE Commit(q) /\ rows' = [rows EXCEPT ![q.id].info = NoteSet(q.found)]
    /\ UNCHANGED <<ids, clock, heard, overtaken>>

-----------------------------------------------------------------------------
(* Messages and the sweep *)

\* upsert_by_phone without a name: an insert that another precedes is a reading.
InboundCommit(q) ==
    /\ LET old == open[q]   there == get_by_phone(q.phone)
           Heard(i) == /\ rows' = [rows EXCEPT ![i].inbound = clock] /\ UNCHANGED ids
                       /\ heard' = heard \union {i}
       IN  \/ /\ old.id # 0 /\ Commit(q)
              /\ IF old.id \in DOMAIN rows THEN Heard(old.id) ELSE UNCHANGED <<rows, ids, heard>>
           \/ /\ old.id = 0 /\ there # {} /\ Commit(q) /\ \E i \in there : Heard(i)
           \/ /\ old.id = 0 /\ there = {} /\ Commit(q)
              /\ Insert([NewContact(q.phone, "", {}) EXCEPT !.inbound = clock])
              /\ heard' = heard \union {ids + 1}
    /\ UNCHANGED <<clock, overtaken>>

SendRead(q) ==
    /\ IF q.id \notin DOMAIN rows THEN Refuse(q) /\ UNCHANGED <<heard, overtaken>>
       ELSE Begin(q, Seen(q.id)) /\ heard' = heard \ {q.id} /\ overtaken' = overtaken \ {q.id}
    /\ UNCHANGED <<rows, ids, clock>>

\* Fault: every contact that was sent to is marked.
ContactedAnyway(old, row) == "contacted"
\* The status that was read before the message was handed to Meta decides.
Contacted(old, row) == IF old.status \in {"active", "follow_up", "not_interested"} THEN "contacted"
                       ELSE row.status

SendCommit(q) ==
    /\ Commit(q)
    /\ rows' = IF q.id \notin DOMAIN rows THEN rows
               ELSE [rows EXCEPT ![q.id].status = Contacted(open[q].row, rows[q.id]),
                                 ![q.id].contacted = clock]
    /\ overtaken' = overtaken \union ({q.id} \intersect heard)
    /\ UNCHANGED <<ids, clock, heard>>

Due == {i \in DOMAIN rows : /\ rows[i].status = "contacted"
                            /\ rows[i].contacted + Window <= clock /\ rows[i].contacted # 0}
\* Fault: whether the contact has replied is not asked.
SilentAll == Due
\* Fault: a contact that has replied to anything is left alone.
SilentEver == {i \in Due : rows[i].inbound = 0}
Silent == {i \in Due : rows[i].inbound = 0 \/ rows[i].inbound < rows[i].contacted}

\* One UPDATE; the advisory lock keeps sweeps from doing it twice.
sweep_follow_up_task ==
    /\ Silent # {}
    /\ rows' = [i \in DOMAIN rows |->
                  IF i \in Silent THEN [rows[i] EXCEPT !.status = "follow_up"] ELSE rows[i]]
    /\ UNCHANGED <<ids, clock, heard, overtaken>> /\ UNCHANGED requests

Tick == clock < MaxTime /\ clock' = clock + 1 /\ UNCHANGED <<rows, ids, heard, overtaken>>

-----------------------------------------------------------------------------
(* The requests: what each checks and reads, and what it writes *)

PostContact(q) ==
    /\ q.op = "create"
    /\ \/ q \in todo /\ CreateCheck(q)
       \/ q \in DOMAIN open /\ create_contact(q)
PostUpsert(q) ==
    /\ q.op = "append"
    /\ \/ q \in todo /\ UpsertRead(q)
       \/ q \in DOMAIN open /\ upsert_by_phone_append(q)
PatchContact(q) ==
    /\ q.op = "patch" /\ Cardinality(q.ids) = 1
    /\ \/ q \in todo /\ UpdateRead(q)
       \/ q \in DOMAIN open /\ update_contact(q)
PostBulkUpdate(q) ==
    /\ q.op = "patch" /\ Cardinality(q.ids) > 1
    /\ \/ q \in todo /\ UpdateRead(q)
       \/ q \in DOMAIN open /\ bulk_update(q)
PostImport(q) ==
    /\ q.op = "import"
    /\ \/ q \in todo /\ ImportRead(q)
       \/ q \in DOMAIN open /\ import_csv(q)
ReceiveMessage(q) ==
    /\ q.op = "inbound"
    /\ \/ q \in todo /\ UpsertRead(q)
       \/ q \in DOMAIN open /\ InboundCommit(q)
ExtractInformation(q) ==
    /\ q.op = "extract"
    /\ \/ q \in todo /\ ExtractRead(q)
       \/ q \in DOMAIN open /\ (_extract_information_direct(q) \/ _ensure_contact_information(q))
SendMessage(q) ==
    /\ q.op = "send"
    /\ \/ q \in todo /\ SendRead(q)
       \/ q \in DOMAIN open /\ SendCommit(q)

ContactRequest(q) ==
    \/ PostContact(q) \/ PostUpsert(q) \/ PatchContact(q) \/ PostBulkUpdate(q)
    \/ PostImport(q) \/ ReceiveMessage(q) \/ SendMessage(q) \/ ExtractInformation(q)

-----------------------------------------------------------------------------
(* Properties *)

Patches(i) == {q \in done : q.op = "patch" /\ i \in q.ids}
Deletions(i) == {q \in done : q.op = "delete" /\ i \in q.ids}

\* A contact belongs to the AI or to an agent, never to both, whatever is
\* created and patched: unless two patches of it overlapped (_normalize_assignment,
\* of which each sees its own patch only).
OneOwner ==
    \A i \in DOMAIN rows : rows[i].ai /\ rows[i].agent # Nobody =>
        \E p, q \in Patches(i) : p # q /\ Overlapped(p, q)

\* A note that an upsert has appended stays in the information of the contact
\* until somebody writes that himself or deletes the contact, whoever inserts the
\* contact first: unless two upserts, or an upsert and the AI, read the same
\* information at once.
NotesKept ==
    \A q \in {p \in done : p.op = "append" /\ p.info # ""} :
        \/ \E i \in get_by_phone(q.phone) : q.info \in rows[i].info
        \/ \E p \in done : \/ p.op = "append" /\ p # q /\ p.phone = q.phone /\ Overlapped(p, q)
                           \/ p.op = "extract" /\ Overlapped(p, q)
                           \/ p.op = "patch" /\ "info" \in DOMAIN p.patch
                           \/ p.op = "delete"

\* The AI replaces no information that was there when it began to ask the model
\* for some: what it replaces, an upsert, a patch or the AI itself, in another
\* conversation of the contact, has committed since.
InformationStands ==
    \A q \in {p \in done' \ done : p.op = "extract"} :
        \/ rows[q.id].info \subseteq rows'[q.id].info
        \/ \E p \in over[q] : \/ p.op = "append" /\ p.phone = rows[q.id].phone
                              \/ p.op = "patch" /\ q.id \in p.ids /\ "info" \in DOMAIN p.patch
                              \/ p.op = "extract" /\ p.id = q.id

\* A request ends in an error of the database only because of another that
\* committed while it ran: no upsert because of a contact that was inserted
\* meanwhile, nothing because of a mere change; and an import for an overlong
\* name of a contact that is there.
ErrorsHaveCause ==
    \A q \in {p \in failed : p.op \in {"create", "append", "patch", "import", "extract"}} :
        \/ \E p \in over[q] : \/ q.op = "create" /\ p.op \in {"create", "append", "inbound", "import"}
                              \/ q.op # "create" /\ p.op = "delete"
        \/ q.op = "import" /\ \E r \in q.rows : r.name = LongName

\* A verdict of an agent on a contact is changed by patches only, and by a send
\* that had read the contact before the agent's patch.
VerdictStands ==
    \A i \in DOMAIN rows \intersect DOMAIN rows' :
        rows[i].status \in {"interested", "blocked", "inactive"} /\ rows'[i].status # rows[i].status =>
            \E q \in done' \ done : \/ q.op = "patch"
                                    \/ q.op = "send" /\ \E p \in over[q] \intersect Patches(i) :
                                                          "status" \in DOMAIN p.patch

\* The sweep takes no contact that has answered its last message: unless the
\* answer was stored before the send was.
RepliedIsNotSwept ==
    \A i \in DOMAIN rows \intersect DOMAIN rows' :
        rows[i].status = "contacted" /\ rows'[i].status = "follow_up" /\ done' = done =>
            i \notin heard \ overtaken

\* Another name for the contact of this phone comes with q.
NamesContact(q, phone) ==
    \/ q.op = "patch" /\ "name" \in DOMAIN q.patch
    \/ q.op = "append" /\ q.phone = phone
    \/ q.op = "import" /\ \E r \in q.rows : r.phone = phone

\* When an import commits, the names in the file are those of the contacts: unless
\* another request named or deleted the contact after the import had found it so
\* named, or found it at all.
ImportNamesAll ==
    \A q \in {p \in done' \ done : p.op = "import"} : \A r \in q.rows :
        \/ r.name \in {"", LongName}
        \/ \E i \in DOMAIN rows' : rows'[i].phone = r.phone /\ rows'[i].name = r.name
        \/ \E p \in over[q] : NamesContact(p, r.phone) \/ p.op = "delete"

\* A contact that was sent to and has not written since is followed up once the
\* window has passed: the sweep leaves nobody who is due (an answer to an earlier
\* message at the very instant of the send apart, which the clock cannot order).
SilentIsFollowedUp == <>[]({i \in Due : i \notin heard /\ rows[i].inbound # rows[i].contacted} = {})
=============================================================================
