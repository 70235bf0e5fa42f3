-------------------------------- MODULE Tags --------------------------------
(***************************************************************************)
(* Tags on contacts: suggested by the AI and reviewed, put on and taken    *)
(* off by agents, put on by the system for opt-outs and first messages,    *)
(* and the tags themselves, which admins create, rename and delete.        *)
(***************************************************************************)
EXTENDS Contacts

VARIABLES
    tags,           \* tag names, by id
    links,          \* contact_tags: who has which tag
    suggested,      \* tag_suggestions, by id
    known           \* ids of tags and suggestions given so far

tagState == <<tags, links, suggested, known>>

SuggestionStatus == {"PENDING", "APPROVED", "REJECTED"}
Suggestion == [contact: Nat, tag: Nat, status: SuggestionStatus]

InitTags == tags = <<>> /\ links = {} /\ suggested = <<>> /\ known = 0

Named_(name) == {t \in DOMAIN tags : tags[t] = name}
Link(contact, tag) == [contact |-> contact, tag |-> tag]

-----------------------------------------------------------------------------
(* Suggestions and automatic tags: INSERT .. ON CONFLICT DO NOTHING on the *)
(* tag, then a row that refers to it, in a transaction that goes on.  The  *)
(* reference keeps the tag and the contact from being deleted meanwhile.   *)

FromTasks == {"suggest", "autotag"}
Holding == {q \in DOMAIN open : q.op \in FromTasks}

TagRead(q) ==
    /\ ~ \E p \in Holding : p.name = q.name /\ open[p].tag = 0     \* waits for its insert
    /\ IF q.id \notin DOMAIN rows THEN Refuse(q)
       ELSE \E t \in IF Named_(q.name) = {} THEN {0} ELSE Named_(q.name) : Begin(q, [tag |-> t])
    /\ UNCHANGED tagState

\* The tag's row, if it was this transaction that inserted it.
TagOf(q) == IF open[q].tag = 0 THEN known + 1 ELSE open[q].tag
WithTag(q) == tags' = IF open[q].tag = 0 THEN Added(tags, known + 1, q.name) ELSE tags

create_suggestion_sync(q) ==
    /\ Commit(q) /\ WithTag(q)
    /\ suggested' = Added(suggested, known + 2, [contact |-> q.id, tag |-> TagOf(q), status |-> "PENDING"])
    /\ known' = known + 2 /\ UNCHANGED links

_apply_opt_out_tag_sync(q) ==
    /\ Commit(q) /\ WithTag(q)
    /\ links' = links \union {Link(q.id, TagOf(q))}
    /\ known' = known + 2 /\ UNCHANGED suggested

-----------------------------------------------------------------------------
(* Reviews *)

\* Fault: a suggestion is reviewed whatever its status.
ReviewReadAny(q) ==
    /\ IF q.s \notin DOMAIN suggested THEN Refuse(q) ELSE Begin(q, suggested[q.s])
    /\ UNCHANGED tagState
_review(q) ==
    /\ IF q.s \notin DOMAIN suggested \/ suggested[q.s].status # "PENDING" THEN Refuse(q)
       ELSE Begin(q, suggested[q.s])
    /\ UNCHANGED tagState

\* Fault: an approval attaches nothing.
AttachNothing(q) == UNCHANGED links
attach(q) == links' = links \union {Link(open[q].contact, open[q].tag)}

Decide(q, status) == IF q.s \notin DOMAIN suggested THEN Fail(q) /\ UNCHANGED suggested
                     ELSE Commit(q) /\ suggested' = [suggested EXCEPT ![q.s].status = status]
approve(q) ==
    /\ Decide(q, "APPROVED")
    /\ IF q.s \in DOMAIN suggested THEN attach(q) ELSE UNCHANGED links
    /\ UNCHANGED <<tags, known>>

\* Fault: a rejection attaches the tag as well.
RejectAttaches(q) == Decide(q, "REJECTED") /\ attach(q) /\ UNCHANGED <<tags, known>>
reject(q) == Decide(q, "REJECTED") /\ UNCHANGED <<tags, links, known>>

-----------------------------------------------------------------------------
(* By hand *)

ApplyRead(q) ==
    /\ IF q.tag \notin DOMAIN tags THEN Refuse(q) ELSE Begin(q, [tag |-> q.tag])
    /\ UNCHANGED tagState
apply_tag(q) ==
    /\ IF q.id \notin DOMAIN rows \/ q.tag \notin DOMAIN tags THEN Fail(q) /\ UNCHANGED links
       ELSE Commit(q) /\ links' = links \union {Link(q.id, q.tag)}
    /\ UNCHANGED <<tags, suggested, known>>

\* Idempotent: detaching a tag that is not there is no error.
remove_tag(q) == AtOnce(q) /\ links' = links \ {Link(q.id, q.tag)}
                 /\ UNCHANGED <<tags, suggested, known>>

-----------------------------------------------------------------------------
(* The tags themselves *)

\* The name is free, and free to be written: an open insert of it is waited for.
Unwritten(q) == ~ \E p \in Holding : p.name = q.name /\ open[p].tag = 0
Unheld(q) == ~ \E p \in Holding : open[p].tag = q.tag

CreateTagRead(q) ==
    /\ IF Named_(q.name) # {} THEN Refuse(q) ELSE Begin(q, [tag |-> 0])
    /\ UNCHANGED tagState
create_tag(q) ==
    /\ Unwritten(q)
    /\ IF Named_(q.name) # {} THEN Fail(q) /\ UNCHANGED <<tags, known>>
       ELSE Commit(q) /\ tags' = Added(tags, known + 1, q.name) /\ known' = known + 1
    /\ UNCHANGED <<links, suggested>>

RenameRead(q) ==
    /\ IF q.tag \notin DOMAIN tags \/ Named_(q.name) # {} THEN Refuse(q)
       ELSE Begin(q, [tag |-> q.tag])
    /\ UNCHANGED tagState
update_tag(q) ==
    /\ Unwritten(q) /\ Unheld(q)
    /\ IF q.tag \notin DOMAIN tags \/ Named_(q.name) # {} THEN Fail(q) /\ UNCHANGED tags
       ELSE Commit(q) /\ tags' = [tags EXCEPT ![q.tag] = q.name]
    /\ UNCHANGED <<links, suggested, known>>

\* What stands against a deletion.
Pending(t) == {s \in DOMAIN suggested : suggested[s].tag = t /\ suggested[s].status = "PENDING"}
\* Fault: only the links of a tag are counted.
UsesLinks(t) == {l \in links : l.tag = t}
Uses(t) == {l \in links : l.tag = t} \union {suggested[s] : s \in Pending(t)}

DeleteTagRead(q) ==
    /\ IF q.tag \notin DOMAIN tags \/ Uses(q.tag) # {} THEN Refuse(q)
       ELSE Begin(q, [tag |-> q.tag])
    /\ UNCHANGED tagState
\* The rows that refer to the tag go with it, whenever they were added.
delete_tag(q) ==
    /\ Unheld(q) /\ Commit(q)
    /\ tags' = Without(tags, {q.tag})
    /\ links' = {l \in links : l.tag # q.tag}
    /\ suggested' = Without(suggested, {s \in DOMAIN suggested : suggested[s].tag = q.tag})
    /\ UNCHANGED known

-----------------------------------------------------------------------------
(* The requests: what each checks and reads, and what it writes *)

SuggestTag(q) ==
    /\ q.op = "suggest"
    /\ \/ q \in todo /\ TagRead(q)
       \/ q \in DOMAIN open /\ create_suggestion_sync(q)
AutoApplyTag(q) ==
    /\ q.op = "autotag"
    /\ \/ q \in todo /\ TagRead(q)
       \/ q \in DOMAIN open /\ _apply_opt_out_tag_sync(q)
PostApproval(q) ==
    /\ q.op = "approve"
    /\ \/ q \in todo /\ _review(q)
       \/ q \in DOMAIN open /\ approve(q)
PostRejection(q) ==
    /\ q.op = "reject"
    /\ \/ q \in todo /\ _review(q)
       \/ q \in DOMAIN open /\ reject(q)
PostContactTag(q) ==
    /\ q.op = "apply"
    /\ \/ q \in todo /\ ApplyRead(q)
       \/ q \in DOMAIN open /\ apply_tag(q)
DeleteContactTag(q) == q.op = "remove" /\ q \in todo /\ remove_tag(q)
PostTag(q) ==
    /\ q.op = "createTag"
    /\ \/ q \in todo /\ CreateTagRead(q)
       \/ q \in DOMAIN open /\ create_tag(q)
PatchTag(q) ==
    /\ q.op = "renameTag"
    /\ \/ q \in todo /\ RenameRead(q)
       \/ q \in DOMAIN open /\ update_tag(q)
DeleteTag(q) ==
    /\ q.op = "deleteTag"
    /\ \/ q \in todo /\ DeleteTagRead(q)
       \/ q \in DOMAIN open /\ delete_tag(q)

TagRequest(q) ==
    /\ \/ SuggestTag(q) \/ AutoApplyTag(q) \/ PostApproval(q) \/ PostRejection(q) \/ PostContactTag(q)
       \/ DeleteContactTag(q) \/ PostTag(q) \/ PatchTag(q) \/ DeleteTag(q)
    /\ UNCHANGED contactState

\* A deletion of contacts waits for the transactions that refer to them.
ContactsUnheld(ids_) == ~ \E p \in Holding : p.id \in ids_
\* Fault: the rows that refer to a contact stay.
TagsStay(gone) == UNCHANGED tagState
TagsWithout(gone) ==
    /\ links' = {l \in links : l.contact \notin gone}
    /\ suggested' = Without(suggested, {s \in DOMAIN suggested : suggested[s].contact \in gone})
    /\ UNCHANGED <<tags, known>>

-----------------------------------------------------------------------------
(* Properties *)

Reviews(s) == {q \in done : q.op \in {"approve", "reject"} /\ q.s = s}

\* A contact has a tag because somebody put it on, the system did, or a
\* suggestion was approved: a rejected one stays off, unless its two reviews
\* overlapped.
TagHasReason ==
    \A l \in links :
        \/ \E q \in done : q.op = "apply" /\ q.id = l.contact /\ q.tag = l.tag
        \/ \E q \in done : q.op = "autotag" /\ q.id = l.contact
        \/ \E s \in DOMAIN suggested :
              /\ suggested[s].contact = l.contact /\ suggested[s].tag = l.tag
              /\ \/ suggested[s].status = "APPROVED"
                 \/ \E p, q \in Reviews(s) : p.op # q.op /\ Overlapped(p, q)

\* The tag of an approved suggestion is on its contact until somebody removes it.
ApprovedIsAttached ==
    \A s \in {x \in DOMAIN suggested : suggested[x].status = "APPROVED"} :
        \/ Link(suggested[s].contact, suggested[s].tag) \in links
        \/ \E q \in done : q.op = "remove" /\ q.id = suggested[s].contact /\ q.tag = suggested[s].tag

\* A suggestion is decided once, unless two reviews of it overlapped.
OneDecision ==
    \A s \in DOMAIN suggested : \A p, q \in Reviews(s) : p = q \/ Overlapped(p, q)

\* A tag that is in use goes off a contact, and a pending suggestion away, only
\* because somebody removed it, deleted the contact, or deleted the tag when it
\* was not in use yet.
NothingVanishes ==
    LET lost == (links \ links') \union
                {Link(suggested[s].contact, suggested[s].tag) :
                    s \in {x \in DOMAIN suggested \ DOMAIN suggested' : suggested[x].status = "PENDING"}}
    IN  \A l \in lost : \E q \in done' \ done :
            \/ q.op = "remove" /\ q.id = l.contact /\ q.tag = l.tag
            \/ q.op = "delete" /\ l.contact \in q.ids
            \/ q.op = "deleteTag" /\ q.tag = l.tag
               /\ \E p \in over[q] : p.op \in {"suggest", "autotag", "apply", "approve"}
=============================================================================
