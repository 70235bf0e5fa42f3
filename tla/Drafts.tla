------------------------------- MODULE Drafts -------------------------------
(***************************************************************************)
(* Campaigns before they go out: their creation and editing, the           *)
(* validation, which chooses the recipients from the contacts, and the     *)
(* categories.  What becomes of a campaign that is SCHEDULED is module     *)
(* Campaign.                                                               *)
(*                                                                         *)
(* A validation writes VALIDATING first, so it holds the campaign's row    *)
(* until it commits, and no other transaction sees that status.  Opt-outs  *)
(* are those of a contact that is blocked; the checks of the schedule, and *)
(* columns that decide nothing, are left out.                              *)
(***************************************************************************)
EXTENDS Tags, Console

VARIABLES
    drafts,         \* campaigns, by id
    audience,       \* campaign_recipients
    categories,     \* campaign_categories: names, by id
    validated       \* the last validation of each campaign

draftState == <<drafts, audience, categories, validated>>

\* filter: a record with the parts that it has.
NewDraft(template, filter, category) ==
    [template |-> template, filter |-> filter, category |-> category, status |-> "DRAFT", count |-> 0]
\* What the schema of an edit lets through; the status is not among it.
DraftWellFormed(q) == q.op = "editCampaign" => DOMAIN q.patch \subseteq {"filter", "category"}
InitDrafts(given, names) ==
    drafts = given /\ categories = names /\ audience = {} /\ validated = <<>>

\* Those of a campaign.
Recipients(c) == {r \in audience : r.campaign = c}
NoCategory == 0
Exists(category) == category \in DOMAIN categories \union {NoCategory}
\* An id that no category has had.
NewCategory == Cardinality(DOMAIN categories) + 1 + Cardinality({p \in done : p.op = "deleteCategory"})
\* A validation holds the row.
Locked(c) == \E p \in DOMAIN open : p.op = "validate" /\ p.c = c /\ open[p].pc = "hold"

-----------------------------------------------------------------------------
(* Creating and editing *)

CreateCampaignRead(q) ==
    /\ IF Exists(q.category) THEN Begin(q, [pc |-> "checked"]) ELSE Refuse(q)
    /\ UNCHANGED draftState
create_campaign(q) ==
    /\ IF ~Exists(q.category) \/ q.template \notin DOMAIN local THEN Fail(q) /\ UNCHANGED drafts
       ELSE /\ Commit(q)
            /\ drafts' = Added(drafts, Cardinality(DOMAIN drafts) + 1, NewDraft(q.template, q.filter, q.category))
    /\ UNCHANGED <<audience, categories, validated>>

Editable(q) == /\ q.c \in DOMAIN drafts /\ drafts[q.c].status = "DRAFT"
               /\ "category" \in DOMAIN q.patch => Exists(q.patch.category)
\* Fault: a campaign is edited whatever its status.
EditAnyRead(q) ==
    /\ IF q.c \in DOMAIN drafts THEN Begin(q, [pc |-> "checked", row |-> drafts[q.c]]) ELSE Refuse(q)
    /\ UNCHANGED draftState
EditRead(q) ==
    /\ IF Editable(q) THEN Begin(q, [pc |-> "checked", row |-> drafts[q.c]]) ELSE Refuse(q)
    /\ UNCHANGED draftState
\* What was a draft when it was read is written, whatever it has become.
update_campaign(q) ==
    /\ ~Locked(q.c)
    /\ IF "category" \in DOMAIN q.patch /\ ~Exists(q.patch.category) THEN Fail(q) /\ UNCHANGED drafts
       ELSE /\ Commit(q)
            /\ drafts' = [drafts EXCEPT ![q.c] = Written(q.patch, open[q].row, drafts[q.c])]
    /\ UNCHANGED <<audience, categories, validated>>

-----------------------------------------------------------------------------
(* The validation *)

\* Those that a filter selects.
select_audience_contact_ids(f) == {i \in DOMAIN rows :
    /\ rows[i].status # "blocked"
    /\ "tags" \in DOMAIN f => \E t \in f.tags : Link(i, t) \in links
    /\ "status" \in DOMAIN f => rows[i].status \in f.status
    /\ "agent" \in DOMAIN f => rows[i].agent = f.agent
    /\ "ids" \in DOMAIN f => i \in f.ids}

\* Fault: any template will do.
AnyTemplate(name) == name \in DOMAIN local
Approved(name) == name \in DOMAIN local /\ local[name].status = "approved"

ValidateRead(q) ==
    /\ IF q.c \in DOMAIN drafts /\ drafts[q.c].status = "DRAFT" THEN Begin(q, [pc |-> "read"]) ELSE Refuse(q)
    /\ UNCHANGED draftState
\* The row is written and read again; then the template and the contacts are read.
ValidateHold(q) ==
    /\ open[q].pc = "read" /\ ~Locked(q.c)
    /\ LET d == drafts[q.c] IN
       Proceed(q, [pc |-> "hold", ok |-> Approved(d.template), chosen |-> select_audience_contact_ids(d.filter)])
    /\ UNCHANGED draftState

\* Fault: whoever is a recipient already, of any campaign, is not inserted.
InsertUnknown(c, chosen) ==
    audience' = audience \union {[campaign |-> c, contact |-> i] : i \in chosen \ {r.contact : r \in audience}}
\* ON CONFLICT DO NOTHING; nobody is taken out.
bulk_insert(c, chosen) == audience' = audience \union {[campaign |-> c, contact |-> i] : i \in chosen}

\* The recipients stay, also those of a validation that has found an error.
validate_campaign(q) ==
    /\ open[q].pc = "hold"
    /\ LET r == open[q]   ok == r.ok /\ r.chosen # {} IN
       IF ~ r.chosen \subseteq DOMAIN rows THEN Fail(q) /\ UNCHANGED <<drafts, audience, validated>>
       ELSE /\ Commit(q) /\ bulk_insert(q.c, r.chosen)
            /\ validated' = Over([c \in {q.c} |-> q], validated)
            /\ drafts' = [drafts EXCEPT ![q.c].status = IF ok THEN "SCHEDULED" ELSE "DRAFT",
                                        ![q.c].count = IF r.chosen = {} THEN @ ELSE Cardinality(r.chosen)]
    /\ UNCHANGED categories

-----------------------------------------------------------------------------
(* Categories *)

NamedSo(name) == {k \in DOMAIN categories : categories[k] = name}
CreateCategoryRead(q) ==
    /\ IF NamedSo(q.name) # {} THEN Refuse(q) ELSE Begin(q, [pc |-> "checked"])
    /\ UNCHANGED draftState
create_category(q) ==
    /\ IF NamedSo(q.name) # {} THEN Fail(q) /\ UNCHANGED categories
       ELSE Commit(q) /\ categories' = Added(categories, NewCategory, q.name)
    /\ UNCHANGED <<drafts, audience, validated>>

RenameCategoryRead(q) ==
    /\ IF q.category \notin DOMAIN categories \/ NamedSo(q.name) # {} THEN Refuse(q)
       ELSE Begin(q, [pc |-> "checked"])
    /\ UNCHANGED draftState
update_category(q) ==
    /\ IF q.category \notin DOMAIN categories \/ NamedSo(q.name) \ {q.category} # {} THEN Fail(q) /\ UNCHANGED categories
       ELSE Commit(q) /\ categories' = [categories EXCEPT ![q.category] = q.name]
    /\ UNCHANGED <<drafts, audience, validated>>

\* Fault: nothing is counted.
NoLinks(category) == 0
count_campaign_links(category) == Cardinality({c \in DOMAIN drafts : drafts[c].category = category})
DeleteCategoryRead(q) ==
    /\ IF q.category \notin DOMAIN categories \/ count_campaign_links(q.category) > 0 THEN Refuse(q)
       ELSE Begin(q, [pc |-> "checked"])
    /\ UNCHANGED draftState
\* ON DELETE RESTRICT.
delete_category(q) ==
    /\ IF \E c \in DOMAIN drafts : drafts[c].category = q.category THEN Fail(q) /\ UNCHANGED categories
       ELSE Commit(q) /\ categories' = Without(categories, {q.category})
    /\ UNCHANGED <<drafts, audience, validated>>

-----------------------------------------------------------------------------
PostCampaign(q) == q.op = "createCampaign" /\ (\/ q \in todo /\ CreateCampaignRead(q)
                                               \/ q \in DOMAIN open /\ create_campaign(q))
PatchCampaign(q) == q.op = "editCampaign" /\ (\/ q \in todo /\ EditRead(q)
                                              \/ q \in DOMAIN open /\ update_campaign(q))
PostValidate(q) == q.op = "validate" /\ (\/ q \in todo /\ ValidateRead(q)
                                         \/ q \in DOMAIN open /\ (ValidateHold(q) \/ validate_campaign(q)))
PostCategory(q) == q.op = "createCategory" /\ (\/ q \in todo /\ CreateCategoryRead(q)
                                               \/ q \in DOMAIN open /\ create_category(q))
PatchCategory(q) == q.op = "renameCategory" /\ (\/ q \in todo /\ RenameCategoryRead(q)
                                                \/ q \in DOMAIN open /\ update_category(q))
DeleteCategory(q) == q.op = "deleteCategory" /\ (\/ q \in todo /\ DeleteCategoryRead(q)
                                                 \/ q \in DOMAIN open /\ delete_category(q))

DraftRequest(q) ==
    /\ \/ PostCampaign(q) \/ PatchCampaign(q) \/ PostValidate(q)
       \/ PostCategory(q) \/ PatchCategory(q) \/ DeleteCategory(q)
    /\ UNCHANGED <<contactState, tagState, settingState, templateState>>

\* The recipients go with their contacts.
DraftsWithout(gone) == audience' = {r \in audience : r.contact \notin gone}
                       /\ UNCHANGED <<drafts, categories, validated>>

-----------------------------------------------------------------------------
(* Properties *)

Scheduled == {c \in DOMAIN drafts : drafts[c].status = "SCHEDULED"}
\* Another validation than the last has committed: it found errors, or it overlapped.
ValidatedBefore(c) == \E v \in done : v.op = "validate" /\ v.c = c /\ v # validated[c]

\* A campaign goes out to as many as its last validation has counted, unless one
\* before it had inserted others, or contacts were deleted since.
SentAsCounted ==
    \A c \in Scheduled : \/ drafts[c].count = Cardinality(Recipients(c))
                         \/ ValidatedBefore(c) \/ \E q \in done : q.op = "delete"

\* What the campaign's filter says is whom the campaign goes out to: a recipient
\* that it does not select has changed since, or was inserted by a validation
\* before the last one, or the filter was edited by a request that overlapped it.
\* A message, also one of the campaign, and the sweep for the silent are a change.
AudienceIsFiltered ==
    \A c \in Scheduled : \A r \in Recipients(c) :
        \/ r.contact \in select_audience_contact_ids(drafts[c].filter)
        \/ ValidatedBefore(c) \/ rows[r.contact].status = "follow_up"
        \/ \E q \in done : \/ q.op = "patch" /\ r.contact \in q.ids
                           \/ q.op \in {"remove", "send"} /\ q.id = r.contact
                           \/ q.op = "deleteTag"
                           \/ q.op = "editCampaign" /\ q.c = c /\ Overlapped(q, validated[c])

\* A campaign is scheduled only with a template that is approved at that time,
\* unless Meta's answer to a sync or an import came in during its validation.
ScheduledIsApproved ==
    \A c \in DOMAIN drafts : drafts[c].status = "DRAFT" /\ drafts'[c].status = "SCHEDULED" =>
        \/ drafts[c].template \in DOMAIN local /\ local[drafts[c].template].status = "approved"
        \/ \E q \in over'[validated'[c]] : q.op \in {"sync", "importTemplates"}

\* The template of q is not there, or came after q had failed.
LateTemplate(q) == \/ q.template \notin DOMAIN local
                   \/ \E p \in done : p.op = "importTemplates" \/ (p.op = "submit" /\ p.name = q.template)

\* A request about campaigns and categories ends with an error of the database only
\* if another one took its name, its category or its contact meanwhile, or if it
\* creates a campaign for a template that is not there, which is not looked for.
DraftErrorsHaveCause ==
    \A q \in failed :
        /\ q.op \in {"createCategory", "renameCategory"} =>
              \E p \in over[q] : p.op \in {"createCategory", "renameCategory", "deleteCategory"}
        /\ q.op = "deleteCategory" => \E p \in over[q] : p.op \in {"createCampaign", "editCampaign"}
        /\ q.op \in {"createCampaign", "editCampaign"} =>
              \/ \E p \in over[q] : p.op = "deleteCategory"
              \/ q.op = "createCampaign" /\ LateTemplate(q)
        /\ q.op = "validate" => \E p \in over[q] : p.op = "delete"
=============================================================================
