------------------------------- MODULE Office -------------------------------
(***************************************************************************)
(* What the staff and the workers do around the conversations, together:   *)
(* contacts, what is remembered of them, their tags, their conversations,  *)
(* the campaigns for them, the figures of their messages, the staff's      *)
(* accounts, settings and templates.  A behaviour starts with some rows    *)
(* and some requests that will be made, each of them once, in any order    *)
(* and overlapping in any way.                                             *)
(***************************************************************************)
EXTENDS Memory, Threads, Analytics, Accounts, Drafts, Search

CONSTANTS
    Scenarios       \* the starts: requests, contacts, threads, users and templates at Meta

\* Who changes users is an active admin, as the seed script leaves one, and asks
\* for what a user may have; the templates at Meta are numbered, none was put there
\* by a request to come, and a row says of one of its name what Meta says.  The
\* market's messages and the vocabulary have their columns; contacts and the rows of a
\* file are finitely many, and campaigns begin as drafts.
ASSUME ScenariosAssumption == \A s \in Scenarios :
    /\ \A u \in DOMAIN s.users : s.users[u] \in User
    /\ \E u \in DOMAIN s.users : s.users[u] = [role |-> "admin", active |-> TRUE]
    /\ \A q \in s.requests : WellFormed(q) /\ DraftWellFormed(q) /\ SearchWellFormed(q)
    /\ IsFiniteSet(DOMAIN s.contacts) /\ DOMAIN s.contacts = 1..Cardinality(DOMAIN s.contacts)
    /\ \A i \in DOMAIN s.contacts : s.contacts[i] \in Contact
    /\ \A q \in s.requests : q.op = "import" => IsFiniteSet(q.rows)
    /\ IsFiniteSet(DOMAIN s.drafts)
    /\ \A c \in DOMAIN s.drafts : s.drafts[c] = NewDraft(s.drafts[c].template, s.drafts[c].filter, s.drafts[c].category)
    /\ IsFiniteSet(DOMAIN s.board) /\ DOMAIN s.board \subseteq Nat \ {0}
    /\ \A m \in DOMAIN s.board : IsPost(s.board[m])
    /\ \A e \in DOMAIN s.vocab : IsEntry(s.vocab[e])
    /\ IsFiniteSet(DOMAIN s.remote) /\ DOMAIN s.remote = 1..Cardinality(DOMAIN s.remote)
    /\ \A m \in DOMAIN s.remote :
         /\ DOMAIN s.remote[m] = {"name", "language", "status", "by", "approved"}
         /\ s.remote[m].status \in MetaStatus /\ s.remote[m].by = {}
         /\ s.remote[m].approved = (s.remote[m].status = "APPROVED")
    /\ \A n \in DOMAIN s.local :
         /\ s.local[n] \in Template /\ s.local[n].meta \in DOMAIN s.remote
         /\ s.remote[s.local[n].meta].name = n
         /\ s.local[n].status = "approved" => s.remote[s.local[n].meta].approved

vars == <<requests, contactState, memoryState, tagState, threadState, analyticsState, accountState,
          settingState, templateState, draftState, searchState>>

Init == \E s \in Scenarios :
    /\ todo = s.requests /\ rows = s.contacts /\ clock = s.clock /\ users = s.users /\ remote = s.remote /\ local = s.local
    /\ InitRequests /\ InitContacts /\ InitMemory /\ InitTags /\ InitThreads(s.threads) /\ InitAnalytics /\ InitAccounts /\ InitConsole
    /\ InitDrafts(s.drafts, s.categories) /\ InitSearch(s.board, s.vocab)

\* The rows that refer to a contact go with it, and its file does not.
DeleteContacts(q) ==
    /\ q.op = "delete"
    /\ \/ q \in todo /\ DeleteRead(q) /\ UNCHANGED <<memoryState, tagState, threadState, analyticsState, draftState>>
       \/ /\ q \in DOMAIN open /\ bulk_delete(q) /\ ContactsUnheld(open[q])
          /\ MemoryWithout(open[q]) /\ TagsWithout(open[q]) /\ ThreadsWithout(open[q])
          /\ AnalyticsWithout(open[q]) /\ DraftsWithout(open[q])

consoleState == <<settingState, templateState>>
contactsAside == <<accountState, consoleState, draftState, searchState>>

Work(q) ==
    \/ ContactRequest(q) /\ UNCHANGED <<memoryState, tagState, threadState, analyticsState, contactsAside>>
    \/ DeleteContacts(q) /\ UNCHANGED <<accountState, consoleState, searchState>>
    \/ MemoryRequest(q) /\ UNCHANGED <<tagState, threadState, analyticsState, contactsAside>>
    \/ TagRequest(q) /\ UNCHANGED <<memoryState, threadState, analyticsState, contactsAside>>
    \/ ThreadRequest(q) /\ UNCHANGED <<memoryState, analyticsState, contactsAside>>
    \/ AnalyticsRequest(q) /\ UNCHANGED <<memoryState, tagState, threadState, contactsAside>>
    \/ AccountRequest(q) /\ UNCHANGED <<contactState, memoryState, tagState, threadState, analyticsState,
                                     consoleState, draftState, searchState>>
    \/ ConsoleRequest(q) /\ UNCHANGED <<contactState, memoryState, tagState, threadState, analyticsState,
                                     accountState, draftState, searchState>>
    \/ DraftRequest(q) /\ UNCHANGED <<memoryState, threadState, analyticsState, accountState, searchState>>
    \/ SearchRequest(q) /\ UNCHANGED <<contactState, memoryState, tagState, threadState, analyticsState,
                                    accountState, consoleState, draftState>>

Besides == UNCHANGED <<memoryState, tagState, threadState, contactsAside>>

Sweep == sweep_follow_up_task /\ Besides /\ UNCHANGED analyticsState
Time == Tick /\ Nightly /\ Besides /\ UNCHANGED <<open, over, done, failed, analyticsState>>
MetaDecides == (\E m \in DOMAIN remote : Verdict(m))
               /\ UNCHANGED <<requests, contactState, memoryState, tagState, threadState, analyticsState,
                              accountState, settingState, draftState, searchState>>

HandsOver == (\E m \in DOMAIN sending \union deleting : HandOver(m))
             /\ UNCHANGED <<requests, contactState, memoryState, tagState, analyticsState, contactsAside>>

Next == \/ \E q \in todo \union DOMAIN open : Work(q)
        \/ Sweep \/ Time \/ MetaDecides \/ HandsOver

Spec == Init /\ [][Next]_vars
\* What is in progress.
Proceeds == \E q \in DOMAIN open : Work(q)
\* A worker takes what beat has queued.
Taken == \E q \in todo : q.op = "nightly" /\ Work(q)
\* Time passes, beat keeps starting the sweep, and what is queued or in progress
\* goes on.
FairSpec == Spec /\ WF_vars(Time) /\ WF_vars(Sweep) /\ WF_vars(Proceeds) /\ WF_vars(Taken) /\ WF_vars(HandsOver)

TypeOK ==
    /\ DOMAIN rows \subseteq 1..ids /\ \A i \in DOMAIN rows : rows[i] \in Contact
    /\ \A i, j \in DOMAIN rows : i # j => rows[i].phone # rows[j].phone
    /\ clock \in 1..MaxTime
    /\ \A i \in DOMAIN file : file[i] \in MemoryFile
    /\ DOMAIN memo \subseteq DOMAIN rows \intersect DOMAIN file
    /\ \A s, t \in DOMAIN tags : s # t => tags[s] # tags[t]
    /\ \A l \in links : l.contact \in DOMAIN rows /\ l.tag \in DOMAIN tags
    /\ \A s \in DOMAIN suggested : /\ suggested[s] \in Suggestion
                                   /\ suggested[s].contact \in DOMAIN rows /\ suggested[s].tag \in DOMAIN tags
    /\ \A c \in DOMAIN convs : convs[c] \in Conversation /\ convs[c].contact \in DOMAIN rows
    /\ \A m \in DOMAIN msgs : msgs[m] \in Message /\ msgs[m].conv \in DOMAIN convs
    /\ \A a \in DOMAIN assets : assets[a] \in {0} \union DOMAIN msgs
    /\ \A x \in DOMAIN sends : sends[x].day \in 1..clock /\ sends[x].delivered \in 0..clock
    /\ DOMAIN rollup.global \subseteq 1..MaxTime
    /\ \A u \in DOMAIN users : users[u] \in User
    /\ \A n \in DOMAIN local : local[n] \in Template /\ local[n].meta \in DOMAIN remote
    /\ \A r \in audience : r.campaign \in DOMAIN drafts /\ r.contact \in DOMAIN rows
    /\ \A c \in DOMAIN drafts : /\ drafts[c].category \in DOMAIN categories \union {NoCategory}
                               /\ drafts[c].status \in {"DRAFT", "SCHEDULED"}
    /\ \A m \in DOMAIN board : board[m].side \in {"BUY", "SELL"}
    /\ \A e, f \in DOMAIN vocab : e # f => vocab[e].tag # vocab[f].tag

-----------------------------------------------------------------------------
(* What is checked of the parts *)

\* A contact has one owner, keeps the notes that are added and the turns that are
\* remembered, and requests fail only because of others.
ContactsAreSound == TypeOK /\ OneOwner /\ NotesKept /\ ErrorsHaveCause /\ TurnsKept

\* Tags are there for a reason, and suggestions are decided once.
TagsAreExplained == TagHasReason /\ ApprovedIsAttached /\ OneDecision

\* An admin remains, sessions end with their users and with their successors; the
\* settings are those of the audit trail, and the templates those of Meta.
AdministrationIsSound ==
    /\ LastAdminStands /\ DeactivatedHasNoSession /\ OneSuccessor /\ SectionsAreOneRequests
    /\ TrailExplains /\ SubmittedIsKept /\ ApprovedByMeta

\* Counters, tables and reports tell of the same messages.
FiguresAgree == TablesAgree /\ LiveCountsLate /\ CreditedOnce /\ ReportsAgree /\ ReportAddsUp

\* The inbox shows what there is: what is unread, who waits, every conversation
\* and one per contact; and the files of messages go out and can be seen.
InboxIsTrue ==
    /\ UnreadIsUnseen /\ OneOpenConversation /\ BadgeAgrees /\ PagesShowAll
    /\ MediaGoesOut /\ UploadsGoOut /\ FilesAreShown

\* A campaign goes out to those that its filter selected and its validation counted.
DraftsAreSound == SentAsCounted /\ AudienceIsFiltered /\ DraftErrorsHaveCause

\* A search pages through all that there is, and the vocabulary is what was set.
SearchIsSound == SearchShowsOnce /\ SearchShowsAll /\ VocabPatchStands /\ VocabErrorsHaveCause

\* No step takes back a verdict on a contact, information, a tag or an answer that
\* it has not seen; none imports half a file, or schedules what Meta has not approved.
StepsAreDue ==
    [][/\ VerdictStands /\ InformationStands /\ RepliedIsNotSwept /\ ImportNamesAll
       /\ NothingVanishes /\ ScheduledIsApproved]_vars

\* In the end the silent are followed up, every day has its figures, and what
\* agents delete is asked of Meta.
NobodyIsForgotten == SilentIsFollowedUp /\ DaysAreComputed /\ DeletedIsGone
=============================================================================
