----------------------------- MODULE OfficeProofs -----------------------------
(***************************************************************************)
(* The office, for any starts: any requests, contacts, users and           *)
(* templates.  A request moves by itself: what it does to the others is    *)
(* that it is among those that have committed since they read.             *)
(***************************************************************************)
EXTENDS Office, SetLemmas

-----------------------------------------------------------------------------
(* What a step does to the requests *)

Once(q) == q.op # "nightly"
Whole(q) == q.op \notin {"nightly", "backfill"}

\* A request is made once: who is still to come has not begun, who is in progress
\* has not ended.  The nightly runs, which beat queues, are left out.  Who has
\* overtaken another has committed, the jobs that commit each day apart.
RequestsAreOnce ==
    /\ \A q \in todo : Once(q) => q \notin DOMAIN open \union DOMAIN over \union done \union failed
    /\ \A q \in DOMAIN open : Once(q) => q \notin done \union failed
    /\ DOMAIN open \subseteq DOMAIN over
    /\ \A q \in DOMAIN over : \A p \in over[q] : Whole(p) => p \in done
    /\ IsFiniteSet(done)

\* Nobody but q moves; when q commits, it has overtaken everybody in progress.
Moved(q) ==
    /\ q \in todo \union DOMAIN open
    /\ todo' \subseteq todo /\ todo \ {q} \subseteq todo'
    /\ DOMAIN open' \ {q} = DOMAIN open \ {q}
    /\ \A p \in DOMAIN open \ {q} : open'[p] = open[p]
    /\ done \subseteq done' /\ done' \subseteq done \union {q}
    /\ failed \subseteq failed' /\ failed' \subseteq failed \union {q}
    /\ DOMAIN over \subseteq DOMAIN over' /\ DOMAIN over' \subseteq DOMAIN over \union {q}
    /\ \A p \in DOMAIN over : over[p] \subseteq over'[p] /\ over'[p] \subseteq over[p] \union {q}
    /\ q \in DOMAIN over' \ DOMAIN over => over'[q] = {}
    /\ Once(q) /\ q \in done' => \A p \in DOMAIN open' \intersect DOMAIN over : p # q => q \in over'[p]
    /\ RequestsAreOnce'

LEMMA BeginMoves ==
    ASSUME RequestsAreOnce, NEW q, NEW r, Begin(q, r)
    PROVE  /\ Moved(q) /\ q \in todo /\ q \notin todo' /\ q \in DOMAIN open'
           /\ done' = done /\ failed' = failed
           /\ Once(q) => /\ q \notin DOMAIN open /\ open'[q] = r
                         /\ q \in DOMAIN over' /\ over'[q] = {}
  <1>1. /\ DOMAIN open' = DOMAIN open \union {q} /\ DOMAIN over' = DOMAIN over \union {q}
        /\ \A p \in DOMAIN open : open'[p] = open[p]
        /\ \A p \in DOMAIN over : over'[p] = over[p]
        BY DEF Begin, Added
  <1>2. Once(q) => q \notin DOMAIN open /\ q \notin DOMAIN over /\ q \notin done \union failed
        BY DEF Begin, RequestsAreOnce
  <1>3. /\ Once(q) => open'[q] = r /\ over'[q] = {}
        /\ q \notin DOMAIN over => over'[q] = {}
        BY <1>2 DEF Begin, Added
  <1>4. \A p \in DOMAIN over' : \A x \in over'[p] : Whole(x) => x \in done'
    <2>1. \A p \in DOMAIN over : \A x \in over'[p] : Whole(x) => x \in done'
          BY <1>1 DEF Begin, RequestsAreOnce
    <2> QED BY <1>1, <1>3, <2>1
  <1>5. RequestsAreOnce'
        BY <1>1, <1>2, <1>4 DEF Begin, RequestsAreOnce
  <1> QED BY <1>1, <1>2, <1>3, <1>5 DEF Begin, Moved

\* q is refused: nothing of it is left.
LEMMA RefuseMoves ==
    ASSUME RequestsAreOnce, NEW q, Refuse(q)
    PROVE  Moved(q) /\ UNCHANGED <<open, over, done, failed>> /\ q \in todo
BY DEF Refuse, Moved, RequestsAreOnce

LEMMA ProceedMoves ==
    ASSUME RequestsAreOnce, NEW q, NEW r, Proceed(q, r)
    PROVE  /\ Moved(q) /\ UNCHANGED <<todo, over, done, failed>>
           /\ q \in DOMAIN open /\ q \in DOMAIN open' /\ open'[q] = r /\ DOMAIN open' = DOMAIN open
  <1>1. DOMAIN open' = DOMAIN open /\ open'[q] = r /\ \A p \in DOMAIN open \ {q} : open'[p] = open[p]
        BY DEF Proceed
  <1>2. RequestsAreOnce'
        BY <1>1 DEF Proceed, RequestsAreOnce
  <1>3. \A p \in DOMAIN over : over[p] \subseteq over'[p] /\ over'[p] \subseteq over[p] \union {q}
        BY DEF Proceed
  <1>4. Once(q) /\ q \in done' => \A p \in DOMAIN open' \intersect DOMAIN over : p # q => q \in over'[p]
        BY <1>1 DEF Proceed, RequestsAreOnce
  <1> QED BY <1>1, <1>2, <1>3, <1>4 DEF Proceed, Moved

LEMMA CommitMoves ==
    ASSUME RequestsAreOnce, NEW q, Commit(q)
    PROVE  /\ Moved(q) /\ UNCHANGED <<todo, failed>> /\ q \in DOMAIN open
           /\ DOMAIN open' = DOMAIN open \ {q} /\ done' = done \union {q} /\ (Once(q) => q \notin done)
           /\ DOMAIN over' = DOMAIN over /\ over'[q] = over[q]
           /\ \A p \in DOMAIN open' : q \in over'[p]
  <1>1. /\ DOMAIN open' = DOMAIN open \ {q} /\ \A p \in DOMAIN open \ {q} : open'[p] = open[p]
        /\ DOMAIN over' = DOMAIN over /\ q \in DOMAIN open /\ done' = done \union {q}
        /\ todo' = todo /\ failed' = failed
        BY DEF Commit, Close, Without
  <1>2. \A p \in DOMAIN over : over'[p] = IF p \in DOMAIN open \ {q} THEN over[p] \union {q} ELSE over[p]
        BY DEF Commit
  <1>3. (Once(q) => q \notin done) /\ q \in DOMAIN over
        BY <1>1 DEF RequestsAreOnce
  <1>4. RequestsAreOnce'
    <2>1. \A p \in DOMAIN over' : \A x \in over'[p] : Whole(x) => x \in done'
          BY <1>1, <1>2 DEF RequestsAreOnce
    <2>2. IsFiniteSet(done')
          BY <1>1, FS_AddElement DEF RequestsAreOnce
    <2> QED BY <1>1, <2>1, <2>2 DEF RequestsAreOnce
  <1>5. \A p \in DOMAIN open' : q \in over'[p]
        BY <1>1, <1>2 DEF RequestsAreOnce
  <1> QED BY <1>1, <1>2, <1>3, <1>4, <1>5 DEF Moved

LEMMA FailMoves ==
    ASSUME RequestsAreOnce, NEW q, Fail(q)
    PROVE  /\ Moved(q) /\ UNCHANGED <<todo, over, done>> /\ q \in DOMAIN open
           /\ DOMAIN open' = DOMAIN open \ {q} /\ failed' = failed \union {q}
  <1>1. /\ DOMAIN open' = DOMAIN open \ {q} /\ \A p \in DOMAIN open \ {q} : open'[p] = open[p]
        /\ over' = over /\ q \in DOMAIN open /\ done' = done
        /\ todo' = todo /\ failed' = failed \union {q}
        BY DEF Fail, Close, Without
  <1>2. RequestsAreOnce' /\ (Once(q) => q \notin done)
        BY <1>1 DEF RequestsAreOnce
  <1> QED BY <1>1, <1>2 DEF Moved

LEMMA DropMoves ==
    ASSUME RequestsAreOnce, NEW q, Drop(q)
    PROVE  /\ Moved(q) /\ UNCHANGED <<todo, over, done, failed>> /\ q \in DOMAIN open
           /\ DOMAIN open' = DOMAIN open \ {q}
  <1>1. /\ DOMAIN open' = DOMAIN open \ {q} /\ \A p \in DOMAIN open \ {q} : open'[p] = open[p]
        /\ over' = over /\ q \in DOMAIN open /\ done' = done
        /\ todo' = todo /\ failed' = failed
        BY DEF Drop, Close, Without
  <1>2. RequestsAreOnce' /\ (Once(q) => q \notin done)
        BY <1>1 DEF RequestsAreOnce
  <1> QED BY <1>1, <1>2 DEF Moved

LEMMA CommitPartMoves ==
    ASSUME RequestsAreOnce, NEW q, NEW r, CommitPart(q, r), ~Whole(q)
    PROVE  /\ Moved(q) /\ UNCHANGED <<todo, done, failed>> /\ q \in DOMAIN open
           /\ DOMAIN open' = DOMAIN open
  <1>1. /\ DOMAIN open' = DOMAIN open /\ \A p \in DOMAIN open \ {q} : open'[p] = open[p]
        /\ DOMAIN over' = DOMAIN over /\ q \in DOMAIN open /\ done' = done
        /\ todo' = todo /\ failed' = failed
        BY DEF CommitPart
  <1>2. \A p \in DOMAIN over : over'[p] = IF p \in DOMAIN open \ {q} THEN over[p] \union {q} ELSE over[p]
        BY DEF CommitPart
  <1>3. RequestsAreOnce' /\ (Once(q) => q \notin done)
    <2>1. \A p \in DOMAIN over' : \A x \in over'[p] : Whole(x) => x \in done'
          BY <1>1, <1>2 DEF RequestsAreOnce
    <2> QED BY <1>1, <2>1 DEF RequestsAreOnce
  <1> QED BY <1>1, <1>2, <1>3 DEF Moved

LEMMA AtOnceMoves ==
    ASSUME RequestsAreOnce, NEW q, AtOnce(q)
    PROVE  /\ Moved(q) /\ UNCHANGED <<open, failed>> /\ q \in todo /\ done' = done \union {q}
           /\ Once(q) => q \notin done /\ q \notin DOMAIN over
           /\ \A p \in DOMAIN open : q \in over'[p]
  <1>1. /\ open' = open /\ DOMAIN over' = DOMAIN over /\ q \in todo /\ done' = done \union {q}
        /\ todo' = todo \ {q} /\ failed' = failed
        BY DEF AtOnce
  <1>2. \A p \in DOMAIN over : over'[p] = IF p \in DOMAIN open THEN over[p] \union {q} ELSE over[p]
        BY DEF AtOnce
  <1>3. Once(q) => q \notin DOMAIN open \union DOMAIN over \union done \union failed
        BY <1>1 DEF RequestsAreOnce
  <1>4. RequestsAreOnce'
    <2>1. \A p \in DOMAIN over' : \A x \in over'[p] : Whole(x) => x \in done'
          BY <1>1, <1>2 DEF RequestsAreOnce
    <2>2. IsFiniteSet(done')
          BY <1>1, FS_AddElement DEF RequestsAreOnce
    <2> QED BY <1>1, <1>3, <2>1, <2>2 DEF RequestsAreOnce
  <1>5. \A p \in DOMAIN open : q \in over'[p]
        BY <1>1, <1>2 DEF RequestsAreOnce
  <1> QED BY <1>1, <1>2, <1>3, <1>4, <1>5 DEF Moved

LEMMA EveryMove ==
    ASSUME RequestsAreOnce
    PROVE  /\ \A q, r : Begin(q, r) \/ Proceed(q, r) \/ (CommitPart(q, r) /\ ~Whole(q)) => Moved(q)
           /\ \A q : Refuse(q) \/ Commit(q) \/ Fail(q) \/ Drop(q) \/ AtOnce(q) => Moved(q)
BY BeginMoves, ProceedMoves, CommitPartMoves, RefuseMoves, CommitMoves, FailMoves, DropMoves, AtOnceMoves

-----------------------------------------------------------------------------
(* Whose requests those of each part are *)

ContactOps   == {"create", "append", "patch", "import", "inbound", "send", "extract"}
MemoryOps    == {"remember"}
TagOps       == {"suggest", "autotag", "approve", "reject", "apply", "remove", "createTag", "renameTag", "deleteTag"}
ThreadOps    == {"receive", "start", "sendMessage", "forward", "deleteMessages", "open", "close", "upload", "inbox"}
AnalyticsOps == {"campaign", "status", "reply", "nightly", "backfill"}
AccountOps   == {"login", "refresh", "logout", "createUser", "updateUser", "password", "sections"}
ConsoleOps   == {"settings", "submit", "sync", "importTemplates"}
DraftOps     == {"createCampaign", "editCampaign", "validate", "createCategory", "renameCategory", "deleteCategory"}
SearchOps    == {"search", "createEntry", "editEntry", "deleteEntry", "reseed", "ingest", "repost", "correct"}

LEMMA ContactsMove ==
    ASSUME RequestsAreOnce, NEW q, ContactRequest(q)
    PROVE  Moved(q) /\ q.op \in ContactOps
  <1>1. CASE PostContact(q)
        BY <1>1, EveryMove DEF PostContact, CreateCheck, create_contact, ContactOps
  <1>2. CASE PostUpsert(q)
        BY <1>2, EveryMove DEF PostUpsert, UpsertRead, upsert_by_phone_append, ContactOps
  <1>3. CASE PatchContact(q) \/ PostBulkUpdate(q)
        BY <1>3, EveryMove DEF PatchContact, PostBulkUpdate, UpdateRead, update_contact, bulk_update, ContactOps
  <1>4. CASE PostImport(q)
        BY <1>4, EveryMove DEF PostImport, ImportRead, import_csv, ContactOps
  <1>5. CASE ReceiveMessage(q)
        BY <1>5, EveryMove DEF ReceiveMessage, UpsertRead, InboundCommit, ContactOps
  <1>6. CASE SendMessage(q)
        BY <1>6, EveryMove DEF SendMessage, SendRead, SendCommit, ContactOps
  <1>7. CASE ExtractInformation(q)
        BY <1>7, EveryMove DEF ExtractInformation, ExtractRead, _extract_information_direct,
           _ensure_contact_information, ContactOps
  <1> QED BY <1>1, <1>2, <1>3, <1>4, <1>5, <1>6, <1>7 DEF ContactRequest

LEMMA MemoryMoves ==
    ASSUME RequestsAreOnce, NEW q, MemoryRequest(q)
    PROVE  Moved(q) /\ q.op \in MemoryOps
BY EveryMove DEF MemoryRequest, RememberRead, _call_haiku_for_summary, TruncateFile, WriteFile,
   _upsert_tracking_row, RememberDies, MemoryOps

LEMMA TagsMove ==
    ASSUME RequestsAreOnce, NEW q, TagRequest(q)
    PROVE  Moved(q) /\ q.op \in TagOps
  <1>1. CASE SuggestTag(q) \/ AutoApplyTag(q)
        BY <1>1, EveryMove DEF SuggestTag, AutoApplyTag, TagRead, create_suggestion_sync, _apply_opt_out_tag_sync, TagOps
  <1>2. CASE PostApproval(q) \/ PostRejection(q)
        BY <1>2, EveryMove DEF PostApproval, PostRejection, _review, approve, reject, Decide, TagOps
  <1>3. CASE PostContactTag(q) \/ DeleteContactTag(q)
        BY <1>3, EveryMove DEF PostContactTag, DeleteContactTag, ApplyRead, apply_tag, remove_tag, TagOps
  <1>4. CASE PostTag(q) \/ PatchTag(q) \/ DeleteTag(q)
        BY <1>4, EveryMove DEF PostTag, PatchTag, DeleteTag, CreateTagRead, create_tag, RenameRead, update_tag,
           DeleteTagRead, delete_tag, TagOps
  <1> QED BY <1>1, <1>2, <1>3, <1>4 DEF TagRequest

LEMMA ThreadsMove ==
    ASSUME RequestsAreOnce, NEW q, ThreadRequest(q)
    PROVE  Moved(q) /\ q.op \in ThreadOps
  <1>1. CASE Receive(q)
        BY <1>1, EveryMove DEF Receive, CustomerWrites, FindConversation, persist_inbound, ThreadOps
  <1>2. CASE PostStart(q)
        BY <1>2, EveryMove DEF PostStart, StartRead, start_conversation_with_template, ThreadOps
  <1>3. CASE PostSend(q)
        BY <1>3, EveryMove DEF PostSend, ComposeRead, send_message, ThreadOps
  <1>4. CASE bulk_forward(q)
        BY <1>4, EveryMove DEF bulk_forward, ForwardRead, forward_message, ThreadOps
  <1>5. CASE PostDeletion(q)
        BY <1>5, EveryMove DEF PostDeletion, DeletionRead, delete_messages, ThreadOps
  <1>6. CASE PostMedia(q) \/ loadThread(q) \/ PostClose(q)
        BY <1>6, EveryMove DEF PostMedia, upload, loadThread, get_conversation, list_messages, PostClose, close_conversation, ThreadOps
  <1>7. CASE GetInbox(q)
        BY <1>7, EveryMove DEF GetInbox, ListStart, ListPage, ThreadOps
  <1> QED BY <1>1, <1>2, <1>3, <1>4, <1>5, <1>6, <1>7 DEF ThreadRequest

LEMMA AnalyticsMoves ==
    ASSUME RequestsAreOnce, NEW q, AnalyticsRequest(q)
    PROVE  Moved(q) /\ q.op \in AnalyticsOps
  <1>1. CASE mark_sent_sync(q) \/ update_delivery_status_sync(q) \/ mark_responded_for_contact_sync(q)
        BY <1>1, EveryMove DEF mark_sent_sync, update_delivery_status_sync, mark_responded_for_contact_sync, AnalyticsOps
  <1>2. CASE aggregate_daily_metrics_task(q) \/ backfill_daily_metrics_task(q)
        BY <1>2, EveryMove DEF aggregate_daily_metrics_task, backfill_daily_metrics_task, Reading, AnalyticsOps
  <1>3. CASE q \in Jobs /\ (WriteGlobal(q) \/ WriteCampaigns(q) \/ WriteTemplates(q) \/ WriteHours(q) \/ JobFails(q))
    <2>1. q.op \in AnalyticsOps /\ ~Whole(q)
          BY <1>3 DEF Jobs, AnalyticsOps, Whole
    <2> QED BY <1>3, <2>1, EveryMove DEF WriteGlobal, WriteCampaigns, WriteTemplates, WriteHours, JobFails, Writes
  <1> QED BY <1>1, <1>2, <1>3 DEF AnalyticsRequest

LEMMA AccountsMove ==
    ASSUME RequestsAreOnce, NEW q, AccountRequest(q)
    PROVE  Moved(q) /\ q.op \in AccountOps
  <1>1. CASE PostLogin(q) \/ PostRefresh(q) \/ PostLogout(q)
        BY <1>1, EveryMove DEF PostLogin, PostRefresh, PostLogout, LoginRead, login, RefreshRead, refresh, logout, AccountOps
  <1>2. CASE PostUser(q) \/ PatchUser(q) \/ PostPassword(q)
        BY <1>2, EveryMove DEF PostUser, PatchUser, PostPassword, CreateUserRead, create_user, UpdateUserRead,
           update_user, reset_password, AccountOps
  <1>3. CASE PutSections(q)
        BY <1>3, EveryMove DEF PutSections, SectionsRead, set_accessible_sections, AccountOps
  <1> QED BY <1>1, <1>2, <1>3 DEF AccountRequest

LEMMA ConsoleMoves ==
    ASSUME RequestsAreOnce, NEW q, ConsoleRequest(q)
    PROVE  Moved(q) /\ q.op \in ConsoleOps
  <1>1. CASE PutSettings(q)
        BY <1>1, EveryMove DEF PutSettings, SettingsRead, set_setting, ConsoleOps
  <1>2. CASE PostTemplate(q)
        BY <1>2, EveryMove DEF PostTemplate, SubmitRead, SubmitFails, submit_message_template, submit_template,
           SubmitDies, ConsoleOps
  <1>3. CASE PostSync(q)
        BY <1>3, EveryMove DEF PostSync, SyncRead, SyncAnswer, sync_status_from_meta, ConsoleOps
  <1>4. CASE PostImportFromMeta(q)
        BY <1>4, EveryMove DEF PostImportFromMeta, ImportRead_, import_from_meta, ConsoleOps
  <1> QED BY <1>1, <1>2, <1>3, <1>4 DEF ConsoleRequest

LEMMA DraftsMove ==
    ASSUME RequestsAreOnce, NEW q, DraftRequest(q)
    PROVE  Moved(q) /\ q.op \in DraftOps
  <1>1. CASE PostCampaign(q) \/ PatchCampaign(q)
        BY <1>1, EveryMove DEF PostCampaign, PatchCampaign, CreateCampaignRead, create_campaign, EditRead, update_campaign, DraftOps
  <1>2. CASE PostValidate(q)
        BY <1>2, EveryMove DEF PostValidate, ValidateRead, ValidateHold, validate_campaign, DraftOps
  <1>3. CASE PostCategory(q) \/ PatchCategory(q) \/ DeleteCategory(q)
        BY <1>3, EveryMove DEF PostCategory, PatchCategory, DeleteCategory, CreateCategoryRead, create_category,
           RenameCategoryRead, update_category, DeleteCategoryRead, delete_category, DraftOps
  <1> QED BY <1>1, <1>2, <1>3 DEF DraftRequest

LEMMA SearchMoves ==
    ASSUME RequestsAreOnce, NEW q, SearchRequest(q)
    PROVE  Moved(q) /\ q.op \in SearchOps
  <1>1. CASE search(q)
        BY <1>1, EveryMove DEF search, SearchStart, SearchBuy, SearchSell, SearchOps
  <1>2. CASE PostEntry(q) \/ PatchEntry(q) \/ DeleteEntry(q) \/ reseed_vocab(q)
        BY <1>2, EveryMove DEF PostEntry, PatchEntry, DeleteEntry, reseed_vocab, CreateEntryRead, create_vocab_entry,
           UpdateEntryRead, update_vocab_entry, DeleteEntryRead, delete_vocab_entry, upsert_seed, SearchOps
  <1>3. CASE \/ q.op = "ingest" /\ q \in todo /\ Ingested(q)
             \/ q.op = "repost" /\ q \in todo /\ _bump_fingerprint_row(q)
             \/ q.op = "correct" /\ q \in todo /\ _apply_resolve(q)
        BY <1>3, EveryMove DEF Ingested, _bump_fingerprint_row, _apply_resolve, SearchOps
  <1> QED BY <1>1, <1>2, <1>3 DEF SearchRequest

LEMMA DeletionMoves ==
    ASSUME RequestsAreOnce, NEW q, DeleteContacts(q)
    PROVE  Moved(q) /\ q.op = "delete"
BY EveryMove DEF DeleteContacts, DeleteRead, bulk_delete

\* Nobody moves; beat may have queued a nightly run.
Idle == /\ UNCHANGED <<open, over, done, failed>>
        /\ todo \subseteq todo' /\ \A q \in todo' \ todo : ~Once(q)

LEMMA IdleKeepsOnce == RequestsAreOnce /\ Idle => RequestsAreOnce'
BY DEF RequestsAreOnce, Idle

LEMMA MovedKeepsOnce == ASSUME NEW q, Moved(q) PROVE RequestsAreOnce'
BY DEF Moved

\* What is not a request's leaves the requests alone.
LEMMA OthersAreIdle ==
    ASSUME RequestsAreOnce, Sweep \/ Time \/ MetaDecides \/ HandsOver \/ UNCHANGED vars
    PROVE  Idle
  <1>1. CASE Sweep
        BY <1>1 DEF Sweep, sweep_follow_up_task, requests, Idle
  <1>2. CASE Time
    <2>1. UNCHANGED <<open, over, done, failed>> /\ Nightly
          BY <1>2 DEF Time
    <2>2. todo \subseteq todo' /\ \A q \in todo' \ todo : q.op = "nightly"
          BY <2>1 DEF Nightly
    <2> QED BY <2>1, <2>2 DEF Idle, Once
  <1>3. CASE MetaDecides
        BY <1>3 DEF MetaDecides, requests, Idle
  <1>4. CASE HandsOver
        BY <1>4 DEF HandsOver, requests, Idle
  <1>5. CASE UNCHANGED vars
        BY <1>5 DEF vars, requests, Idle
  <1> QED BY <1>1, <1>2, <1>3, <1>4, <1>5

\* A step is one of a request, or of none.
LEMMA WorkMoves ==
    ASSUME RequestsAreOnce, NEW q, Work(q)
    PROVE  Moved(q)
BY ContactsMove, DeletionMoves, MemoryMoves, TagsMove, ThreadsMove, AnalyticsMoves, AccountsMove, ConsoleMoves,
   DraftsMove, SearchMoves DEF Work

LEMMA OnceKept == RequestsAreOnce /\ [Next]_vars => RequestsAreOnce'
  <1> SUFFICES ASSUME RequestsAreOnce, [Next]_vars PROVE RequestsAreOnce'
      OBVIOUS
  <1>1. CASE \E q \in todo \union DOMAIN open : Work(q)
        BY <1>1, WorkMoves, MovedKeepsOnce
  <1>2. CASE Sweep \/ Time \/ MetaDecides \/ HandsOver \/ UNCHANGED vars
        BY <1>2, OthersAreIdle, IdleKeepsOnce
  <1> QED BY <1>1, <1>2 DEF Next

LEMMA OnceInit == Init => RequestsAreOnce
BY FS_EmptySet DEF Init, InitRequests, RequestsAreOnce

\* Somebody moves whose request is none of ops, or nobody does.
Aside(ops) == Idle \/ \E q : Moved(q) /\ q.op \notin ops

LEMMA AsideFacts ==
    ASSUME RequestsAreOnce, NEW ops, Aside(ops)
    PROVE  /\ \A p : p.op \in ops => /\ p \in done' <=> p \in done
                                     /\ p \in failed' <=> p \in failed
                                     /\ p \in DOMAIN open' <=> p \in DOMAIN open
                                     /\ p \in DOMAIN open => open'[p] = open[p]
           /\ done \subseteq done' /\ failed \subseteq failed'
           /\ DOMAIN over \subseteq DOMAIN over' /\ \A p \in DOMAIN over : over[p] \subseteq over'[p]
           /\ DOMAIN open \subseteq DOMAIN over
  <1>1. CASE Idle
        BY <1>1 DEF Idle, RequestsAreOnce
  <1>2. CASE \E q : Moved(q) /\ q.op \notin ops
    <2> PICK q : Moved(q) /\ q.op \notin ops
        BY <1>2
    <2>1. \A p : p.op \in ops => p # q
          OBVIOUS
    <2>2. \A p : p # q => (p \in done' <=> p \in done) /\ (p \in failed' <=> p \in failed)
          BY DEF Moved
    <2>3. \A p : p # q => (p \in DOMAIN open' <=> p \in DOMAIN open) /\ (p \in DOMAIN open => open'[p] = open[p])
          BY DEF Moved
    <2>4. /\ done \subseteq done' /\ failed \subseteq failed'
          /\ DOMAIN over \subseteq DOMAIN over' /\ \A p \in DOMAIN over : over[p] \subseteq over'[p]
          BY DEF Moved
    <2> QED BY <2>1, <2>2, <2>3, <2>4 DEF RequestsAreOnce
  <1> QED BY <1>1, <1>2 DEF Aside

LEMMA OverlapStays ==
    ASSUME NEW p, NEW q, Overlapped(p, q),
           DOMAIN over \subseteq DOMAIN over', \A x \in DOMAIN over : over[x] \subseteq over'[x]
    PROVE  Overlapped(p, q)'
BY DEF Overlapped

-----------------------------------------------------------------------------
(* Tags *)

Review == {"approve", "reject"}
Reviewing == {q \in DOMAIN open : q.op \in Review}

\* Ids are given once.
TagsShape ==
    /\ known \in Nat /\ DOMAIN tags \subseteq 1..known /\ DOMAIN suggested \subseteq 1..known
    /\ \A s \in DOMAIN suggested : /\ DOMAIN suggested[s] = {"contact", "tag", "status"}
                                   /\ suggested[s].status \in SuggestionStatus

\* A review in progress knows the suggestion, if it is still there, and has been
\* overtaken by every other review of it that has committed.
ReviewsRead == \A q \in Reviewing :
    /\ q.s \in 1..known
    /\ q.s \in DOMAIN suggested => /\ suggested[q.s].contact = open[q].contact
                                   /\ suggested[q.s].tag = open[q].tag
    /\ Reviews(q.s) \subseteq over[q]

ReviewsKnown == \A q \in done : q.op \in Review => q.s \in 1..known

StatusTold == \A s \in DOMAIN suggested :
    /\ suggested[s].status = "PENDING" => Reviews(s) = {}
    /\ suggested[s].status = "APPROVED" => \E q \in Reviews(s) : q.op = "approve"

ReviewsOverlap == \A p, q \in done :
    p.op \in Review /\ q.op \in Review /\ p.s = q.s => p = q \/ Overlapped(p, q)

ReviewsSound == TagsShape /\ ReviewsRead /\ ReviewsKnown /\ StatusTold /\ ReviewsOverlap
TagsInv == RequestsAreOnce /\ ReviewsSound /\ TagHasReason /\ ApprovedIsAttached

\* Suggestions come new and pending, and go.
Suggesting ==
    /\ known' \in Nat /\ known <= known' /\ DOMAIN tags' \subseteq 1..known'
    /\ \A s \in DOMAIN suggested' :
          \/ s \in DOMAIN suggested /\ suggested'[s] = suggested[s]
          \/ /\ s \in (known + 1)..known' /\ suggested'[s].status = "PENDING"
             /\ DOMAIN suggested'[s] = {"contact", "tag", "status"}

LEMMA UnreviewedKeepsReviews ==
    ASSUME RequestsAreOnce, ReviewsSound, Aside(Review), Suggesting
    PROVE  ReviewsSound'
  <1>1. known \in Nat /\ known' \in Nat /\ known <= known' /\ 1..known \subseteq 1..known'
        BY DEF ReviewsSound, TagsShape, Suggesting
  <1>2. /\ \A p : p.op \in Review => /\ p \in done' <=> p \in done
                                     /\ p \in DOMAIN open' <=> p \in DOMAIN open
                                     /\ p \in DOMAIN open => open'[p] = open[p]
        /\ DOMAIN over \subseteq DOMAIN over' /\ \A p \in DOMAIN over : over[p] \subseteq over'[p]
        /\ DOMAIN open \subseteq DOMAIN over
        BY AsideFacts
  <1>3. \A s : Reviews(s)' = Reviews(s)
        BY <1>2 DEF Reviews, Review
  <1>4. Reviewing' = Reviewing /\ \A q \in Reviewing : open'[q] = open[q] /\ over[q] \subseteq over'[q]
        BY <1>2 DEF Reviewing
  <1>5. TagsShape'
    <2>1. DOMAIN suggested' \subseteq 1..known'
          BY <1>1 DEF ReviewsSound, TagsShape, Suggesting
    <2> QED BY <1>1, <2>1 DEF ReviewsSound, TagsShape, Suggesting, SuggestionStatus
  <1>6. ReviewsRead'
        BY <1>1, <1>3, <1>4 DEF ReviewsSound, TagsShape, ReviewsRead, Suggesting
  <1>7. ReviewsKnown'
        BY <1>2, <1>1 DEF ReviewsSound, ReviewsKnown
  <1>8. \A s \in (known + 1)..known' : Reviews(s) = {}
        BY <1>1 DEF ReviewsSound, ReviewsKnown, Reviews, Review
  <1>9. StatusTold'
        BY <1>3, <1>8 DEF ReviewsSound, StatusTold, Suggesting
  <1>10. ReviewsOverlap'
        BY <1>2, OverlapStays DEF ReviewsSound, ReviewsOverlap
  <1> QED BY <1>5, <1>6, <1>7, <1>9, <1>10 DEF ReviewsSound

\* A link comes with its reason and goes with its suggestions; of a suggestion it
\* goes with a removal.
Linking ==
    /\ \A l \in links' \ links : \E q \in done' :
          (q.op = "apply" /\ q.id = l.contact /\ q.tag = l.tag) \/ (q.op = "autotag" /\ q.id = l.contact)
    /\ \A l \in links' \intersect links : \A s \in DOMAIN suggested :
          suggested[s].contact = l.contact /\ suggested[s].tag = l.tag => s \in DOMAIN suggested'
    /\ \A s \in DOMAIN suggested \intersect DOMAIN suggested' :
          \/ Link(suggested[s].contact, suggested[s].tag) \notin links \ links'
          \/ \E q \in done' : q.op = "remove" /\ q.id = suggested[s].contact /\ q.tag = suggested[s].tag

LEMMA UnreviewedKeepsTags ==
    ASSUME TagsInv, Aside(Review), Suggesting, Linking
    PROVE  TagsInv'
  <1>1. /\ done \subseteq done' /\ DOMAIN over \subseteq DOMAIN over'
        /\ \A p \in DOMAIN over : over[p] \subseteq over'[p]
        /\ \A p : p.op \in Review => (p \in done' <=> p \in done)
        BY AsideFacts DEF TagsInv
  <1>2. ReviewsSound'
        BY UnreviewedKeepsReviews DEF TagsInv
  <1>3. RequestsAreOnce'
        BY IdleKeepsOnce, MovedKeepsOnce DEF TagsInv, Aside
  <1>4. \A s : Reviews(s)' = Reviews(s)
        BY <1>1 DEF Reviews, Review
  <1>5. \A s \in DOMAIN suggested : s \in DOMAIN suggested' => suggested'[s] = suggested[s]
        BY DEF Suggesting, TagsInv, ReviewsSound, TagsShape
  <1>6. TagHasReason'
    <2> SUFFICES ASSUME NEW l \in links'
                 PROVE  \/ \E q \in done' : q.op = "apply" /\ q.id = l.contact /\ q.tag = l.tag
                        \/ \E q \in done' : q.op = "autotag" /\ q.id = l.contact
                        \/ \E s \in DOMAIN suggested' :
                              /\ suggested'[s].contact = l.contact /\ suggested'[s].tag = l.tag
                              /\ \/ suggested'[s].status = "APPROVED"
                                 \/ \E p, q \in Reviews(s)' : p.op # q.op /\ Overlapped(p, q)'
        BY DEF TagHasReason
    <2>1. CASE l \notin links
          BY <2>1 DEF Linking
    <2>2. CASE l \in links
      <3>1. CASE \E q \in done : (q.op = "apply" /\ q.id = l.contact /\ q.tag = l.tag) \/ (q.op = "autotag" /\ q.id = l.contact)
            BY <3>1, <1>1
      <3>2. CASE \E s \in DOMAIN suggested :
                    /\ suggested[s].contact = l.contact /\ suggested[s].tag = l.tag
                    /\ \/ suggested[s].status = "APPROVED"
                       \/ \E p, q \in Reviews(s) : p.op # q.op /\ Overlapped(p, q)
        <4> PICK s \in DOMAIN suggested :
                    /\ suggested[s].contact = l.contact /\ suggested[s].tag = l.tag
                    /\ \/ suggested[s].status = "APPROVED"
                       \/ \E p, q \in Reviews(s) : p.op # q.op /\ Overlapped(p, q)
            BY <3>2
        <4>1. s \in DOMAIN suggested' /\ suggested'[s] = suggested[s]
              BY <2>2, <1>5 DEF Linking
        <4>2. CASE suggested[s].status = "APPROVED"
              BY <4>1, <4>2
        <4>3. CASE \E p, q \in Reviews(s) : p.op # q.op /\ Overlapped(p, q)
              BY <4>1, <4>3, <1>1, <1>4, OverlapStays
        <4> QED BY <4>2, <4>3
      <3> QED BY <2>2, <3>1, <3>2 DEF TagsInv, TagHasReason
    <2> QED BY <2>1, <2>2
  <1>7. ApprovedIsAttached'
    <2> SUFFICES ASSUME NEW s \in DOMAIN suggested', suggested'[s].status = "APPROVED"
                 PROVE  \/ Link(suggested'[s].contact, suggested'[s].tag) \in links'
                        \/ \E q \in done' : q.op = "remove" /\ q.id = suggested'[s].contact /\ q.tag = suggested'[s].tag
        BY DEF ApprovedIsAttached, Link
    <2>1. s \in DOMAIN suggested /\ suggested'[s] = suggested[s]
          BY DEF Suggesting
    <2>2. \/ Link(suggested[s].contact, suggested[s].tag) \in links
          \/ \E q \in done : q.op = "remove" /\ q.id = suggested[s].contact /\ q.tag = suggested[s].tag
          BY <2>1 DEF TagsInv, ApprovedIsAttached
    <2> QED BY <1>1, <2>1, <2>2 DEF Linking
  <1> QED BY <1>2, <1>3, <1>6, <1>7 DEF TagsInv

LEMMA TagsLeftAlone ==
    ASSUME TagsInv, Aside(Review), UNCHANGED tagState
    PROVE  TagsInv'
  <1>1. Suggesting
        BY DEF Suggesting, TagsInv, ReviewsSound, TagsShape, tagState
  <1>2. Linking
        BY DEF Linking, tagState
  <1> QED BY <1>1, <1>2, UnreviewedKeepsTags

LEMMA TagsOfTheDeleted ==
    ASSUME TagsInv, NEW q, DeleteContacts(q)
    PROVE  TagsInv'
  <1>1. Aside(Review)
        BY DeletionMoves DEF TagsInv, Aside, Review
  <1>2. CASE DeleteRead(q) /\ UNCHANGED tagState
        BY <1>1, <1>2, TagsLeftAlone
  <1>3. CASE TagsWithout(open[q])
    <2>1. /\ known' = known /\ tags' = tags
          /\ links' = {l \in links : l.contact \notin open[q]}
          /\ DOMAIN suggested' = {s \in DOMAIN suggested : suggested[s].contact \notin open[q]}
          /\ \A s \in DOMAIN suggested' : suggested'[s] = suggested[s]
          BY <1>3 DEF TagsWithout, Without
    <2>2. Suggesting
          BY <2>1 DEF Suggesting, TagsInv, ReviewsSound, TagsShape
    <2>3. Linking
          BY <2>1 DEF Linking, Link
    <2> QED BY <1>1, <2>2, <2>3, UnreviewedKeepsTags
  <1> QED BY <1>2, <1>3 DEF DeleteContacts

LEMMA SuggestionsKeepTags ==
    ASSUME TagsInv, NEW q, TagRequest(q), SuggestTag(q) \/ AutoApplyTag(q)
    PROVE  TagsInv'
  <1>1. Aside(Review)
        BY TagsMove DEF TagsInv, Aside, Review, SuggestTag, AutoApplyTag
  <1>2. CASE TagRead(q)
        BY <1>1, <1>2, TagsLeftAlone DEF TagRead
  <1>3. known \in Nat /\ DOMAIN tags \subseteq 1..known /\ DOMAIN suggested \subseteq 1..known
        BY DEF TagsInv, ReviewsSound, TagsShape
  <1>4. ASSUME WithTag(q), known' = known + 2 PROVE DOMAIN tags' \subseteq 1..known'
        BY <1>3, <1>4 DEF WithTag, Added
  <1>5. CASE q.op = "suggest" /\ create_suggestion_sync(q)
    <2>1. known' = known + 2 /\ links' = links /\ WithTag(q)
          BY <1>5 DEF create_suggestion_sync
    <2>2. /\ DOMAIN suggested' = DOMAIN suggested \union {known + 2}
          /\ \A s \in DOMAIN suggested : suggested'[s] = suggested[s]
          /\ suggested'[known + 2] = [contact |-> q.id, tag |-> TagOf(q), status |-> "PENDING"]
          BY <1>3, <1>5 DEF create_suggestion_sync, Added
    <2>3. Suggesting
          BY <1>3, <1>4, <2>1, <2>2 DEF Suggesting
    <2>4. Linking
          BY <2>1, <2>2 DEF Linking
    <2> QED BY <1>1, <2>3, <2>4, UnreviewedKeepsTags
  <1>6. CASE q.op = "autotag" /\ _apply_opt_out_tag_sync(q)
    <2>1. /\ known' = known + 2 /\ links' = links \union {Link(q.id, TagOf(q))} /\ WithTag(q)
          /\ suggested' = suggested /\ q \in done'
          BY <1>6 DEF _apply_opt_out_tag_sync, Commit
    <2>2. Suggesting
          BY <1>3, <1>4, <2>1 DEF Suggesting
    <2>3. Linking
          BY <1>6, <2>1 DEF Linking, Link
    <2> QED BY <1>1, <2>2, <2>3, UnreviewedKeepsTags
  <1> QED BY <1>2, <1>5, <1>6 DEF SuggestTag, AutoApplyTag

LEMMA HandsKeepTags ==
    ASSUME TagsInv, NEW q, TagRequest(q), PostContactTag(q) \/ DeleteContactTag(q)
    PROVE  TagsInv'
  <1>1. Aside(Review)
        BY TagsMove DEF TagsInv, Aside, Review, PostContactTag, DeleteContactTag
  <1>2. CASE ApplyRead(q)
        BY <1>1, <1>2, TagsLeftAlone DEF ApplyRead
  <1>3. CASE q.op = "apply" /\ apply_tag(q)
    <2>1. /\ UNCHANGED <<tags, suggested, known>>
          /\ links' = links \/ (links' = links \union {Link(q.id, q.tag)} /\ q \in done')
          BY <1>3 DEF apply_tag, Commit
    <2>2. Suggesting
          BY <2>1 DEF Suggesting, TagsInv, ReviewsSound, TagsShape
    <2>3. Linking
          BY <1>3, <2>1 DEF Linking, Link
    <2> QED BY <1>1, <2>2, <2>3, UnreviewedKeepsTags
  <1>4. CASE q.op = "remove" /\ remove_tag(q)
    <2>1. /\ UNCHANGED <<tags, suggested, known>>
          /\ links' = links \ {Link(q.id, q.tag)} /\ q \in done'
          BY <1>4 DEF remove_tag, AtOnce
    <2>2. Suggesting
          BY <2>1 DEF Suggesting, TagsInv, ReviewsSound, TagsShape
    <2>3. Linking
          BY <1>4, <2>1 DEF Linking, Link
    <2> QED BY <1>1, <2>2, <2>3, UnreviewedKeepsTags
  <1> QED BY <1>2, <1>3, <1>4 DEF PostContactTag, DeleteContactTag

LEMMA NamesKeepTags ==
    ASSUME TagsInv, NEW q, TagRequest(q), PostTag(q) \/ PatchTag(q) \/ DeleteTag(q)
    PROVE  TagsInv'
  <1>1. Aside(Review)
        BY TagsMove DEF TagsInv, Aside, Review, PostTag, PatchTag, DeleteTag
  <1>2. known \in Nat /\ DOMAIN tags \subseteq 1..known /\ DOMAIN suggested \subseteq 1..known
        BY DEF TagsInv, ReviewsSound, TagsShape
  <1>3. CASE CreateTagRead(q) \/ RenameRead(q) \/ DeleteTagRead(q)
        BY <1>1, <1>3, TagsLeftAlone DEF CreateTagRead, RenameRead, DeleteTagRead
  <1>4. CASE create_tag(q)
    <2>1. UNCHANGED <<links, suggested>> /\ known' \in {known, known + 1} /\ DOMAIN tags' \subseteq 1..known'
          BY <1>2, <1>4 DEF create_tag, Added
    <2>2. Suggesting
          BY <1>2, <2>1 DEF Suggesting
    <2>3. Linking
          BY <2>1 DEF Linking
    <2> QED BY <1>1, <2>2, <2>3, UnreviewedKeepsTags
  <1>5. CASE update_tag(q)
    <2>1. UNCHANGED <<links, suggested, known>> /\ DOMAIN tags' = DOMAIN tags
          BY <1>5 DEF update_tag
    <2>2. Suggesting
          BY <1>2, <2>1 DEF Suggesting
    <2>3. Linking
          BY <2>1 DEF Linking
    <2> QED BY <1>1, <2>2, <2>3, UnreviewedKeepsTags
  <1>6. CASE delete_tag(q)
    <2>1. /\ known' = known /\ DOMAIN tags' \subseteq DOMAIN tags
          /\ links' = {l \in links : l.tag # q.tag}
          /\ DOMAIN suggested' = {s \in DOMAIN suggested : suggested[s].tag # q.tag}
          /\ \A s \in DOMAIN suggested' : suggested'[s] = suggested[s]
          BY <1>6 DEF delete_tag, Without
    <2>2. Suggesting
          BY <1>2, <2>1 DEF Suggesting
    <2>3. Linking
          BY <2>1 DEF Linking, Link
    <2> QED BY <1>1, <2>2, <2>3, UnreviewedKeepsTags
  <1> QED BY <1>3, <1>4, <1>5, <1>6 DEF PostTag, PatchTag, DeleteTag

\* A review begins when none of its suggestion has ended.
LEMMA ReviewBegins ==
    ASSUME TagsInv, NEW q, q.op \in Review, _review(q), Moved(q)
    PROVE  TagsInv'
  <1>0. RequestsAreOnce /\ ReviewsSound /\ Once(q)
        BY DEF TagsInv, Once, Review
  <1>1. UNCHANGED <<tags, links, suggested, known>>
        BY DEF _review, tagState
  <1>2. /\ RequestsAreOnce' /\ done \subseteq done' /\ DOMAIN over \subseteq DOMAIN over'
        /\ \A p \in DOMAIN over : over[p] \subseteq over'[p]
        BY DEF Moved
  <1>3. done' = done
        BY <1>0, BeginMoves, RefuseMoves DEF _review
  <1>4. \A s : Reviews(s)' = Reviews(s)
        BY <1>3 DEF Reviews
  <1>5. TagsShape' /\ ReviewsKnown' /\ StatusTold'
        BY <1>0, <1>1, <1>3, <1>4 DEF ReviewsSound, TagsShape, ReviewsKnown, StatusTold
  <1>6. ReviewsOverlap'
        BY <1>0, <1>2, <1>3, OverlapStays DEF ReviewsSound, ReviewsOverlap
  <1>7. TagHasReason' /\ ApprovedIsAttached'
        BY <1>1, <1>2, <1>3, <1>4, OverlapStays DEF TagsInv, TagHasReason, ApprovedIsAttached
  <1>8. ReviewsRead'
    <2> SUFFICES ASSUME NEW p \in Reviewing'
                 PROVE  /\ p.s \in 1..known
                        /\ p.s \in DOMAIN suggested => /\ suggested[p.s].contact = open'[p].contact
                                                       /\ suggested[p.s].tag = open'[p].tag
                        /\ Reviews(p.s) \subseteq over'[p]
        BY <1>1, <1>4 DEF ReviewsRead
    <2>1. CASE p \in DOMAIN open /\ open'[p] = open[p]
      <3>1. p \in Reviewing /\ over[p] \subseteq over'[p]
            BY <1>0, <1>2, <2>1 DEF Reviewing, RequestsAreOnce
      <3> QED BY <1>0, <2>1, <3>1 DEF ReviewsSound, ReviewsRead
    <2>2. CASE p = q /\ q.s \in DOMAIN suggested /\ suggested[q.s].status = "PENDING" /\ open'[q] = suggested[q.s]
          BY <1>0, <2>2 DEF ReviewsSound, TagsShape, StatusTold
    <2>3. CASE p # q
          BY <2>1, <2>3 DEF Reviewing, Moved
    <2>4. CASE p = q
      <3>1. CASE Refuse(q)
            BY <1>0, <2>1, <2>4, <3>1, RefuseMoves DEF Reviewing
      <3>2. CASE q.s \in DOMAIN suggested /\ suggested[q.s].status = "PENDING" /\ Begin(q, suggested[q.s])
            BY <1>0, <2>2, <2>4, <3>2, BeginMoves
      <3> QED BY <3>1, <3>2 DEF _review
    <2> QED BY <2>3, <2>4
  <1> QED BY <1>2, <1>5, <1>6, <1>7, <1>8 DEF TagsInv, ReviewsSound

\* A review ends: it has been overtaken by all other reviews of its suggestion.
LEMMA ReviewEnds ==
    ASSUME TagsInv, NEW q, q \in DOMAIN open,
           (q.op = "approve" /\ approve(q)) \/ (q.op = "reject" /\ reject(q))
    PROVE  TagsInv'
  <1>0. RequestsAreOnce /\ ReviewsSound /\ Once(q) /\ q.op \in Review
        BY DEF TagsInv, Once, Review
  <1>1. UNCHANGED <<tags, known>>
        BY DEF approve, reject
  <1>2. CASE q.s \notin DOMAIN suggested
    <2>1. Fail(q) /\ UNCHANGED <<suggested, links>>
          BY <1>2 DEF approve, reject, Decide
    <2>2. Moved(q) /\ done' = done /\ over' = over /\ DOMAIN open' = DOMAIN open \ {q}
          BY <1>0, <2>1, FailMoves
    <2>3. RequestsAreOnce' /\ \A s : Reviews(s)' = Reviews(s)
          BY <2>2 DEF Moved, Reviews
    <2>4. TagsShape' /\ ReviewsKnown' /\ StatusTold' /\ ReviewsOverlap'
          BY <1>0, <1>1, <2>1, <2>2, <2>3 DEF ReviewsSound, TagsShape, ReviewsKnown, StatusTold, ReviewsOverlap, Overlapped
    <2>5. ReviewsRead'
          BY <1>0, <1>1, <2>1, <2>2, <2>3 DEF ReviewsSound, ReviewsRead, Reviewing, Moved
    <2>6. TagHasReason' /\ ApprovedIsAttached'
          BY <2>1, <2>2, <2>3 DEF TagsInv, TagHasReason, ApprovedIsAttached, Overlapped
    <2> QED BY <2>3, <2>4, <2>5, <2>6 DEF TagsInv, ReviewsSound
  <1>3. CASE q.s \in DOMAIN suggested
    <2> DEFINE status == IF q.op = "approve" THEN "APPROVED" ELSE "REJECTED"
               mine   == Link(suggested[q.s].contact, suggested[q.s].tag)
    <2>0. q \in Reviewing /\ suggested[q.s].contact = open[q].contact /\ suggested[q.s].tag = open[q].tag
          BY <1>0, <1>3 DEF Reviewing, ReviewsSound, ReviewsRead
    <2>1. /\ Commit(q) /\ suggested' = [suggested EXCEPT ![q.s].status = status]
          /\ links' = IF q.op = "approve" THEN links \union {mine} ELSE links
          BY <1>3, <2>0 DEF approve, reject, Decide, attach, Review
    <2>2. /\ Moved(q) /\ done' = done \union {q} /\ DOMAIN over' = DOMAIN over /\ over'[q] = over[q]
          /\ DOMAIN open' = DOMAIN open \ {q} /\ \A p \in DOMAIN open' : q \in over'[p]
          BY <1>0, <2>1, CommitMoves
    <2>3. RequestsAreOnce' /\ DOMAIN over \subseteq DOMAIN over' /\ \A p \in DOMAIN over : over[p] \subseteq over'[p]
          BY <2>2 DEF Moved
    <2>4. /\ DOMAIN suggested' = DOMAIN suggested
          /\ \A s \in DOMAIN suggested : s # q.s => suggested'[s] = suggested[s]
          /\ suggested'[q.s].status = status /\ suggested'[q.s].contact = suggested[q.s].contact
          /\ suggested'[q.s].tag = suggested[q.s].tag /\ DOMAIN suggested'[q.s] = {"contact", "tag", "status"}
          BY <1>0, <1>3, <2>1 DEF ReviewsSound, TagsShape
    <2>5. \A s : Reviews(s)' = IF s = q.s THEN Reviews(s) \union {q} ELSE Reviews(s)
          BY <2>2 DEF Reviews, Review
    <2>6. q.s \in 1..known /\ Reviews(q.s) \subseteq over[q]
          BY <1>0, <2>0 DEF ReviewsSound, ReviewsRead
    <2>7. TagsShape'
          BY <1>0, <1>1, <2>4 DEF ReviewsSound, TagsShape, SuggestionStatus
    <2>8. ReviewsKnown'
          BY <1>0, <1>1, <2>2, <2>6 DEF ReviewsSound, ReviewsKnown
    <2>9. StatusTold'
          BY <1>0, <2>4, <2>5, <1>3 DEF ReviewsSound, StatusTold, Review
    <2>10. ReviewsRead'
      <3> SUFFICES ASSUME NEW p \in Reviewing'
                   PROVE  /\ p.s \in 1..known
                          /\ p.s \in DOMAIN suggested => /\ suggested[p.s].contact = open'[p].contact
                                                         /\ suggested[p.s].tag = open'[p].tag
                          /\ Reviews(p.s) \union {q} \subseteq over'[p]
          BY <1>1, <2>4, <2>5 DEF ReviewsRead
      <3>1. p \in Reviewing /\ open'[p] = open[p] /\ over[p] \subseteq over'[p] /\ q \in over'[p]
            BY <1>0, <2>2, <2>3 DEF Reviewing, Moved, RequestsAreOnce
      <3> QED BY <1>0, <3>1 DEF ReviewsSound, ReviewsRead
    <2>11. ReviewsOverlap'
      <3> SUFFICES ASSUME NEW a \in done', NEW b \in done', a.op \in Review, b.op \in Review, a.s = b.s, a # b
                   PROVE  Overlapped(a, b)'
          BY DEF ReviewsOverlap
      <3>1. CASE a \in done /\ b \in done
            BY <1>0, <2>3, <3>1, OverlapStays DEF ReviewsSound, ReviewsOverlap
      <3>2. \A x \in done : x.op \in Review /\ x.s = q.s => x \in over'[q] /\ q \in DOMAIN over'
            BY <1>0, <2>2, <2>6 DEF Reviews, Review, RequestsAreOnce
      <3>3. CASE a = q /\ b \in done
            BY <3>2, <3>3 DEF Overlapped
      <3>4. CASE b = q /\ a \in done
            BY <3>2, <3>4 DEF Overlapped
      <3> QED BY <2>2, <3>1, <3>3, <3>4
    <2>12. TagHasReason'
      <3> SUFFICES ASSUME NEW l \in links'
                   PROVE  \/ \E p \in done' : p.op = "apply" /\ p.id = l.contact /\ p.tag = l.tag
                          \/ \E p \in done' : p.op = "autotag" /\ p.id = l.contact
                          \/ \E s \in DOMAIN suggested' :
                                /\ suggested'[s].contact = l.contact /\ suggested'[s].tag = l.tag
                                /\ \/ suggested'[s].status = "APPROVED"
                                   \/ \E a, b \in Reviews(s)' : a.op # b.op /\ Overlapped(a, b)'
          BY DEF TagHasReason
      <3>1. CASE l \notin links
        <4>1. q.op = "approve" /\ l = mine
              BY <2>1, <3>1
        <4> QED BY <1>3, <2>4, <4>1 DEF Link
      <3>2. CASE \E p \in done : (p.op = "apply" /\ p.id = l.contact /\ p.tag = l.tag) \/ (p.op = "autotag" /\ p.id = l.contact)
            BY <2>2, <3>2
      <3>3. CASE \E s \in DOMAIN suggested :
                    /\ suggested[s].contact = l.contact /\ suggested[s].tag = l.tag
                    /\ \/ suggested[s].status = "APPROVED"
                       \/ \E a, b \in Reviews(s) : a.op # b.op /\ Overlapped(a, b)
        <4> PICK s \in DOMAIN suggested :
                    /\ suggested[s].contact = l.contact /\ suggested[s].tag = l.tag
                    /\ \/ suggested[s].status = "APPROVED"
                       \/ \E a, b \in Reviews(s) : a.op # b.op /\ Overlapped(a, b)
            BY <3>3
        <4>1. suggested'[s].contact = l.contact /\ suggested'[s].tag = l.tag /\ s \in DOMAIN suggested'
              BY <2>4
        <4>2. CASE \E a, b \in Reviews(s) : a.op # b.op /\ Overlapped(a, b)
              BY <2>3, <2>5, <4>1, <4>2, OverlapStays
        <4>3. CASE suggested[s].status = "APPROVED" /\ (s # q.s \/ q.op = "approve")
              BY <2>4, <4>1, <4>3
        <4>4. CASE suggested[s].status = "APPROVED" /\ s = q.s /\ q.op = "reject"
          <5> PICK a \in Reviews(s) : a.op = "approve"
              BY <1>0, <4>4 DEF ReviewsSound, StatusTold
          <5>1. a \in over'[q] /\ q \in DOMAIN over'
                BY <1>0, <2>2, <2>6, <4>4 DEF RequestsAreOnce
          <5>2. a \in Reviews(s)' /\ q \in Reviews(s)' /\ a.op # q.op /\ Overlapped(a, q)'
                BY <2>5, <4>4, <5>1 DEF Overlapped
          <5> QED BY <4>1, <5>2
        <4> QED BY <4>2, <4>3, <4>4 DEF Review
      <3> QED BY <3>1, <3>2, <3>3 DEF TagsInv, TagHasReason
    <2>13. ApprovedIsAttached'
      <3> SUFFICES ASSUME NEW s \in DOMAIN suggested', suggested'[s].status = "APPROVED"
                   PROVE  \/ Link(suggested'[s].contact, suggested'[s].tag) \in links'
                          \/ \E p \in done' : p.op = "remove" /\ p.id = suggested'[s].contact /\ p.tag = suggested'[s].tag
          BY DEF ApprovedIsAttached, Link
      <3>1. CASE s = q.s
        <4>1. q.op = "approve"
              BY <2>4, <3>1 DEF Review
        <4> QED BY <2>1, <2>4, <3>1, <4>1
      <3>2. CASE s # q.s
            BY <2>1, <2>2, <2>4, <3>2 DEF TagsInv, ApprovedIsAttached
      <3> QED BY <3>1, <3>2
    <2> QED BY <2>3, <2>7, <2>8, <2>9, <2>10, <2>11, <2>12, <2>13 DEF TagsInv, ReviewsSound
  <1> QED BY <1>2, <1>3

LEMMA TagRequestsKeepTags ==
    ASSUME TagsInv, NEW q, TagRequest(q)
    PROVE  TagsInv'
  <1>1. CASE SuggestTag(q) \/ AutoApplyTag(q)
        BY <1>1, SuggestionsKeepTags
  <1>2. CASE PostContactTag(q) \/ DeleteContactTag(q)
        BY <1>2, HandsKeepTags
  <1>3. CASE PostTag(q) \/ PatchTag(q) \/ DeleteTag(q)
        BY <1>3, NamesKeepTags
  <1>4. CASE PostApproval(q) \/ PostRejection(q)
    <2>1. q.op \in Review /\ Moved(q)
          BY <1>4, TagsMove DEF PostApproval, PostRejection, Review, TagsInv
    <2>2. CASE _review(q)
          BY <2>1, <2>2, ReviewBegins
    <2>3. CASE q \in DOMAIN open /\ q.op = "approve" /\ approve(q)
          BY <2>3, ReviewEnds
    <2>4. CASE q \in DOMAIN open /\ q.op = "reject" /\ reject(q)
          BY <2>4, ReviewEnds
    <2> QED BY <1>4, <2>2, <2>3, <2>4 DEF PostApproval, PostRejection
  <1> QED BY <1>1, <1>2, <1>3, <1>4 DEF TagRequest

LEMMA TagsStep ==
    ASSUME TagsInv, [Next]_vars
    PROVE  TagsInv'
  <1>0. RequestsAreOnce
        BY DEF TagsInv
  <1>1. ASSUME NEW q, Work(q) PROVE TagsInv'
    <2>1. CASE TagRequest(q)
          BY <2>1, TagRequestsKeepTags
    <2>2. CASE DeleteContacts(q)
          BY <2>2, TagsOfTheDeleted
    <2>3. CASE /\ UNCHANGED tagState
               /\ \/ ContactRequest(q) \/ MemoryRequest(q) \/ ThreadRequest(q) \/ AnalyticsRequest(q)
                  \/ AccountRequest(q) \/ ConsoleRequest(q) \/ DraftRequest(q) \/ SearchRequest(q)
      <3>1. Moved(q) /\ q.op \notin Review
            BY <1>0, <2>3, ContactsMove, MemoryMoves, ThreadsMove, AnalyticsMoves, AccountsMove, ConsoleMoves,
               DraftsMove, SearchMoves
               DEF Review, ContactOps, MemoryOps, ThreadOps, AnalyticsOps, AccountOps, ConsoleOps, DraftOps, SearchOps
      <3> QED BY <2>3, <3>1, TagsLeftAlone DEF Aside
    <2>4. TagRequest(q) \/ DeleteContacts(q) \/ UNCHANGED tagState
          BY <1>1 DEF Work, ThreadRequest, DraftRequest
    <2> QED BY <1>1, <2>1, <2>2, <2>3, <2>4 DEF Work
  <1>2. CASE Sweep \/ Time \/ MetaDecides \/ HandsOver \/ UNCHANGED vars
    <2>1. UNCHANGED tagState
          BY <1>2 DEF Sweep, Time, MetaDecides, HandsOver, Besides, vars
    <2> QED BY <1>0, <1>2, <2>1, OthersAreIdle, TagsLeftAlone DEF Aside
  <1> QED BY <1>1, <1>2 DEF Next

LEMMA TagsInit == Init => TagsInv
  <1> SUFFICES ASSUME Init PROVE TagsInv
      OBVIOUS
  <1>1. /\ open = <<>> /\ over = <<>> /\ done = {} /\ failed = {}
        /\ tags = <<>> /\ links = {} /\ suggested = <<>> /\ known = 0
        BY DEF Init, InitRequests, InitTags
  <1> QED BY <1>1, OnceInit DEF TagsInv, ReviewsSound, TagsShape, ReviewsRead, Reviewing, ReviewsKnown, StatusTold,
          ReviewsOverlap, TagHasReason, ApprovedIsAttached

\* Every tag on a contact is there for a reason: an agent or the system put it on,
\* or a suggestion was approved; the tag of an approved suggestion stays until
\* somebody removes it; and a suggestion is decided once, unless two reviews of it
\* overlapped (CategorizationService._review reads the status without a lock).
THEOREM TagSoundness == Spec => []TagsAreExplained
  <1>1. TagsInv /\ [Next]_vars => TagsInv'
        BY TagsStep
  <1>2. TagsInv => TagsAreExplained
        BY DEF TagsInv, TagsAreExplained, ReviewsSound, ReviewsOverlap, OneDecision, Reviews, Review
  <1> QED BY <1>1, <1>2, TagsInit, PTL DEF Spec

-----------------------------------------------------------------------------
(* Accounts *)

Asked == todo \union DOMAIN open \union done

IsToken(t) == DOMAIN t = {"user", "revoked", "by"} /\ t.revoked \in BOOLEAN

\* Tokens are numbered.
AccountsShape ==
    /\ \A u \in DOMAIN users : /\ DOMAIN users[u] = {"role", "active"}
                               /\ users[u].role \in {"admin", "agent"} /\ users[u].active \in BOOLEAN
    /\ \A q \in Asked : WellFormed(q)
    /\ IsFiniteSet(DOMAIN tokens) /\ DOMAIN tokens = 1..Cardinality(DOMAIN tokens)
    /\ \A t \in DOMAIN tokens : IsToken(tokens[t])
    /\ DOMAIN sections = Users

Takings == {q \in Changes_ : TakesAdmin(q)}
TwoTook == \E p, q \in Takings : p # q /\ Overlapped(p, q)

\* Whoever is about to take an admin away has seen another, and so has whoever has
\* done so since.
AdminRemains ==
    \/ TwoTook
    \/ /\ Admins # {}
       /\ \A q \in DOMAIN open : q.op = "updateUser" /\ TakesAdmin(q) =>
             Admins # {q.user} \/ over[q] \intersect Takings # {}

\* Whoever is about to get a session is active, or was changed since.
SessionsKnown == \A q \in DOMAIN open : q.op \in {"login", "refresh"} /\ q.user \in DOMAIN users =>
    users[q.user].active \/ \E p \in over[q] \intersect Changes_ : p.user = q.user

RefreshKnown == \A q \in DOMAIN open : q.op = "refresh" =>
    open[q] \in DOMAIN tokens /\ tokens[open[q]].user = q.user

Logins(u) == {q \in done : q.op = "login" /\ q.user = u}
Refreshes(u) == {q \in done : q.op = "refresh" /\ q.user = u}
TwoRefreshed(u) == \E p, q \in Refreshes(u) : p # q /\ Overlapped(p, q)
\* Whoever is about to replace a token that is not live any more has been overtaken
\* by the one that replaced it, or makes up for one that was ended.
OneEach(u) ==
    \/ TwoRefreshed(u)
    \/ /\ Cardinality(Live(u)) <= Cardinality(Logins(u))
       /\ \A q \in DOMAIN open : q.op = "refresh" /\ q.user = u =>
             \/ open[q] \in Live(u) \/ over[q] \intersect Refreshes(u) # {}
             \/ Cardinality(Live(u)) < Cardinality(Logins(u))

\* What a change in progress has read is a user.
ChangesKnown == \A q \in DOMAIN open : q.op = "updateUser" => open[q].active \in BOOLEAN

SessionsSound == ChangesKnown /\ SessionsKnown /\ DeactivatedHasNoSession /\ RefreshKnown /\ \A u : OneEach(u)
AccountsInv == RequestsAreOnce /\ AccountsShape /\ AdminRemains /\ SessionsSound /\ SectionsAreOneRequests

\* What q's step leaves of the others.
LEMMA MoveFacts ==
    ASSUME RequestsAreOnce, NEW q, Moved(q), Once(q)
    PROVE  /\ \A p \in DOMAIN open' : p # q => /\ p \in DOMAIN open /\ open'[p] = open[p] /\ over[p] \subseteq over'[p]
                                               /\ q \in done' => q \in over'[p]
           /\ done \subseteq done' /\ done' \subseteq done \union {q}
           /\ DOMAIN over \subseteq DOMAIN over' /\ \A p \in DOMAIN over : over[p] \subseteq over'[p]
           /\ \A a, b : Overlapped(a, b) => Overlapped(a, b)'
           /\ Asked' \subseteq Asked /\ q \in Asked
           /\ IsFiniteSet(done) /\ IsFiniteSet(done')
  <1>1. DOMAIN over \subseteq DOMAIN over' /\ \A p \in DOMAIN over : over[p] \subseteq over'[p]
        BY DEF Moved
  <1>2. \A a, b : Overlapped(a, b) => Overlapped(a, b)'
        BY <1>1, OverlapStays
  <1>3. Asked' \subseteq Asked /\ q \in Asked
        BY DEF Moved, Asked
  <1>4. \A p \in DOMAIN open' : p # q => /\ p \in DOMAIN open /\ open'[p] = open[p] /\ over[p] \subseteq over'[p]
                                         /\ q \in done' => q \in over'[p]
        BY DEF Moved, RequestsAreOnce
  <1> QED BY <1>1, <1>2, <1>3, <1>4 DEF Moved, RequestsAreOnce

LEMMA AccountsLeftAlone ==
    ASSUME AccountsInv, RequestsAreOnce', UNCHANGED accountState, Aside(AccountOps)
    PROVE  AccountsInv'
  <1>1. /\ \A p : p.op \in AccountOps => /\ p \in done' <=> p \in done
                                         /\ p \in DOMAIN open' <=> p \in DOMAIN open
                                         /\ p \in DOMAIN open => open'[p] = open[p]
        /\ DOMAIN over \subseteq DOMAIN over' /\ \A p \in DOMAIN over : over[p] \subseteq over'[p]
        /\ DOMAIN open \subseteq DOMAIN over
        BY AsideFacts DEF AccountsInv
  <1>2. UNCHANGED <<users, tokens, sections>>
        BY DEF accountState
  <1>3. \A a, b : Overlapped(a, b) => Overlapped(a, b)'
        BY <1>1, OverlapStays
  <1>4. Admins' = Admins /\ \A u : Live(u)' = Live(u)
        BY <1>2 DEF Admins, Live
  <1>5. /\ Changes_' = Changes_ /\ Takings' = Takings
        /\ \A u : Logins(u)' = Logins(u) /\ Refreshes(u)' = Refreshes(u)
        BY <1>1 DEF Changes_, Takings, Logins, Refreshes, AccountOps
  <1>6. AccountsShape'
    <2>1. \A q \in Asked' : q \in Asked \/ q.op = "nightly"
          BY DEF Aside, Idle, Moved, Asked, Once
    <2>2. \A q \in Asked' : WellFormed(q)
          BY <2>1 DEF AccountsInv, AccountsShape, WellFormed
    <2> QED BY <1>2, <2>2 DEF AccountsInv, AccountsShape
  <1>7. AdminRemains'
    <2>1. CASE TwoTook
          BY <1>3, <1>5, <2>1 DEF TwoTook, AdminRemains
    <2>2. CASE ~TwoTook
      <3>1. \A q \in DOMAIN open' : q.op = "updateUser" => q \in DOMAIN open /\ over[q] \subseteq over'[q]
            BY <1>1 DEF AccountOps
      <3> QED BY <1>4, <1>5, <2>2, <3>1 DEF AccountsInv, AdminRemains
    <2> QED BY <2>1, <2>2
  <1>8. SessionsSound'
    <2>0. \A q \in DOMAIN open' : q.op \in {"login", "refresh", "updateUser"} =>
              q \in DOMAIN open /\ open'[q] = open[q] /\ over[q] \subseteq over'[q]
          BY <1>1 DEF AccountOps
    <2>1. ChangesKnown' /\ SessionsKnown'
          BY <1>2, <1>5, <2>0 DEF AccountsInv, SessionsSound, ChangesKnown, SessionsKnown
    <2>2. DeactivatedHasNoSession'
          BY <1>2, <1>3, <1>4, <1>5 DEF AccountsInv, SessionsSound, DeactivatedHasNoSession
    <2>3. RefreshKnown'
          BY <1>2, <2>0 DEF AccountsInv, SessionsSound, RefreshKnown
    <2>4. ASSUME NEW u PROVE OneEach(u)'
      <3>1. OneEach(u)
            BY DEF AccountsInv, SessionsSound
      <3>2. CASE TwoRefreshed(u)
            BY <1>3, <1>5, <3>2 DEF TwoRefreshed, OneEach
      <3>3. CASE ~TwoRefreshed(u)
            BY <1>4, <1>5, <2>0, <3>1, <3>3 DEF OneEach
      <3> QED BY <3>2, <3>3
    <2> QED BY <2>1, <2>2, <2>3, <2>4 DEF SessionsSound
  <1>9. SectionsAreOneRequests'
    <2>1. \A u : {q \in done' : q.op = "sections" /\ q.user = u} = {q \in done : q.op = "sections" /\ q.user = u}
          BY <1>1 DEF AccountOps
    <2> DEFINE Given(u) == {q \in done : q.op = "sections" /\ q.user = u}
    <2>2. \A u \in Users : \/ sections[u] \in {{}} \union {q.sections : q \in Given(u)}
                           \/ \E p, q \in Given(u) : p # q /\ Overlapped(p, q)
          BY DEF AccountsInv, SectionsAreOneRequests
    <2>3. \A u : Given(u)' = Given(u)
          BY <2>1
    <2> HIDE DEF Given
    <2>4. \A u \in Users : \/ sections'[u] \in {{}} \union {q.sections : q \in Given(u)'}
                           \/ \E p, q \in Given(u)' : p # q /\ Overlapped(p, q)'
      <3> TAKE u \in Users
      <3>1. Given(u)' = Given(u) /\ sections'[u] = sections[u]
            BY <1>2, <2>3
      <3>2. CASE sections[u] \in {{}} \union {q.sections : q \in Given(u)}
            BY <3>1, <3>2
      <3>3. CASE \E p, q \in Given(u) : p # q /\ Overlapped(p, q)
            BY <1>3, <3>1, <3>3
      <3> QED BY <2>2, <3>2, <3>3
    <2> QED BY <2>4 DEF Given, SectionsAreOneRequests
  <1> QED BY <1>6, <1>7, <1>8, <1>9 DEF AccountsInv

IsIssued(t, q) == IsToken(t) /\ t.user = q.user /\ t.revoked = FALSE /\ t.by = q

\* A new token gets the next number.
LEMMA Issued ==
    ASSUME AccountsShape, NEW q, NEW ts, Issue(q, ts), DOMAIN ts = DOMAIN tokens
    PROVE  /\ IsFiniteSet(DOMAIN tokens') /\ DOMAIN tokens' = 1..Cardinality(DOMAIN tokens')
           /\ \E n : n \notin DOMAIN tokens /\ DOMAIN tokens' = DOMAIN tokens \union {n} /\ IsIssued(tokens'[n], q)
           /\ \A t \in DOMAIN tokens : tokens'[t] = ts[t]
  <1> DEFINE n == Cardinality(DOMAIN tokens)
  <1>1. n \in Nat /\ DOMAIN tokens = 1..n /\ IsFiniteSet(DOMAIN tokens)
        BY FS_CardinalityType DEF AccountsShape
  <1>2. n + 1 \notin DOMAIN tokens
        BY <1>1
  <1>3. /\ DOMAIN tokens' = DOMAIN tokens \union {n + 1}
        /\ tokens'[n + 1] = [user |-> q.user, revoked |-> FALSE, by |-> q]
        /\ \A t \in DOMAIN tokens : tokens'[t] = ts[t]
        BY <1>2 DEF Issue, Added
  <1>4. IsFiniteSet(DOMAIN tokens') /\ Cardinality(DOMAIN tokens') = n + 1
        BY <1>1, <1>2, <1>3, FS_AddElement
  <1>5. DOMAIN tokens' = 1..(n + 1)
        BY <1>1, <1>3
  <1>6. IsIssued(tokens'[n + 1], q)
        BY <1>3 DEF IsIssued, IsToken
  <1> HIDE DEF n
  <1> QED BY <1>2, <1>3, <1>4, <1>5, <1>6

\* What becomes of the tokens that there are.
LEMMA Revoked ==
    ASSUME AccountsShape, NEW u, RevokeAll(u)
    PROVE  /\ DOMAIN tokens' = DOMAIN tokens /\ Live(u)' = {} /\ \A v : v # u => Live(v)' = Live(v)
           /\ \A t \in DOMAIN tokens : /\ tokens'[t].user = tokens[t].user /\ tokens'[t].by = tokens[t].by
                                       /\ IsToken(tokens'[t])
  <1>1. DOMAIN tokens' = DOMAIN tokens
        BY DEF RevokeAll
  <1>2. \A t \in DOMAIN tokens : /\ tokens'[t].user = tokens[t].user /\ tokens'[t].by = tokens[t].by
                                 /\ DOMAIN tokens'[t] = {"user", "revoked", "by"}
                                 /\ IF tokens[t].user = u THEN tokens'[t].revoked = TRUE
                                    ELSE tokens'[t].revoked = tokens[t].revoked
    <2>1. \A t \in DOMAIN tokens : DOMAIN tokens[t] = {"user", "revoked", "by"}
          BY DEF AccountsShape, IsToken
    <2> QED BY <2>1 DEF RevokeAll
  <1>3. \A t \in DOMAIN tokens : IsToken(tokens'[t])
        BY <1>2 DEF AccountsShape, IsToken
  <1> QED BY <1>1, <1>2, <1>3 DEF Live

\* ts are the tokens once t is revoked.
Ended(t, ts) == ts = [tokens EXCEPT ![t].revoked = TRUE]

LEMMA RevokedOne ==
    ASSUME AccountsShape, NEW t \in DOMAIN tokens, NEW ts, Ended(t, ts)
    PROVE  /\ DOMAIN ts = DOMAIN tokens
           /\ \A s \in DOMAIN tokens : /\ ts[s].user = tokens[s].user /\ ts[s].by = tokens[s].by
                                       /\ IsToken(ts[s])
                                       /\ s # t => ts[s] = tokens[s]
           /\ ts[t].revoked = TRUE
  <1>1. /\ DOMAIN ts = DOMAIN tokens /\ \A s \in DOMAIN tokens : s # t => ts[s] = tokens[s]
        /\ ts[t] = [tokens[t] EXCEPT !.revoked = TRUE]
        BY DEF Ended
  <1>2. DOMAIN tokens[t] = {"user", "revoked", "by"}
        BY DEF AccountsShape, IsToken
  <1>3. /\ ts[t].user = tokens[t].user /\ ts[t].by = tokens[t].by
        /\ DOMAIN ts[t] = {"user", "revoked", "by"} /\ ts[t].revoked = TRUE
        BY <1>1, <1>2
  <1>4. IsToken(ts[t])
        BY <1>3 DEF IsToken
  <1> QED BY <1>1, <1>3, <1>4 DEF AccountsShape

\* What an admin's change makes of a user.
LEMMA Changed ==
    ASSUME AccountsShape, NEW q, q \in DOMAIN open, q.op = "updateUser", update_user(q)
    PROVE  /\ DOMAIN users' = DOMAIN users
           /\ \A u \in DOMAIN users : /\ u # q.user => users'[u] = users[u]
                                      /\ DOMAIN users'[u] = {"role", "active"}
                                      /\ users'[u].role \in {"admin", "agent"} /\ users'[u].active \in BOOLEAN
           /\ q.user \in DOMAIN users =>
                /\ users'[q.user].role # users[q.user].role =>
                      "role" \in Diff(q, open[q]) /\ users'[q.user].role = q.patch.role
                /\ users'[q.user].active # users[q.user].active =>
                      "active" \in Diff(q, open[q]) /\ users'[q.user].active = q.patch.active
  <1>1. DOMAIN users' = DOMAIN users /\ \A u \in DOMAIN users : u # q.user => users'[u] = users[u]
        BY DEF update_user
  <1>2. WellFormed(q)
        BY DEF AccountsShape, Asked
  <1>3. CASE q.user \in DOMAIN users
    <2>1. users'[q.user] = [f \in {"role", "active"} |-> IF f \in Diff(q, open[q]) THEN q.patch[f] ELSE users[q.user][f]]
          BY <1>3 DEF update_user, apply_updates, AccountsShape
    <2>2. "role" \in Diff(q, open[q]) => q.patch.role \in {"admin", "agent"}
          BY <1>2 DEF WellFormed, Diff
    <2>3. "active" \in Diff(q, open[q]) => q.patch.active \in BOOLEAN
          BY <1>2 DEF WellFormed, Diff
    <2>4. DOMAIN users'[q.user] = {"role", "active"} /\ users'[q.user].role \in {"admin", "agent"}
          BY <1>3, <2>1, <2>2 DEF AccountsShape
    <2>5. users'[q.user].active \in BOOLEAN
          BY <1>3, <2>1, <2>3 DEF AccountsShape
    <2> QED BY <1>1, <2>1, <2>4, <2>5 DEF AccountsShape
  <1> QED BY <1>1, <1>3 DEF AccountsShape

LEMMA Created ==
    ASSUME AccountsShape, NEW q, q \in DOMAIN open, q.op = "createUser", create_user(q)
    PROVE  /\ DOMAIN users \subseteq DOMAIN users' /\ DOMAIN users' \subseteq DOMAIN users \union {q.user}
           /\ \A u \in DOMAIN users : users'[u] = users[u]
           /\ \A u \in DOMAIN users' \ DOMAIN users : /\ DOMAIN users'[u] = {"role", "active"}
                                                      /\ users'[u].role \in {"admin", "agent"} /\ users'[u].active = TRUE
  <1>1. WellFormed(q)
        BY DEF AccountsShape, Asked
  <1> QED BY <1>1 DEF create_user, Added, WellFormed

LEMMA ShapeStep ==
    ASSUME AccountsInv, NEW q, AccountRequest(q), Moved(q), Once(q)
    PROVE  AccountsShape'
  <1>0. RequestsAreOnce /\ AccountsShape
        BY DEF AccountsInv
  <1>1. Asked' \subseteq Asked
        BY <1>0, MoveFacts
  <1>2. \A p \in Asked' : WellFormed(p)
        BY <1>0, <1>1 DEF AccountsShape
  <1>3. CASE UNCHANGED accountState
        BY <1>0, <1>2, <1>3 DEF AccountsShape, accountState
  <1>4. CASE q \in DOMAIN open /\ (login(q) \/ refresh(q))
    <2>1. /\ users' = users /\ sections' = sections
          /\ \E ts : /\ Issue(q, ts) /\ DOMAIN ts = DOMAIN tokens
                     /\ \A t \in DOMAIN tokens : IsToken(ts[t])
      <3>1. CASE login(q)
            BY <1>0, <3>1 DEF login, AccountsShape
      <3>2. CASE refresh(q) /\ open[q] \in DOMAIN tokens
        <4> PICK ts : Ended(open[q], ts)
            BY DEF Ended
        <4>1. /\ DOMAIN ts = DOMAIN tokens
              /\ \A t \in DOMAIN tokens : IsToken(ts[t])
              BY <1>0, <3>2, RevokedOne
        <4>2. users' = users /\ sections' = sections /\ Issue(q, ts)
              BY <3>2 DEF refresh, Ended
        <4> QED BY <4>1, <4>2
      <3>3. CASE refresh(q) /\ open[q] \notin DOMAIN tokens
        <4>1. [tokens EXCEPT ![open[q]].revoked = TRUE] = [t \in DOMAIN tokens |-> tokens[t]]
              BY <3>3
        <4> QED BY <1>0, <3>3, <4>1 DEF refresh, AccountsShape
      <3> QED BY <1>4, <3>1, <3>2, <3>3
    <2> PICK ts : /\ Issue(q, ts) /\ DOMAIN ts = DOMAIN tokens
                  /\ \A t \in DOMAIN tokens : IsToken(ts[t])
        BY <2>1
    <2>2. /\ IsFiniteSet(DOMAIN tokens') /\ DOMAIN tokens' = 1..Cardinality(DOMAIN tokens')
          /\ \E n : n \notin DOMAIN tokens /\ DOMAIN tokens' = DOMAIN tokens \union {n} /\ IsIssued(tokens'[n], q)
          /\ \A t \in DOMAIN tokens : tokens'[t] = ts[t]
          BY <1>0, Issued
    <2>3. \A t \in DOMAIN tokens' : IsToken(tokens'[t])
      <3> PICK n : DOMAIN tokens' = DOMAIN tokens \union {n} /\ IsIssued(tokens'[n], q)
          BY <2>2
      <3>1. IsToken(tokens'[n])
            BY DEF IsIssued
      <3>2. \A t \in DOMAIN tokens : tokens'[t] = ts[t]
            BY <2>2
      <3> QED BY <3>1, <3>2
    <2> QED BY <1>0, <1>2, <2>1, <2>2, <2>3 DEF AccountsShape
  <1>5. CASE logout(q)
    <2> PICK t \in Live(q.user) : Ended(t, tokens')
        BY <1>5 DEF logout, Ended
    <2>0. t \in DOMAIN tokens
          BY DEF Live
    <2>1. /\ DOMAIN tokens' = DOMAIN tokens
          /\ \A s \in DOMAIN tokens : IsToken(tokens'[s])
          BY <1>0, <2>0, RevokedOne
    <2> QED BY <1>0, <1>2, <1>5, <2>1 DEF AccountsShape, logout
  <1>6. CASE reset_password(q)
    <2>1. RevokeAll(q.user) \/ tokens' = tokens
          BY <1>6 DEF reset_password
    <2>2. CASE RevokeAll(q.user)
      <3>1. /\ DOMAIN tokens' = DOMAIN tokens
            /\ \A s \in DOMAIN tokens : IsToken(tokens'[s])
            BY <1>0, <2>2, Revoked
      <3> QED BY <1>0, <1>2, <1>6, <3>1 DEF AccountsShape, reset_password
    <2> QED BY <1>0, <1>2, <1>6, <2>1, <2>2 DEF AccountsShape, reset_password
  <1>7. CASE q.op = "createUser" /\ q \in DOMAIN open /\ create_user(q)
    <2>1. \A u \in DOMAIN users' : /\ DOMAIN users'[u] = {"role", "active"}
                                   /\ users'[u].role \in {"admin", "agent"} /\ users'[u].active \in BOOLEAN
          BY <1>0, <1>7, Created DEF AccountsShape
    <2> QED BY <1>0, <1>2, <1>7, <2>1 DEF AccountsShape, create_user
  <1>8. CASE q.op = "updateUser" /\ q \in DOMAIN open /\ update_user(q)
    <2>1. \A u \in DOMAIN users' : /\ DOMAIN users'[u] = {"role", "active"}
                                   /\ users'[u].role \in {"admin", "agent"} /\ users'[u].active \in BOOLEAN
          BY <1>0, <1>8, Changed
    <2>2. RevokeAll(q.user) \/ tokens' = tokens
          BY <1>8 DEF update_user
    <2>3. /\ DOMAIN tokens' = DOMAIN tokens
          /\ \A s \in DOMAIN tokens : IsToken(tokens'[s])
          BY <1>0, <2>2, Revoked DEF AccountsShape
    <2> QED BY <1>0, <1>2, <1>8, <2>1, <2>3 DEF AccountsShape, update_user
  <1>9. CASE q \in DOMAIN open /\ set_accessible_sections(q)
        BY <1>0, <1>2, <1>9 DEF AccountsShape, set_accessible_sections
  <1> QED BY <1>3, <1>4, <1>5, <1>6, <1>7, <1>8, <1>9 DEF AccountRequest, PostLogin, PostRefresh, PostLogout, PostUser,
          PatchUser, PostPassword, PutSections, LoginRead, RefreshRead, CreateUserRead, UpdateUserRead, SectionsRead

\* No admin goes without one who stays, or without another who took one away too.
LEMMA AdminStep ==
    ASSUME AccountsInv, NEW q, AccountRequest(q), Moved(q), Once(q), Whole(q)
    PROVE  AdminRemains'
  <1>0. RequestsAreOnce /\ AccountsShape /\ AdminRemains
        BY DEF AccountsInv
  <1>1. /\ \A p \in DOMAIN open' : p # q => /\ p \in DOMAIN open /\ open'[p] = open[p] /\ over[p] \subseteq over'[p]
                                            /\ q \in done' => q \in over'[p]
        /\ done \subseteq done' /\ done' \subseteq done \union {q}
        /\ \A a, b : Overlapped(a, b) => Overlapped(a, b)'
        BY <1>0, MoveFacts
  <1>2. Takings \subseteq Takings' /\ Takings' \subseteq Takings \union {q}
        BY <1>1 DEF Takings, Changes_
  <1>3. CASE TwoTook
        BY <1>1, <1>2, <1>3 DEF TwoTook, AdminRemains
  <1>4. CASE ~TwoTook
    <2>0. /\ Admins # {}
          /\ \A p \in DOMAIN open : p.op = "updateUser" /\ TakesAdmin(p) =>
                Admins # {p.user} \/ over[p] \intersect Takings # {}
          BY <1>0, <1>4 DEF AdminRemains
    <2>1. CASE Admins \subseteq Admins' /\ (q \in DOMAIN open' /\ q.op = "updateUser" /\ TakesAdmin(q) => Admins' # {q.user})
      <3>1. Admins' # {}
            BY <2>0, <2>1
      <3>2. ASSUME NEW p \in DOMAIN open', p # q, p.op = "updateUser", TakesAdmin(p), Admins' = {p.user}
            PROVE  over'[p] \intersect Takings' # {}
        <4>1. Admins = {p.user}
              BY <2>0, <2>1, <3>2
        <4> QED BY <1>1, <1>2, <2>0, <3>2, <4>1
      <3> QED BY <2>1, <3>1, <3>2 DEF AdminRemains
    <2>2. CASE UNCHANGED users /\ (q.op # "updateUser" \/ q \notin DOMAIN open')
          BY <2>1, <2>2 DEF Admins
    <2>3. CASE q.op = "createUser" /\ q \in DOMAIN open /\ create_user(q)
      <3>1. Admins \subseteq Admins'
            BY <1>0, <2>3, Created DEF Admins
      <3> QED BY <2>1, <2>3, <3>1
    <2>4. CASE q.op = "updateUser" /\ q \in todo /\ UpdateUserRead(q)
      <3>1. users' = users /\ Admins' = Admins
            BY <2>4 DEF UpdateUserRead, accountState, Admins
      <3>2. CASE Refuse(q)
            BY <1>0, <2>2, <2>4, <3>1, <3>2, RefuseMoves DEF RequestsAreOnce
      <3>3. CASE ~Refuse(q)
        <4> DEFINE old == users[q.user]
        <4>1. /\ q.user \in DOMAIN users
              /\ ~(/\ old.active /\ (Demotes(q, old) \/ (Deactivates(q, old) /\ old.role = "admin"))
                   /\ count_other_active_admins(q.user) = 0)
              BY <2>4, <3>3 DEF UpdateUserRead
        <4>2. ASSUME TakesAdmin(q), Admins = {q.user}
              PROVE  FALSE
          <5>1. old.role = "admin" /\ old.active = TRUE
                BY <4>2, <1>0 DEF Admins, AccountsShape
          <5>2. Demotes(q, old) \/ Deactivates(q, old)
            <6>1. CASE "role" \in DOMAIN q.patch /\ q.patch.role = "agent"
                  BY <5>1, <6>1 DEF Demotes, Diff
            <6>2. CASE "active" \in DOMAIN q.patch /\ ~q.patch.active
              <7>1. q.patch.active # old.active
                    BY <5>1, <6>2
              <7> QED BY <5>1, <6>2, <7>1 DEF Deactivates, Diff
            <6> QED BY <4>2, <6>1, <6>2 DEF TakesAdmin
          <5>3. Cardinality(Admins \ {q.user}) = 0
            <6>1. Admins \ {q.user} = {}
                  BY <4>2
            <6> QED BY <6>1, FS_EmptySet
          <5> QED BY <4>1, <5>1, <5>2, <5>3 DEF count_other_active_admins
        <4> QED BY <2>1, <3>1, <4>2
      <3> QED BY <3>2, <3>3
    <2>5. CASE q.op = "updateUser" /\ q \in DOMAIN open /\ update_user(q)
      <3>1. /\ q \notin DOMAIN open' /\ done' = done \union {q} /\ q \notin done
            /\ q \in DOMAIN over' /\ over'[q] = over[q]
            BY <1>0, <2>5, CommitMoves DEF update_user, RequestsAreOnce, Once
      <3>2. CASE Admins \subseteq Admins'
            BY <2>1, <3>1, <3>2
      <3>3. CASE ~(Admins \subseteq Admins')
        <4>1. q.user \in Admins /\ \A u \in Admins : u # q.user => u \in Admins'
              BY <1>0, <2>5, <3>3, Changed DEF Admins
        <4>2. q.user \in DOMAIN users /\ users[q.user].role = "admin" /\ users[q.user].active = TRUE
              BY <1>0, <4>1 DEF Admins, AccountsShape
        <4>3. users'[q.user].role # users[q.user].role \/ users'[q.user].active # users[q.user].active
              BY <1>0, <2>5, <3>3, <4>1, <4>2, Changed DEF Admins
        <4>4. TakesAdmin(q)
          <5>0. WellFormed(q)
                BY <1>0, <2>5 DEF AccountsShape, Asked
          <5>1. CASE users'[q.user].role # users[q.user].role
                BY <1>0, <2>5, <4>2, <5>0, <5>1, Changed DEF TakesAdmin, Diff, WellFormed
          <5>2. CASE users'[q.user].active # users[q.user].active
                BY <1>0, <2>5, <4>2, <5>0, <5>2, Changed DEF TakesAdmin, Diff, WellFormed
          <5> QED BY <4>3, <5>1, <5>2
        <4>5. q \in Takings'
              BY <2>5, <3>1, <4>4 DEF Takings, Changes_
        <4>6. \A p \in DOMAIN open' : q \in over'[p]
              BY <1>1, <3>1
        <4>7. CASE Admins # {q.user}
          <5>1. Admins' # {}
                BY <4>1, <4>7
          <5> QED BY <4>5, <4>6, <5>1 DEF AdminRemains
        <4>8. CASE Admins = {q.user}
          <5> PICK p \in over[q] \intersect Takings : TRUE
              BY <2>0, <2>5, <4>4, <4>8
          <5>1. p # q
                BY <3>1 DEF Takings, Changes_
          <5>2. Overlapped(p, q)' /\ p \in Takings'
                BY <1>2, <3>1 DEF Overlapped
          <5> QED BY <4>5, <5>1, <5>2 DEF TwoTook, AdminRemains
        <4> QED BY <4>7, <4>8
      <3> QED BY <3>2, <3>3
    <2> QED BY <2>2, <2>3, <2>4, <2>5 DEF AccountRequest, PostLogin, PostRefresh, PostLogout, PostUser, PatchUser,
            PostPassword, PutSections, LoginRead, login, RefreshRead, refresh, logout, CreateUserRead, reset_password,
            SectionsRead, set_accessible_sections, accountState
  <1> QED BY <1>3, <1>4

\* A user changes by a change of his that commits; a new one is active.
LEMMA UsersStep ==
    ASSUME AccountsInv, NEW q, AccountRequest(q)
    PROVE  /\ DOMAIN users \subseteq DOMAIN users'
           /\ \A u \in DOMAIN users' \ DOMAIN users : users'[u].active = TRUE
           /\ \A u \in DOMAIN users : users'[u] # users[u] =>
                 u = q.user /\ q.op = "updateUser" /\ q \in DOMAIN open /\ update_user(q)
  <1>1. CASE UNCHANGED users
        BY <1>1
  <1>2. CASE q.op = "createUser" /\ q \in DOMAIN open /\ create_user(q)
        BY <1>2, Created DEF AccountsInv
  <1>3. CASE q.op = "updateUser" /\ q \in DOMAIN open /\ update_user(q)
        BY <1>3, Changed DEF AccountsInv
  <1> QED BY <1>1, <1>2, <1>3 DEF AccountRequest, PostLogin, PostRefresh, PostLogout, PostUser, PatchUser,
          PostPassword, PutSections, LoginRead, login, RefreshRead, refresh, logout, CreateUserRead, UpdateUserRead,
          reset_password, SectionsRead, set_accessible_sections, accountState

\* Tokens end, or q gets one: by a login a new one, by a refresh one for another.
GetsOne(q, gone) ==
    /\ q \in DOMAIN open /\ q \notin DOMAIN open' /\ q \notin done /\ done' = done \union {q} /\ users' = users
    /\ \E n : /\ n \notin DOMAIN tokens /\ n \in DOMAIN tokens' /\ tokens'[n].by = q
              /\ Live(q.user)' = (Live(q.user) \ gone) \union {n}
    /\ \A u : u # q.user => Live(u)' = Live(u)

LEMMA TokensStep ==
    ASSUME AccountsInv, NEW q, AccountRequest(q), Moved(q), Once(q)
    PROVE  /\ DOMAIN tokens \subseteq DOMAIN tokens'
           /\ \A t \in DOMAIN tokens : tokens'[t].user = tokens[t].user /\ tokens'[t].by = tokens[t].by
           /\ \/ /\ \A u : Live(u)' \subseteq Live(u)
                 /\ q.op \in {"login", "refresh"} => done' = done /\ UNCHANGED tokens
              \/ q.op = "login" /\ GetsOne(q, {})
              \/ q.op = "refresh" /\ GetsOne(q, {open[q]})
  <1>0. RequestsAreOnce /\ AccountsShape /\ RefreshKnown
        BY DEF AccountsInv, SessionsSound
  <1>1. CASE UNCHANGED tokens /\ (q.op \in {"login", "refresh"} => done' = done)
        BY <1>1 DEF Live
  <1>2. CASE q.op = "login" /\ q \in DOMAIN open /\ login(q)
    <2>1. q \notin DOMAIN open' /\ q \notin done /\ done' = done \union {q} /\ users' = users
          BY <1>0, <1>2, CommitMoves DEF login, RequestsAreOnce
    <2>2. /\ \E n : n \notin DOMAIN tokens /\ DOMAIN tokens' = DOMAIN tokens \union {n} /\ IsIssued(tokens'[n], q)
          /\ \A t \in DOMAIN tokens : tokens'[t] = tokens[t]
          BY <1>0, <1>2, Issued DEF login
    <2> PICK n : n \notin DOMAIN tokens /\ DOMAIN tokens' = DOMAIN tokens \union {n} /\ IsIssued(tokens'[n], q)
        BY <2>2
    <2>3. tokens'[n].user = q.user /\ tokens'[n].revoked = FALSE /\ tokens'[n].by = q
          BY DEF IsIssued
    <2>4. Live(q.user)' = Live(q.user) \union {n} /\ \A u : u # q.user => Live(u)' = Live(u)
          BY <2>2, <2>3 DEF Live
    <2>5. GetsOne(q, {})
          BY <1>2, <2>1, <2>3, <2>4 DEF GetsOne
    <2> QED BY <1>2, <2>2, <2>5
  <1>3. CASE q.op = "refresh" /\ q \in DOMAIN open /\ refresh(q)
    <2>1. q \notin DOMAIN open' /\ q \notin done /\ done' = done \union {q} /\ users' = users
          BY <1>0, <1>3, CommitMoves DEF refresh, RequestsAreOnce
    <2>2. open[q] \in DOMAIN tokens /\ tokens[open[q]].user = q.user
          BY <1>0, <1>3 DEF RefreshKnown
    <2> PICK ts : Ended(open[q], ts)
        BY DEF Ended
    <2>3. /\ DOMAIN ts = DOMAIN tokens
          /\ \A s \in DOMAIN tokens : /\ ts[s].user = tokens[s].user /\ ts[s].by = tokens[s].by
                                      /\ s # open[q] => ts[s] = tokens[s]
          /\ ts[open[q]].revoked = TRUE
          BY <1>0, <2>2, RevokedOne
    <2>4. Issue(q, ts)
          BY <1>3 DEF refresh, Ended
    <2>5. /\ \E n : n \notin DOMAIN tokens /\ DOMAIN tokens' = DOMAIN tokens \union {n} /\ IsIssued(tokens'[n], q)
          /\ \A t \in DOMAIN tokens : tokens'[t] = ts[t]
          BY <1>0, <2>3, <2>4, Issued
    <2> PICK n : n \notin DOMAIN tokens /\ DOMAIN tokens' = DOMAIN tokens \union {n} /\ IsIssued(tokens'[n], q)
        BY <2>5
    <2>6. tokens'[n].user = q.user /\ tokens'[n].revoked = FALSE /\ tokens'[n].by = q
          BY DEF IsIssued
    <2>7. Live(q.user)' = (Live(q.user) \ {open[q]}) \union {n}
          BY <2>2, <2>3, <2>5, <2>6 DEF Live
    <2>8. \A u : u # q.user => Live(u)' = Live(u)
          BY <2>2, <2>3, <2>5, <2>6 DEF Live
    <2>9. GetsOne(q, {open[q]})
          BY <1>3, <2>1, <2>6, <2>7, <2>8 DEF GetsOne
    <2> QED BY <1>3, <2>3, <2>5, <2>9
  <1>4. CASE q.op = "logout" /\ logout(q)
    <2> PICK t \in Live(q.user) : Ended(t, tokens')
        BY <1>4 DEF logout, Ended
    <2>0. t \in DOMAIN tokens
          BY DEF Live
    <2>1. /\ DOMAIN tokens' = DOMAIN tokens /\ tokens'[t].revoked = TRUE
          /\ \A s \in DOMAIN tokens : /\ tokens'[s].user = tokens[s].user /\ tokens'[s].by = tokens[s].by
                                      /\ s # t => tokens'[s] = tokens[s]
          BY <1>0, <2>0, RevokedOne
    <2>2. \A u : Live(u)' \subseteq Live(u)
          BY <2>1 DEF Live
    <2> QED BY <1>4, <2>1, <2>2
  <1>5. CASE q.op \in {"password", "updateUser"} /\ RevokeAll(q.user)
    <2>1. \A u : Live(u)' \subseteq Live(u)
          BY <1>0, <1>5, Revoked
    <2> QED BY <1>0, <1>5, <2>1, Revoked
  <1>6. q.op \in {"login", "refresh"} /\ q \in todo /\ (LoginRead(q) \/ RefreshRead(q)) => done' = done /\ UNCHANGED tokens
        BY <1>0, BeginMoves, RefuseMoves DEF LoginRead, RefreshRead, accountState
  <1> QED BY <1>1, <1>2, <1>3, <1>4, <1>5, <1>6 DEF AccountRequest, PostLogin, PostRefresh, PostLogout, PostUser,
          PatchUser, PostPassword, PutSections, CreateUserRead, create_user, UpdateUserRead, update_user,
          reset_password, SectionsRead, set_accessible_sections, accountState

LEMMA OneEachStep ==
    ASSUME AccountsInv, NEW q, AccountRequest(q), Moved(q), Once(q), AccountsShape', NEW u
    PROVE  OneEach(u)'
  <1>0. RequestsAreOnce /\ OneEach(u)
        BY DEF AccountsInv, SessionsSound
  <1>1. /\ \A p \in DOMAIN open' : p # q => /\ p \in DOMAIN open /\ open'[p] = open[p] /\ over[p] \subseteq over'[p]
                                            /\ q \in done' => q \in over'[p]
        /\ done \subseteq done' /\ done' \subseteq done \union {q}
        /\ DOMAIN over \subseteq DOMAIN over' /\ \A p \in DOMAIN over : over[p] \subseteq over'[p]
        /\ \A a, b : Overlapped(a, b) => Overlapped(a, b)'
        /\ IsFiniteSet(done) /\ IsFiniteSet(done')
        BY <1>0, MoveFacts
  <1>2. Refreshes(u) \subseteq Refreshes(u)' /\ Logins(u) \subseteq Logins(u)'
        BY <1>1 DEF Refreshes, Logins
  <1>3. CASE TwoRefreshed(u)
        BY <1>1, <1>2, <1>3 DEF TwoRefreshed, OneEach
  <1>4. CASE ~TwoRefreshed(u)
    <2> DEFINE live == Cardinality(Live(u))     live1 == Cardinality(Live(u)')
               logins == Cardinality(Logins(u)) logins1 == Cardinality(Logins(u)')
    <2>0. /\ live <= logins
          /\ \A p \in DOMAIN open : p.op = "refresh" /\ p.user = u =>
                open[p] \in Live(u) \/ over[p] \intersect Refreshes(u) # {} \/ live < logins
          BY <1>0, <1>4 DEF OneEach
    <2>1. /\ IsFiniteSet(Live(u)) /\ IsFiniteSet(Live(u)') /\ IsFiniteSet(Logins(u)) /\ IsFiniteSet(Logins(u)')
      <3>1. Live(u) \subseteq DOMAIN tokens /\ Live(u)' \subseteq DOMAIN tokens' /\ Logins(u) \subseteq done /\ Logins(u)' \subseteq done'
            BY DEF Live, Logins
      <3>2. IsFiniteSet(DOMAIN tokens) /\ IsFiniteSet(DOMAIN tokens')
            BY DEF AccountsInv, AccountsShape
      <3> QED BY <1>1, <3>1, <3>2, FS_Subset
    <2>2. live \in Nat /\ live1 \in Nat /\ logins \in Nat /\ logins1 \in Nat /\ logins <= logins1
          BY <1>2, <2>1, FS_CardinalityType, FS_Subset
    <2> HIDE DEF live, live1, logins, logins1
    <2>3. CASE Live(u)' \subseteq Live(u) /\ (q.op = "refresh" /\ q.user = u => done' = done /\ UNCHANGED tokens)
      <3>1. live1 <= live /\ (Live(u)' # Live(u) => live1 < live)
        <4>1. live1 <= live
              BY <2>1, <2>3, FS_Subset DEF live, live1
        <4>2. live1 = live => Live(u)' = Live(u)
              BY <2>1, <2>3, FS_Subset DEF live, live1
        <4> QED BY <2>2, <4>1, <4>2
      <3>2. live1 <= logins1
            BY <2>0, <2>2, <3>1
      <3>3. ASSUME NEW p \in DOMAIN open', p.op = "refresh", p.user = u
            PROVE  open'[p] \in Live(u)' \/ over'[p] \intersect Refreshes(u)' # {} \/ live1 < logins1
        <4>1. CASE p # q
          <5>1. CASE over[p] \intersect Refreshes(u) # {}
                BY <1>1, <1>2, <3>3, <4>1, <5>1
          <5>2. CASE live < logins
                BY <2>2, <3>1, <5>2
          <5>3. CASE open[p] \in Live(u) /\ Live(u)' = Live(u)
                BY <1>1, <4>1, <5>3
          <5>4. CASE Live(u)' # Live(u)
                BY <2>0, <2>2, <3>1, <5>4
          <5> QED BY <1>1, <2>0, <3>3, <4>1, <5>1, <5>2, <5>3, <5>4
        <4>2. CASE p = q /\ q \in todo /\ RefreshRead(q)
          <5>1. ~Refuse(q)
                BY <1>0, <3>3, <4>2, RefuseMoves DEF RequestsAreOnce
          <5> PICK t \in Live(u) : Begin(q, t)
              BY <3>3, <4>2, <5>1 DEF RefreshRead
          <5>2. open'[q] = t
                BY <1>0, BeginMoves, Begin(q, t), AccountsInv DEF Once
          <5>3. Live(u)' = Live(u)
                BY <2>3, <3>3, <4>2 DEF Live
          <5> QED BY <4>2, <5>2, <5>3
        <4>3. CASE p = q /\ q \in DOMAIN open /\ refresh(q)
              BY <1>0, <3>3, <4>3, CommitMoves DEF refresh
        <4>4. (q \in todo /\ RefreshRead(q)) \/ (q \in DOMAIN open /\ refresh(q)) \/ q.op # "refresh"
              BY DEF AccountRequest, PostLogin, PostRefresh, PostLogout, PostUser, PatchUser, PostPassword, PutSections
        <4> QED BY <3>3, <4>1, <4>2, <4>3, <4>4
      <3> QED BY <3>2, <3>3 DEF OneEach, live1, logins1
    <2>4. CASE q.op = "login" /\ q.user = u /\ GetsOne(q, {})
      <3> PICK n : n \notin DOMAIN tokens /\ Live(u)' = Live(u) \union {n}
          BY <2>4 DEF GetsOne
      <3>1. live1 = live + 1
            BY <2>1, FS_AddElement DEF Live, live, live1
      <3>2. logins1 = logins + 1
        <4>1. Logins(u)' = Logins(u) \union {q} /\ q \notin Logins(u)
              BY <2>4 DEF GetsOne, Logins
        <4> QED BY <2>1, <4>1, FS_AddElement DEF logins, logins1
      <3>3. ASSUME NEW p \in DOMAIN open', p.op = "refresh", p.user = u
            PROVE  open'[p] \in Live(u)' \/ over'[p] \intersect Refreshes(u)' # {} \/ live1 < logins1
        <4>1. /\ p \in DOMAIN open /\ open'[p] = open[p] /\ over[p] \subseteq over'[p]
              BY <1>1, <2>4, <3>3
        <4> QED BY <1>2, <2>0, <2>2, <3>1, <3>2, <3>3, <4>1
      <3>4. live1 <= logins1
            BY <2>0, <2>2, <3>1, <3>2
      <3> QED BY <3>3, <3>4 DEF OneEach, live1, logins1
    <2>5. CASE q.op = "refresh" /\ q.user = u /\ GetsOne(q, {open[q]})
      <3> PICK n : n \notin DOMAIN tokens /\ Live(u)' = (Live(u) \ {open[q]}) \union {n}
          BY <2>5 DEF GetsOne
      <3>0. q \in DOMAIN open /\ q \notin DOMAIN open' /\ q \notin done /\ done' = done \union {q} /\ n \notin Live(u)
            BY <2>5 DEF GetsOne, Live
      <3>1. q \in Refreshes(u)' /\ \A p \in DOMAIN open' : q \in over'[p]
            BY <1>1, <2>5, <3>0 DEF Refreshes
      <3>2. CASE over[q] \intersect Refreshes(u) # {}
        <4> PICK p \in over[q] \intersect Refreshes(u) : TRUE
            BY <3>2
        <4>1. q \in DOMAIN over
              BY <1>0, <3>0 DEF RequestsAreOnce
        <4>2. Overlapped(p, q)' /\ p \in Refreshes(u)' /\ p # q
              BY <1>1, <1>2, <3>0, <4>1 DEF Overlapped, Refreshes
        <4> QED BY <3>1, <4>2 DEF TwoRefreshed, OneEach
      <3>3. CASE open[q] \in Live(u)
        <4>1. live1 = live
          <5>1. /\ IsFiniteSet(Live(u) \ {open[q]}) /\ Cardinality(Live(u) \ {open[q]}) = live - 1
                BY <2>1, <3>3, FS_RemoveElement DEF live
          <5>2. live1 = live - 1 + 1
                BY <3>0, <5>1, FS_AddElement DEF live1
          <5> QED BY <2>2, <5>2
        <4>2. live1 <= logins1
              BY <2>0, <2>2, <4>1
        <4> QED BY <3>1, <4>2 DEF OneEach, live1, logins1
      <3>4. CASE live < logins /\ open[q] \notin Live(u)
        <4>1. Live(u)' = Live(u) \union {n}
              BY <3>4
        <4>2. live1 = live + 1
              BY <2>1, <3>0, <4>1, FS_AddElement DEF live, live1
        <4>3. live1 <= logins1
              BY <2>2, <3>4, <4>2
        <4> QED BY <3>1, <4>3 DEF OneEach, live1, logins1
      <3> QED BY <2>0, <2>5, <3>0, <3>2, <3>3, <3>4
    <2>6. CASE q.user # u /\ (GetsOne(q, {}) \/ GetsOne(q, {open[q]}))
          BY <2>3, <2>6 DEF GetsOne
    <2> QED BY <2>3, <2>4, <2>5, <2>6, TokensStep
  <1> QED BY <1>3, <1>4

LEMMA SessionsStep ==
    ASSUME AccountsInv, NEW q, AccountRequest(q), Moved(q), Once(q), AccountsShape'
    PROVE  SessionsSound'
  <1>0. RequestsAreOnce /\ AccountsShape /\ SessionsSound
        BY DEF AccountsInv
  <1>1. /\ \A p \in DOMAIN open' : p # q => /\ p \in DOMAIN open /\ open'[p] = open[p] /\ over[p] \subseteq over'[p]
                                            /\ q \in done' => q \in over'[p]
        /\ done \subseteq done'
        /\ DOMAIN over \subseteq DOMAIN over' /\ \A p \in DOMAIN over : over[p] \subseteq over'[p]
        /\ \A a, b : Overlapped(a, b) => Overlapped(a, b)'
        BY <1>0, MoveFacts
  <1>2. Changes_ \subseteq Changes_'
        BY <1>1 DEF Changes_
  <1>3. /\ DOMAIN users \subseteq DOMAIN users'
        /\ \A u \in DOMAIN users' \ DOMAIN users : users'[u].active = TRUE
        /\ \A u \in DOMAIN users : users'[u] # users[u] =>
              u = q.user /\ q.op = "updateUser" /\ q \in DOMAIN open /\ update_user(q)
        BY UsersStep
  <1>4. /\ DOMAIN tokens \subseteq DOMAIN tokens'
        /\ \A t \in DOMAIN tokens : tokens'[t].user = tokens[t].user /\ tokens'[t].by = tokens[t].by
        /\ \/ \A u : Live(u)' \subseteq Live(u)
           \/ q.op = "login" /\ GetsOne(q, {})
           \/ q.op = "refresh" /\ GetsOne(q, {open[q]})
        BY TokensStep
  <1>5. q.op = "updateUser" /\ q \in DOMAIN open /\ update_user(q) => q \in Changes_'
        BY <1>0, CommitMoves DEF update_user, Changes_
  <1>6. /\ q.op = "login" => (q \in todo /\ LoginRead(q)) \/ (q \in DOMAIN open /\ login(q))
        /\ q.op = "refresh" => (q \in todo /\ RefreshRead(q)) \/ (q \in DOMAIN open /\ refresh(q))
        /\ q.op = "updateUser" => (q \in todo /\ UpdateUserRead(q)) \/ (q \in DOMAIN open /\ update_user(q))
        BY DEF AccountRequest, PostLogin, PostRefresh, PostLogout, PostUser, PatchUser, PostPassword, PutSections
  <1>7. q \in DOMAIN open' /\ q.op \in {"login", "refresh", "updateUser"} => q \in todo /\ \E r : Begin(q, r)
    <2>1. q \in DOMAIN open /\ (login(q) \/ refresh(q) \/ update_user(q)) => q \notin DOMAIN open'
          BY <1>0, CommitMoves DEF login, refresh, update_user
    <2>2. q \in todo /\ Refuse(q) => q \notin DOMAIN open'
          BY <1>0, RefuseMoves DEF RequestsAreOnce
    <2> QED BY <1>6, <2>1, <2>2 DEF LoginRead, RefreshRead, UpdateUserRead
  <1>8. ChangesKnown'
    <2> SUFFICES ASSUME NEW p \in DOMAIN open', p.op = "updateUser" PROVE open'[p].active \in BOOLEAN
        BY DEF ChangesKnown
    <2>1. CASE p # q
          BY <1>0, <1>1, <2>1 DEF SessionsSound, ChangesKnown
    <2>2. CASE p = q
      <3>1. q \in todo /\ UpdateUserRead(q) /\ ~Refuse(q)
            BY <1>0, <1>6, <1>7, <2>2, RefuseMoves, CommitMoves DEF update_user, RequestsAreOnce
      <3>2. q.user \in DOMAIN users /\ Begin(q, users[q.user])
            BY <3>1 DEF UpdateUserRead
      <3>3. open'[q] = users[q.user]
            BY <1>0, <3>2, BeginMoves, AccountsInv
      <3> QED BY <1>0, <2>2, <3>2, <3>3 DEF AccountsShape
    <2> QED BY <2>1, <2>2
  <1>9. SessionsKnown'
    <2> SUFFICES ASSUME NEW p \in DOMAIN open', p.op \in {"login", "refresh"}, p.user \in DOMAIN users',
                        ~users'[p.user].active
                 PROVE  \E c \in over'[p] \intersect Changes_' : c.user = p.user
        BY DEF SessionsKnown
    <2>0. p.user \in DOMAIN users
          BY <1>3
    <2>1. CASE p # q
      <3>1. CASE ~users[p.user].active
            BY <1>0, <1>1, <1>2, <2>0, <2>1, <3>1 DEF SessionsSound, SessionsKnown
      <3>2. CASE users'[p.user] # users[p.user]
            BY <1>1, <1>3, <1>5, <2>0, <2>1, <3>2 DEF Changes_
      <3> QED BY <3>1, <3>2
    <2>2. CASE p = q
      <3>1. q \in todo /\ (LoginRead(q) \/ RefreshRead(q)) /\ ~Refuse(q)
            BY <1>0, <1>6, <1>7, <2>2, RefuseMoves, CommitMoves DEF login, refresh, RequestsAreOnce
      <3>2. users[q.user].active /\ users' = users
            BY <3>1 DEF LoginRead, RefreshRead, accountState
      <3> QED BY <2>2, <3>2
    <2> QED BY <2>1, <2>2
  <1>10. DeactivatedHasNoSession'
    <2> SUFFICES ASSUME NEW u \in DOMAIN users', ~users'[u].active, NEW t \in Live(u)'
                 PROVE  \E c \in Changes_' : c.user = u /\ Overlapped(c, tokens[t].by)'
        BY DEF DeactivatedHasNoSession
    <2>0. u \in DOMAIN users
          BY <1>3
    <2>1. CASE t \in Live(u)
      <3>1. t \in DOMAIN tokens
            BY <2>1 DEF Live
      <3>2. CASE ~users[u].active
        <4> PICK b : b = tokens[t].by
            OBVIOUS
        <4> PICK c \in Changes_ : c.user = u /\ Overlapped(c, b)
            BY <1>0, <2>0, <2>1, <3>2 DEF SessionsSound, DeactivatedHasNoSession
        <4>1. Overlapped(c, b)' /\ c \in Changes_'
              BY <1>1, <1>2
        <4>2. tokens'[t].by = b
              BY <1>4, <3>1
        <4> QED BY <4>1, <4>2 DEF Overlapped
      <3>3. CASE users[u].active
        <4>1. users'[u].active = FALSE /\ users[u].active = TRUE
              BY <1>0, <2>0, <3>3 DEF AccountsShape
        <4>2. u = q.user /\ q.op = "updateUser" /\ q \in DOMAIN open /\ update_user(q)
              BY <1>3, <2>0, <4>1
        <4>3. "active" \in Diff(q, open[q]) /\ q.patch.active = FALSE
              BY <1>0, <2>0, <4>1, <4>2, Changed
        <4>4. open[q].active = TRUE
              BY <1>0, <4>2, <4>3 DEF SessionsSound, ChangesKnown, Diff
        <4>5. RevokeAll(u)
              BY <4>2, <4>3, <4>4 DEF update_user, Lockout, Deactivates
        <4>6. Live(u)' = {}
              BY <1>0, <4>5, Revoked
        <4> QED BY <4>6
      <3> QED BY <3>2, <3>3
    <2>2. CASE t \notin Live(u)
      <3>1. /\ q.op \in {"login", "refresh"} /\ q \in DOMAIN open /\ users' = users /\ u = q.user
            /\ tokens'[t].by = q
            BY <1>4, <2>2 DEF GetsOne
      <3> PICK c \in over[q] \intersect Changes_ : c.user = u
          BY <1>0, <2>0, <3>1 DEF SessionsSound, SessionsKnown
      <3>2. q \in DOMAIN over
            BY <1>0, <3>1 DEF RequestsAreOnce
      <3>3. q \in DOMAIN over' /\ c \in over'[q]
            BY <1>1, <3>2
      <3> QED BY <1>2, <3>1, <3>3 DEF Overlapped
    <2> QED BY <2>1, <2>2
  <1>11. RefreshKnown'
    <2> SUFFICES ASSUME NEW p \in DOMAIN open', p.op = "refresh"
                 PROVE  open'[p] \in DOMAIN tokens' /\ tokens'[open'[p]].user = p.user
        BY DEF RefreshKnown
    <2>1. CASE p # q
          BY <1>0, <1>1, <1>4, <2>1 DEF SessionsSound, RefreshKnown
    <2>2. CASE p = q
      <3>1. q \in todo /\ RefreshRead(q) /\ ~Refuse(q)
            BY <1>0, <1>6, <1>7, <2>2, RefuseMoves, CommitMoves DEF refresh, RequestsAreOnce
      <3> PICK t \in Live(q.user) : Begin(q, t)
          BY <3>1 DEF RefreshRead
      <3>2. open'[q] = t
            BY <1>0, BeginMoves
      <3> QED BY <1>4, <2>2, <3>2 DEF Live
    <2> QED BY <2>1, <2>2
  <1>12. \A u : OneEach(u)'
         BY OneEachStep
  <1> QED BY <1>8, <1>9, <1>10, <1>11, <1>12 DEF SessionsSound

\* Whoever gives a user his sections takes the others away, or has been overtaken.
LEMMA SectionsStep ==
    ASSUME AccountsInv, NEW q, AccountRequest(q), Moved(q), Once(q)
    PROVE  SectionsAreOneRequests'
  <1> DEFINE Given(u) == {p \in done : p.op = "sections" /\ p.user = u}
  <1>0. RequestsAreOnce /\ SectionsAreOneRequests /\ DOMAIN sections = Users
        BY DEF AccountsInv, AccountsShape
  <1>1. done \subseteq done' /\ \A a, b : Overlapped(a, b) => Overlapped(a, b)'
        BY <1>0, MoveFacts
  <1> SUFFICES ASSUME NEW u \in Users,
                      ~ \E a, b \in Given(u)' : a # b /\ Overlapped(a, b)'
               PROVE  sections'[u] \in {{}} \union {p.sections : p \in Given(u)'}
      BY DEF SectionsAreOneRequests
  <1>2. \A a \in Given(u) : a \in Given(u)'
        BY <1>1
  <1>3. sections[u] \in {{}} \union {p.sections : p \in Given(u)}
        BY <1>0, <1>1, <1>2 DEF SectionsAreOneRequests
  <1>4. CASE sections' = sections
        BY <1>2, <1>3, <1>4
  <1>5. CASE q.op = "sections" /\ q \in DOMAIN open /\ set_accessible_sections(q) /\ sections' # sections
    <2>1. Commit(q) /\ sections' = [sections EXCEPT ![q.user] = Kept(q) \union q.sections]
          BY <1>5 DEF set_accessible_sections
    <2>2. done' = done \union {q} /\ q \notin done /\ q \in DOMAIN over /\ q \in DOMAIN over' /\ over'[q] = over[q]
          BY <1>0, <2>1, CommitMoves DEF RequestsAreOnce
    <2>3. CASE u = q.user
      <3>1. q \in Given(u)'
            BY <1>5, <2>2, <2>3
      <3>2. Kept(q) = {}
        <4> SUFFICES ASSUME NEW p \in over[q], p.op = "sections", p.user = q.user PROVE FALSE
            BY DEF Kept
        <4>1. p \in done
              BY <1>0, <2>2 DEF RequestsAreOnce, Whole
        <4>2. p \in Given(u)' /\ p # q
              BY <2>2, <2>3, <4>1
        <4>3. Overlapped(p, q)'
              BY <2>2 DEF Overlapped
        <4> QED BY <3>1, <4>2, <4>3
      <3>3. sections'[u] = q.sections
            BY <1>0, <2>1, <2>3, <3>2
      <3> QED BY <3>1, <3>3
    <2>4. CASE u # q.user
          BY <1>2, <1>3, <2>1, <2>4
    <2> QED BY <2>3, <2>4
  <1> QED BY <1>4, <1>5 DEF AccountRequest, PostLogin, PostRefresh, PostLogout, PostUser, PatchUser,
          PostPassword, PutSections, LoginRead, login, RefreshRead, refresh, logout, CreateUserRead, create_user,
          UpdateUserRead, update_user, reset_password, SectionsRead, accountState

LEMMA AccountsStep ==
    ASSUME AccountsInv, [Next]_vars
    PROVE  AccountsInv'
  <1>0. RequestsAreOnce /\ RequestsAreOnce'
        BY OnceKept DEF AccountsInv
  <1>1. ASSUME NEW q, Work(q) PROVE AccountsInv'
    <2>1. CASE AccountRequest(q)
      <3>1. Moved(q) /\ Once(q) /\ Whole(q)
            BY <1>0, <2>1, AccountsMove DEF Once, Whole, AccountOps
      <3>2. AccountsShape'
            BY <2>1, <3>1, ShapeStep
      <3>3. AdminRemains' /\ SessionsSound' /\ SectionsAreOneRequests'
            BY <2>1, <3>1, <3>2, AdminStep, SessionsStep, SectionsStep
      <3> QED BY <1>0, <3>2, <3>3 DEF AccountsInv
    <2>2. CASE /\ UNCHANGED accountState
               /\ \/ ContactRequest(q) \/ DeleteContacts(q) \/ MemoryRequest(q) \/ TagRequest(q) \/ ThreadRequest(q)
                  \/ AnalyticsRequest(q) \/ ConsoleRequest(q) \/ DraftRequest(q) \/ SearchRequest(q)
      <3>1. Moved(q) /\ q.op \notin AccountOps
            BY <1>0, <2>2, ContactsMove, DeletionMoves, MemoryMoves, TagsMove, ThreadsMove, AnalyticsMoves,
               ConsoleMoves, DraftsMove, SearchMoves
               DEF ContactOps, MemoryOps, TagOps, ThreadOps, AnalyticsOps, AccountOps, ConsoleOps, DraftOps, SearchOps
      <3> QED BY <1>0, <2>2, <3>1, AccountsLeftAlone DEF Aside
    <2>3. AccountRequest(q) \/ UNCHANGED accountState
          BY <1>1 DEF Work, contactsAside
    <2> QED BY <1>1, <2>1, <2>2, <2>3 DEF Work
  <1>2. CASE Sweep \/ Time \/ MetaDecides \/ HandsOver \/ UNCHANGED vars
    <2>1. UNCHANGED accountState
          BY <1>2 DEF Sweep, Time, MetaDecides, HandsOver, Besides, contactsAside, vars
    <2> QED BY <1>0, <1>2, <2>1, OthersAreIdle, AccountsLeftAlone DEF Aside
  <1> QED BY <1>1, <1>2 DEF Next

LEMMA AccountsInit == Init => AccountsInv
  <1> SUFFICES ASSUME Init PROVE AccountsInv
      OBVIOUS
  <1> PICK s \in Scenarios : todo = s.requests /\ users = s.users
      BY DEF Init
  <1>1. /\ open = <<>> /\ over = <<>> /\ done = {} /\ tokens = <<>> /\ sections = [u \in Users |-> {}]
        BY DEF Init, InitRequests, InitAccounts
  <1>2. DOMAIN open = {} /\ DOMAIN over = {} /\ DOMAIN tokens = {}
        BY <1>1
  <1>3. AccountsShape
    <2>1. \A u \in DOMAIN users : /\ DOMAIN users[u] = {"role", "active"}
                                  /\ users[u].role \in {"admin", "agent"} /\ users[u].active \in BOOLEAN
      <3>1. \A u \in DOMAIN users : users[u] \in User
            BY ScenariosAssumption
      <3> QED BY <3>1 DEF User
    <2>2. \A q \in Asked : WellFormed(q)
          BY <1>1, <1>2, ScenariosAssumption DEF Asked
    <2>3. IsFiniteSet(DOMAIN tokens) /\ DOMAIN tokens = 1..Cardinality(DOMAIN tokens)
          BY <1>2, FS_EmptySet
    <2> QED BY <1>1, <1>2, <2>1, <2>2, <2>3 DEF AccountsShape
  <1>4. AdminRemains
    <2>1. \E u \in DOMAIN users : users[u] = [role |-> "admin", active |-> TRUE]
          BY ScenariosAssumption
    <2>2. Admins # {}
          BY <2>1 DEF Admins
    <2> QED BY <1>2, <2>2 DEF AdminRemains
  <1>5. SessionsSound
    <2>1. \A u : Live(u) = {} /\ Logins(u) = {}
          BY <1>1, <1>2 DEF Live, Logins
    <2>2. ASSUME NEW u PROVE OneEach(u)
      <3>1. Cardinality(Live(u)) <= Cardinality(Logins(u))
        <4>1. Cardinality(Live(u)) = 0 /\ Cardinality(Logins(u)) = 0
              BY <2>1, FS_EmptySet
        <4> QED BY <4>1
      <3>2. \A q \in DOMAIN open : FALSE
            BY <1>2
      <3> QED BY <3>1, <3>2 DEF OneEach
    <2> QED BY <1>2, <2>1, <2>2 DEF SessionsSound, ChangesKnown, SessionsKnown, DeactivatedHasNoSession, RefreshKnown
  <1>6. SectionsAreOneRequests
        BY <1>1 DEF SectionsAreOneRequests
  <1> QED BY <1>3, <1>4, <1>5, <1>6, OnceInit DEF AccountsInv

\* What the invariant says to others.
LEMMA AccountsSound ==
    ASSUME AccountsInv
    PROVE  LastAdminStands /\ DeactivatedHasNoSession /\ OneSuccessor /\ SectionsAreOneRequests
  <1>1. LastAdminStands
    <2>1. TwoTook => LastAdminStands
          BY DEF TwoTook, Takings, LastAdminStands
    <2> QED BY <2>1 DEF AccountsInv, AdminRemains, LastAdminStands
  <1>2. OneSuccessor
    <2> SUFFICES ASSUME NEW u \in DOMAIN users
                 PROVE  \/ Cardinality(Live(u)) <= Cardinality(Logins(u))
                        \/ \E p, q \in done : /\ p # q /\ p.op = "refresh" /\ q.op = "refresh"
                                              /\ p.user = u /\ q.user = u /\ Overlapped(p, q)
        BY DEF OneSuccessor, Logins
    <2>1. OneEach(u)
          BY DEF AccountsInv, SessionsSound
    <2> QED BY <2>1 DEF OneEach, TwoRefreshed, Refreshes
  <1> QED BY <1>1, <1>2 DEF AccountsInv, SessionsSound

-----------------------------------------------------------------------------
(* Settings *)

Setting == {q \in DOMAIN open : q.op = "settings"}
SettersOf(k) == {q \in done : q.op = "settings" /\ k \in DOMAIN q.values}
Told(k) == {e \in trail : e.key = k}
TwoSet(k) == \E d, e \in Told(k) : d # e /\ Overlapped(d.by, e.by)

\* Every change has its entry.
TrailIsComplete ==
    /\ \A e \in trail : e.by \in SettersOf(e.key)
    /\ \A k : \A q \in SettersOf(k) : \E e \in Told(k) : e.by = q

TrailLeadsTo(k) ==
    /\ \E e \in Told(k) : e.after = setting[k]
    /\ \E e \in Told(k) : e.before = "none"
    /\ \A e \in Told(k) : e.before = "none" \/ \E d \in Told(k) \ {e} : d.after = e.before

\* Whoever is about to set k knows its value, or has been overtaken by another.
SettingTold(k) ==
    \/ TwoSet(k)
    \/ /\ IF k \in DOMAIN setting THEN TrailLeadsTo(k) ELSE Told(k) = {}
       /\ \A q \in Setting : k \in DOMAIN q.values => open[q][k] = ValueOf(k) \/ over[q] \intersect SettersOf(k) # {}

SettingsSound == TrailIsComplete /\ \A k : SettingTold(k)

SettingsInv == RequestsAreOnce /\ SettingsSound

LEMMA SettingsLeftAlone ==
    ASSUME SettingsInv, RequestsAreOnce', UNCHANGED settingState, Aside({"settings"})
    PROVE  SettingsInv'
  <1>1. /\ \A p : p.op \in {"settings"} => /\ p \in done' <=> p \in done
                                           /\ p \in DOMAIN open' <=> p \in DOMAIN open
                                           /\ p \in DOMAIN open => open'[p] = open[p]
        /\ DOMAIN over \subseteq DOMAIN over' /\ \A p \in DOMAIN over : over[p] \subseteq over'[p]
        /\ DOMAIN open \subseteq DOMAIN over
        BY AsideFacts DEF SettingsInv
  <1>2. /\ setting' = setting /\ trail' = trail /\ \A k : Told(k)' = Told(k) /\ SettersOf(k)' = SettersOf(k)
        BY <1>1 DEF settingState, Told, SettersOf
  <1>3. TrailIsComplete'
        BY <1>2 DEF SettingsInv, SettingsSound, TrailIsComplete
  <1>4. ASSUME NEW k PROVE SettingTold(k)'
    <2>0. SettingTold(k)
          BY DEF SettingsInv, SettingsSound
    <2>1. CASE TwoSet(k)
      <3>1. \A a, b : Overlapped(a, b) => Overlapped(a, b)'
            BY <1>1, OverlapStays
      <3>2. TwoSet(k)'
        <4> PICK d, e \in Told(k) : d # e /\ Overlapped(d.by, e.by)
            BY <2>1 DEF TwoSet
        <4>1. Overlapped(d.by, e.by)'
              BY <3>1
        <4> QED BY <1>2, <4>1 DEF TwoSet
      <3> QED BY <3>2 DEF SettingTold
    <2>2. CASE ~TwoSet(k)
      <3>1. \A p \in Setting' : p \in Setting /\ open'[p] = open[p] /\ over[p] \subseteq over'[p]
            BY <1>1 DEF Setting
      <3>2. ValueOf(k)' = ValueOf(k) /\ TrailLeadsTo(k)' = TrailLeadsTo(k)
            BY <1>2 DEF ValueOf, TrailLeadsTo
      <3> QED BY <1>2, <2>0, <2>2, <3>1, <3>2 DEF SettingTold
    <2> QED BY <2>1, <2>2
  <1> QED BY <1>3, <1>4 DEF SettingsInv, SettingsSound

\* A change of settings sets what it tells of.
LEMMA SettingsStep ==
    ASSUME SettingsInv, NEW q, PutSettings(q), RequestsAreOnce', Moved(q)
    PROVE  SettingsInv'
  <1>0. RequestsAreOnce /\ TrailIsComplete /\ (\A k : SettingTold(k)) /\ q.op = "settings" /\ Once(q) /\ Whole(q)
        BY DEF SettingsInv, SettingsSound, PutSettings, Once, Whole
  <1>1. /\ \A p \in DOMAIN open' : p # q => /\ p \in DOMAIN open /\ open'[p] = open[p] /\ over[p] \subseteq over'[p]
                                            /\ q \in done' => q \in over'[p]
        /\ done \subseteq done'
        /\ DOMAIN over \subseteq DOMAIN over' /\ \A p \in DOMAIN over : over[p] \subseteq over'[p]
        /\ \A a, b : Overlapped(a, b) => Overlapped(a, b)'
        BY <1>0, MoveFacts
  <1>2. CASE q \in todo /\ SettingsRead(q)
    <2>1. setting' = setting /\ trail' = trail /\ done' = done
          BY <1>0, <1>2, BeginMoves, RefuseMoves DEF SettingsRead, settingState
    <2>2. \A k : Told(k)' = Told(k) /\ SettersOf(k)' = SettersOf(k) /\ ValueOf(k)' = ValueOf(k)
          BY <2>1 DEF Told, SettersOf, ValueOf
    <2>3. \A k : TrailLeadsTo(k)' = TrailLeadsTo(k)
          BY <2>1, <2>2 DEF TrailLeadsTo
    <2>4. q \in DOMAIN open' => \A k \in DOMAIN q.values : open'[q][k] = ValueOf(k)
      <3>1. CASE Refuse(q)
            BY <1>0, <3>1, RefuseMoves DEF RequestsAreOnce
      <3>2. CASE ~Refuse(q)
        <4>1. Begin(q, [k \in DOMAIN q.values |-> ValueOf(k)])
              BY <1>2, <3>2 DEF SettingsRead
        <4>2. open'[q] = [k \in DOMAIN q.values |-> ValueOf(k)]
              BY <1>0, <4>1, BeginMoves
        <4> QED BY <4>2
      <3> QED BY <3>1, <3>2
    <2>5. ASSUME NEW k PROVE SettingTold(k)'
      <3>1. CASE TwoSet(k)
        <4> PICK d, e \in Told(k) : d # e /\ Overlapped(d.by, e.by)
            BY <3>1 DEF TwoSet
        <4>1. Overlapped(d.by, e.by)'
              BY <1>1
        <4> QED BY <2>2, <4>1 DEF TwoSet, SettingTold
      <3>2. CASE ~TwoSet(k)
        <4>1. /\ IF k \in DOMAIN setting THEN TrailLeadsTo(k) ELSE Told(k) = {}
              /\ \A p \in Setting : k \in DOMAIN p.values =>
                    open[p][k] = ValueOf(k) \/ over[p] \intersect SettersOf(k) # {}
              BY <1>0, <3>2 DEF SettingTold
        <4>2. \A p \in Setting' : k \in DOMAIN p.values =>
                    open'[p][k] = ValueOf(k) \/ over'[p] \intersect SettersOf(k) # {}
              BY <1>1, <2>4, <4>1 DEF Setting
        <4> QED BY <2>1, <2>2, <2>3, <4>1, <4>2 DEF SettingTold
      <3> QED BY <3>1, <3>2
    <2>6. TrailIsComplete'
          BY <1>0, <2>1, <2>2 DEF TrailIsComplete
    <2> QED BY <2>5, <2>6 DEF SettingsInv, SettingsSound
  <1>3. CASE q \in DOMAIN open /\ set_setting(q)
    <2> DEFINE new(k) == [key |-> k, before |-> open[q][k], after |-> q.values[k], by |-> q]
    <2>1. /\ q \in DOMAIN open /\ done' = done \union {q} /\ q \notin done /\ q \notin DOMAIN open'
          /\ q \in DOMAIN over /\ q \in DOMAIN over' /\ over'[q] = over[q]
          BY <1>0, <1>3, CommitMoves DEF set_setting, RequestsAreOnce
    <2>2. /\ DOMAIN setting' = DOMAIN setting \union DOMAIN q.values
          /\ \A k \in DOMAIN setting' : setting'[k] = IF k \in DOMAIN q.values THEN q.values[k] ELSE setting[k]
          BY <1>3 DEF set_setting, Over
    <2>3. \A k : Told(k)' = IF k \in DOMAIN q.values THEN Told(k) \union {new(k)} ELSE Told(k)
          BY <1>3 DEF set_setting, Told
    <2>4. \A k : SettersOf(k)' = IF k \in DOMAIN q.values THEN SettersOf(k) \union {q} ELSE SettersOf(k)
          BY <1>0, <2>1 DEF SettersOf
    <2>5. \A k : \A e \in Told(k) : e.by \in SettersOf(k) /\ e.by \in done
          BY <1>0 DEF TrailIsComplete, Told, SettersOf
    <2>6. TrailIsComplete'
      <3>1. \A e \in trail' : e \in Told(e.key)'
            BY DEF Told
      <3>2. \A k : \A e \in Told(k)' : e.by \in SettersOf(k)'
            BY <2>3, <2>4, <2>5
      <3>3. ASSUME NEW k, NEW p \in SettersOf(k)' PROVE \E e \in Told(k)' : e.by = p
        <4>1. CASE p \in SettersOf(k)
              BY <1>0, <2>3, <4>1 DEF TrailIsComplete
        <4>2. CASE p \notin SettersOf(k)
          <5>1. p = q /\ k \in DOMAIN q.values
                BY <2>4, <4>2
          <5>2. new(k) \in Told(k)' /\ new(k).by = q
                BY <2>3, <5>1
          <5> QED BY <5>1, <5>2
        <4> QED BY <4>1, <4>2
      <3> QED BY <3>1, <3>2, <3>3 DEF TrailIsComplete
    <2>7. ASSUME NEW k PROVE SettingTold(k)'
      <3>1. CASE TwoSet(k)
        <4> PICK d, e \in Told(k) : d # e /\ Overlapped(d.by, e.by)
            BY <3>1 DEF TwoSet
        <4>1. Overlapped(d.by, e.by)' /\ d \in Told(k)' /\ e \in Told(k)'
              BY <1>1, <2>3
        <4> QED BY <4>1 DEF TwoSet, SettingTold
      <3>2. CASE ~TwoSet(k)
        <4>0. /\ IF k \in DOMAIN setting THEN TrailLeadsTo(k) ELSE Told(k) = {}
              /\ \A p \in Setting : k \in DOMAIN p.values =>
                    open[p][k] = ValueOf(k) \/ over[p] \intersect SettersOf(k) # {}
              BY <1>0, <3>2 DEF SettingTold
        <4>1. CASE k \notin DOMAIN q.values
          <5>1. /\ k \in DOMAIN setting' <=> k \in DOMAIN setting
                /\ k \in DOMAIN setting => setting'[k] = setting[k]
                BY <2>2, <4>1
          <5>2. Told(k)' = Told(k) /\ SettersOf(k)' = SettersOf(k) /\ ValueOf(k)' = ValueOf(k)
                BY <2>3, <2>4, <4>1, <5>1 DEF ValueOf
          <5>3. IF k \in DOMAIN setting' THEN TrailLeadsTo(k)' ELSE Told(k)' = {}
                BY <4>0, <5>1, <5>2 DEF TrailLeadsTo
          <5>4. \A p \in Setting' : p \in Setting /\ open'[p] = open[p] /\ over[p] \subseteq over'[p]
                BY <1>1, <2>1 DEF Setting
          <5> QED BY <4>0, <5>2, <5>3, <5>4 DEF SettingTold
        <4>2. CASE k \in DOMAIN q.values /\ over[q] \intersect SettersOf(k) # {}
          <5> PICK p \in over[q] \intersect SettersOf(k) : TRUE
              BY <4>2
          <5> PICK d \in Told(k) : d.by = p
              BY <1>0 DEF TrailIsComplete
          <5>1. d \in Told(k)' /\ new(k) \in Told(k)' /\ new(k).by = q /\ d # new(k)
                BY <2>1, <2>3, <2>5, <4>2
          <5>2. p \in over'[q] /\ q \in DOMAIN over'
                BY <2>1
          <5>3. Overlapped(d.by, new(k).by)'
                BY <5>1, <5>2 DEF Overlapped
          <5> QED BY <5>1, <5>3 DEF TwoSet, SettingTold
        <4>3. CASE k \in DOMAIN q.values /\ over[q] \intersect SettersOf(k) = {}
          <5>1. open[q][k] = ValueOf(k)
                BY <1>0, <2>1, <4>0, <4>3 DEF Setting
          <5>2. k \in DOMAIN setting' /\ setting'[k] = q.values[k] /\ Told(k)' = Told(k) \union {new(k)}
                BY <2>2, <2>3, <4>3
          <5>3. new(k) \notin Told(k) /\ new(k).after = q.values[k] /\ new(k).before = ValueOf(k)
                BY <2>1, <2>5, <5>1
          <5>4. TrailLeadsTo(k)'
            <6>1. CASE k \in DOMAIN setting
              <7>1. TrailLeadsTo(k) /\ ValueOf(k) = setting[k]
                    BY <4>0, <6>1 DEF ValueOf
              <7> HIDE DEF new
              <7> QED BY <5>2, <5>3, <7>1 DEF TrailLeadsTo
            <6>2. CASE k \notin DOMAIN setting
              <7>1. Told(k) = {} /\ ValueOf(k) = "none"
                    BY <4>0, <6>2 DEF ValueOf
              <7> HIDE DEF new
              <7> QED BY <5>2, <5>3, <7>1 DEF TrailLeadsTo
            <6> QED BY <6>1, <6>2
          <5>5. \A p \in Setting' : q \in over'[p] /\ q \in SettersOf(k)'
                BY <1>1, <2>1, <2>4, <4>3 DEF Setting
          <5> QED BY <5>2, <5>4, <5>5 DEF SettingTold
        <4> QED BY <4>1, <4>2, <4>3
      <3> QED BY <3>1, <3>2
    <2> QED BY <2>6, <2>7 DEF SettingsInv, SettingsSound
  <1> QED BY <1>2, <1>3 DEF PutSettings

-----------------------------------------------------------------------------
(* Templates *)

TemplateOps == {"submit", "sync", "importTemplates"}
IsAtMeta(r) == /\ DOMAIN r = {"name", "language", "status", "by", "approved"}
               /\ r.status = "APPROVED" => r.approved
IsRow(r) == DOMAIN r = {"meta", "status"}

\* Templates at Meta are numbered; a row names one of its name.
TemplatesShape ==
    /\ IsFiniteSet(DOMAIN remote) /\ DOMAIN remote = 1..Cardinality(DOMAIN remote)
    /\ \A m \in DOMAIN remote : IsAtMeta(remote[m])
    /\ \A n \in DOMAIN local : /\ IsRow(local[n]) /\ local[n].meta \in DOMAIN remote
                               /\ remote[local[n].meta].name = n

Calling == {q \in DOMAIN open : q.op = "submit" /\ open[q].at = "called"}
ImportedTwice(m) == \E i \in done : i.op = "importTemplates"
                    /\ \E n \in DOMAIN remote \ {m} : remote[n].name = remote[m].name

\* Whoever has asked Meta has the name to itself.
NamesHeld ==
    /\ \A q \in Calling : q.name \notin DOMAIN local /\ open[q].meta \in DOMAIN remote
                          /\ remote[open[q].meta].name = q.name
    /\ \A p, q \in Calling : p.name = q.name => p = q

SubmissionsKept == \A m \in DOMAIN remote : \A q \in remote[m].by :
    \/ m \in Meta
    \/ q \in Calling /\ open[q].meta = m
    \/ q.op = "submit" /\ q.dies /\ q \notin todo \union DOMAIN open \union done \union failed
    \/ ImportedTwice(m)

Importing == {q \in DOMAIN open : q.op = "importTemplates"}
Syncing == {q \in DOMAIN open : q.op = "sync"}
Imports == {q \in done : q.op = "importTemplates"}
SyncsOf(n) == {q \in done : q.op = "sync" /\ q.name = n}

\* What an import has read of Meta, and of the rows unless another has overtaken it.
ImportKnows(q) ==
    /\ DOMAIN open[q].remote \subseteq DOMAIN remote
    /\ \A m \in DOMAIN open[q].remote :
          /\ open[q].remote[m].name = remote[m].name
          /\ open[q].remote[m].status = "APPROVED" => remote[m].approved
    /\ DOMAIN open[q].local \subseteq DOMAIN local
    /\ \A n \in DOMAIN open[q].local :
          /\ over[q] \intersect Imports = {} => open[q].local[n].meta = local[n].meta
          /\ over[q] \intersect (Imports \union SyncsOf(n)) = {} => open[q].local[n].status = local[n].status

ImportsRead == \A q \in Importing : ImportKnows(q)

SyncKnows(q) ==
    /\ DOMAIN open[q] = {"at", "row", "status"} /\ open[q].at \in {"read", "told"}
    /\ q.name \in DOMAIN local /\ open[q].row.meta \in DOMAIN remote
    /\ over[q] \intersect Imports = {} => local[q.name].meta = open[q].row.meta
    /\ open[q].at = "told" /\ open[q].status = "approved" => remote[open[q].row.meta].approved
SyncsRead == \A q \in Syncing : SyncKnows(q)

\* An import overlapped with a sync of n, or with another import.
ImportsMet(n) == \E p, q \in done : /\ q.op = "importTemplates" /\ Overlapped(p, q)
                                    /\ (p.op = "sync" /\ p.name = n) \/ (p.op = q.op /\ p # q)

TemplatesSound == TemplatesShape /\ NamesHeld /\ SubmissionsKept /\ ImportsRead /\ SyncsRead /\ ApprovedByMeta
TemplatesInv == RequestsAreOnce /\ TemplatesSound

\* Templates come to Meta and stay.
RemoteGrows ==
    /\ DOMAIN remote \subseteq DOMAIN remote'
    /\ \A m \in DOMAIN remote : /\ remote'[m].name = remote[m].name /\ remote'[m].by = remote[m].by
                                /\ remote[m].approved => remote'[m].approved

LEMMA TemplatesLeftAlone ==
    ASSUME TemplatesInv, RequestsAreOnce', UNCHANGED local, RemoteGrows, DOMAIN remote' = DOMAIN remote,
           TemplatesShape', Aside(TemplateOps)
    PROVE  TemplatesInv'
  <1>0. RequestsAreOnce /\ TemplatesSound
        BY DEF TemplatesInv
  <1>1. /\ \A p : p.op \in TemplateOps => /\ p \in done' <=> p \in done
                                          /\ p \in failed' <=> p \in failed
                                          /\ p \in DOMAIN open' <=> p \in DOMAIN open
                                          /\ p \in DOMAIN open => open'[p] = open[p]
        /\ done \subseteq done'
        /\ DOMAIN over \subseteq DOMAIN over' /\ \A p \in DOMAIN over : over[p] \subseteq over'[p]
        /\ DOMAIN open \subseteq DOMAIN over
        BY <1>0, AsideFacts
  <1>2. \A a, b : Overlapped(a, b) => Overlapped(a, b)'
        BY <1>1, OverlapStays
  <1>3. /\ Calling' = Calling /\ Importing' = Importing /\ Syncing' = Syncing
        /\ Imports' = Imports /\ \A n : SyncsOf(n)' = SyncsOf(n)
        BY <1>1 DEF TemplateOps, Calling, Importing, Syncing, Imports, SyncsOf
  <1>4. \A p \in Calling \union Importing \union Syncing : open'[p] = open[p] /\ over[p] \subseteq over'[p]
        BY <1>1 DEF TemplateOps, Calling, Importing, Syncing
  <1>5. NamesHeld'
        BY <1>0, <1>3, <1>4 DEF TemplatesSound, NamesHeld, RemoteGrows
  <1>6. SubmissionsKept'
    <2> SUFFICES ASSUME NEW m \in DOMAIN remote, NEW q \in remote[m].by
                 PROVE  \/ m \in Meta'
                        \/ q \in Calling' /\ open'[q].meta = m
                        \/ q.op = "submit" /\ q.dies /\ q \notin todo' \union DOMAIN open' \union done' \union failed'
                        \/ ImportedTwice(m)'
        BY DEF SubmissionsKept, RemoteGrows
    <2>1. CASE m \in Meta
          BY <2>1 DEF Meta
    <2>2. CASE q \in Calling /\ open[q].meta = m
          BY <1>3, <1>4, <2>2
    <2>3. CASE q.op = "submit" /\ q.dies /\ q \notin todo \union DOMAIN open \union done \union failed
      <3>1. q \notin todo'
            BY <2>3 DEF Aside, Idle, Moved, Once
      <3> QED BY <1>1, <2>3, <3>1 DEF TemplateOps
    <2>4. CASE ImportedTwice(m)
          BY <1>1, <2>4 DEF ImportedTwice, RemoteGrows
    <2> QED BY <1>0, <2>1, <2>2, <2>3, <2>4 DEF TemplatesSound, SubmissionsKept
  <1>7. ImportsRead'
        BY <1>0, <1>3, <1>4 DEF TemplatesSound, ImportsRead, ImportKnows, RemoteGrows
  <1>8. SyncsRead'
        BY <1>0, <1>3, <1>4 DEF TemplatesSound, SyncsRead, SyncKnows, RemoteGrows
  <1>9. ApprovedByMeta'
    <2> SUFFICES ASSUME NEW n \in DOMAIN local, local[n].status = "approved"
                 PROVE  remote'[local[n].meta].approved \/ ImportsMet(n)'
        BY DEF ApprovedByMeta, ImportsMet
    <2>1. CASE remote[local[n].meta].approved
          BY <1>0, <2>1 DEF TemplatesSound, TemplatesShape, RemoteGrows
    <2>2. CASE ImportsMet(n)
          BY <1>1, <1>2, <2>2 DEF ImportsMet
    <2> QED BY <1>0, <2>1, <2>2 DEF TemplatesSound, ApprovedByMeta, ImportsMet
  <1> QED BY <1>5, <1>6, <1>7, <1>8, <1>9 DEF TemplatesInv, TemplatesSound

\* Meta decides.
LEMMA VerdictKeepsTemplates ==
    ASSUME TemplatesInv, RequestsAreOnce', MetaDecides
    PROVE  TemplatesInv'
  <1>0. TemplatesShape
        BY DEF TemplatesInv, TemplatesSound
  <1> PICK m \in DOMAIN remote : Verdict(m)
      BY DEF MetaDecides
  <1> PICK s \in MetaStatus :
         remote' = [remote EXCEPT ![m].status = s, ![m].approved = @ \/ s = "APPROVED"]
      BY DEF Verdict
  <1>1. /\ DOMAIN remote' = DOMAIN remote /\ \A x \in DOMAIN remote : x # m => remote'[x] = remote[x]
        /\ remote'[m] = [remote[m] EXCEPT !.status = s, !.approved = @ \/ s = "APPROVED"]
        OBVIOUS
  <1>2. DOMAIN remote[m] = {"name", "language", "status", "by", "approved"}
        BY <1>0 DEF TemplatesShape, IsAtMeta
  <1>3. /\ DOMAIN remote'[m] = {"name", "language", "status", "by", "approved"}
        /\ remote'[m].name = remote[m].name /\ remote'[m].by = remote[m].by /\ remote'[m].status = s
        /\ remote[m].approved => remote'[m].approved
        /\ s = "APPROVED" => remote'[m].approved
        BY <1>1, <1>2
  <1>4. RemoteGrows
        BY <1>1, <1>3 DEF RemoteGrows
  <1>5. IsAtMeta(remote'[m])
        BY <1>3 DEF IsAtMeta
  <1>6. local' = local
        BY DEF MetaDecides, Verdict
  <1>7. TemplatesShape'
        BY <1>0, <1>1, <1>3, <1>5, <1>6 DEF TemplatesShape
  <1>8. Aside(TemplateOps)
        BY OthersAreIdle DEF Aside, TemplatesInv
  <1> QED BY <1>1, <1>4, <1>6, <1>7, <1>8, TemplatesLeftAlone

\* Rows stay; what they name, imports change, and their status syncs of it too.
RowsKeep(q) ==
    /\ DOMAIN local \subseteq DOMAIN local'
    /\ \A n \in DOMAIN local : /\ local'[n].meta # local[n].meta => q \in Imports'
                               /\ local'[n].status # local[n].status => q \in Imports' \union SyncsOf(n)'

LEMMA OthersKnow ==
    ASSUME TemplatesInv, NEW q, Moved(q), q.op \in TemplateOps, RemoteGrows, RowsKeep(q)
    PROVE  /\ \A p \in Importing' : p # q => ImportKnows(p)'
           /\ \A p \in Syncing' : p # q => SyncKnows(p)'
  <1>0. RequestsAreOnce /\ TemplatesSound /\ Once(q)
        BY DEF TemplatesInv, Once, TemplateOps
  <1>1. /\ \A p \in DOMAIN open' : p # q => /\ p \in DOMAIN open /\ open'[p] = open[p] /\ over[p] \subseteq over'[p]
                                            /\ q \in done' => q \in over'[p]
        /\ done \subseteq done'
        BY <1>0, MoveFacts
  <1>2. Imports \subseteq Imports' /\ Imports' \subseteq done' /\ \A n : SyncsOf(n) \subseteq SyncsOf(n)' /\ SyncsOf(n)' \subseteq done'
        BY <1>1 DEF Imports, SyncsOf
  <1>3. ASSUME NEW p \in Importing', p # q PROVE ImportKnows(p)'
    <2>1. p \in Importing /\ open'[p] = open[p] /\ over[p] \subseteq over'[p] /\ (q \in done' => q \in over'[p])
          BY <1>1, <1>3 DEF Importing
    <2>2. ImportKnows(p)
          BY <1>0, <2>1 DEF TemplatesSound, ImportsRead
    <2>3. /\ DOMAIN open'[p].remote \subseteq DOMAIN remote'
          /\ \A m \in DOMAIN open'[p].remote :
                /\ open'[p].remote[m].name = remote'[m].name
                /\ open'[p].remote[m].status = "APPROVED" => remote'[m].approved
          BY <2>1, <2>2 DEF ImportKnows, RemoteGrows
    <2>4. DOMAIN open'[p].local \subseteq DOMAIN local'
          BY <2>1, <2>2 DEF ImportKnows, RowsKeep
    <2>5. ASSUME NEW n \in DOMAIN open'[p].local
          PROVE  /\ over'[p] \intersect Imports' = {} => open'[p].local[n].meta = local'[n].meta
                 /\ over'[p] \intersect (Imports' \union SyncsOf(n)') = {} => open'[p].local[n].status = local'[n].status
      <3>1. n \in DOMAIN local
            BY <2>1, <2>2 DEF ImportKnows
      <3>2. over'[p] \intersect Imports' = {} => q \notin Imports' /\ over[p] \intersect Imports = {}
            BY <1>2, <2>1
      <3>3. over'[p] \intersect (Imports' \union SyncsOf(n)') = {} =>
                q \notin Imports' \union SyncsOf(n)' /\ over[p] \intersect (Imports \union SyncsOf(n)) = {}
            BY <1>2, <2>1
      <3>4. over'[p] \intersect Imports' = {} => open[p].local[n].meta = local[n].meta /\ local'[n].meta = local[n].meta
            BY <2>1, <2>2, <3>1, <3>2 DEF ImportKnows, RowsKeep
      <3>5. over'[p] \intersect (Imports' \union SyncsOf(n)') = {} =>
                open[p].local[n].status = local[n].status /\ local'[n].status = local[n].status
            BY <2>1, <2>2, <3>1, <3>3 DEF ImportKnows, RowsKeep
      <3> QED BY <2>1, <3>4, <3>5
    <2> QED BY <2>3, <2>4, <2>5 DEF ImportKnows
  <1>4. ASSUME NEW p \in Syncing', p # q PROVE SyncKnows(p)'
    <2>1. p \in Syncing /\ open'[p] = open[p] /\ over[p] \subseteq over'[p] /\ (q \in done' => q \in over'[p])
          BY <1>1, <1>4 DEF Syncing
    <2>2. SyncKnows(p)
          BY <1>0, <2>1 DEF TemplatesSound, SyncsRead
    <2>3. over'[p] \intersect Imports' = {} => q \notin Imports' /\ over[p] \intersect Imports = {}
          BY <1>2, <2>1
    <2> QED BY <2>1, <2>2, <2>3 DEF SyncKnows, RemoteGrows, RowsKeep
  <1> QED BY <1>3, <1>4

\* Submissions are kept if what was named is named still, and if q, when it has
\* asked Meta, gives up by dying only.
LEMMA OthersSubmitted ==
    ASSUME TemplatesInv, NEW q, Moved(q), q.op \in TemplateOps, RemoteGrows,
           \A m \in Meta : m \in Meta' \/ ImportedTwice(m)',
           q \in Calling => \/ open[q].meta \in Meta'
                            \/ q.dies /\ q \notin todo' \union DOMAIN open' \union done' \union failed',
           \A m \in DOMAIN remote' \ DOMAIN remote : \A x \in remote'[m].by : x \in Calling' /\ open'[x].meta = m
    PROVE  SubmissionsKept'
  <1>0. RequestsAreOnce /\ TemplatesSound /\ Once(q)
        BY DEF TemplatesInv, Once, TemplateOps
  <1> SUFFICES ASSUME NEW m \in DOMAIN remote, NEW x \in remote[m].by
               PROVE  \/ m \in Meta'
                      \/ x \in Calling' /\ open'[x].meta = m
                      \/ x.op = "submit" /\ x.dies /\ x \notin todo' \union DOMAIN open' \union done' \union failed'
                      \/ ImportedTwice(m)'
      BY DEF SubmissionsKept, RemoteGrows
  <1>1. CASE m \in Meta
        BY <1>1
  <1>2. CASE x \in Calling /\ open[x].meta = m
    <2>1. CASE x = q
          BY <1>2, <2>1 DEF Calling
    <2>2. CASE x # q
          BY <1>2, <2>2 DEF Calling, Moved
    <2> QED BY <2>1, <2>2
  <1>3. CASE x.op = "submit" /\ x.dies /\ x \notin todo \union DOMAIN open \union done \union failed
        BY <1>3 DEF Moved
  <1>4. CASE ImportedTwice(m)
    <2>1. done \subseteq done'
          BY DEF Moved
    <2> QED BY <1>4, <2>1 DEF ImportedTwice, RemoteGrows
  <1> QED BY <1>0, <1>1, <1>2, <1>3, <1>4 DEF TemplatesSound, SubmissionsKept

\* Rows that are as they were are still approved by Meta.
LEMMA OthersApproved ==
    ASSUME TemplatesInv, NEW q, Moved(q), q.op \in TemplateOps, RemoteGrows,
           \A n \in DOMAIN local' : local'[n].status = "approved" =>
              \/ n \in DOMAIN local /\ local'[n] = local[n]
              \/ remote'[local'[n].meta].approved
              \/ ImportsMet(n)'
    PROVE  ApprovedByMeta'
  <1>0. RequestsAreOnce /\ TemplatesSound /\ Once(q)
        BY DEF TemplatesInv, Once, TemplateOps
  <1>1. done \subseteq done' /\ \A a, b : Overlapped(a, b) => Overlapped(a, b)'
        BY <1>0, MoveFacts
  <1>2. \A n : ImportsMet(n) => ImportsMet(n)'
        BY <1>1 DEF ImportsMet
  <1>3. \A n \in DOMAIN local : local[n].status = "approved" =>
            remote'[local[n].meta].approved \/ ImportsMet(n)
        BY <1>0 DEF TemplatesSound, TemplatesShape, ApprovedByMeta, ImportsMet, RemoteGrows
  <1> QED BY <1>2, <1>3 DEF ApprovedByMeta, ImportsMet

\* A submission inserts its row before it asks Meta: the name is its own till it commits.
LEMMA SubmitStep ==
    ASSUME TemplatesInv, NEW q, PostTemplate(q), RequestsAreOnce', Moved(q)
    PROVE  TemplatesInv'
  <1>0. /\ RequestsAreOnce /\ TemplatesSound /\ TemplatesShape /\ NamesHeld /\ q.op = "submit" /\ q.op \in TemplateOps
        /\ Once(q)
        BY DEF TemplatesInv, TemplatesSound, Once, TemplateOps, PostTemplate
  <1>1. \A p \in DOMAIN open' : p # q => p \in DOMAIN open /\ open'[p] = open[p]
        BY <1>0, MoveFacts
  <1>2. q \notin Importing' /\ q \notin Syncing'
        BY <1>0 DEF Importing, Syncing
  <1>3. \A p \in Calling' : p # q => p \in Calling /\ open'[p] = open[p]
        BY <1>1 DEF Calling
  <1>4. CASE remote' = remote /\ local' = local /\ q \notin Calling' /\ (q \in Calling => SubmitDies(q))
    <2>1. RemoteGrows /\ RowsKeep(q)
          BY <1>4 DEF RemoteGrows, RowsKeep
    <2>2. TemplatesShape'
          BY <1>0, <1>4 DEF TemplatesShape
    <2>3. NamesHeld'
          BY <1>0, <1>3, <1>4 DEF NamesHeld
    <2>4. q \in Calling => q.dies /\ q \notin todo' \union DOMAIN open' \union done' \union failed'
      <3>1. SubmitDies(q) => q.dies /\ Drop(q)
            BY DEF SubmitDies
      <3> QED BY <1>0, <1>4, <3>1, DropMoves DEF RequestsAreOnce
    <2>5. SubmissionsKept'
      <3>1. Meta' = Meta
            BY <1>4 DEF Meta
      <3> QED BY <1>0, <1>4, <2>1, <2>4, <3>1, OthersSubmitted
    <2>6. ImportsRead' /\ SyncsRead'
          BY <1>0, <1>2, <2>1, OthersKnow DEF ImportsRead, SyncsRead
    <2>7. ApprovedByMeta'
          BY <1>0, <1>4, <2>1, OthersApproved
    <2> QED BY <2>2, <2>3, <2>5, <2>6, <2>7 DEF TemplatesInv, TemplatesSound
  <1>5. CASE q \in DOMAIN open /\ submit_message_template(q) /\ remote' # remote
    <2> DEFINE m == Cardinality(DOMAIN remote) + 1
               new == [name |-> q.name, language |-> q.language, status |-> "PENDING", by |-> {q}, approved |-> FALSE]
    <2>1. /\ Proceed(q, [at |-> "called", meta |-> m]) /\ remote' = Added(remote, m, new) /\ local' = local
          /\ open[q].at = "checked" /\ Inserted(q)
          BY <1>5 DEF submit_message_template
    <2>2. q \in DOMAIN open' /\ open'[q] = [at |-> "called", meta |-> m] /\ DOMAIN open' = DOMAIN open
          BY <1>0, <2>1, ProceedMoves
    <2>3. /\ m \notin DOMAIN remote /\ DOMAIN remote' = DOMAIN remote \union {m} /\ remote'[m] = new
          /\ \A x \in DOMAIN remote : remote'[x] = remote[x]
          /\ IsFiniteSet(DOMAIN remote') /\ DOMAIN remote' = 1..Cardinality(DOMAIN remote')
      <3>1. m - 1 \in Nat /\ DOMAIN remote = 1..(m - 1) /\ IsFiniteSet(DOMAIN remote) /\ Cardinality(DOMAIN remote) \in Nat
            BY <1>0, FS_CardinalityType DEF TemplatesShape
      <3>2. m \notin DOMAIN remote
            BY <3>1
      <3>3. DOMAIN remote' = DOMAIN remote \union {m} /\ remote'[m] = new /\ \A x \in DOMAIN remote : remote'[x] = remote[x]
            BY <2>1, <3>2 DEF Added
      <3>4. IsFiniteSet(DOMAIN remote') /\ Cardinality(DOMAIN remote') = m
            BY <3>1, <3>2, <3>3, FS_AddElement
      <3>5. DOMAIN remote' = 1..m
            BY <3>1, <3>3
      <3> QED BY <3>2, <3>3, <3>4, <3>5
    <2>4. IsAtMeta(new) /\ new.name = q.name /\ new.by = {q}
          BY DEF IsAtMeta
    <2>5. open'[q].at = "called" /\ open'[q].meta = m
          BY <2>2
    <2>6. q \in Calling' /\ q \notin Calling
          BY <1>0, <2>1, <2>2, <2>5 DEF Calling
    <2>7. q.name \notin DOMAIN local /\ \A p \in Calling : p.name # q.name
          BY <2>1 DEF Inserted, Held, Calling
    <2> HIDE DEF m, new
    <2>8. RemoteGrows /\ RowsKeep(q)
          BY <2>1, <2>3 DEF RemoteGrows, RowsKeep
    <2>9. TemplatesShape'
          BY <1>0, <2>1, <2>3, <2>4 DEF TemplatesShape
    <2>10. NamesHeld'
      <3>1. \A p \in Calling' : (p \in Calling /\ open'[p] = open[p]) \/ p = q
            BY <1>3
      <3>2. \A p \in Calling' : p.name \notin DOMAIN local' /\ open'[p].meta \in DOMAIN remote'
                                /\ remote'[open'[p].meta].name = p.name
            BY <1>0, <2>1, <2>3, <2>4, <2>5, <2>7, <3>1 DEF NamesHeld
      <3>3. \A p, x \in Calling' : p.name = x.name => p = x
            BY <1>0, <2>7, <3>1 DEF NamesHeld
      <3> QED BY <3>2, <3>3 DEF NamesHeld
    <2>11. SubmissionsKept'
      <3>1. Meta' = Meta
            BY <2>1 DEF Meta
      <3> QED BY <1>0, <2>3, <2>4, <2>5, <2>6, <2>8, <3>1, OthersSubmitted
    <2>12. ImportsRead' /\ SyncsRead'
           BY <1>0, <1>2, <2>8, OthersKnow DEF ImportsRead, SyncsRead
    <2>13. ApprovedByMeta'
           BY <1>0, <2>1, <2>8, OthersApproved
    <2> QED BY <2>9, <2>10, <2>11, <2>12, <2>13 DEF TemplatesInv, TemplatesSound
  <1>6. CASE q \in DOMAIN open /\ submit_template(q)
    <2>1. q \in Calling
          BY <1>0, <1>6 DEF submit_template, Calling
    <2>2. q.name \notin DOMAIN local /\ open[q].meta \in DOMAIN remote /\ remote[open[q].meta].name = q.name
          BY <1>0, <2>1 DEF NamesHeld
    <2>3. Commit(q) /\ SetLocal(q.name, [meta |-> open[q].meta, status |-> "pending"]) /\ remote' = remote
          BY <1>6, <2>2 DEF submit_template
    <2>4. /\ DOMAIN local' = DOMAIN local \union {q.name} /\ \A n \in DOMAIN local : local'[n] = local[n]
          /\ local'[q.name] = [meta |-> open[q].meta, status |-> "pending"]
          BY <2>2, <2>3 DEF SetLocal, Over
    <2>5. IsRow(local'[q.name]) /\ local'[q.name].meta = open[q].meta /\ local'[q.name].status = "pending"
          BY <2>4 DEF IsRow
    <2>6. q \notin DOMAIN open'
          BY <1>0, <2>3, CommitMoves
    <2>7. RemoteGrows /\ RowsKeep(q)
          BY <2>3, <2>4 DEF RemoteGrows, RowsKeep
    <2>8. TemplatesShape'
          BY <1>0, <2>2, <2>3, <2>4, <2>5 DEF TemplatesShape
    <2>9. NamesHeld'
      <3>1. \A p \in Calling' : p # q
            BY <2>6 DEF Calling
      <3> QED BY <1>0, <1>3, <2>1, <2>3, <2>4, <3>1 DEF NamesHeld
    <2>10. SubmissionsKept'
      <3>0. 0 \notin DOMAIN remote
        <4>1. Cardinality(DOMAIN remote) \in Nat
              BY <1>0, FS_CardinalityType DEF TemplatesShape
        <4> QED BY <1>0, <4>1 DEF TemplatesShape
      <3>1. \A x \in Meta : x \in Meta'
            BY <2>4 DEF Meta
      <3>2. open[q].meta \in Meta'
            BY <2>2, <2>4, <2>5, <3>0 DEF Meta
      <3> QED BY <1>0, <2>3, <2>7, <3>1, <3>2, OthersSubmitted
    <2>11. ImportsRead' /\ SyncsRead'
           BY <1>0, <1>2, <2>7, OthersKnow DEF ImportsRead, SyncsRead
    <2>12. ApprovedByMeta'
           BY <1>0, <2>4, <2>5, <2>7, OthersApproved
    <2> QED BY <2>8, <2>9, <2>10, <2>11, <2>12 DEF TemplatesInv, TemplatesSound
  <1>7. CASE q \in todo /\ SubmitRead(q)
    <2>1. remote' = remote /\ local' = local
          BY <1>7 DEF SubmitRead, templateState
    <2>2. q \notin Calling
          BY <1>0, <1>7 DEF Calling, RequestsAreOnce
    <2>3. q \notin Calling'
      <3>1. CASE Refuse(q)
            BY <2>2, <3>1 DEF Calling, Refuse
      <3>2. CASE ~Refuse(q)
        <4>1. Begin(q, [at |-> "checked", meta |-> 0])
              BY <1>7, <3>2 DEF SubmitRead
        <4>2. open'[q] = [at |-> "checked", meta |-> 0]
              BY <1>0, <4>1, BeginMoves
        <4>3. open'[q].at = "checked"
              BY <4>2
        <4> QED BY <4>3 DEF Calling
      <3> QED BY <3>1, <3>2
    <2> QED BY <1>4, <2>1, <2>2, <2>3
  <1>8. CASE q \in DOMAIN open /\ SubmitFails(q)
    <2>1. q \notin Calling'
          BY <1>0, <1>8, FailMoves DEF SubmitFails, Calling
    <2> QED BY <1>4, <1>8, <2>1 DEF SubmitFails, Calling, templateState
  <1>9. CASE q \in DOMAIN open /\ submit_message_template(q) /\ remote' = remote
    <2>1. CASE Drop(q)
      <3>1. q \notin Calling'
            BY <1>0, <2>1, DropMoves DEF Calling
      <3> QED BY <1>4, <1>9, <3>1 DEF submit_message_template, Calling
    <2>2. CASE ~Drop(q)
      <3> DEFINE m == Cardinality(DOMAIN remote) + 1
      <3>1. \E new : remote' = Added(remote, m, new)
            BY <1>9, <2>2 DEF submit_message_template
      <3>2. m \in DOMAIN remote'
            BY <3>1 DEF Added
      <3>3. m \notin DOMAIN remote
        <4>1. Cardinality(DOMAIN remote) \in Nat
              BY <1>0, FS_CardinalityType DEF TemplatesShape
        <4> QED BY <1>0, <4>1 DEF TemplatesShape
      <3> QED BY <1>9, <3>2, <3>3
    <2> QED BY <2>1, <2>2
  <1>10. CASE q \in DOMAIN open /\ SubmitDies(q)
    <2>1. q \notin Calling'
          BY <1>0, <1>10, DropMoves DEF SubmitDies, Calling
    <2> QED BY <1>4, <1>10, <2>1 DEF SubmitDies, templateState
  <1> QED BY <1>5, <1>6, <1>7, <1>8, <1>9, <1>10 DEF PostTemplate

\* What leaves the templates leaves what holds of them, but for what q reads.
LEMMA ReadersStep ==
    ASSUME TemplatesInv, NEW q, RequestsAreOnce', Moved(q), q.op \in {"sync", "importTemplates"},
           remote' = remote, local' = local,
           q \in Importing' => ImportKnows(q)', q \in Syncing' => SyncKnows(q)'
    PROVE  TemplatesInv'
  <1>0. RequestsAreOnce /\ TemplatesSound /\ TemplatesShape /\ NamesHeld /\ q.op \in TemplateOps /\ Once(q)
        BY DEF TemplatesInv, TemplatesSound, Once, TemplateOps
  <1>1. \A p \in DOMAIN open' : p # q => p \in DOMAIN open /\ open'[p] = open[p]
        BY <1>0, MoveFacts
  <1>2. RemoteGrows /\ RowsKeep(q) /\ q \notin Calling /\ q \notin Calling'
        BY DEF RemoteGrows, RowsKeep, Calling
  <1>3. \A p \in Calling' : p \in Calling /\ open'[p] = open[p]
        BY <1>1, <1>2 DEF Calling
  <1>4. TemplatesShape' /\ Meta' = Meta
        BY <1>0 DEF TemplatesShape, Meta
  <1>5. NamesHeld'
        BY <1>0, <1>3 DEF NamesHeld
  <1>6. SubmissionsKept'
        BY <1>0, <1>2, <1>4, OthersSubmitted
  <1>7. ImportsRead' /\ SyncsRead'
        BY <1>0, <1>2, OthersKnow DEF ImportsRead, SyncsRead
  <1>8. ApprovedByMeta'
        BY <1>0, <1>2, OthersApproved
  <1> QED BY <1>4, <1>5, <1>6, <1>7, <1>8 DEF TemplatesInv, TemplatesSound

\* A sync writes of the row's template what Meta has said of it, or an import has
\* put another template there.
LEMMA SyncStep ==
    ASSUME TemplatesInv, NEW q, PostSync(q), RequestsAreOnce', Moved(q)
    PROVE  TemplatesInv'
  <1>0. /\ RequestsAreOnce /\ TemplatesSound /\ TemplatesShape /\ NamesHeld /\ q.op = "sync" /\ q.op \in TemplateOps
        /\ Once(q) /\ q.op \in {"sync", "importTemplates"}
        BY DEF TemplatesInv, TemplatesSound, Once, TemplateOps, PostSync
  <1>1. \A p \in DOMAIN open' : p # q => p \in DOMAIN open /\ open'[p] = open[p]
        BY <1>0, MoveFacts
  <1>2. q \notin Importing' /\ q \notin Calling /\ q \notin Calling'
        BY <1>0 DEF Importing, Calling
  <1>3. CASE q \in todo /\ SyncRead(q)
    <2>1. remote' = remote /\ local' = local
          BY <1>3 DEF SyncRead, templateState
    <2>2. ASSUME q \in Syncing' PROVE SyncKnows(q)'
      <3>1. ~Refuse(q)
            BY <1>0, <2>2, RefuseMoves DEF Syncing, RequestsAreOnce
      <3>2. PICK old, none : old = local[q.name] /\ none = ""
          OBVIOUS
      <3>3. q.name \in DOMAIN local /\ Begin(q, [at |-> "read", row |-> old, status |-> none])
            BY <1>3, <3>2, <3>1 DEF SyncRead
      <3>4. open'[q] = [at |-> "read", row |-> old, status |-> none] /\ over'[q] = {}
            BY <1>0, <3>3, BeginMoves
      <3>5. DOMAIN open'[q] = {"at", "row", "status"} /\ open'[q].at = "read" /\ open'[q].row = local[q.name]
        <4>1. DOMAIN open'[q] = {"at", "row", "status"} /\ open'[q].at = "read" /\ open'[q].row = old
              BY <3>4
        <4>2. old = local[q.name]
              BY <3>2
        <4> QED BY <4>1, <4>2
      <3>6. local[q.name].meta \in DOMAIN remote
            BY <1>0, <3>3 DEF TemplatesShape
      <3> QED BY <2>1, <3>3, <3>5, <3>6 DEF SyncKnows
    <2> QED BY <1>0, <1>2, <2>1, <2>2, ReadersStep
  <1>4. CASE q \in DOMAIN open /\ SyncAnswer(q)
    <2> DEFINE told == map_meta_status(remote[open[q].row.meta].status)
               r    == [open[q] EXCEPT !.at = "told", !.status = told]
    <2>1. remote' = remote /\ local' = local /\ Proceed(q, r)
          BY <1>4 DEF SyncAnswer, templateState
    <2>2. SyncKnows(q)
          BY <1>0, <1>4 DEF TemplatesSound, SyncsRead, Syncing
    <2>3. open'[q] = r /\ over' = over /\ done' = done
          BY <1>0, <2>1, ProceedMoves
    <2>4. /\ DOMAIN open'[q] = {"at", "row", "status"} /\ open'[q].at = "told" /\ open'[q].row = open[q].row
          /\ open'[q].status = told
      <3>1. DOMAIN open[q] = {"at", "row", "status"}
            BY <2>2 DEF SyncKnows
      <3> QED BY <2>3, <3>1
    <2>5. told = "approved" => remote[open[q].row.meta].approved
      <3>1. open[q].row.meta \in DOMAIN remote
            BY <2>2 DEF SyncKnows
      <3>2. told = "approved" => remote[open[q].row.meta].status = "APPROVED"
            BY DEF map_meta_status
      <3> QED BY <1>0, <3>1, <3>2 DEF TemplatesShape, IsAtMeta
    <2> HIDE DEF told
    <2>6. Imports' = Imports
          BY <2>3 DEF Imports
    <2>7. SyncKnows(q)'
          BY <2>1, <2>2, <2>3, <2>4, <2>5, <2>6 DEF SyncKnows
    <2> QED BY <1>0, <1>2, <2>1, <2>7, ReadersStep
  <1>5. CASE q \in DOMAIN open /\ sync_status_from_meta(q)
    <2>1. /\ Commit(q) /\ remote' = remote /\ open[q].at = "told"
          /\ local' = IF open[q].status = open[q].row.status THEN local
                      ELSE [local EXCEPT ![q.name].status = open[q].status]
          BY <1>5 DEF sync_status_from_meta
    <2>2. q \in Syncing /\ SyncKnows(q)
          BY <1>0, <1>5 DEF TemplatesSound, SyncsRead, Syncing
    <2>3. /\ q \notin DOMAIN open' /\ q \in done' /\ done \subseteq done' /\ q \in DOMAIN over' /\ over'[q] = over[q]
          BY <1>0, <2>1, CommitMoves DEF RequestsAreOnce
    <2>4. q \in SyncsOf(q.name)'
          BY <1>0, <2>3 DEF SyncsOf
    <2>5. /\ DOMAIN local' = DOMAIN local /\ \A n \in DOMAIN local : n # q.name => local'[n] = local[n]
          /\ IsRow(local'[q.name]) /\ local'[q.name].meta = local[q.name].meta
          /\ local' # local => local'[q.name].status = open[q].status
      <3>1. q.name \in DOMAIN local /\ DOMAIN local[q.name] = {"meta", "status"}
            BY <1>0, <2>2 DEF SyncKnows, TemplatesShape, IsRow
      <3>2. CASE local' = local
            BY <3>1, <3>2 DEF IsRow
      <3>3. CASE local' = [local EXCEPT ![q.name].status = open[q].status]
        <4>1. /\ DOMAIN local' = DOMAIN local /\ \A n \in DOMAIN local : n # q.name => local'[n] = local[n]
              /\ local'[q.name] = [local[q.name] EXCEPT !.status = open[q].status]
              BY <3>1, <3>3
        <4> QED BY <3>1, <4>1 DEF IsRow
      <3> QED BY <2>1, <3>2, <3>3
    <2>6. RemoteGrows /\ RowsKeep(q)
          BY <2>1, <2>4, <2>5 DEF RemoteGrows, RowsKeep
    <2>7. TemplatesShape'
          BY <1>0, <2>1, <2>5 DEF TemplatesShape
    <2>8. NamesHeld'
      <3>1. \A p \in Calling' : p \in Calling /\ open'[p] = open[p]
            BY <1>1, <1>2 DEF Calling
      <3> QED BY <1>0, <2>1, <2>5, <3>1 DEF NamesHeld
    <2>9. SubmissionsKept'
      <3>1. \A m \in Meta : m \in Meta'
            BY <2>5 DEF Meta
      <3> QED BY <1>0, <1>2, <2>1, <2>6, <3>1, OthersSubmitted
    <2>10. ImportsRead' /\ SyncsRead'
      <3>1. q \notin Syncing'
            BY <2>3 DEF Syncing
      <3> QED BY <1>0, <1>2, <2>6, <3>1, OthersKnow DEF ImportsRead, SyncsRead
    <2>11. ApprovedByMeta'
      <3> SUFFICES ASSUME NEW n \in DOMAIN local', local'[n].status = "approved", local'[n] # local[n]
                   PROVE  remote'[local'[n].meta].approved \/ ImportsMet(n)'
          BY <1>0, <2>5, <2>6, OthersApproved
      <3>1. n = q.name /\ open[q].status = "approved"
            BY <2>5
      <3>2. CASE over[q] \intersect Imports = {}
            BY <2>1, <2>2, <2>5, <3>1, <3>2 DEF SyncKnows
      <3>3. CASE over[q] \intersect Imports # {}
        <4> PICK i \in over[q] \intersect Imports : TRUE
            BY <3>3
        <4>1. i \in done' /\ i.op = "importTemplates" /\ Overlapped(q, i)'
              BY <2>3 DEF Imports, Overlapped
        <4> QED BY <1>0, <2>3, <3>1, <4>1 DEF ImportsMet
      <3> QED BY <3>2, <3>3
    <2> QED BY <2>7, <2>8, <2>9, <2>10, <2>11 DEF TemplatesInv, TemplatesSound
  <1> QED BY <1>3, <1>4, <1>5 DEF PostSync

\* An import that writes gives every name a template of it at Meta, and takes no
\* name that is held.
LEMMA ImportWrites ==
    ASSUME TemplatesInv, NEW q, q \in Importing, import_from_meta(q), ~Clashes(q)
    PROVE  /\ Commit(q) /\ remote' = remote /\ DOMAIN local' = DOMAIN local \union Names(q)
           /\ \A n \in DOMAIN local : n \notin Names(q) => local'[n] = local[n]
           /\ \A p \in Calling : p.name \notin Names(q)
           /\ \A n \in Names(q) :
                 /\ IsRow(local'[n])
                 /\ \E m \in DOMAIN open[q].remote :
                       /\ m \in DOMAIN remote /\ remote[m].name = n
                       /\ map_meta_status(open[q].remote[m].status) = "approved" => remote[m].approved
                       /\ n \notin DOMAIN local =>
                             local'[n].meta = m /\ local'[n].status = map_meta_status(open[q].remote[m].status)
                       /\ n \in DOMAIN local =>
                             /\ n \in DOMAIN open[q].local
                             /\ local'[n].meta = IF m # open[q].local[n].meta THEN m ELSE local[n].meta
                             /\ local'[n].status = IF map_meta_status(open[q].remote[m].status) # open[q].local[n].status
                                                   THEN map_meta_status(open[q].remote[m].status) ELSE local[n].status
  <1>0. TemplatesShape /\ NamesHeld /\ ImportKnows(q)
        BY DEF TemplatesInv, TemplatesSound, ImportsRead
  <1> PICK r : r = open[q].remote
      OBVIOUS
  <1> DEFINE New(m) == [meta |-> m, status |-> map_meta_status(r[m].status)]
  <1>1. /\ Commit(q) /\ remote' = remote
        /\ \E last \in [Names(q) -> DOMAIN r] :
              /\ \A n \in Names(q) : r[last[n]].name = n
              /\ local' = Over([n \in Names(q) |->
                                  IF n \in DOMAIN open[q].local
                                  THEN Refreshed(New(last[n]), open[q].local[n], local[n]) ELSE New(last[n])], local)
        BY DEF import_from_meta
  <1>2. PICK last \in [Names(q) -> DOMAIN r] :
              /\ \A n \in Names(q) : r[last[n]].name = n
              /\ local' = Over([n \in Names(q) |->
                                  IF n \in DOMAIN open[q].local
                                  THEN Refreshed(New(last[n]), open[q].local[n], local[n]) ELSE New(last[n])], local)
        BY <1>1
  <1>3. /\ DOMAIN local' = DOMAIN local \union Names(q)
        /\ \A n \in DOMAIN local : n \notin Names(q) => local'[n] = local[n]
        /\ \A n \in Names(q) : local'[n] = IF n \in DOMAIN open[q].local
                                           THEN Refreshed(New(last[n]), open[q].local[n], local[n]) ELSE New(last[n])
        BY <1>2 DEF Over
  <1> HIDE DEF New
  <1>4. ASSUME NEW p \in Calling PROVE p.name \notin Names(q)
    <2>1. p.name \in Held /\ p.name \notin DOMAIN local
          BY <1>0 DEF NamesHeld, Held, Calling
    <2>2. p.name \notin DOMAIN open[q].local
          BY <1>0, <2>1 DEF ImportKnows
    <2> QED BY <2>1, <2>2 DEF import_from_meta
  <1>5. ASSUME NEW n \in Names(q)
        PROVE  /\ IsRow(local'[n])
               /\ last[n] \in DOMAIN r /\ last[n] \in DOMAIN remote /\ remote[last[n]].name = n
               /\ map_meta_status(r[last[n]].status) = "approved" => remote[last[n]].approved
               /\ n \notin DOMAIN local =>
                     local'[n].meta = last[n] /\ local'[n].status = map_meta_status(r[last[n]].status)
               /\ n \in DOMAIN local =>
                     /\ n \in DOMAIN open[q].local
                     /\ local'[n].meta = IF last[n] # open[q].local[n].meta THEN last[n] ELSE local[n].meta
                     /\ local'[n].status = IF map_meta_status(r[last[n]].status) # open[q].local[n].status
                                           THEN map_meta_status(r[last[n]].status) ELSE local[n].status
    <2>1. last[n] \in DOMAIN r /\ r[last[n]].name = n
          BY <1>2
    <2>2. /\ last[n] \in DOMAIN remote /\ remote[last[n]].name = n
          /\ r[last[n]].status = "APPROVED" => remote[last[n]].approved
          BY <1>0, <2>1 DEF ImportKnows
    <2>3. map_meta_status(r[last[n]].status) = "approved" => r[last[n]].status = "APPROVED"
          BY DEF map_meta_status
    <2>4. n \notin DOMAIN local => n \notin DOMAIN open[q].local
          BY <1>0 DEF ImportKnows
    <2>5. n \in DOMAIN local => n \in DOMAIN open[q].local
          BY <2>1 DEF Clashes
    <2> PICK s : s = map_meta_status(r[last[n]].status)
        OBVIOUS
    <2>6. CASE n \in DOMAIN open[q].local
      <3>1. local'[n] = [meta   |-> IF last[n] # open[q].local[n].meta THEN last[n] ELSE local[n].meta,
                         status |-> IF s # open[q].local[n].status THEN s ELSE local[n].status]
            BY <1>3, <2>6 DEF Refreshed, New
      <3>2. IsRow(local'[n]) /\ local'[n].meta = IF last[n] # open[q].local[n].meta THEN last[n] ELSE local[n].meta
            BY <3>1 DEF IsRow
      <3>3. local'[n].status = IF s # open[q].local[n].status THEN s ELSE local[n].status
            BY <3>1
      <3> QED BY <2>1, <2>2, <2>3, <2>4, <2>6, <3>2, <3>3
    <2>7. CASE n \notin DOMAIN open[q].local
      <3>1. local'[n] = [meta |-> last[n], status |-> s]
            BY <1>3, <2>7 DEF New
      <3>2. IsRow(local'[n]) /\ local'[n].meta = last[n] /\ local'[n].status = s
            BY <3>1 DEF IsRow
      <3> QED BY <2>1, <2>2, <2>3, <2>5, <2>7, <3>2
    <2> QED BY <2>6, <2>7
  <1> QED BY <1>1, <1>3, <1>4, <1>5

\* An import reads, fails, or writes: what it takes from a submission it takes for
\* another template of the same name, and what it approves Meta has approved,
\* unless it overlapped with a sync or another import.
LEMMA ImportStep ==
    ASSUME TemplatesInv, NEW q, PostImportFromMeta(q), RequestsAreOnce', Moved(q)
    PROVE  TemplatesInv'
  <1>0. /\ RequestsAreOnce /\ TemplatesSound /\ TemplatesShape /\ NamesHeld /\ q.op = "importTemplates"
        /\ q.op \in TemplateOps /\ Once(q) /\ q.op \in {"sync", "importTemplates"}
        BY DEF TemplatesInv, TemplatesSound, Once, TemplateOps, PostImportFromMeta
  <1>1. \A p \in DOMAIN open' : p # q => p \in DOMAIN open /\ open'[p] = open[p]
        BY <1>0, MoveFacts
  <1>2. q \notin Syncing' /\ q \notin Calling /\ q \notin Calling'
        BY <1>0 DEF Syncing, Calling
  <1>3. CASE q \in todo /\ ImportRead_(q)
    <2>1. remote' = remote /\ local' = local
          BY <1>3 DEF ImportRead_, templateState
    <2> PICK a, b : a = remote /\ b = local
        OBVIOUS
    <2>2. Begin(q, [at |-> "told", remote |-> a, local |-> b])
          BY <1>3 DEF ImportRead_
    <2>3. open'[q] = [at |-> "told", remote |-> a, local |-> b]
          BY <1>0, <2>2, BeginMoves
    <2>4. open'[q].remote = remote /\ open'[q].local = local
          BY <2>3
    <2>5. \A m \in DOMAIN remote : remote[m].status = "APPROVED" => remote[m].approved
          BY <1>0 DEF TemplatesShape, IsAtMeta
    <2>6. ImportKnows(q)'
          BY <2>1, <2>4, <2>5 DEF ImportKnows
    <2> QED BY <1>0, <1>2, <2>1, <2>6, ReadersStep
  <1>4. CASE q \in DOMAIN open /\ import_from_meta(q) /\ Clashes(q)
    <2>1. Fail(q) /\ remote' = remote /\ local' = local
          BY <1>4 DEF import_from_meta
    <2>2. q \notin Importing'
          BY <1>0, <2>1, FailMoves DEF Importing
    <2> QED BY <1>0, <1>2, <2>1, <2>2, ReadersStep
  <1>5. CASE q \in DOMAIN open /\ import_from_meta(q) /\ ~Clashes(q)
    <2>1. q \in Importing
          BY <1>0, <1>5 DEF Importing
    <2>2. /\ Commit(q) /\ remote' = remote /\ DOMAIN local' = DOMAIN local \union Names(q)
          /\ \A n \in DOMAIN local : n \notin Names(q) => local'[n] = local[n]
          /\ \A p \in Calling : p.name \notin Names(q)
          BY <1>5, <2>1, ImportWrites
    <2>3. \A n \in Names(q) :
                 /\ IsRow(local'[n])
                 /\ \E m \in DOMAIN open[q].remote :
                       /\ m \in DOMAIN remote /\ remote[m].name = n
                       /\ map_meta_status(open[q].remote[m].status) = "approved" => remote[m].approved
                       /\ n \notin DOMAIN local =>
                             local'[n].meta = m /\ local'[n].status = map_meta_status(open[q].remote[m].status)
                       /\ n \in DOMAIN local =>
                             /\ n \in DOMAIN open[q].local
                             /\ local'[n].meta = IF m # open[q].local[n].meta THEN m ELSE local[n].meta
                             /\ local'[n].status = IF map_meta_status(open[q].remote[m].status) # open[q].local[n].status
                                                   THEN map_meta_status(open[q].remote[m].status) ELSE local[n].status
          BY <1>5, <2>1, ImportWrites
    <2>4. /\ q \notin DOMAIN open' /\ q \in done' /\ done \subseteq done' /\ q \in DOMAIN over' /\ over'[q] = over[q]
          BY <1>0, <2>1, <2>2, CommitMoves DEF RequestsAreOnce, Importing
    <2>5. q \in Imports'
          BY <1>0, <2>4 DEF Imports
    <2>6. RemoteGrows /\ RowsKeep(q)
          BY <2>2, <2>5 DEF RemoteGrows, RowsKeep
    <2>7. ASSUME NEW n \in DOMAIN local'
          PROVE  IsRow(local'[n]) /\ local'[n].meta \in DOMAIN remote /\ remote[local'[n].meta].name = n
      <3>1. CASE n \in Names(q)
        <4>1. PICK m \in DOMAIN open[q].remote :
                       /\ m \in DOMAIN remote /\ remote[m].name = n
                       /\ n \notin DOMAIN local => local'[n].meta = m
                       /\ n \in DOMAIN local =>
                             local'[n].meta = IF m # open[q].local[n].meta THEN m ELSE local[n].meta
              BY <2>3, <3>1
        <4>2. IsRow(local'[n])
              BY <2>3, <3>1
        <4> QED BY <1>0, <4>1, <4>2 DEF TemplatesShape
      <3>2. CASE n \notin Names(q)
            BY <1>0, <2>2, <3>2 DEF TemplatesShape
      <3> QED BY <3>1, <3>2
    <2>8. TemplatesShape'
          BY <1>0, <2>2, <2>7 DEF TemplatesShape
    <2>9. NamesHeld'
      <3>1. \A p \in Calling' : p \in Calling /\ open'[p] = open[p]
            BY <1>1, <1>2 DEF Calling
      <3> QED BY <1>0, <2>2, <3>1 DEF NamesHeld
    <2>10. SubmissionsKept'
      <3>1. ASSUME NEW m \in Meta, m \notin Meta' PROVE ImportedTwice(m)'
        <4>1. PICK n \in DOMAIN local : m = local[n].meta /\ m # 0
              BY DEF Meta
        <4>2. local'[n].meta # m
              BY <2>2, <3>1, <4>1 DEF Meta
        <4>3. local'[n].meta \in DOMAIN remote \ {m} /\ remote[local'[n].meta].name = remote[m].name
              BY <1>0, <2>2, <2>7, <4>1, <4>2 DEF TemplatesShape
        <4> QED BY <1>0, <2>2, <2>4, <4>3 DEF ImportedTwice
      <3> QED BY <1>0, <1>2, <2>2, <2>6, <3>1, OthersSubmitted
    <2>11. ImportsRead' /\ SyncsRead'
      <3>1. q \notin Importing'
            BY <2>4 DEF Importing
      <3> QED BY <1>0, <1>2, <2>6, <3>1, OthersKnow DEF ImportsRead, SyncsRead
    <2>12. ApprovedByMeta'
      <3> SUFFICES ASSUME NEW n \in DOMAIN local', local'[n].status = "approved",
                          ~(n \in DOMAIN local /\ local'[n] = local[n])
                   PROVE  remote'[local'[n].meta].approved \/ ImportsMet(n)'
          BY <1>0, <2>6, OthersApproved
      <3>1. n \in Names(q)
            BY <2>2
      <3>2. PICK m \in DOMAIN open[q].remote :
                       /\ map_meta_status(open[q].remote[m].status) = "approved" => remote[m].approved
                       /\ n \notin DOMAIN local =>
                             local'[n].meta = m /\ local'[n].status = map_meta_status(open[q].remote[m].status)
                       /\ n \in DOMAIN local =>
                             /\ n \in DOMAIN open[q].local
                             /\ local'[n].meta = IF m # open[q].local[n].meta THEN m ELSE local[n].meta
                             /\ local'[n].status = IF map_meta_status(open[q].remote[m].status) # open[q].local[n].status
                                                   THEN map_meta_status(open[q].remote[m].status) ELSE local[n].status
            BY <2>3, <3>1
      <3>3. CASE n \notin DOMAIN local
            BY <2>2, <3>2, <3>3
      <3>4. CASE n \in DOMAIN local /\ over[q] \intersect (Imports \union SyncsOf(n)) = {}
        <4>1. ImportKnows(q) /\ over[q] \intersect Imports = {}
              BY <1>0, <2>1, <3>4 DEF TemplatesSound, ImportsRead
        <4>2. open[q].local[n].meta = local[n].meta /\ open[q].local[n].status = local[n].status
              BY <3>2, <3>4, <4>1 DEF ImportKnows
        <4>3. local'[n].meta = m /\ local'[n].status = map_meta_status(open[q].remote[m].status)
              BY <3>2, <3>4, <4>2
        <4> QED BY <2>2, <3>2, <4>3
      <3>5. CASE over[q] \intersect (Imports \union SyncsOf(n)) # {}
        <4> PICK p \in over[q] \intersect (Imports \union SyncsOf(n)) : TRUE
            BY <3>5
        <4>1. p \in done' /\ p # q /\ Overlapped(p, q)'
              BY <1>0, <2>1, <2>4 DEF Imports, SyncsOf, Overlapped, RequestsAreOnce, Importing
        <4> QED BY <1>0, <2>4, <4>1 DEF ImportsMet, Imports, SyncsOf
      <3> QED BY <3>3, <3>4, <3>5
    <2> QED BY <2>8, <2>9, <2>10, <2>11, <2>12 DEF TemplatesInv, TemplatesSound
  <1> QED BY <1>3, <1>4, <1>5 DEF PostImportFromMeta

-----------------------------------------------------------------------------
(* Settings and templates, step by step *)

LEMMA ConsoleStep ==
    ASSUME SettingsInv, TemplatesInv, [Next]_vars
    PROVE  SettingsInv' /\ TemplatesInv'
  <1>0. RequestsAreOnce /\ RequestsAreOnce'
        BY OnceKept DEF SettingsInv
  <1>1. ASSUME UNCHANGED settingState, Aside({"settings"}) PROVE SettingsInv'
        BY <1>0, <1>1, SettingsLeftAlone
  <1>2. ASSUME UNCHANGED templateState, Aside(TemplateOps) PROVE TemplatesInv'
    <2>1. remote' = remote /\ local' = local
          BY <1>2 DEF templateState
    <2>2. TemplatesShape'
          BY <2>1 DEF TemplatesInv, TemplatesSound, TemplatesShape
    <2>3. RemoteGrows /\ DOMAIN remote' = DOMAIN remote
          BY <2>1 DEF RemoteGrows
    <2> QED BY <1>0, <1>2, <2>1, <2>2, <2>3, TemplatesLeftAlone
  <1>3. ASSUME NEW q, Work(q) PROVE SettingsInv' /\ TemplatesInv'
    <2>0. Moved(q)
          BY <1>0, <1>3, WorkMoves
    <2>1. CASE ConsoleRequest(q)
      <3>1. CASE PutSettings(q) /\ UNCHANGED templateState
        <4>1. q.op \notin TemplateOps
              BY <3>1 DEF PutSettings, TemplateOps
        <4> QED BY <1>0, <1>2, <2>0, <3>1, <4>1, SettingsStep DEF Aside
      <3>2. CASE (PostTemplate(q) \/ PostSync(q) \/ PostImportFromMeta(q)) /\ UNCHANGED settingState
        <4>1. q.op \notin {"settings"}
              BY <3>2 DEF PostTemplate, PostSync, PostImportFromMeta
        <4>2. SettingsInv'
              BY <1>1, <2>0, <3>2, <4>1 DEF Aside
        <4>3. TemplatesInv'
              BY <1>0, <2>0, <3>2, SubmitStep, SyncStep, ImportStep
        <4> QED BY <4>2, <4>3
      <3> QED BY <2>1, <3>1, <3>2 DEF ConsoleRequest
    <2>2. CASE /\ UNCHANGED consoleState
               /\ \/ ContactRequest(q) \/ DeleteContacts(q) \/ MemoryRequest(q) \/ TagRequest(q) \/ ThreadRequest(q)
                  \/ AnalyticsRequest(q) \/ AccountRequest(q) \/ DraftRequest(q) \/ SearchRequest(q)
      <3>1. q.op \notin {"settings"} /\ q.op \notin TemplateOps
            BY <1>0, <2>2, ContactsMove, DeletionMoves, MemoryMoves, TagsMove, ThreadsMove, AnalyticsMoves,
               AccountsMove, DraftsMove, SearchMoves
               DEF ContactOps, MemoryOps, TagOps, ThreadOps, AnalyticsOps, AccountOps, TemplateOps, DraftOps, SearchOps
      <3> QED BY <1>1, <1>2, <2>0, <2>2, <3>1 DEF Aside, consoleState
    <2>3. ConsoleRequest(q) \/ UNCHANGED consoleState
          BY <1>3 DEF Work, contactsAside, DraftRequest, consoleState
    <2> QED BY <1>3, <2>1, <2>2, <2>3 DEF Work
  <1>4. CASE MetaDecides
    <2>1. UNCHANGED settingState
          BY <1>4 DEF MetaDecides
    <2>2. Aside({"settings"})
          BY <1>0, <1>4, OthersAreIdle DEF Aside
    <2> QED BY <1>0, <1>1, <1>4, <2>1, <2>2, VerdictKeepsTemplates
  <1>5. CASE Sweep \/ Time \/ HandsOver \/ UNCHANGED vars
    <2>1. UNCHANGED settingState /\ UNCHANGED templateState
          BY <1>5 DEF Sweep, Time, HandsOver, Besides, contactsAside, consoleState, vars
    <2>2. Aside({"settings"}) /\ Aside(TemplateOps)
          BY <1>0, <1>5, OthersAreIdle DEF Aside
    <2> QED BY <1>1, <1>2, <2>1, <2>2
  <1> QED BY <1>3, <1>4, <1>5 DEF Next

LEMMA ConsoleInit == Init => SettingsInv /\ TemplatesInv
  <1> SUFFICES ASSUME Init PROVE SettingsInv /\ TemplatesInv
      OBVIOUS
  <1> PICK s \in Scenarios : todo = s.requests /\ remote = s.remote /\ local = s.local
      BY DEF Init
  <1>1. open = <<>> /\ over = <<>> /\ done = {} /\ setting = <<>> /\ trail = {}
        BY DEF Init, InitRequests, InitConsole
  <1>2. DOMAIN open = {} /\ DOMAIN over = {} /\ DOMAIN setting = {}
        BY <1>1
  <1>3. SettingsSound
    <2>1. TrailIsComplete
          BY <1>1 DEF TrailIsComplete, SettersOf
    <2>2. \A k : Told(k) = {} /\ Setting = {}
          BY <1>1, <1>2 DEF Told, Setting
    <2> QED BY <1>2, <2>1, <2>2 DEF SettingsSound, SettingTold
  <1>4. /\ IsFiniteSet(DOMAIN remote) /\ DOMAIN remote = 1..Cardinality(DOMAIN remote)
        /\ \A m \in DOMAIN remote :
             /\ DOMAIN remote[m] = {"name", "language", "status", "by", "approved"}
             /\ remote[m].by = {} /\ remote[m].approved = (remote[m].status = "APPROVED")
        /\ \A n \in DOMAIN local :
             /\ local[n] \in Template /\ local[n].meta \in DOMAIN remote /\ remote[local[n].meta].name = n
             /\ local[n].status = "approved" => remote[local[n].meta].approved
        BY ScenariosAssumption
  <1>5. TemplatesShape
    <2>1. \A m \in DOMAIN remote : IsAtMeta(remote[m])
          BY <1>4 DEF IsAtMeta
    <2>2. \A n \in DOMAIN local : IsRow(local[n])
          BY <1>4 DEF IsRow, Template
    <2> QED BY <1>4, <2>1, <2>2 DEF TemplatesShape
  <1>6. NamesHeld /\ ImportsRead /\ SyncsRead
        BY <1>2 DEF NamesHeld, Calling, ImportsRead, Importing, SyncsRead, Syncing
  <1>7. SubmissionsKept /\ ApprovedByMeta
        BY <1>4 DEF SubmissionsKept, ApprovedByMeta
  <1> QED BY <1>3, <1>5, <1>6, <1>7, OnceInit DEF SettingsInv, TemplatesInv, TemplatesSound

LEMMA ConsoleSound ==
    ASSUME SettingsInv, TemplatesInv
    PROVE  TrailExplains /\ SubmittedIsKept /\ ApprovedByMeta
  <1>1. TrailExplains
    <2> SUFFICES ASSUME NEW k \in DOMAIN setting
                 PROVE  \/ TrailLeadsTo(k)
                        \/ TwoSet(k)
        BY DEF TrailExplains, TrailLeadsTo, TwoSet, Told
    <2> QED BY DEF SettingsInv, SettingsSound, SettingTold
  <1>2. SubmittedIsKept
    <2> SUFFICES ASSUME NEW m \in DOMAIN remote, NEW q \in remote[m].by
                 PROVE  \/ m \in Meta \/ q \in DOMAIN open
                        \/ q.dies /\ q \notin done \union failed
                        \/ \E i \in done : i.op = "importTemplates"
                           /\ \E n \in DOMAIN remote \ {m} : remote[n].name = remote[m].name
        BY DEF SubmittedIsKept
    <2> QED BY DEF TemplatesInv, TemplatesSound, SubmissionsKept, Calling, ImportedTwice
  <1> QED BY <1>1, <1>2 DEF TemplatesInv, TemplatesSound

\* An active admin is left and a user who is deactivated has no session, however
\* the requests about users overlap, unless two of them each took an admin away; a
\* login has one live token at most, unless two refreshes of it overlapped; each
\* setting came to be as the audit trail tells, what is submitted to Meta is kept,
\* and what may be sent Meta has approved, with the exceptions that these
\* properties name (UserService, AuthService, SettingsService, TemplateService).
THEOREM AdministrationSoundness == Spec => []AdministrationIsSound
  <1>1. Init => AccountsInv /\ SettingsInv /\ TemplatesInv
        BY AccountsInit, ConsoleInit
  <1>2. AccountsInv /\ SettingsInv /\ TemplatesInv /\ [Next]_vars => (AccountsInv /\ SettingsInv /\ TemplatesInv)'
        BY AccountsStep, ConsoleStep
  <1>3. AccountsInv /\ SettingsInv /\ TemplatesInv => AdministrationIsSound
        BY AccountsSound, ConsoleSound DEF AdministrationIsSound
  <1> QED BY <1>1, <1>2, <1>3, PTL DEF Spec

-----------------------------------------------------------------------------
(* The search *)

Panes == {"BUY", "SELL"}
IsCursor(c) == DOMAIN c = {"at", "id"} /\ c.at \in Nat /\ c.id \in Nat

\* What comes in has its columns, and so has what is there.
SearchShape ==
    /\ \A q \in Asked : SearchWellFormed(q)
    /\ IsFiniteSet(DOMAIN board) /\ DOMAIN board \subseteq Nat \ {0}
    /\ \A m \in DOMAIN board : IsPost(board[m])
    /\ \A e \in DOMAIN vocab : IsEntry(vocab[e])

\* A search in progress has a cursor for each pane, and ends with both at their end.
IsSearch(o) ==
    /\ DOMAIN o = {"pc", "cursor", "first", "again", "found", "shown"}
    /\ o.pc \in {"BUY", "SELL", "end"} /\ o.first \in BOOLEAN
    /\ DOMAIN o.cursor = Panes /\ \A s \in Panes : IsCursor(o.cursor[s])
    /\ o.pc = "end" => ~o.first /\ \A s \in Panes : o.cursor[s] = Top

\* A page of the pane has been shown.
Turned(o, s) == ~o.first \/ (s = "BUY" /\ o.pc = "SELL")

\* m ranks above one that is shown and is newer, or was.
ShownAgain(q, m) ==
    \/ board[m].side \in open[q].again
    \/ use_fts(q) /\ \E n \in DOMAIN open[q].shown : /\ board[n].score < board[m].score
                                                     /\ Newer(n, m) \/ Reposted(q, n)
\* One that is shown ranks above m and is older; or the query finds other messages by now.
PassedOver(q, m) ==
    \/ use_fts(q) /\ VocabEdited(q)
    \/ use_fts(q) /\ \E n \in DOMAIN open[q].shown : board[n].score > board[m].score /\ Newer(m, n)

\* What has been shown is above the cursor of its pane, what has not is below it.
PagesSound(q) == LET o == open[q] IN
    /\ IsSearch(o) /\ DOMAIN o.shown \subseteq DOMAIN board /\ o.found \subseteq DOMAIN board
    /\ \A s \in Panes : ~Turned(o, s) => o.cursor[s] = Top
    /\ \A m \in Untouched(q) :
         /\ board[m].side \in Panes
         /\ m \in Found(q, board[m].side) \/ (use_fts(q) /\ VocabEdited(q))
         /\ m \in DOMAIN o.shown =>
               \/ ShownAgain(q, m)
               \/ /\ o.shown[m] = 1 /\ Turned(o, board[m].side)
                  /\ o.cursor[board[m].side] = Top \/ ~Below(m, o.cursor[board[m].side])
         /\ \/ m \in DOMAIN o.shown \/ PassedOver(q, m) \/ ~Turned(o, board[m].side)
            \/ o.cursor[board[m].side] # Top /\ Below(m, o.cursor[board[m].side])

\* What has been set of an entry, and whether it was reset.
SetBy(e, f) == {p \in done : p.op = "editEntry" /\ p.e = e /\ f \in DOMAIN p.patch}
Reset == \E p \in done : p.op \in {"deleteEntry", "reseed"}

\* An edit in progress has read what is there, unless that was edited or deleted.
EditsRead == \A q \in DOMAIN open : q.op = "editEntry" =>
    /\ IsEntry(open[q].row)
    /\ q.e \notin DOMAIN vocab => \E p \in over[q] : p.op = "deleteEntry"
    /\ \/ Reset
       \/ q.e \in DOMAIN vocab /\ \A f \in DOMAIN open[q].row :
             vocab[q.e][f] = open[q].row[f] \/ SetBy(q.e, f) # {}
\* The tag of an entry that is about to be created is free, or was taken meanwhile.
CreatesRead == \A q \in DOMAIN open : q.op = "createEntry" =>
    get_by_tag(q.entry.tag) = {} \/ \E p \in over[q] : p.op \in {"createEntry", "reseed"}

FailuresRead == \A q \in failed : q.op \in SearchOps => q \in DOMAIN over

VocabSound == EditsRead /\ CreatesRead /\ FailuresRead /\ VocabPatchStands /\ VocabErrorsHaveCause
SearchInv == RequestsAreOnce /\ SearchShape /\ (\A q \in Searches : PagesSound(q)) /\ VocabSound

\* Messages are in an order, by rank or by time.
LEMMA BetterOrders ==
    ASSUME SearchShape, NEW q
    PROVE  /\ \A m \in DOMAIN board : ~Better(q, m, m)
           /\ \A l, m, n \in DOMAIN board : Better(q, l, m) /\ Better(q, m, n) => Better(q, l, n)
           /\ \A m, n \in DOMAIN board : m = n \/ Better(q, m, n) \/ Better(q, n, m)
  <1>1. \A m \in DOMAIN board : m \in Nat /\ board[m].at \in Nat /\ board[m].score \in Int
        BY DEF SearchShape, IsPost
  <1>2. CASE use_fts(q)
    <2>1. \A m, n \in DOMAIN board : Better(q, m, n) <=>
              \/ board[m].score > board[n].score
              \/ /\ board[m].score = board[n].score
                 /\ board[m].at > board[n].at \/ (board[m].at = board[n].at /\ m > n)
          BY <1>1, <1>2 DEF Better, Newer
    <2> QED BY <1>1, <2>1
  <1>3. CASE ~use_fts(q)
    <2>1. \A m, n \in DOMAIN board : Better(q, m, n) <=>
              board[m].at > board[n].at \/ (board[m].at = board[n].at /\ m > n)
          BY <1>1, <1>3 DEF Better, Newer
    <2> QED BY <1>1, <2>1
  <1> QED BY <1>2, <1>3

\* Those of S that rank above m.
Ahead(q, S, m) == {n \in S : Better(q, n, m)}

LEMMA AheadCounts ==
    ASSUME SearchShape, NEW q, NEW S \in SUBSET DOMAIN board
    PROVE  /\ IsFiniteSet(S) /\ Cardinality(S) \in Nat
           /\ \A m \in S : /\ IsFiniteSet(Ahead(q, S, m)) /\ Cardinality(Ahead(q, S, m)) \in Nat
                           /\ Cardinality(Ahead(q, S, m)) < Cardinality(S)
           /\ \A m, n \in S : Better(q, n, m) => Cardinality(Ahead(q, S, n)) < Cardinality(Ahead(q, S, m))
  <1>1. IsFiniteSet(S)
        BY FS_Subset DEF SearchShape
  <1>2. \A T \in SUBSET S : IsFiniteSet(T) /\ Cardinality(T) \in Nat
        BY <1>1, FS_Subset, FS_CardinalityType
  <1>3. \A T \in SUBSET S, U \in SUBSET S : T \subseteq U /\ T # U => Cardinality(T) < Cardinality(U)
    <2> SUFFICES ASSUME NEW T \in SUBSET S, NEW U \in SUBSET S, T \subseteq U, T # U
                 PROVE  Cardinality(T) < Cardinality(U)
        OBVIOUS
    <2>1. IsFiniteSet(U) /\ Cardinality(T) \in Nat /\ Cardinality(U) \in Nat
          BY <1>2
    <2>2. Cardinality(T) <= Cardinality(U) /\ (Cardinality(T) = Cardinality(U) => T = U)
          BY <2>1, FS_Subset
    <2> QED BY <2>1, <2>2
  <1>4. \A m \in S : Ahead(q, S, m) \in SUBSET S /\ m \notin Ahead(q, S, m)
        BY BetterOrders DEF Ahead
  <1>5. \A m \in S : Cardinality(Ahead(q, S, m)) < Cardinality(S)
        BY <1>3, <1>4
  <1>6. ASSUME NEW m \in S, NEW n \in S, Better(q, n, m)
        PROVE  Cardinality(Ahead(q, S, n)) < Cardinality(Ahead(q, S, m))
    <2>1. Ahead(q, S, n) \subseteq Ahead(q, S, m)
          BY <1>6, BetterOrders DEF Ahead
    <2>2. n \in Ahead(q, S, m) /\ n \notin Ahead(q, S, n)
          BY <1>4, <1>6 DEF Ahead
    <2> QED BY <1>3, <1>4, <2>1, <2>2
  <1> QED BY <1>1, <1>2, <1>4, <1>5, <1>6

\* The first page of S: all of it, or the best, of which one is the last.
LEMMA FirstPage ==
    ASSUME SearchShape, NEW q, q.size \in Nat \ {0}, NEW S \in SUBSET DOMAIN board
    PROVE  /\ FirstOf(q, S) \subseteq S
           /\ Cardinality(S) <= q.size => FirstOf(q, S) = S /\ NextCursor(q, S) = Top
           /\ \A m \in S \ FirstOf(q, S), n \in FirstOf(q, S) : Better(q, n, m)
           /\ ~(Cardinality(S) <= q.size) =>
                 \E last \in FirstOf(q, S) :
                    /\ \A m \in FirstOf(q, S) : m = last \/ Better(q, m, last)
                    /\ NextCursor(q, S) = [at |-> board[last].at, id |-> last]
  <1>0. \A m : Cardinality({n \in S : Better(q, n, m)}) = Cardinality(Ahead(q, S, m))
        BY DEF Ahead
  <1>1. FirstOf(q, S) = {m \in S : Cardinality(Ahead(q, S, m)) < q.size}
        BY <1>0 DEF FirstOf
  <1>2. /\ Cardinality(S) \in Nat
        /\ \A m \in S : Cardinality(Ahead(q, S, m)) \in Nat /\ Cardinality(Ahead(q, S, m)) < Cardinality(S)
        /\ \A m, n \in S : Better(q, n, m) => Cardinality(Ahead(q, S, n)) < Cardinality(Ahead(q, S, m))
        BY AheadCounts
  <1>3. Cardinality(S) <= q.size => FirstOf(q, S) = S
        BY <1>1, <1>2
  <1>4. \A m \in S \ FirstOf(q, S), n \in FirstOf(q, S) : Better(q, n, m)
    <2> SUFFICES ASSUME NEW m \in S \ FirstOf(q, S), NEW n \in FirstOf(q, S), ~Better(q, n, m)
                 PROVE  FALSE
        OBVIOUS
    <2>1. m \in DOMAIN board /\ n \in DOMAIN board /\ m # n /\ n \in S
          BY <1>1
    <2>2. Better(q, m, n)
          BY <2>1, BetterOrders
    <2> QED BY <1>1, <1>2, <2>1, <2>2
  <1>5. ASSUME ~(Cardinality(S) <= q.size)
        PROVE  \E last \in FirstOf(q, S) :
                    /\ \A m \in FirstOf(q, S) : m = last \/ Better(q, m, last)
                    /\ NextCursor(q, S) = [at |-> board[last].at, id |-> last]
    <2> DEFINE Places == {Cardinality(Ahead(q, S, m)) : m \in S}
    <2>1. S # {}
          BY <1>5, FS_EmptySet
    <2>2. PICK k \in Places : \A l \in Places : k <= l
      <3>1. Places \in SUBSET Nat /\ Places # {}
            BY <1>2, <2>1
      <3> HIDE DEF Places
      <3> QED BY <3>1, LeastExists
    <2>3. PICK best \in S : k = Cardinality(Ahead(q, S, best))
          BY <2>2
    <2>4. Ahead(q, S, best) = {}
      <3> SUFFICES ASSUME NEW n \in Ahead(q, S, best) PROVE FALSE
          OBVIOUS
      <3>1. n \in S /\ Better(q, n, best)
            BY DEF Ahead
      <3>2. Cardinality(Ahead(q, S, n)) \in Places
            BY <3>1
      <3> QED BY <1>2, <2>2, <2>3, <3>1, <3>2
    <2>5. best \in FirstOf(q, S)
          BY <1>1, <2>3, <2>4, FS_EmptySet
    <2> DEFINE Firsts == {Cardinality(Ahead(q, S, m)) + 1 : m \in FirstOf(q, S)}
    <2>6. PICK j \in Firsts : \A l \in Firsts : j >= l
      <3>1. Firsts \in SUBSET (1..q.size) /\ Firsts # {}
            BY <1>1, <1>2, <2>5
      <3> HIDE DEF Firsts
      <3> QED BY <3>1, GreatestExists
    <2>7. PICK w \in FirstOf(q, S) : j = Cardinality(Ahead(q, S, w)) + 1
          BY <2>6
    <2>8. \A m \in FirstOf(q, S) : m = w \/ Better(q, m, w)
      <3> SUFFICES ASSUME NEW m \in FirstOf(q, S), m # w, ~Better(q, m, w) PROVE FALSE
          OBVIOUS
      <3>1. m \in S /\ w \in S /\ m \in DOMAIN board /\ w \in DOMAIN board
            BY <1>1
      <3>2. Better(q, w, m)
            BY <3>1, BetterOrders
      <3>3. Cardinality(Ahead(q, S, m)) + 1 \in Firsts
            OBVIOUS
      <3> QED BY <1>2, <2>6, <2>7, <3>1, <3>2, <3>3
    <2> DEFINE Last == CHOOSE m \in FirstOf(q, S) : \A n \in FirstOf(q, S) : n = m \/ Better(q, n, m)
    <2>9. Last \in FirstOf(q, S) /\ \A n \in FirstOf(q, S) : n = Last \/ Better(q, n, Last)
          BY <2>8
    <2>10. NextCursor(q, S) = [at |-> board[Last].at, id |-> Last]
          BY <1>5 DEF NextCursor
    <2> QED BY <2>9, <2>10
  <1> QED BY <1>1, <1>3, <1>4, <1>5 DEF NextCursor


\* What a page does to a search.
LEMMA PaneIs ==
    ASSUME NEW q, NEW s \in Panes, IsSearch(open[q])
    PROVE  LET o == open[q]   r == Pane(q, s)
               hits == search_fts(q, s, o.cursor[s])   now == FirstOf(q, hits) IN
           /\ DOMAIN r = DOMAIN o /\ r.pc = o.pc /\ r.first = o.first /\ r.found = o.found
           /\ DOMAIN r.cursor = Panes /\ r.cursor[s] = NextCursor(q, hits)
           /\ \A t \in Panes : t # s => r.cursor[t] = o.cursor[t]
           /\ o.again \subseteq r.again /\ (~o.first /\ o.cursor[s] = Top => s \in r.again)
           /\ DOMAIN r.shown = DOMAIN o.shown \union now
           /\ \A m \in DOMAIN o.shown : m \notin now => r.shown[m] = o.shown[m]
           /\ \A m \in now : m \notin DOMAIN o.shown => r.shown[m] = 1
  <1> DEFINE o == open[q]   r == Pane(q, s)
             hits == search_fts(q, s, o.cursor[s])   now == FirstOf(q, hits)
             again == IF ~o.first /\ o.cursor[s] = Top THEN o.again \union {s} ELSE o.again
             views == [m \in DOMAIN o.shown \union now |->
                          IF m \notin now THEN o.shown[m] ELSE IF m \in DOMAIN o.shown THEN 2 ELSE 1]
  <1>1. r = [o EXCEPT !.cursor[s] = NextCursor(q, hits), !.again = again, !.shown = views]
        BY DEF Pane, IsSearch
  <1>2. /\ DOMAIN r = DOMAIN o /\ r.pc = o.pc /\ r.first = o.first /\ r.found = o.found
        /\ r.cursor = [o.cursor EXCEPT ![s] = NextCursor(q, hits)] /\ r.again = again /\ r.shown = views
    <2> HIDE DEF r, hits, again, views
    <2> QED BY <1>1 DEF IsSearch
  <1> HIDE DEF r, hits, now
  <1>3. DOMAIN r.cursor = Panes /\ r.cursor[s] = NextCursor(q, hits) /\ \A t \in Panes : t # s => r.cursor[t] = o.cursor[t]
        BY <1>2 DEF IsSearch
  <1> QED BY <1>2, <1>3 DEF r, hits, now

\* A page of pane s leaves q as it should be.
LEMMA PageTurns ==
    ASSUME SearchShape, NEW q, PagesSound(q), q.size \in Nat \ {0}, NEW s \in Panes, open[q].pc = s,
           UNCHANGED <<board, vocab, over>>, IsSearch(open[q])',
           LET n == open'[q]   r == Pane(q, s) IN
               n.cursor = r.cursor /\ n.again = r.again /\ n.found = r.found /\ n.shown = r.shown,
           \A t \in Panes : Turned(open[q], t)' <=> t = s \/ Turned(open[q], t)
    PROVE  PagesSound(q)'
  <1> DEFINE o == open[q]   r == Pane(q, s)   n == open'[q]
             c == o.cursor[s]   hits == search_fts(q, s, c)   now == FirstOf(q, hits)
             At(m) == [at |-> board[m].at, id |-> m]
  <1>1. /\ n.cursor[s] = NextCursor(q, hits) /\ \A t \in Panes : t # s => n.cursor[t] = o.cursor[t]
        /\ o.again \subseteq n.again /\ (~o.first /\ c = Top => s \in n.again)
        /\ DOMAIN n.shown = DOMAIN o.shown \union now /\ n.found = o.found
        /\ \A m \in DOMAIN o.shown : m \notin now => n.shown[m] = o.shown[m]
        /\ \A m \in now : m \notin DOMAIN o.shown => n.shown[m] = 1
        BY PaneIs DEF PagesSound
  <1>2. hits \in SUBSET DOMAIN board /\ \A m : m \in hits <=> m \in Found(q, s) /\ Below(m, c)
        BY DEF search_fts, Found
  <1>3. /\ now \subseteq hits
        /\ Cardinality(hits) <= q.size => now = hits /\ n.cursor[s] = Top
        /\ \A m \in hits \ now, x \in now : Better(q, x, m)
        /\ ~(Cardinality(hits) <= q.size) =>
              \E last \in now : (\A m \in now : m = last \/ Better(q, m, last)) /\ n.cursor[s] = At(last)
    <2> HIDE DEF hits
    <2> QED BY <1>1, <1>2, FirstPage
  <1>4. IsSearch(o) /\ IsCursor(c) /\ DOMAIN o.shown \subseteq DOMAIN board /\ o.found \subseteq DOMAIN board
        BY DEF PagesSound, IsSearch
  <1>5. \A m \in DOMAIN board : m \in Nat /\ m # 0 /\ board[m].at \in Nat /\ board[m].score \in Int
        BY DEF SearchShape, IsPost
  <1>6. \A m, l \in DOMAIN board : Better(q, m, l) =>
            \/ Newer(m, l)
            \/ use_fts(q) /\ board[m].score > board[l].score
        BY DEF Better
  <1>7. \A m : /\ Untouched(q)' = Untouched(q) /\ Found(q, board[m].side)' = Found(q, board[m].side)
               /\ VocabEdited(q)' = VocabEdited(q)
               /\ (ShownAgain(q, m) => ShownAgain(q, m)') /\ (PassedOver(q, m) => PassedOver(q, m)')
    <2>1. Untouched(q)' = Untouched(q) /\ VocabEdited(q)' = VocabEdited(q) /\ \A m : Reposted(q, m)' = Reposted(q, m)
          BY <1>1 DEF Untouched, VocabEdited, Reposted
    <2>2. \A m, l : Newer(m, l)' = Newer(m, l)
          BY DEF Newer
    <2>3. \A t : Found(q, t)' = Found(q, t)
          BY DEF Found, _expand_query_vocab
    <2> HIDE DEF hits, now, c
    <2> QED BY <1>1, <2>1, <2>2, <2>3 DEF ShownAgain, PassedOver
  <1>8. \A m, l \in DOMAIN board : At(l) # Top /\ (Below(m, At(l)) <=> Newer(l, m)) /\ (m = l \/ Newer(l, m) \/ Newer(m, l))
                                   /\ ~(Newer(l, m) /\ Newer(m, l)) /\ ~Newer(l, l)
        BY <1>5 DEF Below, Newer, Top
  <1>9. \A m, l \in DOMAIN board : c # Top /\ ~Below(m, c) /\ Below(l, c) => ~Newer(l, m)
        BY <1>4, <1>5 DEF Below, Newer, IsCursor
  <1>10. \A m, d : Below(m, d)' = Below(m, d)
        BY DEF Below
  <1>11. \A t \in Panes : ~Turned(open[q], t)' => n.cursor[t] = Top
        BY <1>1 DEF PagesSound
  <1>12. c = Top /\ Turned(o, s) => s \in n.again
        BY <1>1 DEF Turned, Panes
  <1>13. \/ n.cursor[s] = Top /\ now = hits
         \/ \E last \in now : (\A m \in now : m = last \/ Better(q, m, last)) /\ n.cursor[s] = At(last)
        BY <1>3
  <1> HIDE DEF hits, now, c, At
  <1>14. ASSUME NEW m \in Untouched(q)
         PROVE  /\ m \in DOMAIN n.shown =>
                      \/ ShownAgain(q, m)'
                      \/ /\ n.shown[m] = 1 /\ Turned(open[q], board[m].side)'
                         /\ n.cursor[board[m].side] = Top \/ ~Below(m, n.cursor[board[m].side])
                /\ \/ m \in DOMAIN n.shown \/ PassedOver(q, m)' \/ ~Turned(open[q], board[m].side)'
                   \/ n.cursor[board[m].side] # Top /\ Below(m, n.cursor[board[m].side])
    <2>1. /\ m \in DOMAIN board /\ board[m].side \in Panes
          /\ m \in Found(q, board[m].side) \/ PassedOver(q, m)
          /\ m \in DOMAIN o.shown =>
                \/ ShownAgain(q, m)
                \/ /\ o.shown[m] = 1 /\ Turned(o, board[m].side)
                   /\ o.cursor[board[m].side] = Top \/ ~Below(m, o.cursor[board[m].side])
          /\ \/ m \in DOMAIN o.shown \/ PassedOver(q, m) \/ ~Turned(o, board[m].side)
             \/ o.cursor[board[m].side] # Top /\ Below(m, o.cursor[board[m].side])
          BY <1>4 DEF PagesSound, Untouched, PassedOver
    <2>2. CASE board[m].side # s
      <3>1. m \notin now
            BY <1>2, <1>3, <2>2 DEF Found
      <3> QED BY <1>1, <1>7, <2>1, <2>2, <3>1
    <2>3. CASE board[m].side = s
      <3>1. ASSUME m \in DOMAIN o.shown, ~ShownAgain(q, m)'
            PROVE  n.shown[m] = 1 /\ (n.cursor[s] = Top \/ ~Below(m, n.cursor[s]))
        <4>1. o.shown[m] = 1 /\ c # Top /\ ~Below(m, c)
          <5>1. s \notin n.again
                BY <2>3, <3>1 DEF ShownAgain
          <5>2. o.shown[m] = 1 /\ Turned(o, s) /\ (c = Top \/ ~Below(m, c))
                BY <1>7, <2>1, <2>3, <3>1 DEF c
          <5> QED BY <1>12, <5>1, <5>2
        <4>2. m \notin now /\ n.shown[m] = 1
              BY <1>1, <1>2, <1>3, <3>1, <4>1
        <4> QED BY <1>2, <1>3, <1>8, <1>9, <1>13, <2>1, <4>1, <4>2
      <3>2. ASSUME m \in DOMAIN n.shown, m \notin DOMAIN o.shown, ~ShownAgain(q, m)'
            PROVE  n.shown[m] = 1 /\ (n.cursor[s] = Top \/ ~Below(m, n.cursor[s]))
        <4>1. m \in now /\ n.shown[m] = 1
              BY <1>1, <3>2
        <4>2. ASSUME NEW last \in now, \A x \in now : x = last \/ Better(q, x, last), n.cursor[s] = At(last)
              PROVE  ~Below(m, n.cursor[s])
          <5>1. last \in DOMAIN board /\ last \in DOMAIN n.shown
                BY <1>1, <1>2, <1>3
          <5>2. Newer(last, m)' /\ board[last].score < board[m].score /\ use_fts(q) => ShownAgain(q, m)'
                BY <5>1 DEF ShownAgain
          <5>3. Newer(last, m)' = Newer(last, m)
                BY DEF Newer
          <5>4. use_fts(q) /\ board[m].score > board[last].score => board[last].score < board[m].score
                BY <1>5, <2>1, <5>1
          <5> QED BY <1>6, <1>8, <2>1, <3>2, <4>1, <4>2, <5>1, <5>2, <5>3, <5>4
        <4> QED BY <1>13, <4>1, <4>2
      <3>3. ASSUME m \notin DOMAIN n.shown, ~PassedOver(q, m)'
            PROVE  n.cursor[s] # Top /\ Below(m, n.cursor[s])
        <4>1. m \notin now /\ m \notin DOMAIN o.shown /\ ~PassedOver(q, m)
              BY <1>1, <1>7, <3>3
        <4>2. Below(m, c)
          <5>1. ~Turned(o, s) => c = Top
                BY DEF PagesSound, c
          <5>2. c = Top => Below(m, c)
                BY DEF Below
          <5> QED BY <2>1, <2>3, <4>1, <5>1, <5>2 DEF c
        <4>3. m \in hits
              BY <1>2, <2>1, <2>3, <4>1, <4>2
        <4>4. PICK last \in now : (\A x \in now : x = last \/ Better(q, x, last)) /\ n.cursor[s] = At(last)
              BY <1>13, <4>1, <4>3
        <4>5. last \in DOMAIN board /\ last \in DOMAIN n.shown /\ Better(q, last, m) /\ m # last
              BY <1>1, <1>2, <1>3, <4>1, <4>3, <4>4
        <4>6. Newer(m, last)' /\ board[last].score > board[m].score /\ use_fts(q) => PassedOver(q, m)'
              BY <4>5 DEF PassedOver
        <4>7. Newer(m, last)' = Newer(m, last)
              BY DEF Newer
        <4> QED BY <1>6, <1>8, <2>1, <3>3, <4>4, <4>5, <4>6, <4>7
      <3>4. Turned(open[q], s)'
            OBVIOUS
      <3> QED BY <2>3, <3>1, <3>2, <3>3, <3>4
    <2> QED BY <2>2, <2>3
  <1>15. /\ IsSearch(open[q])' /\ DOMAIN n.shown \subseteq DOMAIN board' /\ n.found \subseteq DOMAIN board'
         BY <1>1, <1>2, <1>3, <1>4
  <1>16. \A m \in Untouched(q) : board[m].side \in Panes /\ (m \in Found(q, board[m].side) \/ (use_fts(q) /\ VocabEdited(q)))
         BY DEF PagesSound
  <1> QED
    <2>1. \A m \in Untouched(q)' :
         /\ board'[m].side \in Panes
         /\ m \in Found(q, board[m].side)' \/ (use_fts(q) /\ VocabEdited(q)')
         /\ m \in DOMAIN n.shown =>
               \/ ShownAgain(q, m)'
               \/ /\ n.shown[m] = 1 /\ Turned(open[q], board[m].side)'
                  /\ (open[q].cursor[board[m].side] = Top)' \/ ~Below(m, open[q].cursor[board[m].side])'
         /\ \/ m \in DOMAIN n.shown \/ PassedOver(q, m)' \/ ~Turned(open[q], board[m].side)'
            \/ (open[q].cursor[board[m].side] # Top)' /\ Below(m, open[q].cursor[board[m].side])'
          BY <1>7, <1>10, <1>14, <1>16
    <2> QED BY <1>11, <1>15, <2>1 DEF PagesSound


\* The cursor of a page is one.
LEMMA NextIsCursor ==
    ASSUME SearchShape, NEW q, q.size \in Nat \ {0}, NEW S \in SUBSET DOMAIN board
    PROVE  IsCursor(NextCursor(q, S))
  <1>1. IsCursor(Top)
        BY DEF IsCursor, Top
  <1>2. \A m \in DOMAIN board : IsCursor([at |-> board[m].at, id |-> m])
        BY DEF IsCursor, SearchShape, IsPost
  <1> QED BY <1>1, <1>2, FirstPage

\* A search that goes on.
LEMMA SearchTurns ==
    ASSUME SearchInv, NEW q, q.op = "search", q \in DOMAIN open, SearchBuy(q) \/ SearchSell(q)
    PROVE  PagesSound(q)'
  <1>0. RequestsAreOnce /\ SearchShape /\ PagesSound(q) /\ IsSearch(open[q])
        BY DEF SearchInv, Searches, PagesSound
  <1>1. q.size \in Nat \ {0}
        BY <1>0 DEF SearchShape, SearchWellFormed, Asked
  <1>2. ASSUME NEW s \in Panes PROVE \A t \in Panes : IsCursor(Pane(q, s).cursor[t])
    <2>1. search_fts(q, s, open[q].cursor[s]) \in SUBSET DOMAIN board
          BY DEF search_fts, Found
    <2>2. IsCursor(NextCursor(q, search_fts(q, s, open[q].cursor[s])))
          BY <1>0, <1>1, <2>1, NextIsCursor
    <2> QED BY <1>0, <2>2, PaneIs DEF IsSearch
  <1>3. UNCHANGED <<board, vocab, over>>
        BY DEF SearchBuy, SearchSell, Proceed, searchState
  <1>4. CASE SearchBuy(q)
    <2> DEFINE r == Pane(q, "BUY")   n == [r EXCEPT !.pc = "SELL"]
    <2>1. open[q].pc = "BUY" /\ open'[q] = n
          BY <1>0, <1>4, ProceedMoves DEF SearchBuy
    <2>2. DOMAIN r = DOMAIN open[q] /\ r.first = open[q].first /\ DOMAIN r.cursor = Panes
          BY <1>0, PaneIs DEF Panes
    <2>3. /\ DOMAIN n = DOMAIN r /\ n.pc = "SELL" /\ n.first = r.first /\ n.cursor = r.cursor
          /\ n.again = r.again /\ n.found = r.found /\ n.shown = r.shown
      <3> HIDE DEF r
      <3> QED BY <1>0, <2>2 DEF IsSearch
    <2> HIDE DEF r, n
    <2>4. IsSearch(n)
          BY <1>0, <1>2, <2>2, <2>3 DEF IsSearch, r, Panes
    <2>5. \A t \in Panes : Turned(n, t) <=> t = "BUY" \/ Turned(open[q], t)
          BY <2>1, <2>2, <2>3 DEF Turned, Panes
    <2>6. IsSearch(open[q])' /\ \A t \in Panes : Turned(open[q], t)' <=> t = "BUY" \/ Turned(open[q], t)
          BY <2>1, <2>4, <2>5 DEF IsSearch, Turned, Top, IsCursor
    <2> QED BY <1>0, <1>1, <1>3, <2>1, <2>3, <2>6, PageTurns DEF r, Panes
  <1>5. CASE SearchSell(q)
    <2> DEFINE r == Pane(q, "SELL")   pc == IF r.cursor = [BUY |-> Top, SELL |-> Top] THEN "end" ELSE "BUY"
               n == [r EXCEPT !.pc = pc, !.first = FALSE]
    <2>1. open[q].pc = "SELL" /\ open'[q] = n
          BY <1>0, <1>5, ProceedMoves DEF SearchSell
    <2>2. DOMAIN r = DOMAIN open[q] /\ r.first = open[q].first /\ DOMAIN r.cursor = Panes
          BY <1>0, PaneIs DEF Panes
    <2>3. /\ DOMAIN n = DOMAIN r /\ n.pc = pc /\ n.first = FALSE /\ n.cursor = r.cursor
          /\ n.again = r.again /\ n.found = r.found /\ n.shown = r.shown
      <3> HIDE DEF r, pc
      <3> QED BY <1>0, <2>2 DEF IsSearch
    <2>4. pc \in {"end", "BUY"} /\ (pc = "end" => \A t \in Panes : r.cursor[t] = Top)
      <3> HIDE DEF r
      <3> QED BY DEF Panes
    <2> HIDE DEF r, n, pc
    <2>5. IsSearch(n)
          BY <1>0, <1>2, <2>2, <2>3, <2>4 DEF IsSearch, r, Panes
    <2>6. \A t \in Panes : Turned(n, t) /\ (t = "SELL" \/ Turned(open[q], t))
          BY <2>1, <2>3 DEF Turned, Panes
    <2>7. IsSearch(open[q])' /\ \A t \in Panes : Turned(open[q], t)' <=> t = "SELL" \/ Turned(open[q], t)
          BY <2>1, <2>5, <2>6 DEF IsSearch, Turned, Top, IsCursor
    <2> QED BY <1>0, <1>1, <1>3, <2>1, <2>3, <2>7, PageTurns DEF r, Panes
  <1> QED BY <1>4, <1>5

\* A search that begins.
LEMMA SearchBegins ==
    ASSUME SearchInv, NEW q, q.op = "search", SearchStart(q)
    PROVE  PagesSound(q)'
  <1> DEFINE found == Found(q, "BUY") \union Found(q, "SELL")
             o == [pc |-> "BUY", cursor |-> [BUY |-> Top, SELL |-> Top], first |-> TRUE, again |-> {},
                   found |-> found, shown |-> [m \in {} |-> 0]]
  <1>1. open'[q] = o /\ over'[q] = {} /\ UNCHANGED <<board, vocab>>
        BY BeginMoves DEF SearchInv, SearchStart, Once, searchState
  <1>2. found \subseteq DOMAIN board /\ \A m \in found : board[m].side \in Panes /\ m \in Found(q, board[m].side)
        BY DEF Found, Panes
  <1>3. \A t : Found(q, t)' = Found(q, t)
    <2>1. board' = board /\ vocab' = vocab
          BY <1>1
    <2>2. \A w : _expand_query_vocab(w)' = _expand_query_vocab(w)
          BY <2>1 DEF _expand_query_vocab
    <2> QED BY <2>1, <2>2 DEF Found
  <1> HIDE DEF found
  <1>4. IsSearch(o) /\ \A s \in Panes : ~Turned(o, s) /\ o.cursor[s] = Top
        BY DEF IsSearch, Turned, Panes, IsCursor, Top
  <1>5. o.found = found /\ DOMAIN o.shown = {}
        OBVIOUS
  <1> HIDE DEF o
  <1>6. IsSearch(open[q])' /\ \A s \in Panes : ~Turned(open[q], s)' /\ open'[q].cursor[s] = Top
        BY <1>1, <1>4 DEF IsSearch, Turned, Top, IsCursor
  <1>7. Untouched(q)' \subseteq found
        BY <1>1, <1>5 DEF Untouched
  <1>8. \A m \in found : m \in Found(q, board[m].side)' /\ board'[m].side \in Panes
        BY <1>1, <1>2, <1>3
  <1> QED BY <1>1, <1>2, <1>5, <1>6, <1>7, <1>8 DEF PagesSound

\* A search stays as it should be whatever others do: posts may come in, get
\* older and change sides, when it knows of it.
LEMMA SearchStays ==
    ASSUME SearchShape, NEW p, PagesSound(p), open'[p] = open[p], over[p] \subseteq over'[p],
           DOMAIN board \subseteq DOMAIN board',
           \A m \in DOMAIN board :
              /\ board'[m].at \in Nat /\ board'[m].score = board[m].score /\ board'[m].at <= board[m].at
              /\ board'[m].at = board[m].at \/ Reposted(p, m)'
              /\ board'[m] = board[m] \/ \E r \in over'[p] : r.op \in {"repost", "correct"} /\ r.id = m,
           vocab' = vocab \/ VocabEdited(p)'
    PROVE  PagesSound(p)'
  <1> DEFINE o == open[p]
  <1>1. IsSearch(o) /\ DOMAIN o.shown \subseteq DOMAIN board /\ o.found \subseteq DOMAIN board
        BY DEF PagesSound
  <1>2. \A m \in DOMAIN board : m \in Nat /\ board[m].at \in Nat /\ board[m].score \in Int
        BY DEF SearchShape, IsPost
  <1>3. Untouched(p)' \subseteq Untouched(p) /\ \A m \in Untouched(p)' : m \in DOMAIN board /\ board'[m] = board[m]
        BY <1>1 DEF Untouched
  <1>4. /\ VocabEdited(p) => VocabEdited(p)'
        /\ \A n : Reposted(p, n) => Reposted(p, n)'
        BY DEF VocabEdited, Reposted
  <1> SUFFICES ASSUME NEW m \in Untouched(p)'
               PROVE  /\ board'[m].side \in Panes
                      /\ m \in Found(p, board[m].side)' \/ (use_fts(p) /\ VocabEdited(p)')
                      /\ (ShownAgain(p, m) => ShownAgain(p, m)') /\ (PassedOver(p, m) => PassedOver(p, m)')
                      /\ \A d : Below(m, d)' <=> Below(m, d)
    <2>1. IsSearch(open[p])' /\ \A s \in Panes : Turned(open[p], s)' <=> Turned(open[p], s)
          BY <1>1 DEF IsSearch, Turned, Top, IsCursor
    <2>2. \A m \in Untouched(p)' :
         /\ m \in DOMAIN o.shown =>
               \/ ShownAgain(p, m)'
               \/ /\ o.shown[m] = 1 /\ Turned(open[p], board[m].side)'
                  /\ (open[p].cursor[board[m].side] = Top)' \/ ~Below(m, open[p].cursor[board[m].side])'
         /\ \/ m \in DOMAIN o.shown \/ PassedOver(p, m)' \/ ~Turned(open[p], board[m].side)'
            \/ (open[p].cursor[board[m].side] # Top)' /\ Below(m, open[p].cursor[board[m].side])'
      <3> SUFFICES ASSUME NEW m \in Untouched(p)'
                   PROVE  /\ m \in DOMAIN o.shown =>
                               \/ ShownAgain(p, m)'
                               \/ /\ o.shown[m] = 1 /\ Turned(open[p], board[m].side)'
                                  /\ (open[p].cursor[board[m].side] = Top)' \/ ~Below(m, open[p].cursor[board[m].side])'
                          /\ \/ m \in DOMAIN o.shown \/ PassedOver(p, m)' \/ ~Turned(open[p], board[m].side)'
                             \/ (open[p].cursor[board[m].side] # Top)' /\ Below(m, open[p].cursor[board[m].side])'
          OBVIOUS
      <3>1. board'[m] = board[m] /\ board[m].side \in Panes /\ m \in Untouched(p)
            BY <1>3
      <3>2. /\ m \in DOMAIN o.shown =>
                  \/ ShownAgain(p, m)
                  \/ /\ o.shown[m] = 1 /\ Turned(o, board[m].side)
                     /\ o.cursor[board[m].side] = Top \/ ~Below(m, o.cursor[board[m].side])
            /\ \/ m \in DOMAIN o.shown \/ PassedOver(p, m) \/ ~Turned(o, board[m].side)
               \/ o.cursor[board[m].side] # Top /\ Below(m, o.cursor[board[m].side])
            BY <3>1 DEF PagesSound
      <3> QED BY <2>1, <3>1, <3>2
    <2>3. \A s \in Panes : ~Turned(open[p], s)' => open'[p].cursor[s] = Top
          BY <2>1 DEF PagesSound
    <2>4. DOMAIN open'[p].shown \subseteq DOMAIN board' /\ open'[p].found \subseteq DOMAIN board'
          BY <1>1
    <2> QED BY <2>1, <2>2, <2>3, <2>4 DEF PagesSound
  <1>5. m \in DOMAIN board /\ board'[m] = board[m] /\ m \in Untouched(p)
        BY <1>3
  <1>6. board[m].side \in Panes /\ (m \in Found(p, board[m].side) \/ (use_fts(p) /\ VocabEdited(p)))
        BY <1>5 DEF PagesSound
  <1>7. \A d : Below(m, d)' <=> Below(m, d)
        BY <1>5 DEF Below
  <1>8. ShownAgain(p, m) => ShownAgain(p, m)'
    <2> SUFFICES ASSUME use_fts(p), NEW n \in DOMAIN o.shown, board[n].score < board[m].score,
                        Newer(n, m) \/ Reposted(p, n)
                 PROVE  ShownAgain(p, m)'
        BY <1>5 DEF ShownAgain
    <2>1. n \in DOMAIN board
          BY <1>1
    <2>2. Newer(n, m)' \/ Reposted(p, n)'
          BY <1>4, <1>5, <2>1 DEF Newer
    <2>3. board'[n].score < board'[m].score
          BY <1>5, <2>1
    <2> QED BY <2>2, <2>3 DEF ShownAgain
  <1>9. PassedOver(p, m) => PassedOver(p, m)'
    <2> SUFFICES ASSUME use_fts(p), NEW n \in DOMAIN o.shown, board[n].score > board[m].score, Newer(m, n)
                 PROVE  PassedOver(p, m)'
        BY <1>4 DEF PassedOver
    <2>1. n \in DOMAIN board
          BY <1>1
    <2>2. Newer(m, n)'
          BY <1>2, <1>5, <2>1 DEF Newer
    <2>3. board'[n].score > board'[m].score
          BY <1>5, <2>1
    <2> QED BY <2>2, <2>3 DEF PassedOver
  <1>10. m \in Found(p, board[m].side)' \/ (use_fts(p) /\ VocabEdited(p)')
    <2>1. CASE use_fts(p) /\ VocabEdited(p)
          BY <1>4, <2>1
    <2>2. CASE use_fts(p) /\ vocab' = vocab /\ m \in Found(p, board[m].side)
      <3>1. \A w : _expand_query_vocab(w)' = _expand_query_vocab(w)
            BY <2>2 DEF _expand_query_vocab
      <3> QED BY <1>5, <2>2, <3>1 DEF Found
    <2>3. CASE ~use_fts(p) /\ m \in Found(p, board[m].side)
          BY <1>5, <2>3 DEF Found
    <2> QED BY <1>6, <2>1, <2>2, <2>3
  <1> QED BY <1>5, <1>6, <1>7, <1>8, <1>9, <1>10


\* What a request does to the messages.
LEMMA BoardMoves ==
    ASSUME SearchInv, NEW q, SearchRequest(q)
    PROVE  /\ IsFiniteSet(DOMAIN board') /\ DOMAIN board' \subseteq Nat \ {0} /\ \A m \in DOMAIN board' : IsPost(board'[m])
           /\ DOMAIN board \subseteq DOMAIN board'
           /\ \/ board' = board
              \/ /\ q \in done' /\ q.op \in {"ingest", "repost", "correct"}
                 /\ \A m \in DOMAIN board :
                       /\ board'[m].score = board[m].score /\ board'[m].at <= board[m].at
                       /\ board'[m].at = board[m].at \/ (q.op = "repost" /\ q.id = m)
                       /\ board'[m] = board[m] \/ (q.op \in {"repost", "correct"} /\ q.id = m)
  <1>0. RequestsAreOnce /\ SearchShape
        BY DEF SearchInv
  <1>1. \A m \in DOMAIN board : m \in Nat \ {0} /\ IsPost(board[m]) /\ board[m].at \in Nat \ {0} /\ board[m].at <= board[m].at
        BY <1>0 DEF SearchShape, IsPost
  <1>2. CASE q.op = "ingest" /\ q \in todo /\ Ingested(q)
    <2>1. q.id \in Nat \ {0} /\ IsPost(q.row)
          BY <1>0, <1>2 DEF SearchShape, SearchWellFormed, Asked
    <2>2. DOMAIN board' = DOMAIN board \union {q.id} /\ q \in done'
          BY <1>2 DEF Ingested, Added, AtOnce
    <2>3. \A m \in DOMAIN board' : board'[m] = IF m \in DOMAIN board THEN board[m] ELSE q.row
          BY <1>2 DEF Ingested, Added
    <2>4. IsFiniteSet(DOMAIN board')
          BY <1>0, <2>2, FS_AddElement DEF SearchShape
    <2> QED BY <1>1, <1>2, <2>1, <2>2, <2>3, <2>4
  <1>3. CASE q.op = "repost" /\ q \in todo /\ _bump_fingerprint_row(q)
    <2> DEFINE at == IF q.at < board[q.id].at THEN q.at ELSE board[q.id].at
    <2>1. q.at \in Nat \ {0}
          BY <1>0, <1>3 DEF SearchShape, SearchWellFormed, Asked
    <2>2. DOMAIN board' = DOMAIN board /\ q \in done' /\ \A m \in DOMAIN board : m # q.id => board'[m] = board[m]
          BY <1>3 DEF _bump_fingerprint_row, AtOnce
    <2>3. q.id \in DOMAIN board => board'[q.id] = [board[q.id] EXCEPT !.at = at]
          BY <1>3 DEF _bump_fingerprint_row
    <2>4. q.id \in DOMAIN board => at \in Nat \ {0} /\ at <= board[q.id].at
          BY <1>1, <2>1
    <2> HIDE DEF at
    <2>5. q.id \in DOMAIN board => /\ IsPost(board'[q.id]) /\ board'[q.id].score = board[q.id].score
                                   /\ board'[q.id].at <= board[q.id].at
          BY <1>1, <2>3, <2>4 DEF IsPost
    <2> QED BY <1>0, <1>1, <1>3, <2>2, <2>5 DEF SearchShape
  <1>4. CASE q.op = "correct" /\ q \in todo /\ _apply_resolve(q)
    <2>1. DOMAIN board' = DOMAIN board /\ q \in done' /\ \A m \in DOMAIN board : m # q.id => board'[m] = board[m]
          BY <1>4 DEF _apply_resolve, AtOnce
    <2>2. q.id \in DOMAIN board => board'[q.id] = [board[q.id] EXCEPT !.side = q.side]
          BY <1>4 DEF _apply_resolve
    <2>3. q.id \in DOMAIN board => /\ IsPost(board'[q.id]) /\ board'[q.id].score = board[q.id].score
                                   /\ board'[q.id].at = board[q.id].at
          BY <1>1, <2>2 DEF IsPost
    <2> QED BY <1>0, <1>1, <1>4, <2>1, <2>3 DEF SearchShape
  <1>5. CASE search(q) \/ PostEntry(q) \/ PatchEntry(q) \/ DeleteEntry(q) \/ reseed_vocab(q)
    <2>1. board' = board
          BY <1>5 DEF search, PostEntry, PatchEntry, DeleteEntry, reseed_vocab, SearchStart, SearchBuy, SearchSell,
             CreateEntryRead, create_vocab_entry, UpdateEntryRead, update_vocab_entry, DeleteEntryRead,
             delete_vocab_entry, upsert_seed, searchState
    <2> QED BY <1>0, <2>1 DEF SearchShape
  <1> QED BY <1>2, <1>3, <1>4, <1>5 DEF SearchRequest

\* What it does to the vocabulary.
LEMMA VocabMoves ==
    ASSUME SearchInv, NEW q, SearchRequest(q)
    PROVE  /\ \A e \in DOMAIN vocab' : IsEntry(vocab'[e])
           /\ \/ vocab' = vocab
              \/ q \in done' /\ q.op \in {"createEntry", "editEntry", "deleteEntry", "reseed"}
  <1>0. RequestsAreOnce /\ SearchShape /\ EditsRead
        BY DEF SearchInv, VocabSound
  <1>1. \A e \in DOMAIN vocab : IsEntry(vocab[e])
        BY <1>0 DEF SearchShape
  <1>2. CASE vocab' = vocab
        BY <1>1, <1>2
  <1>3. CASE PostEntry(q) /\ vocab' # vocab
    <2>1. vocab' = Added(vocab, NextEntry, q.entry) /\ q \in done' /\ q.op = "createEntry" /\ q \in Asked
          BY <1>3 DEF PostEntry, CreateEntryRead, create_vocab_entry, searchState, Commit, Asked
    <2>2. IsEntry(q.entry)
          BY <1>0, <2>1 DEF SearchShape, SearchWellFormed
    <2> QED BY <1>1, <2>1, <2>2 DEF Added
  <1>4. CASE PatchEntry(q) /\ vocab' # vocab
    <2>1. /\ q.e \in DOMAIN vocab /\ vocab' = [vocab EXCEPT ![q.e] = WrittenParts(q, vocab[q.e])]
          /\ q \in done' /\ q.op = "editEntry"
          BY <1>4 DEF PatchEntry, UpdateEntryRead, update_vocab_entry, searchState, Commit
    <2>2. IsEntry(WrittenParts(q, vocab[q.e]))
          BY <1>1, <2>1 DEF WrittenParts, IsEntry
    <2> QED BY <1>1, <2>1, <2>2
  <1>5. CASE DeleteEntry(q) /\ vocab' # vocab
    <2>1. vocab' = Without(vocab, {q.e}) /\ q \in done' /\ q.op = "deleteEntry"
          BY <1>5 DEF DeleteEntry, DeleteEntryRead, delete_vocab_entry, searchState, Commit
    <2> QED BY <1>1, <2>1 DEF Without
  <1>6. CASE reseed_vocab(q) /\ vocab' # vocab
    <2>1. /\ q \in done' /\ q.op = "reseed" /\ q \in Asked
          /\ \/ vocab' = Added(vocab, NextEntry, q.entry)
             \/ vocab' = Over([e \in get_by_tag(q.entry.tag) |-> q.entry], vocab)
          BY <1>6 DEF reseed_vocab, upsert_seed, AtOnce, Asked
    <2>2. IsEntry(q.entry)
          BY <1>0, <2>1 DEF SearchShape, SearchWellFormed
    <2>3. \A e \in DOMAIN vocab' : vocab'[e] = q.entry \/ (e \in DOMAIN vocab /\ vocab'[e] = vocab[e])
          BY <2>1 DEF Added, Over
    <2> QED BY <1>1, <2>1, <2>2, <2>3
  <1>7. vocab' = vocab \/ PostEntry(q) \/ PatchEntry(q) \/ DeleteEntry(q) \/ reseed_vocab(q)
        BY DEF SearchRequest, search, SearchStart, SearchBuy, SearchSell, Ingested, _bump_fingerprint_row,
           _apply_resolve, searchState
  <1> QED BY <1>2, <1>3, <1>4, <1>5, <1>6, <1>7

LEMMA SearchesStep ==
    ASSUME SearchInv, NEW q, SearchRequest(q), Moved(q), Once(q)
    PROVE  SearchShape' /\ \A p \in Searches' : PagesSound(p)'
  <1>0. RequestsAreOnce /\ SearchShape
        BY DEF SearchInv
  <1>1. SearchShape'
    <2>1. \A p \in Asked' : SearchWellFormed(p)'
          BY <1>0, MoveFacts DEF SearchShape, SearchWellFormed, IsPost, IsEntry
    <2> QED BY <2>1, BoardMoves, VocabMoves DEF SearchShape, IsPost, IsEntry
  <1>2. ASSUME NEW p \in Searches', p # q PROVE PagesSound(p)'
    <2>1. p \in DOMAIN open /\ open'[p] = open[p] /\ over[p] \subseteq over'[p] /\ (q \in done' => q \in over'[p])
          BY <1>0, <1>2, MoveFacts DEF Searches
    <2>2. PagesSound(p)
          BY <1>2, <2>1 DEF SearchInv, Searches
    <2>3. vocab' = vocab \/ VocabEdited(p)'
          BY <2>1, VocabMoves DEF VocabEdited
    <2>4. DOMAIN board \subseteq DOMAIN board' /\ \A m \in DOMAIN board : board[m].at <= board[m].at /\ board'[m].at \in Nat
      <3>1. DOMAIN board \subseteq DOMAIN board'
            BY BoardMoves
      <3>2. \A m \in DOMAIN board : board[m].at \in Nat /\ board'[m].at \in Nat
            BY <1>0, <1>1, <3>1 DEF SearchShape, IsPost
      <3> QED BY <3>1, <3>2
    <2>5. \A m \in DOMAIN board :
              /\ board'[m].score = board[m].score /\ board'[m].at <= board[m].at
              /\ board'[m].at = board[m].at \/ Reposted(p, m)'
              /\ board'[m] = board[m] \/ \E r \in over'[p] : r.op \in {"repost", "correct"} /\ r.id = m
      <3>1. CASE board' = board
            BY <2>4, <3>1
      <3>2. CASE board' # board
            BY <2>1, <3>2, BoardMoves DEF Reposted
      <3> QED BY <3>1, <3>2
    <2> QED BY <1>0, <2>1, <2>2, <2>3, <2>4, <2>5, SearchStays
  <1>3. ASSUME q \in Searches' PROVE PagesSound(q)'
    <2>1. q.op = "search" /\ q \in DOMAIN open'
          BY <1>3 DEF Searches
    <2>2. search(q)
          BY <2>1 DEF SearchRequest, PostEntry, PatchEntry, DeleteEntry, reseed_vocab
    <2>3. CASE q \in todo /\ SearchStart(q)
          BY <2>1, <2>3, SearchBegins
    <2>4. CASE q \in DOMAIN open /\ (SearchBuy(q) \/ SearchSell(q))
          BY <2>1, <2>4, SearchTurns
    <2> QED BY <2>2, <2>3, <2>4 DEF search
  <1> QED BY <1>1, <1>2, <1>3


\* Entries go when they are deleted, change by an edit or the seed, and get their
\* tag when they come.
LEMMA VocabChanges ==
    ASSUME SearchInv, NEW q, SearchRequest(q), vocab' # vocab
    PROVE  /\ \A e \in DOMAIN vocab : e \in DOMAIN vocab' \/ q.op = "deleteEntry"
           /\ \A e \in DOMAIN vocab : e \in DOMAIN vocab' => \A f \in {"tag", "terms", "active"} :
                 \/ vocab'[e][f] = vocab[e][f] \/ q.op = "reseed"
                 \/ q.op = "editEntry" /\ q.e = e /\ f \in DOMAIN q.patch
           /\ \A e \in DOMAIN vocab' : \/ q.op \in {"createEntry", "reseed"}
                                       \/ e \in DOMAIN vocab /\ vocab'[e].tag = vocab[e].tag
  <1>0. RequestsAreOnce /\ SearchShape
        BY DEF SearchInv
  <1>1. \A e \in DOMAIN vocab : IsEntry(vocab[e])
        BY <1>0 DEF SearchShape
  <1>2. CASE PostEntry(q)
        BY <1>2 DEF PostEntry, CreateEntryRead, create_vocab_entry, searchState, Added
  <1>3. CASE PatchEntry(q)
    <2>1. /\ q.e \in DOMAIN vocab /\ vocab' = [vocab EXCEPT ![q.e] = WrittenParts(q, vocab[q.e])]
          /\ q.op = "editEntry" /\ q \in Asked
          BY <1>3 DEF PatchEntry, UpdateEntryRead, update_vocab_entry, searchState, Asked
    <2>2. DOMAIN q.patch \subseteq {"terms", "active"}
          BY <1>0, <2>1 DEF SearchShape, SearchWellFormed
    <2>3. \A f \in {"tag", "terms", "active"} : f \notin DOMAIN q.patch =>
              WrittenParts(q, vocab[q.e])[f] = vocab[q.e][f]
          BY <1>1, <2>1 DEF WrittenParts, IsEntry
    <2> QED BY <2>1, <2>2, <2>3
  <1>4. CASE DeleteEntry(q)
        BY <1>4 DEF DeleteEntry, DeleteEntryRead, delete_vocab_entry, searchState, Without
  <1>5. CASE reseed_vocab(q)
    <2>1. \/ vocab' = Added(vocab, NextEntry, q.entry)
          \/ vocab' = Over([e \in get_by_tag(q.entry.tag) |-> q.entry], vocab)
          BY <1>5 DEF reseed_vocab, upsert_seed
    <2> QED BY <1>5, <2>1 DEF reseed_vocab, Added, Over
  <1>6. PostEntry(q) \/ PatchEntry(q) \/ DeleteEntry(q) \/ reseed_vocab(q)
        BY DEF SearchRequest, search, SearchStart, SearchBuy, SearchSell, Ingested, _bump_fingerprint_row,
           _apply_resolve, searchState
  <1> QED BY <1>2, <1>3, <1>4, <1>5, <1>6

\* What an admin is about to write to the vocabulary.
LEMMA EditsStep ==
    ASSUME SearchInv, NEW q, SearchRequest(q), Moved(q), Once(q)
    PROVE  EditsRead' /\ CreatesRead'
  <1>0. RequestsAreOnce /\ SearchShape /\ EditsRead /\ CreatesRead
        BY DEF SearchInv, VocabSound
  <1>1. \A p \in DOMAIN open' : p # q => /\ p \in DOMAIN open /\ open'[p] = open[p] /\ over[p] \subseteq over'[p]
                                         /\ q \in done' => q \in over'[p]
        BY <1>0, MoveFacts
  <1>2. /\ done \subseteq done' /\ (Reset => Reset') /\ \A e, f : SetBy(e, f) \subseteq SetBy(e, f)'
        BY <1>0, MoveFacts DEF Reset, SetBy
  <1>3. vocab' # vocab => q \in done' /\ q.op \in {"createEntry", "editEntry", "deleteEntry", "reseed"}
        BY VocabMoves
  <1>4. ASSUME NEW p \in DOMAIN open', p # q, p.op = "editEntry"
        PROVE  /\ IsEntry(open'[p].row)
               /\ p.e \notin DOMAIN vocab' => \E x \in over'[p] : x.op = "deleteEntry"
               /\ \/ Reset'
                  \/ p.e \in DOMAIN vocab' /\ \A f \in DOMAIN open'[p].row :
                        vocab'[p.e][f] = open'[p].row[f] \/ SetBy(p.e, f)' # {}
    <2>1. /\ IsEntry(open[p].row)
          /\ p.e \notin DOMAIN vocab => \E x \in over[p] : x.op = "deleteEntry"
          /\ \/ Reset
             \/ p.e \in DOMAIN vocab /\ \A f \in DOMAIN open[p].row :
                   vocab[p.e][f] = open[p].row[f] \/ SetBy(p.e, f) # {}
          BY <1>0, <1>1, <1>4 DEF EditsRead
    <2>2. CASE vocab' = vocab
          BY <1>1, <1>2, <1>4, <2>1, <2>2
    <2>3. CASE vocab' # vocab
      <3>1. p.e \notin DOMAIN vocab' => \E x \in over'[p] : x.op = "deleteEntry"
            BY <1>1, <1>3, <1>4, <2>1, <2>3, VocabChanges
      <3>2. ASSUME ~Reset'
            PROVE  p.e \in DOMAIN vocab' /\ \A f \in DOMAIN open'[p].row :
                        vocab'[p.e][f] = open'[p].row[f] \/ SetBy(p.e, f)' # {}
        <4>1. q.op \notin {"deleteEntry", "reseed"} /\ q \in done' /\ ~Reset
              BY <1>2, <1>3, <2>3, <3>2 DEF Reset
        <4>2. p.e \in DOMAIN vocab /\ p.e \in DOMAIN vocab'
              BY <2>1, <2>3, <4>1, VocabChanges
        <4>3. \A f \in {"tag", "terms", "active"} : vocab'[p.e][f] = vocab[p.e][f] \/ SetBy(p.e, f)' # {}
              BY <2>3, <4>1, <4>2, VocabChanges DEF SetBy
        <4>4. open'[p].row = open[p].row /\ DOMAIN open[p].row = {"tag", "terms", "active"}
              BY <1>1, <1>4, <2>1 DEF IsEntry
        <4> QED BY <1>2, <2>1, <4>1, <4>2, <4>3, <4>4
      <3> QED BY <1>1, <1>4, <2>1, <3>1, <3>2
    <2> QED BY <2>2, <2>3
  <1>5. ASSUME q \in DOMAIN open', q.op = "editEntry"
        PROVE  /\ IsEntry(open'[q].row) /\ q.e \in DOMAIN vocab' /\ vocab'[q.e] = open'[q].row
    <2>1. q \in todo /\ UpdateEntryRead(q)
      <3>1. PatchEntry(q)
            BY <1>5 DEF SearchRequest, search, PostEntry, DeleteEntry, reseed_vocab
      <3>2. ~update_vocab_entry(q)
            BY <1>0, <1>5, CommitMoves, FailMoves DEF update_vocab_entry
      <3> QED BY <3>1, <3>2 DEF PatchEntry
    <2>2. q.e \in DOMAIN vocab /\ open'[q].row = vocab[q.e] /\ vocab' = vocab
      <3>1. CASE q.e \notin DOMAIN vocab
        <4>1. Refuse(q)
              BY <2>1, <3>1 DEF UpdateEntryRead
        <4> QED BY <1>0, <1>5, <4>1 DEF Refuse, RequestsAreOnce
      <3>2. CASE q.e \in DOMAIN vocab
            BY <1>0, <2>1, <3>2, BeginMoves DEF UpdateEntryRead, searchState, Once
      <3> QED BY <3>1, <3>2
    <2> QED BY <1>0, <2>2 DEF SearchShape
  <1>6. EditsRead'
    <2> SUFFICES ASSUME NEW p \in DOMAIN open', p.op = "editEntry"
                 PROVE  /\ IsEntry(open'[p].row)
                        /\ p.e \notin DOMAIN vocab' => \E x \in over'[p] : x.op = "deleteEntry"
                        /\ \/ Reset'
                           \/ p.e \in DOMAIN vocab' /\ \A f \in DOMAIN open'[p].row :
                                 vocab'[p.e][f] = open'[p].row[f] \/ SetBy(p.e, f)' # {}
        BY DEF EditsRead, IsEntry
    <2> QED BY <1>4, <1>5
  <1>7. ASSUME NEW p \in DOMAIN open', p # q, p.op = "createEntry"
        PROVE  get_by_tag(p.entry.tag)' = {} \/ \E x \in over'[p] : x.op \in {"createEntry", "reseed"}
    <2>1. get_by_tag(p.entry.tag) = {} \/ \E x \in over[p] : x.op \in {"createEntry", "reseed"}
          BY <1>0, <1>1, <1>7 DEF CreatesRead
    <2>2. CASE vocab' = vocab
          BY <1>1, <1>7, <2>1, <2>2 DEF get_by_tag
    <2>3. CASE vocab' # vocab
          BY <1>1, <1>3, <1>7, <2>1, <2>3, VocabChanges DEF get_by_tag
    <2> QED BY <2>2, <2>3
  <1>8. ASSUME q \in DOMAIN open', q.op = "createEntry"
        PROVE  get_by_tag(q.entry.tag)' = {}
    <2>1. q \in todo /\ CreateEntryRead(q)
      <3>1. PostEntry(q)
            BY <1>8 DEF SearchRequest, search, PatchEntry, DeleteEntry, reseed_vocab
      <3>2. ~create_vocab_entry(q)
            BY <1>0, <1>8, CommitMoves, FailMoves DEF create_vocab_entry
      <3> QED BY <3>1, <3>2 DEF PostEntry
    <2>2. get_by_tag(q.entry.tag) = {}
      <3>1. ~Refuse(q)
            BY <1>0, <1>8, <2>1 DEF Refuse, RequestsAreOnce, Once
      <3> QED BY <2>1, <3>1 DEF CreateEntryRead
    <2> QED BY <2>1, <2>2 DEF CreateEntryRead, searchState, get_by_tag
  <1>9. CreatesRead'
    <2> SUFFICES ASSUME NEW p \in DOMAIN open', p.op = "createEntry"
                 PROVE  get_by_tag(p.entry.tag)' = {} \/ \E x \in over'[p] : x.op \in {"createEntry", "reseed"}
        BY DEF CreatesRead
    <2> QED BY <1>7, <1>8
  <1> QED BY <1>6, <1>9

\* What is set stays set, and errors have their cause.
LEMMA EditsStand ==
    ASSUME SearchInv, NEW q, SearchRequest(q), Moved(q), Once(q)
    PROVE  FailuresRead' /\ VocabPatchStands' /\ VocabErrorsHaveCause'
  <1>0. /\ RequestsAreOnce /\ SearchShape /\ EditsRead /\ CreatesRead /\ FailuresRead
        /\ VocabPatchStands /\ VocabErrorsHaveCause /\ q.op \in SearchOps
        BY SearchMoves DEF SearchInv, VocabSound
  <1>1. /\ done \subseteq done' /\ done' \subseteq done \union {q}
        /\ failed \subseteq failed' /\ failed' \subseteq failed \union {q}
        /\ DOMAIN over \subseteq DOMAIN over' /\ \A p \in DOMAIN over : over[p] \subseteq over'[p]
        BY DEF Moved
  <1>2. vocab' # vocab => q \in done' /\ q.op \in {"createEntry", "editEntry", "deleteEntry", "reseed"}
        BY VocabMoves
  <1>3. ASSUME q \in failed', q \notin failed
        PROVE  /\ q \in DOMAIN over
               /\ q.op = "createEntry" => \E p \in over'[q] : p.op \in {"createEntry", "reseed"}
               /\ q.op = "editEntry" => \E p \in over'[q] : p.op = "deleteEntry"
    <2>1. \/ q \in DOMAIN open /\ PostEntry(q) /\ create_vocab_entry(q)
          \/ q \in DOMAIN open /\ PatchEntry(q) /\ update_vocab_entry(q)
          BY <1>3 DEF SearchRequest, search, PostEntry, PatchEntry, DeleteEntry, reseed_vocab, SearchStart, SearchBuy,
             SearchSell, CreateEntryRead, UpdateEntryRead, DeleteEntryRead, delete_vocab_entry, upsert_seed, Ingested,
             _bump_fingerprint_row, _apply_resolve, Begin, Refuse, Proceed, Commit, AtOnce
    <2>2. q \in DOMAIN over /\ over[q] \subseteq over'[q]
          BY <1>0, <1>1, <2>1 DEF RequestsAreOnce
    <2>3. CASE PostEntry(q) /\ q \in DOMAIN open /\ create_vocab_entry(q)
      <3>1. get_by_tag(q.entry.tag) # {} /\ q.op = "createEntry"
            BY <1>3, <2>3 DEF create_vocab_entry, Commit, PostEntry
      <3> QED BY <1>0, <2>2, <2>3, <3>1 DEF CreatesRead
    <2>4. CASE PatchEntry(q) /\ q \in DOMAIN open /\ update_vocab_entry(q)
      <3>1. q.e \notin DOMAIN vocab /\ q.op = "editEntry"
            BY <1>3, <2>4 DEF update_vocab_entry, Commit, PatchEntry
      <3> QED BY <1>0, <2>2, <2>4, <3>1 DEF EditsRead
    <2> QED BY <2>1, <2>3, <2>4
  <1>4. FailuresRead'
        BY <1>0, <1>1, <1>3 DEF FailuresRead
  <1>5. VocabErrorsHaveCause'
    <2>1. ASSUME NEW p \in failed
          PROVE  /\ p.op = "createEntry" => \E x \in over'[p] : x.op \in {"createEntry", "reseed"}
                 /\ p.op = "editEntry" => \E x \in over'[p] : x.op = "deleteEntry"
          BY <1>0, <1>1 DEF FailuresRead, VocabErrorsHaveCause, SearchOps
    <2> QED BY <1>1, <1>3, <2>1 DEF VocabErrorsHaveCause
  <1>6. ASSUME NEW p \in done, p.op = "editEntry", NEW f \in DOMAIN p.patch
        PROVE  \/ p.e \in DOMAIN vocab' /\ vocab'[p.e][f] = p.patch[f]
               \/ \E x \in done' \ {p} : \/ x.op = "editEntry" /\ x.e = p.e /\ f \in DOMAIN x.patch
                                         \/ x.op \in {"deleteEntry", "reseed"}
    <2>1. \/ p.e \in DOMAIN vocab /\ vocab[p.e][f] = p.patch[f]
          \/ \E x \in done \ {p} : \/ x.op = "editEntry" /\ x.e = p.e /\ f \in DOMAIN x.patch
                                   \/ x.op \in {"deleteEntry", "reseed"}
          BY <1>0, <1>6 DEF VocabPatchStands
    <2>2. CASE p.e \in DOMAIN vocab /\ vocab[p.e][f] = p.patch[f] /\ vocab' # vocab
      <3>1. q \in done' /\ (q.op = "editEntry" => q # p)
        <4>1. q.op = "editEntry" => q \in DOMAIN open
              BY <2>2 DEF SearchRequest, search, PostEntry, PatchEntry, DeleteEntry, reseed_vocab, UpdateEntryRead, searchState
        <4> QED BY <1>0, <1>2, <2>2, <4>1 DEF RequestsAreOnce
      <3>2. f \in {"tag", "terms", "active"}
            BY <1>0, <1>6 DEF SearchShape, SearchWellFormed, Asked
      <3> QED BY <1>6, <2>2, <3>1, <3>2, VocabChanges
    <2> QED BY <1>1, <2>1, <2>2
  <1>7. ASSUME q \in done', q \notin done, q.op = "editEntry", NEW f \in DOMAIN q.patch
        PROVE  \/ q.e \in DOMAIN vocab' /\ vocab'[q.e][f] = q.patch[f]
               \/ \E x \in done' \ {q} : \/ x.op = "editEntry" /\ x.e = q.e /\ f \in DOMAIN x.patch
                                         \/ x.op \in {"deleteEntry", "reseed"}
    <2>1. q \in DOMAIN open /\ update_vocab_entry(q)
      <3>1. PatchEntry(q)
            BY <1>7 DEF SearchRequest, search, PostEntry, DeleteEntry, reseed_vocab
      <3> QED BY <1>7, <3>1 DEF PatchEntry, UpdateEntryRead, Begin, Refuse
    <2>2. /\ IsEntry(open[q].row)
          /\ q.e \notin DOMAIN vocab => \E p \in over[q] : p.op = "deleteEntry"
          /\ \/ Reset
             \/ q.e \in DOMAIN vocab /\ \A g \in DOMAIN open[q].row :
                   vocab[q.e][g] = open[q].row[g] \/ SetBy(q.e, g) # {}
          BY <1>0, <1>7, <2>1 DEF EditsRead
    <2>3. \A p \in over[q] : p.op = "deleteEntry" => p \in done
          BY <1>0, <2>1 DEF RequestsAreOnce, Whole
    <2>4. CASE Reset \/ q.e \notin DOMAIN vocab
          BY <1>1, <1>7, <2>2, <2>3, <2>4 DEF Reset
    <2>5. CASE ~Reset /\ q.e \in DOMAIN vocab
      <3>1. f \in {"tag", "terms", "active"} /\ q \in Asked
            BY <1>0, <1>7, <2>1 DEF SearchShape, SearchWellFormed, Asked
      <3>2. vocab'[q.e] = WrittenParts(q, vocab[q.e]) /\ q.e \in DOMAIN vocab'
            BY <2>1, <2>5 DEF update_vocab_entry
      <3>3. f \in DOMAIN vocab[q.e] /\ f \in DOMAIN open[q].row
            BY <1>0, <2>2, <2>5, <3>1 DEF SearchShape, IsEntry
      <3>4. vocab'[q.e][f] = q.patch[f] \/ (q.patch[f] = open[q].row[f] /\ vocab'[q.e][f] = vocab[q.e][f])
            BY <1>7, <3>2, <3>3 DEF WrittenParts
      <3>5. vocab[q.e][f] = open[q].row[f] \/ SetBy(q.e, f) # {}
            BY <2>2, <2>5, <3>3
      <3> QED BY <1>1, <1>7, <3>2, <3>4, <3>5 DEF SetBy
    <2> QED BY <2>4, <2>5
  <1>8. VocabPatchStands'
        BY <1>1, <1>6, <1>7 DEF VocabPatchStands
  <1> QED BY <1>4, <1>5, <1>8


LEMMA SearchLeftAlone ==
    ASSUME SearchInv, RequestsAreOnce', UNCHANGED searchState, Aside(SearchOps)
    PROVE  SearchInv'
  <1>0. RequestsAreOnce /\ SearchShape
        BY DEF SearchInv
  <1>1. /\ \A p : p.op \in SearchOps => /\ p \in done' <=> p \in done
                                        /\ p \in failed' <=> p \in failed
                                        /\ p \in DOMAIN open' <=> p \in DOMAIN open
                                        /\ p \in DOMAIN open => open'[p] = open[p]
        /\ done \subseteq done'
        /\ DOMAIN over \subseteq DOMAIN over' /\ \A p \in DOMAIN over : over[p] \subseteq over'[p]
        /\ DOMAIN open \subseteq DOMAIN over
        BY <1>0, AsideFacts
  <1>2. board' = board /\ vocab' = vocab
        BY DEF searchState
  <1>3. SearchShape'
    <2>1. \A q \in Asked' : q \in Asked \/ q.op = "nightly"
          BY DEF Aside, Idle, Moved, Asked, Once
    <2>2. \A q \in Asked' : SearchWellFormed(q)
          BY <1>0, <2>1 DEF SearchShape, SearchWellFormed
    <2> QED BY <1>0, <1>2, <2>2 DEF SearchShape, SearchWellFormed, IsPost, IsEntry
  <1>4. ASSUME NEW p \in Searches' PROVE PagesSound(p)'
    <2>1. p \in Searches /\ open'[p] = open[p] /\ over[p] \subseteq over'[p]
          BY <1>1, <1>4 DEF Searches, SearchOps
    <2>2. PagesSound(p) /\ \A m \in DOMAIN board : board[m].at \in Nat /\ board[m].at <= board[m].at
          BY <2>1 DEF SearchInv, SearchShape, IsPost
    <2> QED BY <1>0, <1>2, <2>1, <2>2, SearchStays
  <1>5. VocabSound'
    <2>1. EditsRead'
      <3> SUFFICES ASSUME NEW p \in DOMAIN open', p.op = "editEntry"
                   PROVE  /\ IsEntry(open'[p].row)
                          /\ p.e \notin DOMAIN vocab' => \E x \in over'[p] : x.op = "deleteEntry"
                          /\ \/ Reset'
                             \/ p.e \in DOMAIN vocab' /\ \A f \in DOMAIN open'[p].row :
                                   vocab'[p.e][f] = open'[p].row[f] \/ SetBy(p.e, f)' # {}
          BY DEF EditsRead, IsEntry
      <3>1. p \in DOMAIN open /\ open'[p] = open[p] /\ over[p] \subseteq over'[p]
            BY <1>1 DEF SearchOps
      <3>2. (Reset => Reset') /\ \A f : SetBy(p.e, f) \subseteq SetBy(p.e, f)'
            BY <1>1 DEF Reset, SetBy
      <3> QED BY <1>2, <3>1, <3>2 DEF SearchInv, VocabSound, EditsRead
    <2>2. CreatesRead'
      <3> SUFFICES ASSUME NEW p \in DOMAIN open', p.op = "createEntry"
                   PROVE  get_by_tag(p.entry.tag)' = {} \/ \E x \in over'[p] : x.op \in {"createEntry", "reseed"}
          BY DEF CreatesRead
      <3>1. p \in DOMAIN open /\ over[p] \subseteq over'[p]
            BY <1>1 DEF SearchOps
      <3> QED BY <1>2, <3>1 DEF SearchInv, VocabSound, CreatesRead, get_by_tag
    <2>3. FailuresRead'
          BY <1>1 DEF SearchInv, VocabSound, FailuresRead
    <2>4. VocabPatchStands'
      <3> SUFFICES ASSUME NEW p \in done', p.op = "editEntry", NEW f \in DOMAIN p.patch
                   PROVE  \/ p.e \in DOMAIN vocab' /\ vocab'[p.e][f] = p.patch[f]
                          \/ \E x \in done' \ {p} : \/ x.op = "editEntry" /\ x.e = p.e /\ f \in DOMAIN x.patch
                                                    \/ x.op \in {"deleteEntry", "reseed"}
          BY DEF VocabPatchStands
      <3>1. p \in done
            BY <1>1 DEF SearchOps
      <3> QED BY <1>1, <1>2, <3>1 DEF SearchInv, VocabSound, VocabPatchStands
    <2>5. VocabErrorsHaveCause'
      <3> SUFFICES ASSUME NEW p \in failed'
                   PROVE  /\ p.op = "createEntry" => \E x \in over'[p] : x.op \in {"createEntry", "reseed"}
                          /\ p.op = "editEntry" => \E x \in over'[p] : x.op = "deleteEntry"
          BY DEF VocabErrorsHaveCause
      <3>1. p.op \in {"createEntry", "editEntry"} => p \in failed /\ over[p] \subseteq over'[p]
            BY <1>1 DEF SearchInv, VocabSound, FailuresRead, SearchOps
      <3> QED BY <3>1 DEF SearchInv, VocabSound, VocabErrorsHaveCause
    <2> QED BY <2>1, <2>2, <2>3, <2>4, <2>5 DEF VocabSound
  <1> QED BY <1>3, <1>4, <1>5 DEF SearchInv

LEMMA SearchStep ==
    ASSUME SearchInv, [Next]_vars
    PROVE  SearchInv'
  <1>0. RequestsAreOnce /\ RequestsAreOnce'
        BY OnceKept DEF SearchInv
  <1>1. ASSUME NEW q, Work(q) PROVE SearchInv'
    <2>1. CASE SearchRequest(q)
      <3>1. Moved(q) /\ Once(q)
            BY <1>0, <2>1, SearchMoves DEF Once, SearchOps
      <3> QED BY <1>0, <2>1, <3>1, SearchesStep, EditsStep, EditsStand DEF SearchInv, VocabSound
    <2>2. CASE /\ UNCHANGED searchState
               /\ \/ ContactRequest(q) \/ DeleteContacts(q) \/ MemoryRequest(q) \/ TagRequest(q) \/ ThreadRequest(q)
                  \/ AnalyticsRequest(q) \/ AccountRequest(q) \/ ConsoleRequest(q) \/ DraftRequest(q)
      <3>1. Moved(q) /\ q.op \notin SearchOps
            BY <1>0, <2>2, ContactsMove, DeletionMoves, MemoryMoves, TagsMove, ThreadsMove, AnalyticsMoves,
               AccountsMove, ConsoleMoves, DraftsMove
               DEF ContactOps, MemoryOps, TagOps, ThreadOps, AnalyticsOps, AccountOps, ConsoleOps, DraftOps, SearchOps
      <3> QED BY <1>0, <2>2, <3>1, SearchLeftAlone DEF Aside
    <2>3. SearchRequest(q) \/ UNCHANGED searchState
          BY <1>1 DEF Work, contactsAside
    <2> QED BY <1>1, <2>1, <2>2, <2>3 DEF Work
  <1>2. CASE Sweep \/ Time \/ MetaDecides \/ HandsOver \/ UNCHANGED vars
    <2>1. UNCHANGED searchState
          BY <1>2 DEF Sweep, Time, MetaDecides, HandsOver, Besides, contactsAside, vars
    <2> QED BY <1>0, <1>2, <2>1, OthersAreIdle, SearchLeftAlone DEF Aside
  <1> QED BY <1>1, <1>2 DEF Next

LEMMA SearchInit == Init => SearchInv
  <1> SUFFICES ASSUME Init PROVE SearchInv
      OBVIOUS
  <1> PICK s \in Scenarios : todo = s.requests /\ board = s.board /\ vocab = s.vocab
      BY DEF Init, InitSearch
  <1>1. open = <<>> /\ over = <<>> /\ done = {} /\ failed = {}
        BY DEF Init, InitRequests
  <1>2. DOMAIN open = {} /\ DOMAIN over = {}
        BY <1>1
  <1>3. SearchShape
        BY <1>1, <1>2, ScenariosAssumption DEF SearchShape, Asked
  <1>4. VocabSound
        BY <1>1, <1>2 DEF VocabSound, EditsRead, CreatesRead, FailuresRead, VocabPatchStands, VocabErrorsHaveCause
  <1> QED BY <1>2, <1>3, <1>4, OnceInit DEF SearchInv, Searches

\* Whoever pages through the market's messages sees all that there were when he
\* began, and each of them once, while messages come in, get older, change sides and
\* the vocabulary is edited, with the exceptions of a cursor that knows the time
\* when the order is that of the ranks (MarketMessageRepository.search_fts,
\* MarketSearchService.search); and what an admin sets of the vocabulary stands.
THEOREM SearchSoundness == Spec => []SearchIsSound
  <1>1. SearchInv /\ [Next]_vars => SearchInv'
        BY SearchStep
  <1>2. ASSUME SearchInv PROVE SearchIsSound
    <2>1. SearchShowsOnce
      <3> SUFFICES ASSUME NEW q \in Searches, NEW m \in Untouched(q), m \in DOMAIN open[q].shown
                   PROVE  open[q].shown[m] = 1 \/ ShownAgain(q, m)
          BY DEF SearchShowsOnce, ShownAgain
      <3> QED BY <1>2 DEF SearchInv, PagesSound
    <2>2. SearchShowsAll
      <3> SUFFICES ASSUME NEW q \in Searches, open[q].pc = "end", NEW m \in Untouched(q)
                   PROVE  m \in DOMAIN open[q].shown \/ PassedOver(q, m)
          BY DEF SearchShowsAll, PassedOver
      <3>1. PagesSound(q) /\ IsSearch(open[q])
            BY <1>2 DEF SearchInv, PagesSound
      <3>2. Turned(open[q], board[m].side) /\ board[m].side \in Panes /\ open[q].cursor[board[m].side] = Top
            BY <3>1 DEF PagesSound, IsSearch, Turned
      <3> QED BY <3>1, <3>2 DEF PagesSound
    <2> QED BY <1>2, <2>1, <2>2 DEF SearchInv, VocabSound, SearchIsSound
  <1> QED BY <1>1, <1>2, SearchInit, PTL DEF Spec

-----------------------------------------------------------------------------
(* Campaigns before they go out *)

\* What may take contact i out of a filter, and whom a filter selects but for that.
Touched(i) == \/ rows[i].status = "follow_up"
              \/ \E q \in done : \/ q.op = "patch" /\ i \in q.ids
                                 \/ q.op \in {"remove", "send"} /\ q.id = i
                                 \/ q.op = "deleteTag"
InFilter(f, i) == i \in DOMAIN rows /\ (i \in select_audience_contact_ids(f) \/ Touched(i))

EditedOver(c) == \E q \in done : q.op = "editCampaign" /\ q.c = c /\ Overlapped(q, validated[c])

\* What is read of contacts has its columns, and patches are of those they name.
RowsShape == /\ IsFiniteSet(DOMAIN rows) /\ ids \in Nat /\ DOMAIN rows \subseteq 1..ids
             /\ \A i \in DOMAIN rows : {"status", "agent"} \subseteq DOMAIN rows[i]
ContactsShape ==
    /\ RowsShape /\ \A q \in Asked : q.op = "import" => IsFiniteSet(q.rows)
    /\ \A q \in DOMAIN open : q.op = "patch" => DOMAIN open[q] \subseteq q.ids

DraftsShape ==
    /\ IsFiniteSet(DOMAIN drafts) /\ \A q \in Asked : DraftWellFormed(q)
    /\ \A c \in DOMAIN drafts : DOMAIN drafts[c] = {"template", "filter", "category", "status", "count"}
    /\ \A r \in audience : r.contact \in DOMAIN rows
    /\ \A r \in audience : \E v \in done : v.op = "validate" /\ v.c = r.campaign

\* A validation that holds its campaign has chosen those of the filter.
HoldsSound == \A v \in DOMAIN open : v.op = "validate" =>
    /\ v.c \in DOMAIN drafts
    /\ open[v].pc = "hold" =>
          /\ open[v].chosen \subseteq 1..ids
          /\ open[v].chosen \subseteq DOMAIN rows \/ \E p \in over[v] : p.op = "delete"
          /\ \A i \in open[v].chosen \intersect DOMAIN rows : InFilter(drafts[v.c].filter, i)

\* The last validation of a scheduled campaign, and whom it has chosen; an edit in
\* progress was overtaken by it.
ScheduledSound == \A c \in Scheduled :
    /\ c \in DOMAIN validated /\ validated[c] \in done /\ validated[c].op = "validate" /\ validated[c].c = c
    /\ \A q \in DOMAIN open : q.op = "editCampaign" /\ q.c = c => validated[c] \in over[q]
    /\ \A r \in Recipients(c) : InFilter(drafts[c].filter, r.contact) \/ ValidatedBefore(c) \/ EditedOver(c)
    /\ drafts[c].count = Cardinality(Recipients(c)) \/ ValidatedBefore(c) \/ Deleted

Overtaken(q, ops) == \E p \in over[q] : p.op \in ops

\* What a request about campaigns and categories has checked holds, or it was overtaken.
ChecksStand == \A q \in DOMAIN open :
    /\ q.op = "createCampaign" => Exists(q.category) \/ Overtaken(q, {"deleteCategory"})
    /\ q.op = "editCampaign" =>
          /\ q.c \in DOMAIN drafts
          /\ "category" \in DOMAIN q.patch => Exists(q.patch.category) \/ Overtaken(q, {"deleteCategory"})
    /\ q.op = "createCategory" => NamedSo(q.name) = {} \/ Overtaken(q, {"createCategory", "renameCategory"})
    /\ q.op = "renameCategory" =>
          \/ q.category \in DOMAIN categories /\ NamedSo(q.name) \subseteq {q.category}
          \/ Overtaken(q, {"createCategory", "renameCategory", "deleteCategory"})
    /\ q.op = "deleteCategory" =>
          \/ \A c \in DOMAIN drafts : drafts[c].category # q.category
          \/ Overtaken(q, {"createCampaign", "editCampaign"})

DraftFailuresKnown == \A q \in failed : q.op \in DraftOps => q \in DOMAIN over
ErrorsSound == ChecksStand /\ DraftFailuresKnown /\ DraftErrorsHaveCause

DraftsInv == /\ RequestsAreOnce /\ ContactsShape /\ DraftsShape
             /\ HoldsSound /\ ScheduledSound /\ ErrorsSound

\* An id is given once.
NoneReturns == ids <= ids' /\ DOMAIN rows' \intersect (1..ids) \subseteq DOMAIN rows
\* The contacts stay, in their filters, but for those that are touched.
RowsKept ==
    /\ DOMAIN rows \subseteq DOMAIN rows' /\ RowsShape' /\ NoneReturns
    /\ \A i \in DOMAIN rows : \/ rows'[i].status = rows[i].status /\ rows'[i].agent = rows[i].agent
                              \/ Touched(i)'

LEMMA WrittenColumns ==
    ASSUME NEW new, NEW old, NEW row
    PROVE  /\ DOMAIN Written(new, old, row) = DOMAIN row
           /\ \A f \in DOMAIN row \ DOMAIN new : Written(new, old, row)[f] = row[f]
BY DEF Written

LEMMA KeptAsTheyAre ==
    ASSUME ContactsShape, UNCHANGED <<rows, ids>>
    PROVE  RowsKept
BY DEF RowsKept, NoneReturns, ContactsShape, RowsShape

LEMMA KeptByInsert ==
    ASSUME ContactsShape, NEW row, Insert(row), {"status", "agent"} \subseteq DOMAIN row
    PROVE  RowsKept
  <1>1. /\ DOMAIN rows' = DOMAIN rows \union {ids + 1} /\ ids' = ids + 1
        /\ \A i \in DOMAIN rows : rows'[i] = rows[i]
        /\ \A i \in DOMAIN rows' \ DOMAIN rows : rows'[i] = row
        BY DEF Insert, Added
  <1>2. IsFiniteSet(DOMAIN rows')
        BY <1>1, FS_AddElement DEF ContactsShape, RowsShape
  <1> QED BY <1>1, <1>2 DEF RowsKept, NoneReturns, ContactsShape, RowsShape

LEMMA KeptByWriting ==
    ASSUME ContactsShape, UNCHANGED ids, DOMAIN rows' = DOMAIN rows,
           \A i \in DOMAIN rows : /\ DOMAIN rows'[i] = DOMAIN rows[i]
                                  /\ \/ rows'[i].status = rows[i].status /\ rows'[i].agent = rows[i].agent
                                     \/ Touched(i)'
    PROVE  RowsKept
BY DEF RowsKept, NoneReturns, ContactsShape, RowsShape

LEMMA KeptByWritten ==
    ASSUME ContactsShape, UNCHANGED ids, DOMAIN rows' = DOMAIN rows,
           \A i \in DOMAIN rows : \/ rows'[i] = rows[i]
                                  \/ \E new, old : /\ rows'[i] = Written(new, old, rows[i])
                                                   /\ {"status", "agent"} \intersect DOMAIN new = {}
                                  \/ DOMAIN rows'[i] = DOMAIN rows[i] /\ Touched(i)'
    PROVE  RowsKept
  <1> SUFFICES ASSUME NEW i \in DOMAIN rows
               PROVE  /\ DOMAIN rows'[i] = DOMAIN rows[i]
                      /\ \/ rows'[i].status = rows[i].status /\ rows'[i].agent = rows[i].agent
                         \/ Touched(i)'
      BY KeptByWriting
  <1>1. ASSUME NEW new, NEW old, rows'[i] = Written(new, old, rows[i]), {"status", "agent"} \intersect DOMAIN new = {}
        PROVE  /\ DOMAIN rows'[i] = DOMAIN rows[i]
               /\ rows'[i].status = rows[i].status /\ rows'[i].agent = rows[i].agent
    <2>1. {"status", "agent"} \subseteq DOMAIN rows[i] \ DOMAIN new
          BY <1>1 DEF ContactsShape, RowsShape
    <2> QED BY <1>1, <2>1, WrittenColumns
  <1> QED BY <1>1

LEMMA ImportKeeps ==
    ASSUME RequestsAreOnce, ContactsShape, NEW q, q.op = "import", q \in DOMAIN open, import_csv(q)
    PROVE  RowsKept
  <1>1. CASE UNCHANGED <<rows, ids>>
        BY <1>1, KeptAsTheyAre
  <1>2. CASE ~UNCHANGED <<rows, ids>>
    <2> DEFINE n == Cardinality(Absent(q))
               old == [i \in DOMAIN rows |-> IF i \in FoundBy(q) THEN ImportedRow(q, i) ELSE rows[i]]
    <2>0. ~(\E r \in q.rows : Breaks(q, r))
          BY <1>2 DEF import_csv
    <2> HIDE DEF n
    <2>1a. ids' = ids + n
          BY <2>0, SMTT(30) DEF import_csv, n
    <2>1b. \E o \in Bijection((ids + 1)..ids', Absent(q)) : rows' = Imported(q, o)
          BY <2>0, Zenon DEF import_csv, Bijection
    <2>1. PICK order \in Bijection((ids + 1)..ids', Absent(q)) : rows' = Imported(q, order)
          BY <2>1b
    <2>2. IsFiniteSet(Absent(q)) /\ n \in Nat
      <3>1. IsFiniteSet(q.rows)
            BY DEF ContactsShape, RowsShape, Asked
      <3> QED BY <3>1, FS_Subset, FS_CardinalityType DEF Absent, n
    <2>3. DOMAIN order = (ids + 1)..ids'
          BY DEF Bijection, Injection, Surjection
    <2>4. IsFiniteSet(DOMAIN order)
      <3>1. ids + 1 \in Int /\ ids' \in Int
            BY <2>1a, <2>2 DEF ContactsShape, RowsShape
      <3> QED BY <2>3, <3>1, FS_Interval
    <2>5. ASSUME NEW i \in DOMAIN rows
          PROVE  \/ old[i] = rows[i]
                 \/ \E new, o : old[i] = Written(new, o, rows[i]) /\ {"status", "agent"} \intersect DOMAIN new = {}
      <3>1. ASSUME NEW r, NEW o PROVE \/ Named(r, o, rows[i]) = rows[i]
                                      \/ \E new : /\ Named(r, o, rows[i]) = Written(new, o, rows[i])
                                                  /\ {"status", "agent"} \intersect DOMAIN new = {}
        <4>1. {"status", "agent"} \intersect DOMAIN [name |-> r.name] = {}
              OBVIOUS
        <4> QED BY <4>1 DEF Named
      <3> QED BY <3>1 DEF ImportedRow
    <2>6. ASSUME NEW i \in DOMAIN rows
          PROVE  {"status", "agent"} \subseteq DOMAIN old[i] /\ old[i].status = rows[i].status /\ old[i].agent = rows[i].agent
      <3>1. {"status", "agent"} \subseteq DOMAIN rows[i]
            BY DEF ContactsShape, RowsShape
      <3>2. ASSUME NEW new, NEW o, old[i] = Written(new, o, rows[i]), {"status", "agent"} \intersect DOMAIN new = {}
            PROVE  {"status", "agent"} \subseteq DOMAIN old[i] /\ old[i].status = rows[i].status /\ old[i].agent = rows[i].agent
        <4>1. {"status", "agent"} \subseteq DOMAIN rows[i] \ DOMAIN new
              BY <3>1, <3>2
        <4> QED BY <3>2, <4>1, WrittenColumns
      <3> QED BY <2>5, <3>1, <3>2
    <2>7. DOMAIN old = DOMAIN rows
          OBVIOUS
    <2> HIDE DEF old
    <2>8. /\ DOMAIN rows' = DOMAIN rows \union DOMAIN order
          /\ \A i \in DOMAIN rows : rows'[i] = old[i]
          /\ \A i \in DOMAIN rows' \ DOMAIN rows : rows'[i] = NewContact(order[i].phone, order[i].name, {})
          BY <2>1, <2>7 DEF Over, Imported, old
    <2>9. IsFiniteSet(DOMAIN rows')
      <3>1. IsFiniteSet(DOMAIN rows)
            BY DEF ContactsShape, RowsShape
      <3>2. IsFiniteSet(DOMAIN rows \union DOMAIN order)
            BY <2>4, <3>1, FS_Union
      <3> QED BY <2>8, <3>2
    <2>10. ids' \in Nat
          BY <2>1a, <2>2 DEF ContactsShape, RowsShape
    <2>11. \A phone, name : {"status", "agent"} \subseteq DOMAIN NewContact(phone, name, {})
          BY DEF NewContact
    <2>12. \A i \in DOMAIN rows' : {"status", "agent"} \subseteq DOMAIN rows'[i]
          BY <2>6, <2>8, <2>11
    <2>13. DOMAIN rows' \subseteq 1..ids' /\ NoneReturns
      <3>1. ids \in Nat /\ DOMAIN rows \subseteq 1..ids /\ ids' = ids + n
            BY <2>1a DEF ContactsShape, RowsShape
      <3> QED BY <2>2, <2>3, <2>8, <3>1 DEF NoneReturns
    <2> QED BY <2>6, <2>8, <2>9, <2>10, <2>12, <2>13 DEF RowsKept, RowsShape
  <1> QED BY <1>1, <1>2

\* What contacts' requests do to them.
LEMMA ContactsKeep ==
    ASSUME RequestsAreOnce, ContactsShape, NEW q, ContactRequest(q)
    PROVE  RowsKept
  <1>0. Moved(q) /\ q.op \in ContactOps /\ Once(q)
        BY ContactsMove DEF Once, ContactOps
  <1>1. CASE UNCHANGED <<rows, ids>>
        BY <1>1, KeptAsTheyAre
  <1>2. CASE q.op = "create" /\ create_contact(q) /\ ~UNCHANGED <<rows, ids>>
    <2>1. \A x, name : {"status", "agent"} \subseteq DOMAIN Over(x, NewContact(q.phone, name, {}))
          BY DEF Over, NewContact
    <2> QED BY <1>2, <2>1, KeptByInsert DEF create_contact
  <1>3. CASE q.op = "append" /\ upsert_by_phone_append(q) /\ ~UNCHANGED <<rows, ids>>
    <2>1. CASE Insert(NewContact(q.phone, q.name, NoteSet(q.info)))
      <3>1. {"status", "agent"} \subseteq DOMAIN NewContact(q.phone, q.name, NoteSet(q.info))
            BY DEF NewContact
      <3> QED BY <2>1, <3>1, KeptByInsert
    <2>2. \A old : {"status", "agent"} \intersect DOMAIN Appended(q, old) = {}
          BY DEF Appended
    <2>3. CASE UNCHANGED ids /\ \E i, old, o : rows' = [rows EXCEPT ![i] = Written(Appended(q, old), o, @)]
      <3> PICK i, old, o : rows' = [rows EXCEPT ![i] = Written(Appended(q, old), o, @)]
          BY <2>3
      <3>1. DOMAIN rows' = DOMAIN rows
            OBVIOUS
      <3>2. \A j \in DOMAIN rows : rows'[j] = IF j = i THEN Written(Appended(q, old), o, rows[j]) ELSE rows[j]
            OBVIOUS
      <3> QED BY <2>2, <2>3, <3>1, <3>2, KeptByWritten
    <2>4. CASE UNCHANGED ids /\ \E i : AppendAgain(q, i)
      <3> PICK i : rows' = [rows EXCEPT ![i] = Written(Appended(q, @), @, @)]
          BY <2>4 DEF AppendAgain
      <3>1. DOMAIN rows' = DOMAIN rows
            OBVIOUS
      <3>2. \A j \in DOMAIN rows : rows'[j] = IF j = i THEN Written(Appended(q, rows[j]), rows[j], rows[j]) ELSE rows[j]
            OBVIOUS
      <3> QED BY <2>2, <2>4, <3>1, <3>2, KeptByWritten
    <2> QED BY <1>3, <2>1, <2>3, <2>4 DEF upsert_by_phone_append
  <1>4. CASE q.op = "patch" /\ bulk_update(q) /\ q \in DOMAIN open /\ ~UNCHANGED <<rows, ids>>
    <2>1. q \in done' /\ DOMAIN open[q] \subseteq q.ids
          BY <1>4, CommitMoves DEF bulk_update, ContactsShape
    <2>2. \A i \in DOMAIN open[q] : Touched(i)'
          BY <1>4, <2>1 DEF Touched
    <2>3. /\ DOMAIN rows' = DOMAIN rows /\ ids' = ids
          /\ \A i \in DOMAIN rows : \/ rows'[i] = rows[i]
                                    \/ \E new, old : rows'[i] = Written(new, old, rows[i]) /\ i \in DOMAIN open[q]
          BY <1>4 DEF bulk_update
    <2>4. \A new, old, row : DOMAIN Written(new, old, row) = DOMAIN row
          BY WrittenColumns
    <2> QED BY <2>2, <2>3, <2>4, KeptByWritten
  <1>5. CASE q.op = "import" /\ import_csv(q) /\ q \in DOMAIN open
        BY <1>5, ImportKeeps
  <1>6. CASE q.op = "inbound" /\ InboundCommit(q) /\ ~UNCHANGED <<rows, ids>>
    <2>1. CASE Insert([NewContact(q.phone, "", {}) EXCEPT !.inbound = clock])
      <3>1. {"status", "agent"} \subseteq DOMAIN [NewContact(q.phone, "", {}) EXCEPT !.inbound = clock]
            BY DEF NewContact
      <3> QED BY <2>1, <3>1, KeptByInsert
    <2>2. CASE UNCHANGED ids /\ \E i : rows' = [rows EXCEPT ![i].inbound = clock]
      <3> PICK i : rows' = [rows EXCEPT ![i].inbound = clock]
          BY <2>2
      <3> QED BY <2>2, KeptByWriting
    <2> QED BY <1>6, <2>1, <2>2 DEF InboundCommit
  <1>7. CASE q.op = "send" /\ SendCommit(q) /\ ~UNCHANGED <<rows, ids>>
    <2>1. q \in done' /\ UNCHANGED ids
          BY <1>7 DEF SendCommit, Commit
    <2>2. Touched(q.id)'
          BY <1>7, <2>1 DEF Touched
    <2>3. rows' = [rows EXCEPT ![q.id].status = Contacted(open[q].row, rows[q.id]), ![q.id].contacted = clock]
          BY <1>7 DEF SendCommit
    <2>4. /\ DOMAIN rows' = DOMAIN rows /\ \A i \in DOMAIN rows : i # q.id => rows'[i] = rows[i]
          /\ q.id \in DOMAIN rows => DOMAIN rows'[q.id] = DOMAIN rows[q.id]
          BY <2>3
    <2> QED BY <2>1, <2>2, <2>4, KeptByWriting
  <1>8. CASE q.op = "extract" /\ _ensure_contact_information(q) /\ ~UNCHANGED <<rows, ids>>
    <2>1. rows' = [rows EXCEPT ![q.id].info = NoteSet(q.found)] /\ UNCHANGED ids
          BY <1>8 DEF _ensure_contact_information
    <2> QED BY <2>1, KeptByWriting
  <1>9. \/ UNCHANGED <<rows, ids>>
        \/ q.op = "create" /\ create_contact(q)
        \/ q.op = "append" /\ upsert_by_phone_append(q)
        \/ q.op = "patch" /\ bulk_update(q) /\ q \in DOMAIN open
        \/ q.op = "import" /\ import_csv(q) /\ q \in DOMAIN open
        \/ q.op = "inbound" /\ InboundCommit(q)
        \/ q.op = "send" /\ SendCommit(q)
        \/ q.op = "extract" /\ _ensure_contact_information(q)
        BY DEF ContactRequest, PostContact, PostUpsert, PatchContact, PostBulkUpdate, PostImport, ReceiveMessage,
           SendMessage, ExtractInformation, CreateCheck, UpsertRead, UpdateRead, update_contact, ImportRead,
           SendRead, ExtractRead, _extract_information_direct, contactState
  <1> QED BY <1>1, <1>2, <1>3, <1>4, <1>5, <1>6, <1>7, <1>8, <1>9

LEMMA SweepKeeps ==
    ASSUME ContactsShape, sweep_follow_up_task
    PROVE  RowsKept
  <1>1. /\ DOMAIN rows' = DOMAIN rows /\ ids' = ids
        /\ \A i \in DOMAIN rows : rows'[i] = IF i \in Silent THEN [rows[i] EXCEPT !.status = "follow_up"] ELSE rows[i]
        BY DEF sweep_follow_up_task
  <1>2. \A i \in DOMAIN rows : i \in Silent => rows'[i].status = "follow_up" /\ DOMAIN rows'[i] = DOMAIN rows[i]
        BY <1>1 DEF ContactsShape, RowsShape
  <1> QED BY <1>1, <1>2, KeptByWriting DEF Touched

\* The contacts keep their shape in a step of anybody.
LEMMA ShapeKept ==
    ASSUME RequestsAreOnce, ContactsShape, RowsShape',
           \/ Idle
           \/ \E q : /\ Moved(q) /\ Once(q)
                     /\ q.op = "patch" /\ q \in DOMAIN open' =>
                           \/ q \in DOMAIN open /\ open'[q] = open[q]
                           \/ DOMAIN open'[q] \subseteq q.ids
    PROVE  ContactsShape'
  <1>1. CASE Idle
    <2>1. \A p \in Asked' : p \in Asked \/ p.op = "nightly"
          BY <1>1 DEF Idle, Asked, Once
    <2> QED BY <1>1, <2>1 DEF Idle, ContactsShape
  <1>2. CASE ~Idle
    <2> PICK q : /\ Moved(q) /\ Once(q)
                 /\ q.op = "patch" /\ q \in DOMAIN open' =>
                       \/ q \in DOMAIN open /\ open'[q] = open[q]
                       \/ DOMAIN open'[q] \subseteq q.ids
        BY <1>2
    <2>1. Asked' \subseteq Asked
          BY MoveFacts
    <2>2. \A p \in DOMAIN open' : p # q => p \in DOMAIN open /\ open'[p] = open[p]
          BY DEF Moved
    <2> QED BY <2>1, <2>2 DEF ContactsShape
  <1> QED BY <1>1, <1>2

LEMMA PatchRead ==
    ASSUME RequestsAreOnce, ContactsShape, NEW q, ContactRequest(q), q.op = "patch", q \in DOMAIN open'
    PROVE  DOMAIN open'[q] \subseteq q.ids
  <1>0. Once(q)
        BY DEF Once
  <1>1. CASE q \in todo /\ UpdateRead(q)
    <2>1. q \notin DOMAIN open
          BY <1>0, <1>1 DEF RequestsAreOnce
    <2>2. Begin(q, Restrict(rows, q.ids \intersect DOMAIN rows))
          BY <1>1, <2>1 DEF UpdateRead, Refuse
    <2>3. open'[q] = Restrict(rows, q.ids \intersect DOMAIN rows)
          BY <1>0, <2>2, BeginMoves
    <2> QED BY <2>3 DEF Restrict
  <1>2. CASE bulk_update(q)
        BY <1>2, CommitMoves, FailMoves DEF bulk_update
  <1> QED BY <1>1, <1>2 DEF ContactRequest, PostContact, PostUpsert, PatchContact, PostBulkUpdate, PostImport,
             ReceiveMessage, SendMessage, ExtractInformation, update_contact

-----------------------------------------------------------------------------
(* Campaigns, while others move *)

\* Whom a filter selects, it selects still, but for those that are touched or deleted.
LinksKept == \A l \in links : l \in links' \/ l.contact \notin DOMAIN rows' \/ Touched(l.contact)'
RowsStand == \A i \in DOMAIN rows \intersect DOMAIN rows' :
    \/ rows'[i].status = rows[i].status /\ rows'[i].agent = rows[i].agent
    \/ Touched(i)'
Settled == \A f, i : InFilter(f, i) /\ i \in DOMAIN rows' => InFilter(f, i)'

LEMMA FiltersSettle ==
    ASSUME RowsStand, LinksKept, done \subseteq done'
    PROVE  Settled
  <1> SUFFICES ASSUME NEW f, NEW i, InFilter(f, i), i \in DOMAIN rows', ~Touched(i)'
               PROVE  i \in select_audience_contact_ids(f)'
      BY DEF Settled, InFilter
  <1>1. rows'[i].status = rows[i].status /\ rows'[i].agent = rows[i].agent /\ i \in DOMAIN rows
        BY DEF InFilter, RowsStand
  <1>2. ~Touched(i)
        BY <1>1 DEF Touched
  <1>3. i \in select_audience_contact_ids(f)
        BY <1>2 DEF InFilter
  <1>4. \A t : Link(i, t) \in links => Link(i, t) \in links'
    <2>1. \A t : Link(i, t).contact = i
          BY DEF Link
    <2> QED BY <2>1 DEF LinksKept
  <1> QED BY <1>1, <1>3, <1>4 DEF select_audience_contact_ids

LEMMA FilterStays ==
    ASSUME Settled, NEW c, drafts'[c].filter = drafts[c].filter,
           NEW i \in DOMAIN rows', InFilter(drafts[c].filter, i)
    PROVE  InFilter(drafts[c].filter, i)'
  <1>1. ASSUME NEW f, f = drafts[c].filter PROVE InFilter(f, i)'
        BY <1>1 DEF Settled
  <1> QED BY <1>1 DEF InFilter, select_audience_contact_ids, Touched

\* A template comes with a request that has committed.
TemplatesCome == \A n \in DOMAIN local' : n \in DOMAIN local
    \/ \E p \in done' : p.op = "importTemplates" \/ (p.op = "submit" /\ p.name = n)

LEMMA LateStays ==
    ASSUME TemplatesCome, done \subseteq done', NEW q, LateTemplate(q)
    PROVE  LateTemplate(q)'
BY DEF TemplatesCome, LateTemplate

\* A contact that goes is deleted by a request that everybody sees.
DeletedSeen == \/ DOMAIN rows \subseteq DOMAIN rows'
               \/ \E p \in done' : p.op = "delete" /\ \A v \in DOMAIN open' : v.op \in DraftOps => p \in over'[v]

LEMMA DraftsLeftAlone ==
    ASSUME DraftsInv, RequestsAreOnce', ContactsShape', Aside(DraftOps), Settled, NoneReturns, TemplatesCome, DeletedSeen,
           UNCHANGED <<drafts, categories, validated>>, audience' = {r \in audience : r.contact \in DOMAIN rows'}
    PROVE  DraftsInv'
  <1>0. RequestsAreOnce /\ DraftsShape /\ HoldsSound /\ ScheduledSound /\ ErrorsSound
        BY DEF DraftsInv
  <1>1. /\ \A p : p.op \in DraftOps => /\ p \in done' <=> p \in done
                                       /\ p \in failed' <=> p \in failed
                                       /\ p \in DOMAIN open' <=> p \in DOMAIN open
                                       /\ p \in DOMAIN open => open'[p] = open[p]
        /\ done \subseteq done'
        /\ DOMAIN over \subseteq DOMAIN over' /\ \A p \in DOMAIN over : over[p] \subseteq over'[p]
        /\ DOMAIN open \subseteq DOMAIN over
        BY <1>0, AsideFacts
  <1>2. DraftsShape'
    <2>1. \A q \in Asked' : q \in Asked \/ q.op = "nightly"
          BY DEF Aside, Idle, Moved, Asked, Once
    <2>2. \A q \in Asked' : DraftWellFormed(q)
          BY <1>0, <2>1 DEF DraftsShape, DraftWellFormed
    <2> QED BY <1>0, <1>1, <2>2 DEF DraftsShape, DraftWellFormed
  <1>3. HoldsSound'
    <2> SUFFICES ASSUME NEW v \in DOMAIN open', v.op = "validate"
                 PROVE  /\ v.c \in DOMAIN drafts'
                        /\ open'[v].pc = "hold" =>
                              /\ open'[v].chosen \subseteq 1..ids'
                              /\ open'[v].chosen \subseteq DOMAIN rows' \/ \E p \in over'[v] : p.op = "delete"
                              /\ \A i \in open'[v].chosen \intersect DOMAIN rows' : InFilter(drafts[v.c].filter, i)'
        BY DEF HoldsSound, InFilter, Touched, select_audience_contact_ids
    <2>1. v \in DOMAIN open /\ open'[v] = open[v] /\ over[v] \subseteq over'[v] /\ v.op \in DraftOps
          BY <1>1 DEF DraftOps
    <2>2. CASE open[v].pc = "hold"
      <3>1. open[v].chosen \subseteq DOMAIN rows' \/ \E p \in over'[v] : p.op = "delete"
            BY <1>0, <2>1, <2>2 DEF HoldsSound, DeletedSeen
      <3>2. ASSUME NEW i \in open[v].chosen \intersect DOMAIN rows'
            PROVE  InFilter(drafts[v.c].filter, i)'
        <4>1. i \in 1..ids /\ i \in DOMAIN rows
              BY <1>0, <2>1, <2>2, <3>2 DEF HoldsSound, NoneReturns
        <4>2. InFilter(drafts[v.c].filter, i)
              BY <1>0, <2>1, <2>2, <3>2, <4>1 DEF HoldsSound
        <4> QED BY <4>2, FilterStays
      <3>3. open[v].chosen \subseteq 1..ids'
        <4>1. open[v].chosen \subseteq 1..ids /\ ids \in Nat /\ ids' \in Nat
              BY <1>0, <2>1, <2>2 DEF HoldsSound, DraftsInv, ContactsShape, RowsShape
        <4> QED BY <4>1 DEF NoneReturns
      <3> QED BY <1>0, <2>1, <2>2, <3>1, <3>2, <3>3 DEF HoldsSound
    <2> QED BY <1>0, <2>1, <2>2 DEF HoldsSound
  <1>4. ScheduledSound'
    <2> SUFFICES ASSUME NEW c \in Scheduled'
                 PROVE  /\ c \in DOMAIN validated' /\ validated'[c] \in done' /\ validated'[c].op = "validate"
                        /\ validated'[c].c = c
                        /\ \A q \in DOMAIN open' : q.op = "editCampaign" /\ q.c = c => validated'[c] \in over'[q]
                        /\ \A r \in Recipients(c)' : \/ InFilter(drafts[c].filter, r.contact)'
                                                     \/ ValidatedBefore(c)' \/ EditedOver(c)'
                        /\ drafts'[c].count = Cardinality(Recipients(c)') \/ ValidatedBefore(c)' \/ Deleted'
        BY DEF ScheduledSound
    <2>0. c \in Scheduled
          BY DEF Scheduled
    <2>1. /\ c \in DOMAIN validated /\ validated[c] \in done /\ validated[c].op = "validate"
          /\ validated[c].c = c
          BY <1>0, <2>0 DEF ScheduledSound
    <2>2. \A q \in DOMAIN open' : q.op = "editCampaign" /\ q.c = c => validated[c] \in over'[q]
          BY <1>0, <1>1, <2>0 DEF ScheduledSound, DraftOps
    <2>3. (ValidatedBefore(c) => ValidatedBefore(c)') /\ (EditedOver(c) => EditedOver(c)')
          BY <1>1, OverlapStays DEF ValidatedBefore, EditedOver
    <2>4. ASSUME NEW r \in Recipients(c)'
          PROVE  InFilter(drafts[c].filter, r.contact)' \/ ValidatedBefore(c)' \/ EditedOver(c)'
      <3>1. r \in Recipients(c) /\ r.contact \in DOMAIN rows'
            BY <2>4 DEF Recipients
      <3>2. InFilter(drafts[c].filter, r.contact) \/ ValidatedBefore(c) \/ EditedOver(c)
            BY <1>0, <2>0, <3>1 DEF ScheduledSound
      <3> QED BY <2>3, <3>1, <3>2, FilterStays
    <2>5. drafts[c].count = Cardinality(Recipients(c)') \/ ValidatedBefore(c)' \/ Deleted'
      <3>1. CASE DOMAIN rows \subseteq DOMAIN rows'
        <4>1. Recipients(c)' = Recipients(c)
              BY <1>0, <3>1 DEF Recipients, DraftsShape
        <4> QED BY <1>0, <1>1, <2>0, <2>3, <4>1 DEF ScheduledSound, Deleted
      <3> QED BY <3>1 DEF DeletedSeen, Deleted
    <2> QED BY <1>1, <2>1, <2>2, <2>4, <2>5
  <1>5. ErrorsSound'
    <2>1. ChecksStand'
      <3>1. \A q : q.op \in DraftOps /\ q \in DOMAIN open' => q \in DOMAIN open /\ over[q] \subseteq over'[q]
            BY <1>1
      <3>2. \A q, ops : q.op \in DraftOps /\ q \in DOMAIN open' /\ Overtaken(q, ops) => Overtaken(q, ops)'
            BY <3>1 DEF Overtaken
      <3> QED BY <1>0, <3>1, <3>2 DEF ErrorsSound, ChecksStand, DraftOps, Exists, NamedSo
    <2>2. DraftFailuresKnown'
          BY <1>0, <1>1 DEF ErrorsSound, DraftFailuresKnown
    <2>3. DraftErrorsHaveCause'
      <3> SUFFICES ASSUME NEW q \in failed', q.op \in DraftOps
                   PROVE  /\ q.op \in {"createCategory", "renameCategory"} =>
                                \E p \in over'[q] : p.op \in {"createCategory", "renameCategory", "deleteCategory"}
                          /\ q.op = "deleteCategory" => \E p \in over'[q] : p.op \in {"createCampaign", "editCampaign"}
                          /\ q.op \in {"createCampaign", "editCampaign"} =>
                                \/ \E p \in over'[q] : p.op = "deleteCategory"
                                \/ q.op = "createCampaign" /\ LateTemplate(q)'
                          /\ q.op = "validate" => \E p \in over'[q] : p.op = "delete"
          BY DEF DraftErrorsHaveCause, DraftOps
      <3>1. q \in failed /\ over[q] \subseteq over'[q]
            BY <1>0, <1>1 DEF ErrorsSound, DraftFailuresKnown
      <3>2. LateTemplate(q) => LateTemplate(q)'
            BY <1>1, LateStays
      <3> QED BY <1>0, <3>1, <3>2 DEF ErrorsSound, DraftErrorsHaveCause
    <2> QED BY <2>1, <2>2, <2>3 DEF ErrorsSound
  <1> QED BY <1>2, <1>3, <1>4, <1>5 DEF DraftsInv

-----------------------------------------------------------------------------
(* Requests about campaigns *)

\* What is written, if anything.
Creates(q) ==
    /\ q.op = "createCampaign" /\ Commit(q) /\ Exists(q.category)
    /\ drafts' = Added(drafts, Cardinality(DOMAIN drafts) + 1, NewDraft(q.template, q.filter, q.category))
    /\ UNCHANGED <<audience, categories, validated>>
Edits(q) ==
    /\ q.op = "editCampaign" /\ Commit(q) /\ ~Locked(q.c)
    /\ "category" \in DOMAIN q.patch => Exists(q.patch.category)
    /\ drafts' = [drafts EXCEPT ![q.c] = Written(q.patch, open[q].row, drafts[q.c])]
    /\ UNCHANGED <<audience, categories, validated>>
Chooses(q) ==
    /\ q.op = "validate" /\ Commit(q) /\ open[q].pc = "hold" /\ open[q].chosen \subseteq DOMAIN rows
    /\ validate_campaign(q)
Files(q) ==
    /\ Commit(q) /\ UNCHANGED <<drafts, audience, validated>>
    /\ \/ q.op = "createCategory" /\ categories' = Added(categories, NewCategory, q.name)
       \/ q.op = "renameCategory" /\ categories' = [categories EXCEPT ![q.category] = q.name]
       \/ /\ q.op = "deleteCategory" /\ categories' = Without(categories, {q.category})
          /\ \A c \in DOMAIN drafts : drafts[c].category # q.category

LEMMA DraftWrites ==
    ASSUME NEW q, DraftRequest(q)
    PROVE  UNCHANGED draftState \/ Creates(q) \/ Edits(q) \/ Chooses(q) \/ Files(q)
  <1>1. CASE PostCampaign(q)
        BY <1>1 DEF PostCampaign, CreateCampaignRead, create_campaign, draftState, Creates
  <1>2. CASE PatchCampaign(q)
        BY <1>2 DEF PatchCampaign, EditRead, update_campaign, draftState, Edits
  <1>3. CASE PostValidate(q)
        BY <1>3 DEF PostValidate, ValidateRead, ValidateHold, validate_campaign, draftState, Chooses
  <1>4. CASE PostCategory(q)
        BY <1>4 DEF PostCategory, CreateCategoryRead, create_category, draftState, Files
  <1>5. CASE PatchCategory(q)
        BY <1>5 DEF PatchCategory, RenameCategoryRead, update_category, draftState, Files
  <1>6. CASE DeleteCategory(q)
        BY <1>6 DEF DeleteCategory, DeleteCategoryRead, delete_category, draftState, Files
  <1> QED BY <1>1, <1>2, <1>3, <1>4, <1>5, <1>6 DEF DraftRequest

\* A campaign is there, keeps its columns, and changes the filter and the category by
\* an edit only, its status and count by a validation only.
LEMMA DraftsChange ==
    ASSUME DraftsShape, NEW q \in Asked, DraftRequest(q)
    PROVE  /\ DOMAIN drafts \subseteq DOMAIN drafts'
           /\ \A c \in DOMAIN drafts' \ DOMAIN drafts :
                 Creates(q) /\ drafts'[c] = NewDraft(q.template, q.filter, q.category)
           /\ \A c \in DOMAIN drafts :
                 /\ DOMAIN drafts'[c] = DOMAIN drafts[c]
                 /\ \/ drafts'[c].filter = drafts[c].filter /\ drafts'[c].category = drafts[c].category
                    \/ /\ Edits(q) /\ q.c = c /\ ~Locked(c)
                       /\ \/ drafts'[c].category = drafts[c].category
                          \/ "category" \in DOMAIN q.patch /\ drafts'[c].category = q.patch.category
                 /\ \/ drafts'[c].status = drafts[c].status /\ drafts'[c].count = drafts[c].count
                    \/ Chooses(q) /\ q.c = c
  <1>0. \A c \in DOMAIN drafts : DOMAIN drafts[c] = {"template", "filter", "category", "status", "count"}
        BY DEF DraftsShape
  <1>1. CASE UNCHANGED drafts
        BY <1>1
  <1>2. CASE Creates(q)
        BY <1>2 DEF Creates, Added
  <1>3. CASE Edits(q)
    <2>1. /\ DOMAIN drafts' = DOMAIN drafts
          /\ \A c \in DOMAIN drafts :
                drafts'[c] = IF c = q.c THEN Written(q.patch, open[q].row, drafts[c]) ELSE drafts[c]
          BY <1>3 DEF Edits
    <2>2. DOMAIN q.patch \subseteq {"filter", "category"}
          BY <1>3 DEF Edits, DraftsShape, DraftWellFormed
    <2> DEFINE row == Written(q.patch, open[q].row, drafts[q.c])
    <2>3. ASSUME q.c \in DOMAIN drafts
          PROVE  /\ DOMAIN row = DOMAIN drafts[q.c]
                 /\ row.status = drafts[q.c].status /\ row.count = drafts[q.c].count
                 /\ \/ row.category = drafts[q.c].category
                    \/ "category" \in DOMAIN q.patch /\ row.category = q.patch.category
      <3>1. DOMAIN drafts[q.c] = {"template", "filter", "category", "status", "count"}
            BY <1>0, <2>3
      <3>2. /\ DOMAIN row = DOMAIN drafts[q.c]
            /\ \A f \in DOMAIN drafts[q.c] \ DOMAIN q.patch : row[f] = drafts[q.c][f]
            BY WrittenColumns
      <3>3. "status" \notin DOMAIN q.patch /\ "count" \notin DOMAIN q.patch
            BY <2>2
      <3>4. \A f \in DOMAIN drafts[q.c] : \/ row[f] = drafts[q.c][f]
                                          \/ f \in DOMAIN q.patch /\ row[f] = q.patch[f]
            BY DEF Written
      <3> QED BY <3>1, <3>2, <3>3, <3>4
    <2> QED BY <1>3, <2>1, <2>3 DEF Edits
  <1>4. CASE Chooses(q) /\ ~UNCHANGED drafts
    <2> DEFINE r == open[q]
    <2>1. drafts' = [drafts EXCEPT ![q.c].status = IF r.ok /\ r.chosen # {} THEN "SCHEDULED" ELSE "DRAFT",
                                   ![q.c].count = IF r.chosen = {} THEN @ ELSE Cardinality(r.chosen)]
          BY <1>4 DEF Chooses, validate_campaign
    <2>2. /\ DOMAIN drafts' = DOMAIN drafts
          /\ \A c \in DOMAIN drafts : c # q.c => drafts'[c] = drafts[c]
          /\ q.c \in DOMAIN drafts => /\ DOMAIN drafts'[q.c] = DOMAIN drafts[q.c]
                                      /\ drafts'[q.c].filter = drafts[q.c].filter
                                      /\ drafts'[q.c].category = drafts[q.c].category
          BY <2>1
    <2> QED BY <1>4, <2>2
  <1> QED BY <1>1, <1>2, <1>3, <1>4, DraftWrites DEF draftState, Files

\* Who is a recipient after the step.
LEMMA AudienceChanges ==
    ASSUME NEW q, DraftRequest(q)
    PROVE  \/ audience' = audience
           \/ Chooses(q) /\ audience' = audience \union {[campaign |-> q.c, contact |-> i] : i \in open[q].chosen}
  <1>1. CASE Chooses(q)
        BY <1>1 DEF Chooses, validate_campaign, bulk_insert
  <1>2. CASE ~Chooses(q)
        BY <1>2, DraftWrites DEF draftState, Creates, Edits, Files
  <1> QED BY <1>1, <1>2

LEMMA DraftsSettle ==
    ASSUME NEW q, DraftRequest(q), done \subseteq done'
    PROVE  Settled /\ UNCHANGED <<rows, ids, links, local>>
  <1>1. UNCHANGED <<rows, ids, links, local>>
        BY DEF DraftRequest, contactState, tagState, templateState
  <1>2. RowsStand /\ LinksKept
        BY <1>1 DEF RowsStand, LinksKept
  <1> QED BY <1>1, <1>2, FiltersSettle

LEMMA DraftsShapeStep ==
    ASSUME DraftsInv, NEW q, DraftRequest(q)
    PROVE  ContactsShape' /\ DraftsShape'
  <1>0. Moved(q) /\ Once(q) /\ RequestsAreOnce /\ q.op # "patch"
        BY DraftsMove DEF DraftsInv, DraftOps, Once
  <1>1. /\ Asked' \subseteq Asked /\ q \in Asked /\ done \subseteq done'
        BY <1>0, MoveFacts
  <1>2. UNCHANGED <<rows, ids>>
        BY <1>1, DraftsSettle
  <1>3. ContactsShape'
    <2>1. RowsShape'
          BY <1>2 DEF DraftsInv, ContactsShape, RowsShape
    <2> QED BY <1>0, <2>1, ShapeKept DEF DraftsInv
  <1>4. IsFiniteSet(DOMAIN drafts')
    <2>1. CASE Creates(q)
      <3>1. DOMAIN drafts' = DOMAIN drafts \union {Cardinality(DOMAIN drafts) + 1}
            BY <2>1 DEF Creates, Added
      <3> QED BY <3>1, FS_AddElement DEF DraftsInv, DraftsShape
    <2>2. CASE ~Creates(q)
      <3>1. DOMAIN drafts' = DOMAIN drafts
            BY <1>1, <2>2, DraftsChange DEF DraftsInv
      <3> QED BY <3>1 DEF DraftsInv, DraftsShape
    <2> QED BY <2>1, <2>2
  <1>5. \A c \in DOMAIN drafts' : DOMAIN drafts'[c] = {"template", "filter", "category", "status", "count"}
    <2>1. \A c \in DOMAIN drafts : DOMAIN drafts'[c] = DOMAIN drafts[c]
          BY <1>1, DraftsChange DEF DraftsInv
    <2>2. \A c \in DOMAIN drafts' \ DOMAIN drafts : drafts'[c] = NewDraft(q.template, q.filter, q.category)
          BY <1>1, DraftsChange DEF DraftsInv
    <2> QED BY <2>1, <2>2 DEF DraftsInv, DraftsShape, NewDraft
  <1>6. \A r \in audience' : r.contact \in DOMAIN rows' /\ \E v \in done' : v.op = "validate" /\ v.c = r.campaign
    <2>1. \A r \in audience : r.contact \in DOMAIN rows' /\ \E v \in done' : v.op = "validate" /\ v.c = r.campaign
          BY <1>1, <1>2 DEF DraftsInv, DraftsShape
    <2>2. ASSUME Chooses(q), NEW i \in open[q].chosen
          PROVE  i \in DOMAIN rows' /\ q \in done' /\ q.op = "validate"
          BY <1>2, <2>2 DEF Chooses, Commit
    <2> QED BY <2>1, <2>2, AudienceChanges
  <1>7. \A p \in Asked' : DraftWellFormed(p)
        BY <1>1 DEF DraftsInv, DraftsShape
  <1> QED BY <1>3, <1>4, <1>5, <1>6, <1>7 DEF DraftsShape, DraftWellFormed

LEMMA HoldsStep ==
    ASSUME DraftsInv, NEW q, DraftRequest(q)
    PROVE  HoldsSound'
  <1>0. Moved(q) /\ Once(q) /\ RequestsAreOnce /\ DraftsShape /\ HoldsSound
        BY DraftsMove DEF DraftsInv, DraftOps, Once
  <1>1. /\ \A p \in DOMAIN open' : p # q => p \in DOMAIN open /\ open'[p] = open[p] /\ over[p] \subseteq over'[p]
        /\ q \in Asked /\ done \subseteq done'
        BY <1>0, MoveFacts
  <1>2. Settled /\ UNCHANGED <<rows, ids>>
        BY <1>1, DraftsSettle
  <1>3. DOMAIN drafts \subseteq DOMAIN drafts'
        BY <1>0, <1>1, DraftsChange
  <1> SUFFICES ASSUME NEW v \in DOMAIN open', v.op = "validate"
               PROVE  /\ v.c \in DOMAIN drafts'
                      /\ open'[v].pc = "hold" =>
                            /\ open'[v].chosen \subseteq 1..ids'
                            /\ open'[v].chosen \subseteq DOMAIN rows' \/ \E p \in over'[v] : p.op = "delete"
                            /\ \A i \in open'[v].chosen \intersect DOMAIN rows' : InFilter(drafts[v.c].filter, i)'
      BY DEF HoldsSound, InFilter, Touched, select_audience_contact_ids
  <1>4. CASE v # q
    <2>1. v \in DOMAIN open /\ open'[v] = open[v] /\ over[v] \subseteq over'[v] /\ v.c \in DOMAIN drafts
          BY <1>0, <1>1, <1>4 DEF HoldsSound
    <2>2. ASSUME open[v].pc = "hold", NEW i \in open[v].chosen \intersect DOMAIN rows'
          PROVE  InFilter(drafts[v.c].filter, i)'
      <3>1. Locked(v.c)
            BY <2>1, <2>2 DEF Locked
      <3>2. drafts'[v.c].filter = drafts[v.c].filter
            BY <1>0, <1>1, <2>1, <3>1, DraftsChange
      <3>3. InFilter(drafts[v.c].filter, i)
            BY <1>0, <1>2, <2>1, <2>2 DEF HoldsSound
      <3> QED BY <1>2, <3>2, <3>3, FilterStays
    <2> QED BY <1>0, <1>2, <1>3, <2>1, <2>2 DEF HoldsSound
  <1>5. CASE v = q
    <2>1. CASE q \in todo /\ ValidateRead(q)
      <3>1. q \notin DOMAIN open
            BY <1>0, <2>1 DEF RequestsAreOnce
      <3>2. Begin(q, [pc |-> "read"]) /\ q.c \in DOMAIN drafts
            BY <1>5, <2>1, <3>1 DEF ValidateRead, Refuse
      <3>3. open'[q] = [pc |-> "read"]
            BY <1>0, <3>2, BeginMoves
      <3> QED BY <1>3, <1>5, <3>2, <3>3
    <2>2. CASE q \in DOMAIN open /\ ValidateHold(q)
      <3> DEFINE chosen == select_audience_contact_ids(drafts[q.c].filter)
      <3>1. open'[q] = [pc |-> "hold", ok |-> Approved(drafts[q.c].template), chosen |-> chosen]
            BY <2>2 DEF ValidateHold, Proceed
      <3>2. chosen \subseteq DOMAIN rows /\ \A i \in chosen : InFilter(drafts[q.c].filter, i)
            BY DEF select_audience_contact_ids, InFilter
      <3>3. UNCHANGED drafts
            BY <2>2 DEF ValidateHold, draftState
      <3>4. DOMAIN rows \subseteq 1..ids /\ q.c \in DOMAIN drafts
            BY <1>0, <1>5, <2>2 DEF DraftsInv, ContactsShape, RowsShape, HoldsSound
      <3> HIDE DEF chosen
      <3>5. \A i \in chosen : InFilter(drafts[q.c].filter, i)'
            BY <1>2, <3>2, <3>3, FilterStays
      <3> QED BY <1>2, <1>3, <1>5, <3>1, <3>2, <3>4, <3>5
    <2>3. CASE q \in DOMAIN open /\ validate_campaign(q)
      <3>1. Commit(q) \/ Fail(q)
            BY <2>3 DEF validate_campaign
      <3> QED BY <1>0, <1>5, <3>1, CommitMoves, FailMoves
    <2> QED BY <1>5, <2>1, <2>2, <2>3 DEF DraftRequest, PostCampaign, PatchCampaign, PostValidate, PostCategory,
               PatchCategory, DeleteCategory
  <1> QED BY <1>4, <1>5

LEMMA RecipientsCount ==
    ASSUME NEW X, IsFiniteSet(X), NEW c
    PROVE  Cardinality({[campaign |-> c, contact |-> i] : i \in X}) = Cardinality(X)
  <1> DEFINE T == {[campaign |-> c, contact |-> i] : i \in X}
             f == [i \in X |-> [campaign |-> c, contact |-> i]]
  <1>1. f \in Bijection(X, T)
        BY DEF Bijection, Injection, Surjection, IsInjective
  <1> QED BY <1>1, FS_Bijection DEF ExistsBijection

LEMMA ScheduledStep ==
    ASSUME DraftsInv, NEW q, DraftRequest(q)
    PROVE  ScheduledSound'
  <1>0. Moved(q) /\ Once(q) /\ RequestsAreOnce /\ DraftsShape /\ HoldsSound /\ ScheduledSound
        BY DraftsMove DEF DraftsInv, DraftOps, Once
  <1>1. /\ \A p \in DOMAIN open' : p # q => /\ p \in DOMAIN open /\ open'[p] = open[p] /\ over[p] \subseteq over'[p]
                                            /\ q \in done' => q \in over'[p]
        /\ q \in Asked /\ done \subseteq done' /\ \A a, b : Overlapped(a, b) => Overlapped(a, b)'
        BY <1>0, MoveFacts
  <1>2. Settled /\ UNCHANGED <<rows, ids>>
        BY <1>1, DraftsSettle
  <1> SUFFICES ASSUME NEW c \in Scheduled'
               PROVE  /\ c \in DOMAIN validated' /\ validated'[c] \in done' /\ validated'[c].op = "validate"
                      /\ validated'[c].c = c
                      /\ \A e \in DOMAIN open' : e.op = "editCampaign" /\ e.c = c => validated'[c] \in over'[e]
                      /\ \A r \in Recipients(c)' : \/ InFilter(drafts[c].filter, r.contact)'
                                                   \/ ValidatedBefore(c)' \/ EditedOver(c)'
                      /\ drafts'[c].count = Cardinality(Recipients(c)') \/ ValidatedBefore(c)' \/ Deleted'
      BY DEF ScheduledSound
  <1>3. CASE Chooses(q) /\ q.c = c
    <2>1. q \in done' /\ q \notin done /\ q.op = "validate" /\ q \in DOMAIN open
          BY <1>0, <1>3, CommitMoves DEF Chooses
    <2>2. c \in DOMAIN validated' /\ validated'[c] = q
      <3>1. validated' = Over([x \in {q.c} |-> q], validated)
            BY <1>3 DEF Chooses, validate_campaign
      <3> QED BY <1>3, <3>1 DEF Over
    <2>3. ASSUME NEW e \in DOMAIN open', e.op = "editCampaign" PROVE q \in over'[e]
          BY <1>1, <2>1, <2>3
    <2>4. (\E r \in audience : r.campaign = c) => ValidatedBefore(c)'
          BY <1>0, <1>1, <2>1, <2>2 DEF ValidatedBefore, DraftsShape
    <2>5. /\ \A i \in open[q].chosen : InFilter(drafts[c].filter, i)
          /\ c \in DOMAIN drafts /\ open[q].chosen \subseteq DOMAIN rows
          BY <1>0, <1>3, <2>1 DEF Chooses, HoldsSound
    <2>6. drafts'[c].filter = drafts[c].filter
          BY <1>0, <1>1, <2>1, <2>5, DraftsChange DEF Edits
    <2>7. audience' = audience \union {[campaign |-> c, contact |-> i] : i \in open[q].chosen}
          BY <1>3 DEF Chooses, validate_campaign, bulk_insert
    <2>8. ASSUME NEW r \in Recipients(c)'
          PROVE  InFilter(drafts[c].filter, r.contact)' \/ ValidatedBefore(c)'
      <3>1. CASE r \in audience
            BY <2>4, <2>8, <3>1 DEF Recipients
      <3>2. CASE r \notin audience
        <4>1. r.contact \in open[q].chosen
              BY <2>7, <2>8, <3>2 DEF Recipients
        <4>2. InFilter(drafts[c].filter, r.contact) /\ r.contact \in DOMAIN rows'
              BY <1>2, <2>5, <4>1
        <4> QED BY <1>2, <2>6, <4>2, FilterStays
      <3> QED BY <3>1, <3>2
    <2>9. drafts'[c].count = Cardinality(Recipients(c)') \/ ValidatedBefore(c)'
      <3>1. drafts'[c].count = Cardinality(open[q].chosen)
        <4> DEFINE r == open[q]
        <4>1. drafts' = [drafts EXCEPT ![q.c].status = IF r.ok /\ r.chosen # {} THEN "SCHEDULED" ELSE "DRAFT",
                                       ![q.c].count = IF r.chosen = {} THEN @ ELSE Cardinality(r.chosen)]
              BY <1>3 DEF Chooses, validate_campaign
        <4>2. DOMAIN drafts[c] = {"template", "filter", "category", "status", "count"}
              BY <1>0, <2>5 DEF DraftsShape
        <4>3. drafts'[c].status = "SCHEDULED"
              BY DEF Scheduled
        <4>4. r.chosen # {}
              BY <1>3, <2>5, <4>1, <4>2, <4>3
        <4> QED BY <1>3, <2>5, <4>1, <4>2, <4>4
      <3>2. CASE \A r \in audience : r.campaign # c
        <4>1. Recipients(c)' = {[campaign |-> c, contact |-> i] : i \in open[q].chosen}
              BY <2>7, <3>2 DEF Recipients
        <4>2. IsFiniteSet(open[q].chosen)
              BY <2>5, FS_Subset DEF DraftsInv, ContactsShape, RowsShape
        <4> DEFINE X == open[q].chosen
        <4>3. Cardinality({[campaign |-> c, contact |-> i] : i \in X}) = Cardinality(X)
          <5> HIDE DEF X
          <5> QED BY <4>2, RecipientsCount DEF X
        <4>4. Cardinality(Recipients(c)') = Cardinality(X)
              BY <4>1, <4>3, Zenon
        <4> QED BY <3>1, <4>4
      <3> QED BY <2>4, <3>2
    <2> QED BY <1>3, <2>1, <2>2, <2>3, <2>8, <2>9
  <1>4. CASE ~(Chooses(q) /\ q.c = c)
    <2>1. c \in DOMAIN drafts /\ c \in Scheduled /\ drafts'[c].count = drafts[c].count
      <3>1. c \in DOMAIN drafts
            BY <1>0, <1>1, DraftsChange DEF Scheduled, NewDraft
      <3> QED BY <1>0, <1>1, <1>4, <3>1, DraftsChange DEF Scheduled
    <2>2. /\ c \in DOMAIN validated /\ validated[c] \in done /\ validated[c].op = "validate"
          /\ validated[c].c = c
          BY <1>0, <2>1 DEF ScheduledSound
    <2>3. c \in DOMAIN validated' /\ validated'[c] = validated[c]
      <3>1. CASE Chooses(q)
        <4>1. validated' = Over([x \in {q.c} |-> q], validated)
              BY <3>1 DEF Chooses, validate_campaign
        <4> QED BY <1>4, <2>2, <3>1, <4>1 DEF Over
      <3>2. CASE ~Chooses(q)
            BY <2>2, <3>2, DraftWrites DEF draftState, Creates, Edits, Files
      <3> QED BY <3>1, <3>2
    <2>4. ASSUME NEW e \in DOMAIN open', e.op = "editCampaign", e.c = c PROVE validated[c] \in over'[e]
      <3>1. CASE e = q
        <4>1. CASE q \in todo /\ EditRead(q)
          <5>1. q \notin DOMAIN open
                BY <1>0, <4>1 DEF RequestsAreOnce
          <5>2. drafts[c].status = "DRAFT"
                BY <2>4, <3>1, <4>1, <5>1 DEF EditRead, Refuse, Editable
          <5> QED BY <2>1, <5>2 DEF Scheduled
        <4>2. CASE q \in DOMAIN open /\ update_campaign(q)
          <5>1. Commit(q) \/ Fail(q)
                BY <4>2 DEF update_campaign
          <5> QED BY <1>0, <2>4, <3>1, <5>1, CommitMoves, FailMoves
        <4> QED BY <2>4, <3>1, <4>1, <4>2 DEF DraftRequest, PostCampaign, PatchCampaign, PostValidate, PostCategory,
                   PatchCategory, DeleteCategory
      <3>2. CASE e # q
            BY <1>0, <1>1, <2>1, <2>4, <3>2 DEF ScheduledSound
      <3> QED BY <3>1, <3>2
    <2>5. Recipients(c)' = Recipients(c)
          BY <1>4, AudienceChanges DEF Recipients
    <2>6. (ValidatedBefore(c) => ValidatedBefore(c)') /\ (EditedOver(c) => EditedOver(c)') /\ (Deleted => Deleted')
          BY <1>1, <2>3 DEF ValidatedBefore, EditedOver, Deleted
    <2>7. ASSUME NEW r \in Recipients(c)
          PROVE  InFilter(drafts[c].filter, r.contact)' \/ ValidatedBefore(c)' \/ EditedOver(c)'
      <3>1. InFilter(drafts[c].filter, r.contact) \/ ValidatedBefore(c) \/ EditedOver(c)
            BY <1>0, <2>1 DEF ScheduledSound
      <3>2. CASE drafts'[c].filter = drafts[c].filter
        <4>1. r.contact \in DOMAIN rows'
              BY <1>0, <1>2 DEF DraftsShape, Recipients
        <4> QED BY <1>2, <2>6, <3>1, <3>2, <4>1, FilterStays
      <3>3. CASE drafts'[c].filter # drafts[c].filter
        <4>1. Edits(q) /\ q.c = c
              BY <1>0, <1>1, <2>1, <3>3, DraftsChange
        <4>2. q \in done' /\ q \in DOMAIN over' /\ over'[q] = over[q] /\ q \in DOMAIN open /\ q.op = "editCampaign"
              BY <1>0, <4>1, CommitMoves DEF Edits, RequestsAreOnce
        <4>3. validated[c] \in over[q]
              BY <1>0, <2>1, <4>1, <4>2 DEF ScheduledSound
        <4>4. Overlapped(q, validated[c])'
              BY <2>3, <4>2, <4>3 DEF Overlapped
        <4> QED BY <4>1, <4>2, <4>4 DEF EditedOver
      <3> QED BY <3>2, <3>3
    <2>8. drafts'[c].count = Cardinality(Recipients(c)') \/ ValidatedBefore(c)' \/ Deleted'
          BY <1>0, <2>1, <2>5, <2>6 DEF ScheduledSound
    <2> QED BY <1>1, <2>2, <2>3, <2>4, <2>5, <2>7, <2>8
  <1> QED BY <1>3, <1>4

\* What others have checked stands, or they have been overtaken by q.
LEMMA OthersChecks ==
    ASSUME DraftsInv, NEW q, DraftRequest(q), NEW e \in DOMAIN open', e # q
    PROVE  /\ e.op = "createCampaign" => Exists(e.category)' \/ Overtaken(e, {"deleteCategory"})'
           /\ e.op = "editCampaign" =>
                 /\ e.c \in DOMAIN drafts'
                 /\ "category" \in DOMAIN e.patch => Exists(e.patch.category)' \/ Overtaken(e, {"deleteCategory"})'
           /\ e.op = "createCategory" => NamedSo(e.name)' = {} \/ Overtaken(e, {"createCategory", "renameCategory"})'
           /\ e.op = "renameCategory" =>
                 \/ e.category \in DOMAIN categories' /\ NamedSo(e.name)' \subseteq {e.category}
                 \/ Overtaken(e, {"createCategory", "renameCategory", "deleteCategory"})'
           /\ e.op = "deleteCategory" =>
                 \/ \A c \in DOMAIN drafts' : drafts'[c].category # e.category
                 \/ Overtaken(e, {"createCampaign", "editCampaign"})'
  <1>0. Moved(q) /\ Once(q) /\ RequestsAreOnce /\ DraftsShape /\ ChecksStand
        BY DraftsMove DEF DraftsInv, DraftOps, Once, ErrorsSound
  <1>1. /\ e \in DOMAIN open /\ over[e] \subseteq over'[e] /\ (q \in done' => q \in over'[e])
        /\ q \in Asked
        BY <1>0, MoveFacts
  <1>2. \A ops : Overtaken(e, ops) => Overtaken(e, ops)'
        BY <1>1 DEF Overtaken
  <1>3. ASSUME NEW ops, Commit(q), q.op \in ops PROVE Overtaken(e, ops)'
    <2>1. q \in done'
          BY <1>3 DEF Commit
    <2> QED BY <1>1, <1>3, <2>1 DEF Overtaken
  <1>4. ASSUME NEW k, Exists(k) PROVE Exists(k)' \/ Overtaken(e, {"deleteCategory"})'
    <2>1. CASE UNCHANGED categories
          BY <1>4, <2>1 DEF Exists
    <2>2. CASE Files(q) /\ q.op = "deleteCategory"
          BY <1>3, <2>2 DEF Files
    <2>3. CASE Files(q) /\ q.op # "deleteCategory"
      <3>1. DOMAIN categories \subseteq DOMAIN categories'
            BY <2>3 DEF Files, Added
      <3> QED BY <1>4, <3>1 DEF Exists
    <2>4. CASE Chooses(q)
          BY <2>1, <2>4 DEF Chooses, validate_campaign
    <2> QED BY <2>1, <2>2, <2>3, <2>4, DraftWrites DEF draftState, Creates, Edits
  <1>5. UNCHANGED categories \/ (Files(q) /\ Commit(q) /\ q.op \in {"createCategory", "renameCategory", "deleteCategory"})
    <2>1. CASE Chooses(q)
          BY <2>1 DEF Chooses, validate_campaign
    <2>2. CASE Files(q)
          BY <2>2 DEF Files
    <2> QED BY <2>1, <2>2, DraftWrites DEF draftState, Creates, Edits
  <1>6. ASSUME NEW name
        PROVE  NamedSo(name)' \subseteq NamedSo(name) \/ Overtaken(e, {"createCategory", "renameCategory"})'
    <2>1. CASE UNCHANGED categories
          BY <2>1 DEF NamedSo
    <2>2. CASE Files(q) /\ q.op = "deleteCategory"
      <3>1. categories' = Without(categories, {q.category})
            BY <2>2 DEF Files
      <3> QED BY <3>1 DEF Without, NamedSo
    <2> QED BY <1>3, <1>5, <2>1, <2>2
  <1>7. CASE e.op = "createCampaign"
        BY <1>0, <1>1, <1>2, <1>4, <1>7 DEF ChecksStand
  <1>8. CASE e.op = "editCampaign"
    <2>1. e.c \in DOMAIN drafts'
          BY <1>0, <1>1, <1>8, DraftsChange DEF ChecksStand
    <2> QED BY <1>0, <1>1, <1>2, <1>4, <1>8, <2>1 DEF ChecksStand
  <1>9. CASE e.op = "createCategory"
         BY <1>0, <1>1, <1>2, <1>6, <1>9 DEF ChecksStand
  <1>10. CASE e.op = "renameCategory"
    <2>1. CASE Overtaken(e, {"createCategory", "renameCategory", "deleteCategory"})
          BY <1>2, <1>10, <2>1
    <2>2. CASE UNCHANGED categories
          BY <1>0, <1>1, <1>2, <1>10, <2>2 DEF ChecksStand, NamedSo
    <2> QED BY <1>3, <1>5, <1>10, <2>1, <2>2
  <1>11. CASE e.op = "deleteCategory"
    <2>1. CASE Overtaken(e, {"createCampaign", "editCampaign"})
          BY <1>2, <1>11, <2>1
    <2>2. CASE Creates(q) \/ Edits(q)
          BY <1>3, <1>11, <2>2 DEF Creates, Edits
    <2>3. CASE ~(Creates(q) \/ Edits(q)) /\ \A c \in DOMAIN drafts : drafts[c].category # e.category
      <3>1. \A c \in DOMAIN drafts' : c \in DOMAIN drafts /\ drafts'[c].category = drafts[c].category
            BY <1>0, <1>1, <2>3, DraftsChange
      <3> QED BY <1>11, <2>3, <3>1
    <2> QED BY <1>0, <1>1, <1>11, <2>1, <2>2, <2>3 DEF ChecksStand
  <1> QED BY <1>7, <1>8, <1>9, <1>10, <1>11

\* q goes on only with what it has checked.
LEMMA OwnChecks ==
    ASSUME DraftsInv, NEW q, DraftRequest(q), q \in DOMAIN open'
    PROVE  /\ UNCHANGED draftState
           /\ q.op = "createCampaign" => Exists(q.category)
           /\ q.op = "editCampaign" =>
                 /\ q.c \in DOMAIN drafts
                 /\ "category" \in DOMAIN q.patch => Exists(q.patch.category)
           /\ q.op = "createCategory" => NamedSo(q.name) = {}
           /\ q.op = "renameCategory" => q.category \in DOMAIN categories /\ NamedSo(q.name) = {}
           /\ q.op = "deleteCategory" => \A c \in DOMAIN drafts : drafts[c].category # q.category
  <1>0. Moved(q) /\ Once(q) /\ RequestsAreOnce /\ DraftsShape
        BY DraftsMove DEF DraftsInv, DraftOps, Once
  <1>1. UNCHANGED draftState
    <2>1. Commit(q) => FALSE
          BY <1>0, CommitMoves
    <2> QED BY <2>1, DraftWrites DEF Creates, Edits, Chooses, Files
  <1>2. ~Refuse(q) \/ q \notin todo \/ q \in DOMAIN open
        BY DEF Refuse
  <1>3. q \in todo => q \notin DOMAIN open
        BY <1>0 DEF RequestsAreOnce
  <1>4. q.op # "validate" => q \notin DOMAIN open
    <2>1. (Commit(q) => FALSE) /\ (Fail(q) => FALSE)
          BY <1>0, CommitMoves, FailMoves
    <2>2. ASSUME q \in DOMAIN open, q.op # "validate"
          PROVE  \/ create_campaign(q) \/ update_campaign(q) \/ create_category(q) \/ update_category(q)
                 \/ delete_category(q)
          BY <1>3, <2>2 DEF DraftRequest, PostCampaign, PatchCampaign, PostValidate, PostCategory, PatchCategory, DeleteCategory
    <2> QED BY <2>1, <2>2 DEF create_campaign, update_campaign, create_category, update_category, delete_category
  <1>5. CASE q.op = "deleteCategory"
    <2>1. q \in todo /\ ~(count_campaign_links(q.category) > 0)
          BY <1>2, <1>3, <1>4, <1>5 DEF DraftRequest, PostCampaign, PatchCampaign, PostValidate, PostCategory, PatchCategory,
             DeleteCategory, DeleteCategoryRead
    <2> DEFINE users_ == {c \in DOMAIN drafts : drafts[c].category = q.category}
    <2>2. IsFiniteSet(users_) /\ Cardinality(users_) \in Nat /\ ~(Cardinality(users_) > 0)
      <3>1. IsFiniteSet(users_)
            BY <1>0, FS_Subset DEF DraftsShape
      <3> HIDE DEF users_
      <3>2. Cardinality(users_) \in Nat
            BY <3>1, FS_CardinalityType
      <3> QED BY <2>1, <3>1, <3>2 DEF count_campaign_links, users_
    <2>3. users_ = {}
      <3> HIDE DEF users_
      <3> QED BY <2>2, FS_EmptySet
    <2> QED BY <1>1, <1>5, <2>3
  <1>6. CASE q.op \in {"createCampaign", "editCampaign", "createCategory", "renameCategory"}
        BY <1>1, <1>2, <1>3, <1>4, <1>6 DEF DraftRequest, PostCampaign, PatchCampaign, PostValidate, PostCategory,
           PatchCategory, DeleteCategory, CreateCampaignRead, EditRead, Editable, CreateCategoryRead, RenameCategoryRead
  <1>7. CASE q.op = "validate"
        BY <1>1, <1>7
  <1> QED BY <1>0, <1>5, <1>6, <1>7 DEF DraftRequest, PostCampaign, PatchCampaign, PostValidate, PostCategory,
      PatchCategory, DeleteCategory

\* What a request is ended by: what it had checked no longer holds.
LEMMA FailedFor ==
    ASSUME DraftsInv, NEW q, DraftRequest(q), q \in failed' \ failed
    PROVE  /\ q \in DOMAIN open /\ UNCHANGED over
           /\ q.op \in {"createCategory", "renameCategory"} =>
                 \E p \in over[q] : p.op \in {"createCategory", "renameCategory", "deleteCategory"}
           /\ q.op = "deleteCategory" => \E p \in over[q] : p.op \in {"createCampaign", "editCampaign"}
           /\ q.op \in {"createCampaign", "editCampaign"} =>
                 \/ \E p \in over[q] : p.op = "deleteCategory"
                 \/ q.op = "createCampaign" /\ LateTemplate(q)
           /\ q.op = "validate" => \E p \in over[q] : p.op = "delete"
  <1>0. RequestsAreOnce /\ ChecksStand /\ HoldsSound
        BY DEF DraftsInv, ErrorsSound
  <1>1. \/ q.op = "createCampaign" /\ create_campaign(q)
        \/ q.op = "editCampaign" /\ update_campaign(q)
        \/ q.op = "validate" /\ validate_campaign(q)
        \/ q.op = "createCategory" /\ create_category(q)
        \/ q.op = "renameCategory" /\ update_category(q)
        \/ q.op = "deleteCategory" /\ delete_category(q)
    <2>1. \A r : ~Begin(q, r) /\ ~Proceed(q, r)
          BY DEF Begin, Proceed
    <2>2. ~Refuse(q)
          BY DEF Refuse
    <2> QED BY <2>1, <2>2 DEF DraftRequest, PostCampaign, PatchCampaign, PostValidate, PostCategory, PatchCategory,
               DeleteCategory, CreateCampaignRead, EditRead, ValidateRead, ValidateHold, CreateCategoryRead,
               RenameCategoryRead, DeleteCategoryRead
  <1>2. ~Commit(q)
        BY DEF Commit
  <1>3. Fail(q)
        BY <1>1, <1>2 DEF create_campaign, update_campaign, validate_campaign, create_category, update_category, delete_category
  <1>4. q \in DOMAIN open /\ UNCHANGED over
        BY <1>3 DEF Fail
  <1>5. CASE q.op = "createCampaign"
        BY <1>0, <1>1, <1>2, <1>4, <1>5 DEF create_campaign, ChecksStand, Overtaken, LateTemplate
  <1>6. CASE q.op = "editCampaign"
        BY <1>0, <1>1, <1>2, <1>4, <1>6 DEF update_campaign, ChecksStand, Overtaken
  <1>7. CASE q.op = "validate"
    <2>1. open[q].pc = "hold" /\ ~(open[q].chosen \subseteq DOMAIN rows)
          BY <1>1, <1>2, <1>7 DEF validate_campaign
    <2> QED BY <1>0, <1>4, <1>7, <2>1 DEF HoldsSound
  <1>8. CASE q.op = "createCategory"
        BY <1>0, <1>1, <1>2, <1>4, <1>8 DEF create_category, ChecksStand, Overtaken
  <1>9. CASE q.op = "renameCategory"
        BY <1>0, <1>1, <1>2, <1>4, <1>9 DEF update_category, ChecksStand, Overtaken
  <1>10. CASE q.op = "deleteCategory"
         BY <1>0, <1>1, <1>2, <1>4, <1>10 DEF delete_category, ChecksStand, Overtaken
  <1> QED BY <1>1, <1>4, <1>5, <1>6, <1>7, <1>8, <1>9, <1>10

LEMMA ErrorsStep ==
    ASSUME DraftsInv, NEW q, DraftRequest(q)
    PROVE  ErrorsSound'
  <1>0. Moved(q) /\ Once(q) /\ RequestsAreOnce /\ ErrorsSound
        BY DraftsMove DEF DraftsInv, DraftOps, Once
  <1>1. /\ \A p \in DOMAIN over : over[p] \subseteq over'[p]
        /\ DOMAIN over \subseteq DOMAIN over' /\ done \subseteq done'
        BY <1>0, MoveFacts
  <1>2. ChecksStand'
    <2> SUFFICES ASSUME NEW e \in DOMAIN open'
                 PROVE  /\ e.op = "createCampaign" => Exists(e.category)' \/ Overtaken(e, {"deleteCategory"})'
                        /\ e.op = "editCampaign" =>
                              /\ e.c \in DOMAIN drafts'
                              /\ "category" \in DOMAIN e.patch => Exists(e.patch.category)' \/ Overtaken(e, {"deleteCategory"})'
                        /\ e.op = "createCategory" => NamedSo(e.name)' = {} \/ Overtaken(e, {"createCategory", "renameCategory"})'
                        /\ e.op = "renameCategory" =>
                              \/ e.category \in DOMAIN categories' /\ NamedSo(e.name)' \subseteq {e.category}
                              \/ Overtaken(e, {"createCategory", "renameCategory", "deleteCategory"})'
                        /\ e.op = "deleteCategory" =>
                              \/ \A c \in DOMAIN drafts' : drafts'[c].category # e.category
                              \/ Overtaken(e, {"createCampaign", "editCampaign"})'
        BY DEF ChecksStand
    <2>1. CASE e # q
          BY <2>1, OthersChecks
    <2>2. CASE e = q
          BY <2>2, OwnChecks DEF draftState, Exists, NamedSo
    <2> QED BY <2>1, <2>2
  <1>3. DraftFailuresKnown'
    <2>1. failed' \subseteq failed \union {q}
          BY <1>0 DEF Moved
    <2>2. q \in failed' \ failed => q \in DOMAIN over
          BY <1>0, FailedFor DEF RequestsAreOnce
    <2> QED BY <1>0, <1>1, <2>1, <2>2 DEF ErrorsSound, DraftFailuresKnown
  <1>4. DraftErrorsHaveCause'
    <2> SUFFICES ASSUME NEW e \in failed', e.op \in DraftOps
                 PROVE  /\ e.op \in {"createCategory", "renameCategory"} =>
                              \E p \in over'[e] : p.op \in {"createCategory", "renameCategory", "deleteCategory"}
                        /\ e.op = "deleteCategory" => \E p \in over'[e] : p.op \in {"createCampaign", "editCampaign"}
                        /\ e.op \in {"createCampaign", "editCampaign"} =>
                              \/ \E p \in over'[e] : p.op = "deleteCategory"
                              \/ e.op = "createCampaign" /\ LateTemplate(e)'
                        /\ e.op = "validate" => \E p \in over'[e] : p.op = "delete"
        BY DEF DraftErrorsHaveCause, DraftOps
    <2>0. LateTemplate(e) => LateTemplate(e)'
      <3>1. TemplatesCome
            BY <1>1, DraftsSettle DEF TemplatesCome
      <3> QED BY <1>1, <3>1, LateStays
    <2>1. CASE e \in failed
          BY <1>0, <1>1, <2>0, <2>1 DEF ErrorsSound, DraftErrorsHaveCause, DraftFailuresKnown
    <2>2. CASE e \notin failed
      <3>1. e = q
            BY <1>0, <2>2 DEF Moved
      <3> QED BY <2>0, <2>2, <3>1, FailedFor
    <2> QED BY <2>1, <2>2
  <1> QED BY <1>2, <1>3, <1>4 DEF ErrorsSound

-----------------------------------------------------------------------------
(* Campaigns, step by step *)

\* Links are taken away by those who say so.
LEMMA TagsKeepLinks ==
    ASSUME RequestsAreOnce, NEW q, TagRequest(q)
    PROVE  LinksKept
  <1>1. CASE links \subseteq links'
        BY <1>1 DEF LinksKept
  <1>2. CASE DeleteContactTag(q)
    <2>1. q \in done' /\ q.op = "remove" /\ links' = links \ {Link(q.id, q.tag)}
          BY <1>2, AtOnceMoves DEF DeleteContactTag, remove_tag
    <2> QED BY <2>1 DEF LinksKept, Touched, Link
  <1>3. CASE q.op = "deleteTag" /\ delete_tag(q)
    <2>1. q \in done'
          BY <1>3 DEF delete_tag, Commit
    <2> QED BY <1>3, <2>1 DEF LinksKept, Touched
  <1>4. \/ links \subseteq links' \/ DeleteContactTag(q) \/ (q.op = "deleteTag" /\ delete_tag(q))
        BY DEF TagRequest, SuggestTag, AutoApplyTag, PostApproval, PostRejection, PostContactTag, PostTag, PatchTag,
           DeleteTag, TagRead, create_suggestion_sync, _apply_opt_out_tag_sync, _review, approve, reject, attach,
           ApplyRead, apply_tag, CreateTagRead, create_tag, RenameRead, update_tag, DeleteTagRead, tagState
  <1> QED BY <1>1, <1>2, <1>3, <1>4

LEMMA ConsoleBringsTemplates ==
    ASSUME RequestsAreOnce, NEW q, ConsoleRequest(q)
    PROVE  TemplatesCome
  <1>1. CASE DOMAIN local' \subseteq DOMAIN local
        BY <1>1 DEF TemplatesCome
  <1>2. CASE q.op = "submit" /\ submit_template(q)
    <2>1. UNCHANGED local \/ (Commit(q) /\ SetLocal(q.name, [meta |-> open[q].meta, status |-> "pending"]))
          BY <1>2 DEF submit_template
    <2>2. CASE Commit(q) /\ SetLocal(q.name, [meta |-> open[q].meta, status |-> "pending"])
      <3>1. q \in done' /\ DOMAIN local' = DOMAIN local \union {q.name}
            BY <2>2 DEF Commit, SetLocal, Over
      <3> QED BY <1>2, <3>1 DEF TemplatesCome
    <2> QED BY <1>1, <2>1, <2>2
  <1>3. CASE q.op = "importTemplates" /\ import_from_meta(q)
    <2>1. q \in done' \/ UNCHANGED local
          BY <1>3 DEF import_from_meta, Commit
    <2> QED BY <1>1, <1>3, <2>1 DEF TemplatesCome
  <1>4. \/ DOMAIN local' \subseteq DOMAIN local \/ (q.op = "submit" /\ submit_template(q))
        \/ (q.op = "importTemplates" /\ import_from_meta(q))
    <2>1. CASE PutSettings(q) /\ UNCHANGED templateState
          BY <2>1 DEF templateState
    <2>2. CASE PostTemplate(q)
          BY <2>2 DEF PostTemplate, SubmitRead, SubmitFails, submit_message_template, SubmitDies, templateState
    <2>3. CASE PostSync(q)
      <3>1. UNCHANGED local \/ \E s : local' = [local EXCEPT ![q.name].status = s]
            BY <2>3 DEF PostSync, SyncRead, SyncAnswer, sync_status_from_meta, templateState
      <3> QED BY <3>1
    <2>4. CASE PostImportFromMeta(q)
          BY <2>4 DEF PostImportFromMeta, ImportRead_, templateState
    <2> QED BY <2>1, <2>2, <2>3, <2>4 DEF ConsoleRequest
  <1> QED BY <1>1, <1>2, <1>3, <1>4

\* Nobody deletes contacts, or changes a campaign.
LEMMA DraftsStay ==
    ASSUME DraftsInv, RequestsAreOnce', Aside(DraftOps), ContactsShape', RowsKept, LinksKept, TemplatesCome,
           UNCHANGED draftState
    PROVE  DraftsInv'
  <1>1. done \subseteq done'
        BY DEF Aside, Idle, Moved
  <1>2. RowsStand /\ NoneReturns /\ DOMAIN rows \subseteq DOMAIN rows'
        BY DEF RowsKept, RowsStand
  <1>3. Settled /\ DeletedSeen
        BY <1>1, <1>2, FiltersSettle DEF DeletedSeen
  <1>4. audience' = {r \in audience : r.contact \in DOMAIN rows'}
        BY <1>2 DEF draftState, DraftsInv, DraftsShape
  <1> QED BY <1>2, <1>3, <1>4, DraftsLeftAlone DEF draftState

LEMMA DeletionKeepsDrafts ==
    ASSUME DraftsInv, NEW q, DeleteContacts(q), UNCHANGED consoleState
    PROVE  DraftsInv'
  <1>0. Moved(q) /\ q.op = "delete" /\ RequestsAreOnce /\ RequestsAreOnce'
        BY DeletionMoves DEF DraftsInv, Moved
  <1>1. Once(q) /\ Aside(DraftOps) /\ done \subseteq done' /\ TemplatesCome
        BY <1>0 DEF Once, Aside, DraftOps, Moved, TemplatesCome, consoleState, templateState
  <1>2. CASE q \in todo /\ DeleteRead(q) /\ UNCHANGED <<memoryState, tagState, threadState, analyticsState, draftState>>
    <2>1. UNCHANGED <<rows, ids, links>>
          BY <1>2 DEF DeleteRead, contactState, tagState
    <2>2. RowsKept /\ LinksKept
          BY <2>1, KeptAsTheyAre DEF DraftsInv, LinksKept
    <2>3. ContactsShape'
          BY <1>0, <1>1, <2>2, ShapeKept DEF DraftsInv, RowsKept
    <2> QED BY <1>0, <1>1, <1>2, <2>2, <2>3, DraftsStay
  <1>3. CASE q \in DOMAIN open /\ bulk_delete(q) /\ TagsWithout(open[q]) /\ DraftsWithout(open[q])
    <2>1. /\ DOMAIN rows' = DOMAIN rows \ open[q] /\ \A i \in DOMAIN rows' : rows'[i] = rows[i]
          /\ ids' = ids
          BY <1>3 DEF bulk_delete, Without
    <2>2. RowsShape' /\ NoneReturns /\ RowsStand
      <3>1. IsFiniteSet(DOMAIN rows')
            BY <2>1, FS_Subset DEF DraftsInv, ContactsShape, RowsShape
      <3> QED BY <2>1, <3>1 DEF DraftsInv, ContactsShape, RowsShape, NoneReturns, RowsStand
    <2>3. LinksKept
          BY <1>3, <2>1 DEF TagsWithout, LinksKept
    <2>4. Settled
          BY <1>1, <2>2, <2>3, FiltersSettle
    <2>5. ContactsShape'
          BY <1>0, <1>1, <2>2, ShapeKept DEF DraftsInv
    <2>6. DeletedSeen
      <3>1. q \in done' /\ \A v \in DOMAIN open' : q \in over'[v]
            BY <1>0, <1>3, CommitMoves DEF bulk_delete
      <3> QED BY <1>0, <3>1 DEF DeletedSeen
    <2>7. audience' = {r \in audience : r.contact \in DOMAIN rows'} /\ UNCHANGED <<drafts, categories, validated>>
          BY <1>3, <2>1 DEF DraftsWithout, DraftsInv, DraftsShape
    <2> QED BY <1>0, <1>1, <2>2, <2>4, <2>5, <2>6, <2>7, DraftsLeftAlone
  <1> QED BY <1>2, <1>3 DEF DeleteContacts

LEMMA DraftsStep ==
    ASSUME DraftsInv, [Next]_vars
    PROVE  DraftsInv'
  <1>0. RequestsAreOnce /\ RequestsAreOnce' /\ ContactsShape
        BY OnceKept DEF DraftsInv
  <1>1. ASSUME UNCHANGED <<rows, ids, links, local>>
        PROVE  RowsKept /\ LinksKept /\ TemplatesCome
    <2>1. RowsKept
          BY <1>0, <1>1, KeptAsTheyAre
    <2> QED BY <1>1, <2>1 DEF LinksKept, TemplatesCome
  <1>2. ASSUME RowsKept, Idle PROVE ContactsShape'
        BY <1>0, <1>2, ShapeKept DEF RowsKept
  <1>3. ASSUME NEW q, Work(q) PROVE DraftsInv'
    <2>1. CASE ContactRequest(q) /\ UNCHANGED <<tagState, contactsAside>>
      <3>1. Moved(q) /\ Once(q) /\ Aside(DraftOps)
            BY <1>0, <2>1, ContactsMove DEF ContactOps, DraftOps, Once, Aside
      <3>2. RowsKept
            BY <1>0, <2>1, ContactsKeep
      <3>3. ContactsShape'
            BY <1>0, <2>1, <3>1, <3>2, ShapeKept, PatchRead DEF RowsKept
      <3>4. LinksKept /\ TemplatesCome /\ UNCHANGED draftState
            BY <2>1 DEF LinksKept, TemplatesCome, tagState, contactsAside, consoleState, templateState
      <3> QED BY <1>0, <3>1, <3>2, <3>3, <3>4, DraftsStay
    <2>2. CASE DeleteContacts(q) /\ UNCHANGED consoleState
          BY <2>2, DeletionKeepsDrafts
    <2>3. CASE TagRequest(q) /\ UNCHANGED contactsAside
      <3>1. Moved(q) /\ Once(q) /\ Aside(DraftOps) /\ q.op # "patch"
            BY <1>0, <2>3, TagsMove DEF TagOps, DraftOps, Once, Aside
      <3>2. UNCHANGED <<rows, ids, local, draftState>>
            BY <2>3 DEF TagRequest, contactState, contactsAside, consoleState, templateState
      <3>3. RowsKept /\ LinksKept /\ TemplatesCome
            BY <1>0, <2>3, <3>2, KeptAsTheyAre, TagsKeepLinks DEF TemplatesCome
      <3>4. ContactsShape'
            BY <1>0, <3>1, <3>3, ShapeKept DEF RowsKept
      <3> QED BY <1>0, <3>1, <3>2, <3>3, <3>4, DraftsStay
    <2>4. CASE /\ MemoryRequest(q) \/ ThreadRequest(q) \/ AnalyticsRequest(q) \/ AccountRequest(q) \/ SearchRequest(q)
               /\ UNCHANGED <<contactState, tagState, templateState, draftState>>
      <3>1. Moved(q) /\ q.op \notin DraftOps /\ q.op # "patch"
            BY <1>0, <2>4, MemoryMoves, ThreadsMove, AnalyticsMoves, AccountsMove, SearchMoves
               DEF MemoryOps, ThreadOps, AnalyticsOps, AccountOps, SearchOps, DraftOps
      <3>2. UNCHANGED <<rows, ids, links, local>>
            BY <2>4 DEF contactState, tagState, templateState
      <3>3. RowsKept /\ LinksKept /\ TemplatesCome
            BY <1>1, <3>2
      <3>4. ContactsShape'
        <4>1. \A p \in Asked' : p \in Asked
              BY <3>1 DEF Moved, Asked
        <4>2. \A p \in DOMAIN open' : p.op = "patch" => p \in DOMAIN open /\ open'[p] = open[p]
              BY <3>1 DEF Moved
        <4> QED BY <1>0, <3>3, <4>1, <4>2 DEF ContactsShape, RowsKept
      <3> QED BY <1>0, <2>4, <3>1, <3>3, <3>4, DraftsStay DEF Aside
    <2>5. CASE ConsoleRequest(q) /\ UNCHANGED <<contactState, tagState, draftState>>
      <3>1. Moved(q) /\ Once(q) /\ Aside(DraftOps) /\ q.op # "patch"
            BY <1>0, <2>5, ConsoleMoves DEF ConsoleOps, DraftOps, Once, Aside
      <3>2. RowsKept /\ LinksKept /\ TemplatesCome
            BY <1>0, <2>5, KeptAsTheyAre, ConsoleBringsTemplates DEF LinksKept, contactState, tagState
      <3>3. ContactsShape'
            BY <1>0, <3>1, <3>2, ShapeKept DEF RowsKept
      <3> QED BY <1>0, <2>5, <3>1, <3>2, <3>3, DraftsStay
    <2>6. CASE DraftRequest(q)
      <3>1. ContactsShape' /\ DraftsShape' /\ HoldsSound' /\ ScheduledSound' /\ ErrorsSound'
            BY <2>6, DraftsShapeStep, HoldsStep, ScheduledStep, ErrorsStep
      <3> QED BY <1>0, <3>1 DEF DraftsInv
    <2> QED BY <1>3, <2>1, <2>2, <2>3, <2>4, <2>5, <2>6
            DEF Work, contactsAside, consoleState, MemoryRequest, ThreadRequest, AnalyticsRequest
  <1>4. CASE Sweep
    <2>1. Idle /\ RowsKept
          BY <1>0, <1>4, OthersAreIdle, SweepKeeps DEF Sweep
    <2>2. LinksKept /\ TemplatesCome /\ UNCHANGED draftState
          BY <1>4 DEF Sweep, Besides, LinksKept, TemplatesCome, tagState, contactsAside, consoleState, templateState
    <2> QED BY <1>0, <1>2, <2>1, <2>2, DraftsStay DEF Aside
  <1>5. CASE MetaDecides
    <2>1. Idle
          BY <1>0, <1>5, OthersAreIdle
    <2>2. UNCHANGED <<rows, ids, links, local, draftState>>
          BY <1>5 DEF MetaDecides, Verdict, contactState, tagState
    <2> QED BY <1>0, <1>1, <1>2, <2>1, <2>2, DraftsStay DEF Aside
  <1>6. CASE Time \/ HandsOver \/ UNCHANGED vars
    <2>1. Idle
          BY <1>0, <1>6, OthersAreIdle
    <2>2. UNCHANGED <<rows, ids, links, local, draftState>>
          BY <1>6 DEF Time, Tick, HandsOver, Besides, vars, contactState, tagState, contactsAside, consoleState, templateState
    <2> QED BY <1>0, <1>1, <1>2, <2>1, <2>2, DraftsStay DEF Aside
  <1> QED BY <1>3, <1>4, <1>5, <1>6 DEF Next

LEMMA DraftsInit == Init => DraftsInv
  <1> SUFFICES ASSUME Init PROVE DraftsInv
      OBVIOUS
  <1> PICK s \in Scenarios : todo = s.requests /\ rows = s.contacts /\ InitDrafts(s.drafts, s.categories)
      BY DEF Init
  <1>1. open = <<>> /\ over = <<>> /\ done = {} /\ failed = {} /\ audience = {} /\ drafts = s.drafts
        BY DEF Init, InitRequests, InitDrafts
  <1>2. DOMAIN open = {} /\ DOMAIN over = {}
        BY <1>1
  <1>3. ContactsShape
    <2>1. IsFiniteSet(DOMAIN rows) /\ ids = Cardinality(DOMAIN rows) /\ DOMAIN rows = 1..Cardinality(DOMAIN rows)
          BY ScenariosAssumption DEF Init, InitContacts
    <2>2. \A i \in DOMAIN rows : {"status", "agent"} \subseteq DOMAIN rows[i]
          BY ScenariosAssumption DEF Contact
    <2>3. \A q \in Asked : q.op = "import" => IsFiniteSet(q.rows)
          BY <1>1, <1>2, ScenariosAssumption DEF Asked
    <2>4. ids \in Nat
          BY <2>1, FS_CardinalityType
    <2> QED BY <1>2, <2>1, <2>2, <2>3, <2>4 DEF ContactsShape, RowsShape
  <1>4. \A c \in DOMAIN drafts : drafts[c] = NewDraft(drafts[c].template, drafts[c].filter, drafts[c].category)
        BY <1>1, ScenariosAssumption
  <1>5. DraftsShape
    <2>1. \A q \in Asked : DraftWellFormed(q)
          BY <1>1, <1>2, ScenariosAssumption DEF Asked
    <2>2. \A c \in DOMAIN drafts : DOMAIN drafts[c] = {"template", "filter", "category", "status", "count"}
          BY <1>4 DEF NewDraft
    <2> QED BY <1>1, <2>1, <2>2, ScenariosAssumption DEF DraftsShape
  <1>6. HoldsSound /\ ErrorsSound
        BY <1>1, <1>2 DEF HoldsSound, ErrorsSound, ChecksStand, DraftFailuresKnown, DraftErrorsHaveCause
  <1>7. ScheduledSound
    <2>1. \A c \in DOMAIN drafts : drafts[c].status = "DRAFT"
          BY <1>4 DEF NewDraft
    <2> QED BY <2>1 DEF ScheduledSound, Scheduled
  <1> QED BY <1>3, <1>5, <1>6, <1>7, OnceInit DEF DraftsInv

\* A campaign goes out to as many as its last validation has counted, all of them
\* selected by its filter, or changed since, or chosen by a validation before that or
\* for a filter that an edit has overtaken; and a request about campaigns and
\* categories fails only because of another (CampaignService.validate_campaign,
\* update_campaign, CampaignCategoryService).
THEOREM DraftSoundness == Spec => []DraftsAreSound
  <1>1. DraftsInv /\ [Next]_vars => DraftsInv'
        BY DraftsStep
  <1>2. ASSUME DraftsInv PROVE DraftsAreSound
    <2>1. SentAsCounted
          BY <1>2 DEF DraftsInv, ScheduledSound, SentAsCounted, Deleted
    <2>2. AudienceIsFiltered
      <3> SUFFICES ASSUME NEW c \in Scheduled, NEW r \in Recipients(c)
                   PROVE  \/ r.contact \in select_audience_contact_ids(drafts[c].filter)
                          \/ ValidatedBefore(c) \/ rows[r.contact].status = "follow_up"
                          \/ \E q \in done : \/ q.op = "patch" /\ r.contact \in q.ids
                                             \/ q.op \in {"remove", "send"} /\ q.id = r.contact
                                             \/ q.op = "deleteTag"
                                             \/ q.op = "editCampaign" /\ q.c = c /\ Overlapped(q, validated[c])
          BY DEF AudienceIsFiltered
      <3>1. InFilter(drafts[c].filter, r.contact) \/ ValidatedBefore(c) \/ EditedOver(c)
            BY <1>2 DEF DraftsInv, ScheduledSound
      <3> QED BY <3>1 DEF InFilter, Touched, EditedOver
    <2> QED BY <1>2, <2>1, <2>2 DEF DraftsInv, ErrorsSound, DraftsAreSound
  <1> QED BY <1>1, <1>2, DraftsInit, PTL DEF Spec
=============================================================================
