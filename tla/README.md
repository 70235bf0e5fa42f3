# A verification project for Engage-OS

Engage-OS is a WhatsApp-based engagement platform with an ERP and a market listener beside it: a
FastAPI application and Celery workers over PostgreSQL and Redis (`src/backend`), and a Next.js
dashboard (`src/frontend`). This directory models the backend: what humans, an AI, Meta's webhooks,
schedulers and the task queue do to the same rows at the same time. It holds TLA+ modules, the TLC
configurations that check them on small instances, and TLAPS proofs for every instance.

Paths below are relative to `src/backend/app/`, unless they start with `src/` or `docs/`
(`src/docs/`).

- [1. The system](#1-the-system)
- [2. How the code is modelled](#2-how-the-code-is-modelled)
- [3. Modules](#3-modules)
- [4. Runs, bounds and fairness](#4-runs-bounds-and-fairness)
- [5. Proofs](#5-proofs)
- [6. Where the code and its comments disagree](#6-where-the-code-and-its-comments-disagree)
- [7. What is not modelled](#7-what-is-not-modelled)
- [8. Plan](#8-plan)

## 1. The system

| component | state it keeps | operations | what is hard | what makes it correct |
|---|---|---|---|---|
| **Conversation state and locks** (`modules/conversations`, `modules/assignments`) | `state`, `ai_enabled`, `locked_by`, `lock_expires_at` of a row; audit rows | pause, resume, assign, approve, reject, close, force_transition, bulk_update; acquire, renew and release the lock; the lock reaper | reads without a lock, optimistic UPDATEs, a lock with an expiry, an override | only legal arcs; no decision overwritten; the AI never overrides a human; the lock is a lease; audit rows are true |
| **Outbound delivery** (`modules/messaging/tasks.py`, `integrations/meta`) | `delivery_status`, `meta_message_id`, `delivery_retry_count`; the keys `dedup:status:`; tasks in the broker | send, retry, apply a status callback, schedule a reset, reset and send again | late acknowledgement and redelivery, answers lost, callbacks reordered and repeated, delayed tasks | sent as often as there is a reason for; never abandoned; the status advances; a set dedup key means applied |
| **AI replies** (`modules/ai`, approval in `modules/conversations`) | Redis key `ai:lock:conv:`, drafts, delayed `send_ai_reply_task`s, `ai_enabled` | request_ai_reply, the decision (escalate, ask for approval, auto-send, nothing), approve, reject, delayed dispatch, hand-back | a call of a model between read and write; a lock with a TTL; crashes that leave the key; a verdict about a reply that changes | one run at a time; nothing sent without a verdict where one is due; rejected replies stay unsent; requests end |
| **Client memory** (`modules/contacts/memory_service.py`) | a file per contact, its version in `client_memories` | update by the orchestrator and by the task that resumes the AI | a file that is truncated, written and only then committed; two writers | no turn is forgotten unless somebody overtook it; a torn file is an empty one |
| **Inbound messages** (webhook half of `modules/messaging`) | contact row, conversations of the contact, messages, the keys `dedup:inbound:` | receive the webhook, store its messages, opt the contact out, ask the AI, set the key | several transactions per message, retries of the whole payload, redelivery, row locks, `start_conversation` beside it | one AI request per message; the key means done; one open conversation; every accepted message stored |
| **Messaging API** (`modules/messaging/router.py`, `service.py`, `modules/media`) | conversations, messages, read marks, media rows, the disks of the API and of the workers | start a conversation, send, forward, delete for me and for everyone, upload, serve, list | the clock of the customer's phone orders the inbox; a file that only one of two disks has | a mark of unread is wrong of what came in meanwhile only; every page of the inbox; a file goes out as a file; what is deleted is asked of Meta |
| **Campaigns** (`modules/campaigns`) | campaign status, counters, recipients; Redis locks | create, edit, validate, launch, tick, fan-out in batches, completion poll, cancel, retry | batches, the tick and the cancellation race for one status; paging over a set that shrinks; locks with a TTL; tasks deferred for hours | few messages per recipient, each with a cause; a cancelled campaign stays so; every dispatched campaign ends; who is counted is sent to |
| **Engagement cadence** (`modules/engagement`) | `outreach_state` of conversations | sweep, delayed follow-up, replies, opt-outs, takeovers, failed sends | four writers of one column without guards; a countdown longer than the visibility timeout | few follow-ups; none after a stop that was seen; a silent contact is attended to |
| **Contacts** (`modules/contacts`) | contact rows, pipeline status, information | create, upsert, patch, import, delete, the pipeline sweep, what sends and replies do to the status | ORM updates of single columns over rows that have changed; a sweep beside replies | one owner; notes and verdicts kept; a reply is not swept; the silent are followed up |
| **Tags** (`modules/categorization`, `modules/contacts`) | tags, contact_tags, suggestions | suggest, accept, reject, attach, detach, create, rename, delete | check, then unguarded update | a verdict is final; a tag is there for a reason |
| **Authentication and users** (`modules/auth`, `modules/users`) | users, refresh tokens, sections | login, refresh, logout, role, deactivation, sections | checks of other rows than those written | an admin remains; a session ends with its user; a token has one successor |
| **Settings and templates** (`modules/settings`, `modules/templates`) | key-value rows, audit rows, templates here and at Meta | set, delete; submit, sync, import | an effect at Meta before the commit here | the trail explains the settings; what is approved Meta has approved |
| **General ledger** (`modules/ledger`) | journal entries, lines, periods, number sequences | post, reverse, open and close a period; the bridge from other modules | two reversals, a period closed under a posting, numbering | debit equals credit; no gap or duplicate number; nothing posted late but by stragglers |
| **Inventory** (`modules/inventory`) | balances, serialized units, stock ledger | receive, transfer, adjust, dispatch, reconcile | a stale balance written as an absolute value | a unit moves once; what parts balance, stock ledger and general ledger has a name |
| **Procurement and payables** | orders, goods receipts, bills, payments, allocations, debit notes | draft, confirm, match, pay, allocate, void | a confirmation that runs twice | a document takes effect once per confirmation that saw it open; control accounts tie |
| **Fulfilment and receivables** | orders, dispatches, invoices, payments, allocations | confirm, dispatch, invoice, allocate, void, the overdue sweep | checks on a stale sum; events whose handler may fail | paid is covered; ageing adds up as far as its listing goes |
| **ERP reporting** (`modules/erp_reporting`) | - | trial balance, profit and loss, balance sheet, of the API and of a task | two implementations of each | they say the same where they should |
| **Market intelligence** (`modules/market`) | raw messages, fingerprints in Redis, contact counts, vocabulary | ingest, batch, classify, review, expire, list, search, edit the vocabulary | a key before the commit; a batch on one session; paging over rows that change | one row per post and window; counts once; verdicts of reviewers stand; pages show all |
| **Analytics** (`modules/analytics`) | four rollup tables, campaign counters | nightly run, backfill, reports | "yesterday" of a late run; older snapshots over newer ones | tables and reports tell of the same messages; every day is computed |
| **Audit trail** (`modules/audit`) | audit rows | append, list | - | rows tell what happened |
| **Celery, Redis, PostgreSQL** (`celery_app.py`, `core/redis.py`, `db/`) | tasks, keys, rows | redelivery, expiry, row locks | everything above depends on it | - |
| **Frontend, deployment, schema** | - | - | - | - |

How they interact. A webhook of Meta becomes a `process_inbound_webhook_task`. For a message the
task upserts the contact, finds or opens a conversation, stores the message, moves a NEW
conversation, handles an opt-out, and queues a `request_ai_reply_task`; for a status callback it
updates the message. The AI task takes a Redis lock, reads the conversation, asks a model, and
writes a draft, moves the conversation, or both. A draft goes out when a human approves it
(`ConversationService.approve`) or after the delay of `send_ai_reply_task`; both end in
`send_outbound_message_task`, which calls Meta. Agents and admins move the same conversations
through the API. Campaigns and the engagement sweep create messages that go the same way. Contacts,
their tags and what is remembered of them are read and written by all of these; the nightly
analytics and the campaign counters look at what became of the messages. Posts of the market
groups come in through an ingestion API of their own, are merged with reposts, classified by a task
and searched by agents. The ERP modules share the database with all this: procurement, fulfilment
and receivables publish events in their own transaction, whose handler in `ledger/bridge.py` posts to
the ledger and whose failure is swallowed (`core/events.py:150`); payables and manual entries post
directly.

`PROJECT.json` lists the hazards, each at its line, with the properties that would notice it.

## 2. How the code is modelled

**Transactions.** PostgreSQL runs READ COMMITTED and most services read a row without locking
it, compute, and update it. An operation is therefore two actions: a *read* that takes what
the code keeps and evaluates the guards the code evaluates then, and a *write*. An UPDATE that
matches takes the row lock until the commit, so a transaction's UPDATEs of one row are one step.
Where a transaction updates a row first and reads others later (`upsert_by_phone_sync`), the row
lock is a variable.

`Requests` gives this form once for the office modules: `Begin(q, r)` is the reading of request
q, `Commit(q)` its writing, `open[q]` what it has read, `over[q]` the requests that have committed
between. A request is a record that names its operation and its arguments, and a behaviour starts with
a few of them (`Scenarios`): each is made once, in any order, overlapping in any way. The properties
use `over` to say *unless somebody overtook it*, which is what such code can promise at most. The
ERP modules do the same with a record per slot and a program counter (`Ledger!request`), as
their transactions have more than two steps and hold a lock on the numbering row.

**Workers.** Celery acknowledges late and re-queues the task of a worker that dies
(`celery_app.py:24`), so a crash keeps the database and Redis, loses the task's local state,
and queues the task again with the retries it had. A Redis broker delivers a task with a long
countdown again when the visibility timeout is over.

**Time.** A TTL or an expiry is an action that may happen at any moment; where a property needs
"the work is done before the key expires", a CONSTANT says so (`SlowRuns`, `LongResets`). Where delays
are compared with one another (follow-ups, expiry of posts, the silence of a contact), a clock
counts units that keep their order and nothing else.

**Data.** A message is a number or a model value; its text, templates, prompts and media do not
occur. A decision of the model is a choice between its outcomes. Where text decides (the sides,
brands and categories of a market post), a text is a set of phrases and a pattern the set of those
it matches. Amounts and costs are small whole numbers.

**Parts and groups.** A property that a run checks is often a conjunction of named parts, each
with a definition and a comment of its own at the place of the code it is about; the tables below
list them. A counterexample to the group is a counterexample to a part.

**Faults of the models.** Next to some definitions stands a variant marked `Fault:`. It is not used by
the specification; it is the bug that a property of the run has to detect when it takes the
definition's place (`mutants` in `PROJECT.json`, at least one per property, and for most groups one
per part).

**Ghosts.** Some variables record what no column holds: sends that Meta accepted, writers that were
overtaken, replies that a human saw. They are written and never guard an action; their comments say
what they stand for.

## 3. Modules

| module | models or states | variables and the columns or keys they stand for |
|---|---|---|
| `ConversationStates` | `_ALLOWED` (`conversations/state_machine.py`) | - |
| `Conversation` (`ConversationSpec`) | every writer of one row's state, AI switch and lock | `state`, `aiEnabled`, `lockedBy`, `lockLive` (= `lock_expires_at > now()`), `req` (operations between read and write), `audit` (last audit row) |
| `Lease` | what a lock promises: one holder, and only a free lock is granted | `holder` |
| `Delivery` | one outbound message, its tasks, callbacks and resets | `status`, `metaId`, `deliveryRetries`, `task`, `dedup`, `accepted` (sends Meta took), `lost` (answers that reached no commit), `faults` |
| `MessageLife` | what a reader of the status may rely on | `status`, `deliveryRetries` |
| `AiReply` | requests, lock, drafts, verdicts and delayed dispatch of one conversation | `state`, `aiEnabled`, `req`, `lock`, `draft`, `timer`, `outbox`, `resume`; `reviewed` and `rejected` remember what a human saw and refused |
| `Inbound` | the messages of one contact and its conversations | `convs`, `stored`, `optedOut`, `keys`, `requests`, `due` (`ai_should_run`), `task`, `rowLock` (contact row); its last property, `OptOutHonoured`, is a comment's claim that the code does not keep |
| `Campaign` | one campaign, from its launch to its last recipient | `type`, `status`, `recip` (`campaign_recipients.status`), `lock` (key `campaign:lock:`), `queue` (the broker), `worker`, `request`; `msgs`, `handed`, `again`, `dropped`, `late`, `overwritten` and others are ghosts |
| `Engagement` | the follow-ups of one conversation | `state`, `outreach` (`outreach_state`), `dnc`, `tagged`, `inbounds`, `age`, `queue`, `sweep`, `worker`, `inbound`; `sent`, `again`, `raced`, `lost` are ghosts |
| `Extraction` | keywords and extractor tables of market posts | - (functions of a text) |
| `Market` | ingestion, fingerprints, classification, review, expiry, review queue | `rows` (`market_messages`), `key` (fingerprints in Redis), `req`, `queue`, `worker`, `reviewer`, `listing`, `tagged` (increments of the contact's counts), `now` |
| `Requests` | requests of the office modules between reading and writing | `todo`, `open`, `over`, `done`, `failed` |
| `Contacts` | contacts, import, pipeline sweep | `rows` (`contacts`), `ids`, `clock`; `heard`, `overtaken` |
| `Memory` | what the AI remembers | `file`, `memo` (`client_memories`) |
| `Tags` | tags, their suggestions and links | `tags`, `links` (`contact_tags`), `suggested` (`tag_suggestions`), `known` |
| `Analytics` | campaign counters, rollup tables, reports | `sends`, `replies`, `counters`, `rollup` (four tables); `touched`, `dirty`, `late` |
| `Media` | files of messages on two disks | `assets` (`media_assets`), `kept` (`file_data`), `disk` |
| `Threads` | inbox, start, send, forward, delete | `convs`, `msgs`, `sending`, `deleting` (tasks), `atMeta`, `removed`, `moment`, `shown`, `forwards` |
| `Accounts` | sessions, roles, sections | `users`, `tokens` (`refresh_tokens`), `sections` |
| `Console` | settings and templates | `setting`, `trail` (audit rows), `local` (`templates`), `remote` (at Meta), `verdicts` |
| `Drafts` | campaigns before they go out, categories | `drafts` (`campaigns`), `audience` (`campaign_recipients`), `categories`, `validated` |
| `Search` | paged search, vocabulary | `board` (`market_messages`), `vocab` (`attribute_vocab`) |
| `Office` | `Memory`, `Threads`, `Analytics`, `Accounts`, `Drafts` and `Search` together | `Scenarios` chooses the start |
| `Ledger` | `PostingService`, numbering, fiscal periods | `period`, `journal`, `sequence` (`number_sequences`), `holder` (its row lock), `request`, `stragglers` |
| `Stock` (`StockSpec`) | inventory, procurement, fulfilment and their bridge | `order`, `doc`, `unit`, `bal` (`stock_balances.qty`), `moved` (stock ledger), `confirms`, `unposted`, `gained`, `overtaken`, `missed` |
| `Payables` | bills, supplier payments, allocations, debit notes | `bill`, `payment`, `note`, `allocation`, `number`, `unseen`, `stale` |
| `Receivables` | invoices, customers' payments, allocations | `invoice`, `received`, `applied`, `lost`, `unseenPayment`, `unseenInvoice`, `swept`, `outdated` |
| `Reports` | the financial statements, in both implementations | - (functions of the journal) |
| `Books` | `Payables`, `Receivables`, `Reports` and manual entries on one `Ledger` | `inUse` (the scenario) |
| `SetLemmas` | facts about the sizes of finite sets, their greatest members, and sums over them | - |
| `MessagingProofs` | the theorems about `Conversation` and `Delivery` (section 5) | - |
| `ErpProofs` | the theorems about `Stock` and `Books` | - |
| `OfficeProofs` | the theorems about `Tags`, `Accounts` and `Console` within `Office` | - |
| `InboundProofs`, `AiReplyProofs`, `EngagementProofs`, `CampaignProofs` | the theorems about the modules they are named for | - |
| `MC*` | symmetry, model values, scenarios | - |

The modules meet where the components do. `ConversationStates` is shared by `Conversation`,
`AiReply` and `Inbound`: `Conversation` has all the detail of an operation on the row, the others
reduce a human's operation to one move along `Allowed`, and the AI's snapshot and optimistic move
have the same form in both. `Inbound` ends where it queues a request; `AiReply` starts there. A
reply that `AiReply` puts into `outbox` is what `Delivery` starts from. `Drafts` ends with a
SCHEDULED campaign; `Campaign` starts there. `Tags`, `Memory`, `Analytics` and `Drafts` extend
`Contacts`, so that a deletion takes their rows with it. `Stock` and `Books` extend one `Ledger`.

**Conversation.** The operations are pairs `PauseRead`/`PlainWrite`, `AssignRead`/`AssignWrite`
and so on; a slot of `req` is a request that has read and not yet written. `Move` is
`update_state`, an UPDATE with `WHERE state = :expected`; `Conflict` is the UPDATE that matches no
row. `ForceFromHuman` is `force_transition` away from HUMAN_ASSIGNED, which releases the lock,
refreshes the row and goes on with the refreshed state. `AssignLockRefused` is the lock attempt
of `assign` whose result is not looked at. `AiRead` is the snapshot of the orchestrator;
`AiFailRead` and `AiFailWrite` are `assign_human` after the provider's final failure.

**Delivery.** A slot of `task` is a Celery task from its dispatch to its acknowledgement. A send
task is queued, has read the row, has Meta's answer, has committed; `RetryOrFail` is
`_handle_send_failure`. A status task compares the report with the row it has read and updates
by the id only. A reset leaves `meta_message_id` as it is, as `update_delivery_status_sync` does when
it gets `None`. `deliveryRetries` is what a status task read before its UPDATE, not what it finds
after.

**AiReply.** `req[m]` is the latest request for message m. Its run is `Gate` (SET NX and the
snapshot), `LoadHistory`, one outcome of `_decide`, and `Leave` (dispatch after the commit, then
the key is deleted, whoever set it). A draft's age is the start of its run's transaction, which is
what `created_at` holds. `Approve` promotes the newest draft at that moment. A retry has written
nothing and gives its run number back, so that the bound on runs does not cut retries short. A
message without content queues no request and does not occur.

**Inbound.** A task walks through its payload: key, contact row and active conversation, message
and conversation, opt-out in a transaction of its own, AI request, key. `Retry` is `self.retry` of
the whole task. `StoreFails` is the unique `meta_message_id`, or the optimistic UPDATE of a NEW
conversation that somebody moved. `StartRead` and `StartCreate` are the template start, which takes
no lock on the contact.

**Campaign.** A task is a member of the bag `queue` until a process of `worker` takes it, and is
acknowledged when it ends. The dispatch pages over PENDING recipients with a growing offset while its
batches already take them; a batch reads the campaign's status once; the completion, the tick and the
dispatch write the status by the id only. `overwritten` remembers that one of them did so over a
status it had not seen: then nobody may be left to attend to the campaign (`Attended`, `Finishes`).
Outside of business hours or with the daily cap reached a dispatch and a batch are retried later, a batch
also while Redis is down (`DispatchDeferred`, `BatchDeferred`). The dispatch asks for `max_retries=None`, which Celery reads as
the task's own 3: a dispatch that is deferred once more is gone, and the campaign is still QUEUED
(`gaveUp`). A task that waits past the visibility timeout is delivered twice (`DeferredTwice`; `again` counts
the batches).
`CancelStops` counts what is sent to recipients that a cancellation has failed against the processes
that had looked at them before.

**Engagement.** `SweepStep` classifies and schedules and publishes its task after the commit;
`FollowUpStart` is the delayed task, which looks at the conversation again before it creates a
message. `Redeliver` is the broker's second delivery of a countdown that outlasts `Visibility`. The
broker keeps the delayed tasks in `Slots`, one per sweep and fault: a sweep schedules once at
most and every other delivery is a fault, so a slot is always free.
The writers of `outreach_state` beside it are the inbound task, the send that fails, and a human.

**Market.** A request looks the fingerprint up in Redis, sets it to "pending", inserts, and replaces
it by the row's id, visible to others before the commit. A batch is several items on one session, so
a failed flush ends all. A post is one of two; a history says when, of which kind, in which request.

**Office.** Each module holds its operations as pairs on `Requests`: `...Read` begins a request and keeps
what the code has read, the other operator is its writing and commit. Workers' tasks (a send, a deletion at
Meta, the fetching of a file) are actions of their own. To open a conversation the dashboard makes two
requests at once (`loadThread`, `src/frontend/.../inbox/page.tsx:187`): `get_conversation` marks it as read,
`list_messages` shows its newest messages, and messages may be stored between them, in either order.
`Office!Time` lets time pass only while something in the start depends on it.

**Ledger, Stock, Books.** A posting checks its period without a lock, takes its number by an
UPDATE of the sequence's row, which holds that row until the commit, and appends its entry. A
document's confirmation reads its status without a lock, so two may commit; the properties count them
(`confirms`) and say what must still hold. An event's handler may fail: the document stands and
the entry is missing (`unposted`, `lost`). A receipt is posted with the quantity it is booked with and
makes a unit of each serial that it lists; nobody compares the two (`Miscounted`). The ageing reports take
their buckets from a listing that is cut at a limit, `BillLimit` (10,000) or `InvoiceLimit` (100): of
documents due on one day any may be cut off, so a listing is one of a set of sets. A report reads in one
step.

## 4. Runs, bounds and fairness

| run | checks (parts) | shows |
|---|---|---|
| `conversation` | `ConversationTypeOK`, `AllPrepared`, `LegalArcs`, `NoLostUpdate`, `AiNeverOverridesHuman`, `AuditIsTrue`, `LockIsLease` | the optimistic UPDATEs are enough for all operations but the override; the lock columns implement `Lease` |
| `delivery` | `SendsAreAccounted` (`TypeOK`, `SendsHaveCauses`), `NeverAbandoned` | with concurrent workers every send of a message has a cause of its own, and a queued message keeps a task |
| `delivery_serial` | `SerialIsExact` (`NoUnexplainedSend`, `KeyMeansApplied`), `IsMessageLife`, `Settles` | with one worker the row implements `MessageLife`, and sends are exactly explained |
| `ai_reply` | `DraftsInOrder` (`TypeOK`, `OneRunAtATime`, `AwaitingHasDraft`, `RejectedStaysUnsent`), `SentIsApproved`, `RunsEnd` (`LockIsFreed`, `RequestsEnd`) | the approval workflow holds while a run is faster than its lock |
| `inbound` | `EachMessageOnce` (`TypeOK`, `AskedOnce`, `KeyMeansDone`, `OneInboundConversation`), `NoMessageLost` (`MessagesAreStored`, `TasksEnd`) | redelivery, retries and crashes double nothing and lose no message that a retry covers |
| `claim_OptOutHonoured` | `OptOutHonoured`, a statement of a comment | the code does not keep it (section 6) |
| `campaign` | `SendingIsBounded` (`TypeOK`, `FewMessages`, `CancelStops`, `CompletedMeansDone`, `Attended`), `Finishes` | how many messages a recipient may get, what a cancellation lets through, when a campaign has no task left, and that otherwise it ends |
| `engagement` | `FollowUpsAreFew` (`TypeOK`, `FewFollowUps`), `StopsStand` (`TerminalStands`, `StopsAreHeeded`), `SilentAreAttended` (`SilentIsClassified`, `ScheduledRuns`) | follow-ups are as few as sweeps and redeliveries explain, stops that were seen hold, silence is answered |
| `market` | `PostsAreMerged` (`TypeOK`, `OneRowPerWindow`, `CountedOnce`, `ReportedIsStored`, `ListingShowsAll`), `TextsAgree` (`SidesAgree`, `SaidTwiceStays`, `TargetsPass`), `ReviewStands`, `PostsEnd` (`EverythingEnds`, `Classified`) | reposts merge unless a failure or an open request cut the fingerprint off; reviewers' verdicts stand unless a writer had read before them |
| `office` | `ContactsAreSound` (`TypeOK`, `OneOwner`, `NotesKept`, `ErrorsHaveCause`, `TurnsKept`), `TagsAreExplained` (`TagHasReason`, `ApprovedIsAttached`, `OneDecision`), `AdministrationIsSound` (`LastAdminStands`, `DeactivatedHasNoSession`, `OneSuccessor`, `SectionsAreOneRequests`, `TrailExplains`, `SubmittedIsKept`, `ApprovedByMeta`), `FiguresAgree` (`TablesAgree`, `LiveCountsLate`, `CreditedOnce`, `ReportsAgree`, `ReportAddsUp`), `InboxIsTrue` (`UnreadIsUnseen`, `OneOpenConversation`, `BadgeAgrees`, `PagesShowAll`, `MediaGoesOut`, `UploadsGoOut`, `FilesAreShown`), `DraftsAreSound` (`SentAsCounted`, `AudienceIsFiltered`, `DraftErrorsHaveCause`), `SearchIsSound` (`SearchShowsOnce`, `SearchShowsAll`, `VocabPatchStands`, `VocabErrorsHaveCause`), `StepsAreDue` (`VerdictStands`, `InformationStands`, `RepliedIsNotSwept`, `ImportNamesAll`, `NothingVanishes`, `ScheduledIsApproved`), `NobodyIsForgotten` (`SilentIsFollowedUp`, `DaysAreComputed`, `DeletedIsGone`) | which overlaps the services survive; the exceptions in each property are the overlaps they do not |
| `stock` | `StockIsSound` (`TypeOK`, `UnitsMoveOnce`, `BalanceIsSum`, `NeverNegative`, `VarianceExplained`), `DocumentsTakeEffectOnce` (`PostedOncePerOverlap`, `CoveredIsDone`) | a unit moves once; balance, stock ledger and general ledger differ by overtaken writes, refused entries, adjustments upwards, units in transit and miscounted receipts, and by nothing else |
| `books` | `Gapless`, `BooksAgree` (`LedgerTies`: `TypeOK`, `TrialBalances`, `MirroredPerOverlap`, `BalanceSheetTies`, `ReportsDifferOnlyThere`; `SubledgersAgree`: `PayablesControl`, `ReceivablesControl`, `AllocatedWithin`, `PaidIsCovered`, `AgeingAddsUp`), `NothingComesLate` (`OnlyStragglersPostLate`, `FinalUnlessOvertaken`) | entries balance and are numbered without gaps; control accounts equal the documents but for lost events; what an ageing report leaves out |

**Bounds.**

- `conversation`: one agent, one admin, two requests in flight, the contact owned by the agent. No
  counters: the state space is complete. Two requests are what a race needs, and the
  proofs cover any number. An agent and an admin are the two kinds of user the guards tell apart.
  1.7 million states up to the symmetry of the requests.
- `delivery`: three task slots, two of which execute; two faults; three accepted sends; one task
  retry and one delivery retry. That is enough for a send, its redelivery and a callback or
  reset at the same time, and for a fault during the recovery from a fault. The code's limits (4, 30
  and 3) are CONSTANTS; a limit of 1 has the same three cases: first, last, one too many. 5.8
  million states.
- `delivery_serial`: one worker, three kinds of report, one fault and no redelivered resets, since
  here the properties are exact. `IsMessageLife` needs this bound: with two faults a reset that is
  delivered again counts one delivery retry more than the limit. `LifeWithFaults` (section 5) says
  what holds for any number of faults. 265 thousand states.
- `ai_reply`: two messages, two runs, one retry, one crash. A run and the request that finds the
  lock held; a draft and the draft that replaces it. 248 thousand states.
- `inbound`: a webhook of two messages and one with an opt-out, two tasks, one repeated webhook, two
  steps of humans, one fault, two retries. A fault and a conflict with a human each use up one
  retry; the code allows three, so with two the bound is not what makes a task give up.
  Humans close and take over, the two moves that this module's guards tell apart. 1.4 million states.
- `campaign`: two recipients in batches of one, so that the second page depends on what became of the
  first; two worker processes, two requests in progress, an immediate and a recurring
  campaign, one tick, one retry of the dispatch and of a batch each, one fault or one task that is
  delivered twice. A poll that finds somebody waiting gives up (`MaxPolls = 0`): it may come at any time,
  after the last batch too, and a second one would ask the same again. The code's limits (3, 10 and
  120 retries) have the same cases. 1.5 million states.
- `engagement`: two sweeps that overlap, one worker, one inbound task, two messages, one human move, one
  fault. The delays 1, 2, 3, 4, 5 keep the order of 1, 1.5, 3, 4.5 and 24 hours, and `Visibility` is 1 as
  one hour is less than 1.5. `Engagement.cfg` runs the module itself. 1.0 million states.
- `market`: two posts, which is what a repost needs, two requests, two workers, two reviewers; expiry
  of BUY before the window before the expiry of SELL (1, 2, 3 for 45 minutes, 3 and 48 hours); nine
  histories of what is posted when. 0.75 million states.
- `office`: 56 starts of two to five requests, each made for one race or chain (two patches of a contact;
  a deletion beside an import; a nightly run, a late delivery and a backfill; and so on). More requests in
  one start would repeat pairs. Silence of one unit, a clock of four, two nights; three of the starts
  with messages and figures begin at two, since a message, what becomes of it and its figures take three
  days. A page of a conversation has two messages (`ThreadPage`, 50 in the code). 0.3 million states.
- `stock`: two requests in progress, four altogether; two receipts of one purchase order, two dispatches
  of one sales order, one adjustment, one unit, one period that may close and reopen. One receipt is booked
  with a quantity of two and lists one serial. A second
  confirmation of the same document and the request that it overtakes are among them. 1.8 million
  states.
- `books`: as `stock`, with two periods and ten scenarios: the documents that share rows (a bill and its
  payments, invoices and theirs), and each kind of document with a period that closes and reopens. Documents
  and manual entries of one scenario have dates in both periods, so that the balance sheets differ. Two
  bills and two invoices with limits of 1, so that the listings are cut. 0.1 million states.

Runs of bounded models stop when the bounds are used up, hence `CHECK_DEADLOCK FALSE` in all but
`conversation`.

**Fairness.** All of it is weak. Nothing is assumed of Meta, of faults, of humans or of requests
that nobody has made.

- `Delivery!FairSpec`, `Inbound!FairSpec`: a worker goes on with its task and takes a queued one. Celery's
  prefetch loop justifies it. `Campaign!FairSpec` asks for less: while there is work, some process does some.
- `AiReply!FairSpec` adds that Redis expires keys, without which `LockIsFreed` fails, as one of its
  mutants shows.
- `Engagement!FairSpec`, `Market!FairSpec`: time passes, the beat starts the sweeps
  (`celery_app.py`), and processes that have started go on.
- `Office!FairSpec`: time passes, the sweep runs, a request that has begun proceeds, and workers
  take and finish tasks.

## 5. Proofs

The theorems hold for every value of the constants that the named assumptions of the modules admit:
bounds are natural numbers, slots, workers, sweepers and recipients are finite sets, `None` is not
a user or a request, a webhook has a message. Some say what a schema or a seed of the code says:

- the documents of the ERP are finite sets, those of different tables are different, none of them is an
  entry of the journal, and totals and amounts are not negative (`PayablesAssumption`,
  `ReceivablesAssumption`, `StockAssumption`); they may be 0, since `BillCreateRequest` takes a bill
  without items;
- the lines of a manual entry name accounts of the chart and have two amounts that are not negative,
  which is `JournalLine` with its check constraint (`BooksAssumption`);
- a scenario of the office starts with an admin, as `scripts/seed_admin.py` leaves the table, and its
  requests and rows have the fields of their schemas; there are finitely many contacts and campaigns, and
  the campaigns are drafts that nobody has validated (`ScenariosAssumption`).

Where a theorem assumes more (`Workers = 1`, `SlowRuns = FALSE`), it says so itself.

| module | theorem | property |
|---|---|---|
| `MessagingProofs` | `TypeCorrect` | `ConversationTypeOK` |
| | `AlwaysPrepared` | `AllPrepared` |
| | `ArcsAreLegal` | `LegalArcs` |
| | `UpdatesAreNotLost` | `NoLostUpdate` |
| | `HumansAreNotOverridden` | `AiNeverOverridesHuman` |
| | `AuditRowsAreTrue` | `AuditIsTrue` |
| | `LockIsALease` | `LockIsLease`, a refinement of `Lease` |
| `InboundProofs` | `MessagesHandledOnce` | `EachMessageOnce` |
| | `OneTaskPerMessage` | `OneOwner`, the strengthening behind it |
| `MessagingProofs` | `SendsAccounted` | `SendsAreAccounted` |
| | `MessageNeverAbandoned` | `NeverAbandoned` |
| | `SerialExact`, for one worker | `SerialIsExact` |
| | `LifeWithFaults`, for one worker | `FaultyLife!Spec`, a refinement of `MessageLife` whose limit counts the faults |
| | `LifeWithoutFaults`, for one worker | `IsMessageLife` |
| `AiReplyProofs` | `RepliesAreApproved` | `SentIsApproved` |
| | `VerdictsStand`, for runs faster than their lock | `DraftsInOrder` |
| `EngagementProofs` | `FollowUpsHaveCauses` | `FollowUpsAreFew` |
| | `StopsHold` | `StopsStand` |
| `CampaignProofs` | `SendingBounded` | `SendingIsBounded` |
| `ErpProofs` | `NumbersAreGapless` | `Gapless` |
| | `LateOnlyIfUnderWay` | `NothingComesLate` |
| | `BooksSoundness` | `BooksAgree` |
| | `StockSoundness` | `StockIsSound` |
| | `DocumentEffects` | `DocumentsTakeEffectOnce` |
| `OfficeProofs` | `TagSoundness` | `TagsAreExplained` |
| | `AdministrationSoundness` | `AdministrationIsSound` |
| | `DraftSoundness` | `DraftsAreSound` |
| | `SearchSoundness` | `SearchIsSound` |

The theorem of a module that a group of properties belongs to proves all its parts (section 4). Each
specification has an inductive invariant (`IInv`; `Basic` and `Order` in `AiReplyProofs`; `StockInv` and
`BooksInv` in `ErpProofs`; one per part of the office in `OfficeProofs`), which holds initially and is kept
by every action. What it adds to the properties is the reason why they hold:

**Conversation.** The guards are evaluated at the read and the effect happens at the write, so no
property of a write follows from the write alone: it needs what the read established. The
strengthening is `AllPrepared`: for every request in flight, the move it is about to make is an arc
of `_ALLOWED` from the state it has *seen*, and its lock holder is known. It is inductive together
with `TypeOK`: a read step establishes it for its own request, and no step changes another's.
With it, `LegalArcs` and `NoLostUpdate` follow from `Move`'s comparison of the row with the state
seen, once per writing action; the override is the action that has no such comparison, and the
properties except it by name. `AuditIsTrue` follows as its audit row takes `from` from what
`Move` compared, or from the refreshed row. `LockIsLease` is a refinement: each action is a
`Grant`, a `Free` or a stutter of `Lease` under `holder <- IF lockLive THEN lockedBy ELSE None`; that
a grant finds the lock free, or leaves the holder the same, is `CanAcquire`.

**Inbound.** `Position` ties the place a task has come to with the rows its message has; `OneOwner`
says that a message which is stored and not finished with belongs to one task, as the second to
store it fails on the unique id. So the request to the AI that `Position` says is still missing is
made once. One open conversation follows from `OneOpened` and `WillOpen`: who holds the contact's
row and found no open conversation knows that no worker has opened one since. `Paid` bounds the
conversations by the steps of humans.

**Delivery.** `CallsHaveCauses` counts: the sends that Meta has accepted and the tasks that still owe
a call are one, and one more per delivery retry and per fault, at most. A step that adds one side
pays for it on the other (`Balanced`). `NeverAbandoned` is a case analysis of the actions with the
types. For one worker, `SInv` says where the task that executes stands: a send that has read the row
left it QUEUED (`Placed`), no key is about a send that is not accepted yet (`KeysPast`), and the count
is exact (`Exact`). `LInv` adds that a reset has a failed row or a fault of its own, and so its place
within the limit; with it every step is an `Advance`, a `QueueAgain` or a stutter of `MessageLife`.

**AiReply.** `SentIsApproved` needs `Basic` only: a run in progress has a number and so a draft of
its own. `Order` adds that one run is under way at a time (`Exclusive`), that drafts are as old as
their runs (`Aged`), and that a conversation in AWAITING_APPROVAL has its draft behind it and no
rejected one is sent (`Verdicts`). With runs that outlast the 180 seconds of the key the last part is
false, hence the assumption on `SlowRuns`.

**Engagement.** The first schedule finds `outreach_state` NONE and nothing sets it back, so every
other follow-up is owed to a redelivery or a schedule written over a state (`TasksHaveCauses`, which
counts those that were sent, are being written, wait or are about to be dispatched). Around it,
`FreshIsQuiet` and `QuietBefore` say that nothing is under way before the first schedule and the
first message, `StillDue` that a worker which was not overtaken may still write.

**Campaign.** `GivenOutOnce`: a recipient who was handed to one batch only is in one task or one process,
and has one message at most; a deferred task that is delivered twice counts as handed out twice, and from
then on the processes bound the messages. `FewAtOnce` and `LateWereUnderWay` count messages with the
processes about to send. `InsertedThenDone`: when a campaign is completed no recipient waits any more.
`Attention` is the reason for `Attended`: as long as nothing has failed, given up or been overwritten,
exactly one task, process or request takes the campaign further (`OnCourse`), and the dispatch's key has a
holder (`LockHeld`).

**Stock.** A confirmation reads the document and its order without a lock, but from its flush to its commit
the rows that it has written are its own (`Exclusive`), what it is about to write is what they hold
(`Held`), and the coverage it has counted can only have grown (`SeenCovered`). So a unit, which is moved by
an UPDATE that names the status it must have, moves once; a document has no more entries than confirmations,
which are no more than requests can overlap (`DocumentOK`); and the units on hand with the bulk that has
moved are what account 1200 says, plus what no handler has posted, plus twice what an adjustment upwards was
posted for as a loss (`ValueTies`). `VarianceExplained` adds the difference between the balance and its
movements, which a write over a balance it had not seen has made, and `Miscounted`, what receipts list
beyond the quantity they are posted with, once for each confirmation: a confirmation adds its serials to the
units, its quantity to the account and their difference to `Miscounted` (`MiscountedStep`).

**Books, numbers and periods.** Requests check without a lock and commit later. `EntrySound`,
`BillSound` and `InvoiceSound` say that whoever will still write a period or a document that is closed
or finished by now is among those known to have been under way then. `NumberSound` and `AllNumbered`: who
holds the sequence's row has its next number, and the entries and documents with numbers are as many
as the sequence says and have all of 1, 2, 3, ... The steps of the three modules are first sorted into
a few kinds (lemma `Kinds`), and the invariant is proved for each kind.

**Books, accounts and documents.** `BooksAgree` needs to know where an entry comes from and how often.

- `EntriesInv`: every entry, stored or under way, has passed the gates and is what its source says
  (`OriginIn`): the two lines of a bill, a payment or an invoice, a manual entry, or the mirror of one. An
  entry of the system touches a control account and a manual one does not, so a reversal never
  reaches an entry of a document (`SystemControl`) and those stay posted.
- `PayInv` and `RecInv` count: the entries of a document and the requests about to issue it are together
  not more than requests can overlap, since a request may start only while the document is a draft, and it
  is not a draft any more once it has an entry (`BillCount`, `PaymentCount`, `InvoiceCount`). `MirrorCount`
  is the same for reversals. An allocation has read a sum that can only have grown, and would have
  kept within the total with what it read; if the sum is still the one it read it does, if not, the
  bill is in `unseen` (`BillSum`, `AllocationSound`; `InvoiceSum`, `ApplicationSound`).
- The control accounts: the balance of an account is a sum over the posted entries; those of a document
  add up to its total times the number of its entries (`SumByKey`), and all others add nothing
  (`ControlLines`). What the counts say of bills that are open, paid or void turns that into
  `PayablesControl` and `ReceivablesControl`.
- The statements are sums of the same entries in another order, account by account
  (`TrialBalancesHolds`, `BalanceSheetTiesHolds`).
- The ageing reports, for every limit and every listing that it admits: each document with a bucket has one
  only, so the buckets add up to the listed documents that are due (`BillBuckets`, `InvoiceBuckets`); and
  what a listing cuts off is not due before what it keeps (`CutIsLater`), so while no more than the limit are
  due, all of these are listed (`AgeingAddsUpHolds`).

`PaidIsCovered` speaks of documents to which anything is allocated: one with a total of 0 is covered by
nothing at all, and the code leaves it open. The invariants were checked with TLC on the instance of the run
`books` before they were proved.

**Office.** Every request is made once (`RequestsAreOnce`), and of two that overlap the later commit has
the earlier in `over`. Requests move by themselves: a lemma for a part needs to look only at the
operations that write its rows, the others leave them aside (`Moved`, `Aside`).

- Tags: a review in progress has found its suggestion open, or was overtaken by every review of it that
  has committed since (`ReviewsSound`); so a second decision names the first, and an approved one
  has attached its tag.
- Administration: whoever is about to take an admin away has seen another admin, or has been overtaken
  by the request that took that one (`AdminRemains`). A login or a refresh under way knows its user
  active, or was overtaken (`SessionsSound`). Live tokens are counted against the logins (`OneEach`): a
  refresh ends one token and begins one, unless another has ended the same. A change of a setting
  has read the value that the trail ends with, or was overtaken (`SettingTold`). A submission that
  has called Meta has the name to itself (`NamesHeld`), and a sync or an import knows what is here and
  at Meta, unless an import overtook it (`TemplatesSound`).
- Campaigns: a filter selects whom it selected, or the contact is `Touched` by a request that has
  committed or by the sweep (`InFilter`, `Settled`). A validation that holds its campaign's row has chosen
  contacts of the filter (`HoldsSound`); nobody edits the campaign meanwhile, as an edit waits for the
  row, and whoever has read the draft before is overtaken when it commits (`ScheduledSound`). What a
  request about campaigns and categories has checked holds, or it was overtaken (`ChecksStand`).
- Search: on each pane, what has been shown is not below the cursor and what has not been is, as long as the
  pane has not come to its end and begun again (`PagesSound`). Those who are untouched keep their time and
  their rank, and a message with a new time, which may cross the cursor, is a repost in `over`. In a ranked
  search "below" is a comparison of times while the page is cut by rank: the step that shows one message and
  passes over an older one which ranks above it, or shows it again, is where the exceptions come from. A
  change of the vocabulary has read the row that it replaces, or was overtaken (`VocabSound`).

The proof of `OneSuccessor` corrected its exception: two refreshes of one token may both find it live, so
that one login has two sessions, but it takes two refreshes that overlap, and not a refresh and any other
request of the user. That of `SearchShowsOnce` found a case which it had forgotten: a message that was shown
as the newer one may be reposted later and be the older one for the cursor that is left behind; the run
`office` has a start with this case now. That of `AudienceIsFiltered` found two exceptions that were
missing, the sweep, which changes the status that a filter asks for, and a message to the contact that was
sent in another campaign or conversation; that of `DraftErrorsHaveCause` a campaign for a template that is
not there, which nobody looks for before the insert. Both have starts of their own now. Two more starts for
`ImportNamesAll`, which is not proved, showed that another import, or an append that had read an empty name,
may also name the contact after the import has found it; a patch of other columns, which the exception used
to let through, is none any more.

**Sums.** A fold over a set is unfolded by induction over finite sets (`SetsByInduction`), which is an
instance of well-founded induction and needs no operator as a parameter: a set of sets takes the
place of the predicate. `SetLemmas` proves from it that a sum is well defined (`SumIs`, `SumUnique`)
and what happens to it when a member comes, changes, is renamed or is grouped (`SumInsert`, `SumStep`,
`SumImage`, `SumByKey`). Functions are joined with operators of our own (`Added`, `Over`, `Without`)
where a proof looks into them, as the provers do not expand `@@`.

**Only model-checked.**

- Liveness (`Settles`, `RunsEnd`, `NoMessageLost`, `Finishes`, `SilentAreAttended`, `PostsEnd`,
  `NobodyIsForgotten`), as TLAPS proves neither ENABLED nor what fairness gives.
- `IsMessageLife` with one fault, the case between the two theorems.
- `Market`, whose invariants and `ReviewStands` have no theorem yet. `TextsAgree` compares tables of
  phrases, which are values of the run.
- The other parts of `Office`: `ContactsAreSound`, `FiguresAgree`, `InboxIsTrue` and the
  action property `StepsAreDue` (section 8).

## 6. Where the code and its comments disagree

`claim_OptOutHonoured` ends in a counterexample: "suppress the contact immediately"
(`messaging/tasks.py:489-490`). The opt-out follows the message's commit in a transaction of its own;
after a fault in between every retry fails on the stored message and never reaches it.

The rest was seen while modelling and is part of the modules, without a run of its own: the actions do
what the code does, and a property that the statement suggests is stated with the exception the
code makes.

**Conversations and AI**

- "CLOSED is final" (`conversations/state_machine.py:102`): `force_transition` checks the state it
  read, then refreshes the row (`conversations/service.py:520`) and moves on from what it finds, so a
  conversation closed in between is opened again. `LegalArcs` excepts the override.
- "only one worker at a time may call Claude" (`ai/tasks.py:87-88`): the key lives 180 seconds; two
  tiers of three attempts, repeated by the SDK at 15 seconds each, may take longer, and the run that
  returns deletes the key of its successor (`SlowRuns`).
- "the first worker will process it correctly" (`ai/tasks.py:90-91`): it may have loaded its history
  before, or have died; a redelivered task finds the key of its own first attempt and is dropped.
- The newest draft "is the one the human reviewed" (`messaging/repository.py:145-147`): the AI may have
  written a newer one after the human looked. A rejected reply stays DRAFT and counts as a reply when
  the AI resumes (`_find_unreplied_inbound`).
- `assign` ignores the result of `acquire_lock` (`conversations/service.py:331`, action
  `AssignLockRefused`); `close` of a CLOSED conversation records a transition (`:478`); `bulk_update`
  hands conversations back to the AI without `ai_enabled` (`:601`); `resume_ai` releases live locks
  of others (`:277`). `renew_lock` acquires a lock that has been freed since its check
  (`assignments/service.py:91`).
- Client memory: the file is truncated, then written (`contacts/memory_service.py:257`), before the
  commit; the orchestrator and the resuming task share no lock; a contact's file outlives it.

**Messages and files**

- "a stale or out-of-order Meta callback must never regress a message" (`messaging/tasks.py:786`): the
  rank is compared with the row as read and the UPDATE names the id only, so two concurrent
  callbacks may end with the weaker status; hence `IsMessageLife` belongs to one worker.
- "we clear meta_message_id as well" (`messaging/tasks.py:175-177`): it is not cleared, so a late
  callback of the failed send takes the message out of QUEUED and the new send skips it.
- A send makes one attempt more than `messaging/constants.py:39` says (`messaging/tasks.py:1229`), and the
  retries of a Redis outage use up the budget of the send (`:947` and `:86`). A redelivered reset may
  exceed `MAX_DELIVERY_RETRIES` (`:164`). A callback that overtakes the commit of its send claims its
  key without having been applied (`:300`).
- `start_conversation` may open a second conversation for a contact (`messaging/router.py:225`): there
  is no unique index on open ones, so it races with another start and with an inbound message.
- `created_at` and `last_message_at` of an inbound message are the customer's time
  (`messaging/tasks.py:344`, `:483`): one that is stored late never shows as unread, and
  `last_message_at` may go back, so the inbox's offset pages skip rows.
- Opening a conversation marks it as read in one request and shows its messages in another
  (`src/frontend/.../inbox/page.tsx:187`, `conversations/router.py:129`, `messaging/router.py:267`): a message
  that comes in between is seen and stays unread, or is marked as read and was not shown.
- "copy the media asset reference too" (`messaging/service.py:234`): the asset is moved to the copy, so a
  source still queued, or a second forward, goes out as text.
- `bulk_delete` writes the time into `deleted_by.agent_id` and `list_messages` compares that with the
  agent's id (`messaging/service.py:332`, `:184`): "delete for me" hides nothing. Deletion for everyone of
  a QUEUED message asks nothing of Meta and does not stop the send.
- Files that a customer sent are never in the database, so `_ensure_media_file_on_disk`
  (`messaging/tasks.py:1405`) cannot restore them on a worker, and what a worker fetched is a 404 for agents.

**Campaigns and engagement**

- A dispatch outside of business hours or over the daily cap is retried with `max_retries=None`
  (`campaigns/tasks.py:200`), which is no lifting of the limit but the task's own 3: after the third
  deferral the campaign stays QUEUED and has no task.
- A batch that is deferred for hours (`campaigns/tasks.py:303`) outlasts the visibility timeout, is
  delivered twice, and two workers may send to a recipient whom both have read as PENDING.
- "Carry the rest forward via retry" (`campaigns/tasks.py:362`, `:433`): a batch that has used up its
  retries leaves them PENDING with no task.
- A failed validation keeps its recipients; after an edit and a second validation the first audience is
  sent to as well, though `audience_count` counts the second only; contacts that opt out after the
  validation remain recipients; two overlapping deletions of a category end in an error of the
  database (`campaigns/service.py:183`).
- `outreach_state` is written without a guard at `conversations/repository.py:419` and
  `messaging/tasks.py:501`, `:577`, `:834`. The sweep publishes after its commit
  (`engagement/tasks.py:204`), so a crash in between schedules nothing; the countdown of 1.5 hours
  exceeds the broker's visibility timeout of one (`:218`), so it may run twice. A reply that the AI
  answers does not stop the follow-up (`engagement/service.py:263`), a skipped follow-up is not
  scheduled again, and two or more messages followed by a silence of more than a day are not
  classified any more.

**Contacts, tags, people, templates**

- "Keep ai_assigned and assigned_agent_id mutually exclusive" (`contacts/service.py:66`): two
  overlapping patches set both.
- "`information` is APPENDED (never overwritten)" (`contacts/router.py:95`) and "Never overwrites an
  existing value" (`ai/service.py:168`): of two overlapping writers the later replaces the earlier.
- The recovery from a duplicate phone drops the name and the information; a failed flush of the import,
  outside a savepoint, fails the whole file (`contacts/service.py:269`); a send sets `contacted` over
  whatever the status has become (`messaging/tasks.py:1080-1089`).
- Reviews of a suggestion check PENDING without a lock (`categorization/service.py:356`); applying one
  to a deleted contact is an error of the database; the deletion of a tag counts its uses first.
- Two overlapping demotions leave no admin (`users/service.py:129`); a login or refresh beside a
  deactivation leaves a live token; two refreshes of one token both succeed.
- A submission that dies after Meta took it leaves a template only Meta knows
  (`templates/service.py:69`); an import of a new name in two languages inserts it twice and fails.
- Analytics: a nightly run that begins after the next midnight computes another day
  (`analytics/tasks.py:41`), and "the next beat tick is the retry path" (`:5`) retries nothing; later
  deliveries never enter a day's rows without a backfill; a report of READ before DELIVERED leaves a
  recipient out of the delivered ones; revenue is credited on every day of a campaign.

**Market**

- "Keyset pagination is stable under concurrent inserts. ... A user paginating through results won't see
  duplicates or miss items" (`docs/market-and-listener.md:482`, `market/repository.py:123`): a pane
  that has come to its end is left out of the cursor and begins again (`market/repository.py:182`), and
  a ranked search orders by rank but continues by time. `SearchShowsOnce` and `SearchShowsAll` say when
  the statement holds.
- "one bad payload never fails the whole batch" (`market/router.py:124-125`): a failed flush breaks the
  session that the items share, and the batch is lost.
- The window is 3 hours (`core/config.py:72`), the documentation says 24
  (`docs/market-and-listener.md:333`, `:411`). A pending or lost fingerprint makes a second row; a bump of
  `seen_count` may be lost; the LLM task may overwrite a review that its read preceded; the band
  between the two confidence limits is empty; the review queue's cursor skips rows.

**ERP**

- "the journal is written in the same transaction as the inventory operation (atomic bridge)"
  (`ledger/bridge.py:4-5`): handlers' exceptions are swallowed (`core/events.py:150`), so the document stands
  without its entry. Adjustments upwards are posted as losses, as the bridge takes their absolute value.
- Reversal "by creating a mirror entry" (`ledger/posting.py:210`): the status is read without a lock,
  so two overlapping reversals make two mirrors.
- A receipt posts `qty_received * unit_cost` and creates a unit per listed serial; neither the service nor
  the schema compares the two (`procurement/service.py:257`), so stock and ledger may differ from the start.
- The receivables ageing sums up all outstanding invoices, but its buckets are those of the first 100
  (`receivables/service.py:252`, `receivables/repository.py:64`); and they lack invoices that are not due
  yet. The payables report takes its total from the buckets, of 10,000 bills.
- Two confirmations of one receipt or dispatch may both commit (`procurement/service.py:236`); balances
  are written as absolute values (`inventory/service.py:496`); a period is checked before it is
  closed (`ledger/posting.py:72`).
- An invoice keeps no entry id, so voiding it reverses nothing; void invoices, reconciled payments and
  credit notes publish events that nobody handles. Allocations of a supplier payment are not compared with
  its amount, those of a customer's payment not with the invoice; the overdue sweep writes over PAID and
  VOID. The balance sheet of the task lacks retained earnings; profit and loss takes absolute values.

## 7. What is not modelled

- Conversations: labels, pins, the number of locks of an agent across conversations; one row at a time is
  enough for the properties above.
- What is sent: rendering of templates, the 24-hour window, the conversion of voice notes. What is
  asked: prompts, confidence, opt-out intents of the model.
- Messaging: reactions, the older pages of one conversation, refusals of a deletion by Meta.
- Campaigns: checks of a schedule, the preview of an audience. Engagement: the cold track, REENGAGE_2
  and RESCUE_2, which nothing reaches.
- Contacts: listing, the bulk update, the dispatch of an import as a task, which nothing does.
- ERP: CRUD of items, partners, accounts, taxes and price lists; the credit check and credit notes;
  average costs (everything costs 1); several lines or items of a document.
- Market: deals, outreach, saved searches, product administration, attributes that are only stored.
- Accounts: passwords, permissions, expiry of tokens. Settings: the business card, test numbers, the
  chat export. Audit: queries. Analytics: prices and rates.
- Dead code: `receive_into_stock`, `dispatch_units`, `recompute_moving_average`, `DebitNoteService.issue`,
  `CreditNoteService.issue`, `touch_last_interaction`, `import_csv_task`, the template sync task.
- Events over Redis and websockets: they inform the dashboard and change no row.
- Frontend, deployment, migrations, seed scripts: presentation, configuration and data.

## 8. Plan

Every module that was planned is there. Proved are the safety properties of `Conversation`, `Inbound`,
`Delivery`, `AiReply`, `Engagement`, `Campaign`, `Stock` and `Books`, and of `Office` those about tags,
administration, campaigns and the search. What is left is proof, in this order:

1. `Office`: `ContactsAreSound`, along the lines of `TagSoundness`; `StepsAreDue`, operation by operation.
2. `Market`: `ReviewStands`, and `CountedOnce` and `ReportedIsStored` of `PostsAreMerged`.
3. `Office`: `FiguresAgree` and `InboxIsTrue`, which tie counters and tables to what they count.
