------------------------------- MODULE Market -------------------------------
(***************************************************************************)
(* The posts of one sender in the market groups: their ingestion, one at a *)
(* time or in a batch, the fingerprint in Redis that merges reposts, the   *)
(* classification by an LLM, the review by humans and the expiry sweep.    *)
(*                                                                         *)
(* A request is one transaction: what it has written is its own until the  *)
(* commit, but the fingerprint in Redis is seen at once.  Posts of one     *)
(* kind have one fingerprint.  The clock keeps the order of the BUY expiry *)
(* (45 minutes), the fingerprint window (3 hours) and the SELL expiry (48  *)
(* hours).  Counters of the products are not told apart: tagged[p] counts  *)
(* how often post p has been added to the counts of its contact.           *)
(***************************************************************************)
EXTENDS Extraction, Sequences, Functions, TLC

CONSTANTS
    Posts,          \* dedup hashes, and the rows that are stored for them
    Requests,       \* ingestion requests at the same time (a bound)
    Workers,        \* workers that classify
    Reviewers,      \* review requests at the same time (a bound)
    BuyTTL, Window, SellTTL,        \* see above
    LastPost,       \* when the last post is made (a bound)
    Guesses,        \* the sides that an LLM or a human may come to (a bound)
    Id,             \* the order of the rows' ids
    Histories       \* what the posts are, and bounds on requests, reviews, faults

\* The texts of the posts, by kind: an offer, a demand, both, neither and a product
\* that no alias knows, a foreign brand, and the end of an offer.
Text == [buy |-> {"WTB", "iPhone"}, sell |-> {"WTS", "iPhone"}, mixed |-> {"WTB", "WTS", "iPhone"},
         vague |-> {"MacBook"}, foreign |-> {"WTS", "Pixel"}, bad |-> {"sold out", "iPhone"}]
Kinds   == DOMAIN Text
Aliases == {"iPhone"}

ASSUME MarketAssumption ==
    /\ \A h \in Histories : /\ h.kind \in [Posts -> Kinds \union {"none"}]
                            /\ {h.requests, h.reviews, h.faults, h.lists} \subseteq Nat
    /\ Id \in [Posts -> Nat] /\ IsInjective(Id)
    /\ {BuyTTL, Window, SellTTL, LastPost} \subseteq Nat
    /\ Guesses \subseteq {"BUY", "SELL", "MIXED"}
    /\ 0 < BuyTTL /\ BuyTTL < Window /\ Window < SellTTL

MaxTime == LastPost + SellTTL

Sides   == {"BUY", "SELL", "MIXED", "UNKNOWN"}
Reviews == {"AUTO", "PENDING", "REVIEWED", "DISMISSED", "UNREVIEWED_EXPIRED"}
Row == [side: Sides, status: {"ACTIVE", "EXPIRED"}, review: Reviews, products: BOOLEAN,
        captured: 0..MaxTime, expires: 0..(MaxTime + SellTTL), seen: Nat \ {0}]

VARIABLES
    now,
    history,        \* one of Histories
    posted,         \* when it was captured; -1: not yet
    rows,           \* market_messages, by the post they were created for
    made,           \* when the fingerprint of a post was looked up in vain
    key,            \* the fingerprints: "none", "pending" or a post, and their end
    req,            \* what each request is doing
    started,        \* requests so far
    queue,          \* classify_message_task, by post
    worker, reviewer,
    reviews, faults,
    listing,        \* a reviewer's way through the pages of the review queue
    lists,          \* listings so far
    tagged,         \* increments of the contact's counts
    extra,          \* corrections, and writers overtaken since they read
    excused,        \* posts looked up while a request of their kind was open
    forgot,         \* kinds whose fingerprint a failure has cut off from its row
    tried,          \* posts that a worker has taken up
    lost            \* posts whose task was never published

store == <<rows, made, key>>
tasks == <<queue, worker, tried, lost>>
human == <<reviewer, reviews, listing, lists>>
seen  == <<tagged, extra, excused, forgot>>
vars  == <<now, history, posted, store, req, started, tasks, human, faults, seen>>

Idle == [pc |-> "idle", todo |-> <<>>, batch |-> FALSE, pre |-> {}, new |-> <<>>, bumps |-> <<>>,
         saw |-> <<>>, reported |-> {}, llm |-> {}]
NoWork   == [pc |-> "idle"]
NoReview == [pc |-> "idle"]
NoListing == [pc |-> "idle", last |-> {}, shown |-> {}, open |-> <<>>, turned |-> FALSE]

Init ==
    /\ now = 0
    /\ history \in Histories
    /\ posted = [p \in Posts |-> -1]
    /\ rows = <<>> /\ made = [p \in Posts |-> 0]
    /\ key = [k \in Kinds |-> [of |-> "none", until |-> 0]]
    /\ req = [r \in Requests |-> Idle] /\ started = 0
    /\ queue = [p \in Posts |-> 0]
    /\ worker = [w \in Workers |-> NoWork] /\ reviewer = [v \in Reviewers |-> NoReview]
    /\ reviews = 0 /\ faults = 0 /\ listing = NoListing /\ lists = 0
    /\ tagged = [p \in Posts |-> 0] /\ extra = [p \in Posts |-> 0]
    /\ excused = {} /\ forgot = {} /\ tried = {} /\ lost = {}

-----------------------------------------------------------------------------
(* What the rows are made of *)
kind == history.kind
Stored == DOMAIN rows

\* What a listener that is trusted says of a post is taken over; the products
\* of the others are those that the keywords and aliases find.
_apply_precomputed(p) == kind[p] = "mixed"
Passed == [k \in Kinds |-> extract_attributes(Text[k]).passed]
_classify_keywords(p) == Passed[kind[p]] /\ Text[kind[p]] \intersect Aliases # {}
Resolved(p) == _apply_precomputed(p) \/ _classify_keywords(p)

\* A product found with a confidence below market.confidence.auto_min waits for
\* a human; keywords are above, and what the LLM is least sure of is not below
\* market.confidence.review_min.
_apply_confidence_routing(found) == IF found = "pending" THEN "PENDING" ELSE "AUTO"

\* The side of a row: the listener's, or the extractor's, or that of the keywords.
\* The extractor knows sides that the column does not accept.
ExtractedSide == [k \in Kinds |->
    LET side == extract_intent(Text[k]).side IN
    CASE side = "buy"     -> "BUY"
      [] side = "sell"    -> "SELL"
      [] side = "unknown" -> _classify_side(Text[k])
      [] OTHER            -> "REFUSED"]
Side(p)    == IF _apply_precomputed(p) THEN "MIXED" ELSE ExtractedSide[kind[p]]
Refused(p) == Side(p) \notin Sides

_compute_expiry(side, at) == at + (IF side = "BUY" THEN BuyTTL ELSE SellTTL)

NewRow(p) == [side |-> Side(p), status |-> "ACTIVE",
              review |-> IF Passed[kind[p]] THEN _apply_confidence_routing("keyword") ELSE "PENDING",
              products |-> Resolved(p), seen |-> 1,
              captured |-> posted[p], expires |-> _compute_expiry(Side(p), posted[p])]

\* Fault: only a side that is unknown is left to the LLM.
UnresolvedSide(row) == row.side = "UNKNOWN"

\* What is left to the LLM.
Unresolved(row) == ~row.products \/ row.side = "UNKNOWN"

-----------------------------------------------------------------------------
(* MarketIngestionService, POST /messages and POST /messages/batch *)
Open(r)    == req[r].pc \in {"item", "insert", "bump", "commit"}
Current(r) == Head(req[r].todo)

\* The row as this request sees it: its own, or the committed one.
View(r, q) == IF q \in DOMAIN req[r].new THEN req[r].new[q]
              ELSE IF q \in DOMAIN req[r].bumps THEN req[r].bumps[q] @@ rows[q] ELSE rows[q]

\* Another transaction holds the row, or the key of the row, to be written.
HeldBy(q, r) == {s \in Requests \ {r} : Open(s) /\ q \in DOMAIN req[s].new \union DOMAIN req[s].bumps}
Wants(r)     == IF req[r].pc = "insert" THEN Current(r) ELSE key[kind[Current(r)]].of

\* What a request that fails may leave behind: fingerprints without a row.
Touches(r) == {kind[p] : p \in DOMAIN req[r].new \union DOMAIN req[r].bumps \union Range(req[r].todo)}

\* A post, or two, new or once more; the listener may have a backlog.
Start(r) ==
    /\ req[r].pc = "idle" /\ started < history.requests /\ now <= Window
    /\ \E ps \in {<<p>> : p \in Posts} \union {<<p, q>> : p \in Posts, q \in Posts} :
          /\ IsInjective(ps) /\ \A p \in Range(ps) : kind[p] # "none"
          /\ \E at \in [Range(ps) -> 0..Min({now, LastPost})] :
                posted' = [p \in Posts |-> IF p \in Range(ps) /\ posted[p] < 0 THEN at[p] ELSE posted[p]]
          /\ req' = [req EXCEPT ![r] = [Idle EXCEPT !.pc = "item", !.todo = ps, !.batch = Len(ps) > 1,
                                                    !.pre = Range(ps) \intersect Stored]]
    /\ started' = started + 1
    /\ UNCHANGED <<now, history, store, tasks, human, faults, seen>>

\* The item is done with, and the row q is reported for it.
Report(r, q, changed, llm) ==
    req' = [req EXCEPT ![r] = [changed EXCEPT !.pc = IF Len(changed.todo) = 1 THEN "commit" ELSE "item",
                                              !.todo = Tail(@),
                                              !.reported = @ \union {q},
                                              !.llm = IF llm THEN @ \union {q} ELSE @]]

\* The dedup hash is known already.
Duplicate(r) ==
    /\ req[r].pc = "item" /\ Current(r) \in Stored
    /\ LET p == Current(r) IN Report(r, p, req[r], p \notin req[r].pre /\ Unresolved(rows[p]))
    /\ UNCHANGED <<now, history, posted, store, started, tasks, human, faults, seen>>

\* _check_fingerprint: the claim, the row to bump, which is read, or neither.
\* Redis may be down.  A row that is not there (yet) is created once more.
CheckFingerprint(r) ==
    /\ req[r].pc = "item" /\ Current(r) \notin Stored
    /\ LET p == Current(r)
           k == kind[p]
           q == key[k].of
           To(pc) == /\ req' = [req EXCEPT ![r].pc = pc,
                                            ![r].saw = IF pc = "bump" THEN View(r, q) ELSE <<>>]
                     /\ made' = IF pc = "insert" THEN [made EXCEPT ![p] = now] ELSE made
           excuse == IF \E s \in Requests \ {r} : Open(s) /\ k \in Touches(s)
                        THEN excused \union {p} ELSE excused
       IN  \/ /\ q = "none" /\ To("insert")
              /\ key' = [key EXCEPT ![k] = [of |-> "pending", until |-> now + Window]]
              /\ UNCHANGED <<faults, excused, forgot>>
           \/ /\ q \in Stored \union DOMAIN req[r].new /\ To("bump")
              /\ UNCHANGED <<key, faults, excused, forgot>>
           \/ /\ q \notin {"none"} \union Stored \union DOMAIN req[r].new /\ To("insert")
              /\ excused' = excuse
              /\ UNCHANGED <<key, faults, forgot>>
           \/ /\ faults < history.faults /\ faults' = faults + 1 /\ To("insert")
              /\ forgot' = forgot \union {k}
              /\ UNCHANGED <<key, excused>>
    /\ UNCHANGED <<now, history, posted, rows, started, tasks, human, tagged, extra>>

\* _bump_fingerprint_row, from what was read: the status stays what it is.
Bump(r) ==
    /\ req[r].pc = "bump"
    /\ LET p == Current(r)
           q == key[kind[p]].of
           b == [seen |-> req[r].saw.seen + 1, captured |-> Min({req[r].saw.captured, posted[p]}),
                 expires |-> _compute_expiry(req[r].saw.side, posted[p])]
           llm == Unresolved(View(r, q))
       IN  \/ q \in DOMAIN req[r].new
              /\ Report(r, q, [req[r] EXCEPT !.new[q] = b @@ @], llm)
           \/ q \in Stored /\ HeldBy(q, r) = {}
              /\ Report(r, q, [req[r] EXCEPT !.bumps = (q :> b) @@ @], llm)
    /\ UNCHANGED <<now, history, posted, store, started, tasks, human, faults, seen>>

\* Fault: the row is not named in Redis.
InsertUnnamed(r) ==
    /\ req[r].pc = "insert" /\ HeldBy(Current(r), r) = {}
    /\ LET p == Current(r)
           k == kind[p]
           named == FALSE
       IN  \/ /\ p \in Stored \/ Refused(p)
              /\ req' = [req EXCEPT ![r].pc = "broken"]
              /\ UNCHANGED <<key, faults, forgot>>
           \/ /\ p \notin Stored /\ ~Refused(p)
              /\ Report(r, p, [req[r] EXCEPT !.new = (p :> NewRow(p)) @@ @], Unresolved(NewRow(p)))
              /\ \/ key' = (IF named THEN [key EXCEPT ![k].of = p] ELSE key)
                    /\ UNCHANGED <<faults, forgot>>
                 \/ named /\ faults < history.faults /\ faults' = faults + 1
                    /\ forgot' = forgot \union {k} /\ UNCHANGED key
    /\ UNCHANGED <<now, history, posted, rows, made, started, tasks, human, tagged, extra, excused>>

\* The row, and its name in Redis where the claim still stands.  Posts of a
\* foreign brand return before that.  An insertion that fails breaks the session.
Insert(r) ==
    /\ req[r].pc = "insert" /\ HeldBy(Current(r), r) = {}
    /\ LET p == Current(r)
           k == kind[p]
           named == Passed[k] /\ key[k].of # "none"
       IN  \/ /\ p \in Stored \/ Refused(p)
              /\ req' = [req EXCEPT ![r].pc = "broken"]
              /\ UNCHANGED <<key, faults, forgot>>
           \/ /\ p \notin Stored /\ ~Refused(p)
              /\ Report(r, p, [req[r] EXCEPT !.new = (p :> NewRow(p)) @@ @], Unresolved(NewRow(p)))
              /\ \/ key' = (IF named THEN [key EXCEPT ![k].of = p] ELSE key)
                    /\ UNCHANGED <<faults, forgot>>
                 \/ named /\ faults < history.faults /\ faults' = faults + 1
                    /\ forgot' = forgot \union {k} /\ UNCHANGED key
    /\ UNCHANGED <<now, history, posted, rows, made, started, tasks, human, tagged, extra, excused>>

\* Two batches wait for one another's rows, and the database breaks one.
Deadlocked(r) ==
    /\ req[r].pc \in {"insert", "bump"}
    /\ \E s \in HeldBy(Wants(r), r) : req[s].pc \in {"insert", "bump"} /\ r \in HeldBy(Wants(s), s)
    /\ req' = [req EXCEPT ![r].pc = "broken"]
    /\ UNCHANGED <<now, history, posted, store, started, tasks, human, faults, seen>>

\* What becomes of a row that the request has bumped.
Merged(r, q) == IF q \in DOMAIN req[r].bumps THEN req[r].bumps[q] @@ rows[q] ELSE rows[q]

\* The counts of the contacts go up with the products.
increment_tag(P) == tagged' = [p \in Posts |-> tagged[p] + (IF p \in P THEN 1 ELSE 0)]

\* The commit, and then the tasks to be published.
Commit(r) ==
    /\ req[r].pc = "commit"
    /\ rows' = req[r].new @@ [q \in Stored |-> Merged(r, q)]
    /\ increment_tag({p \in DOMAIN req[r].new : Resolved(p)})
    /\ req' = [req EXCEPT ![r] = [Idle EXCEPT !.pc = "dispatch", !.reported = req[r].reported,
                  !.llm = IF req[r].batch THEN req[r].llm
                          ELSE {q \in req[r].reported : Unresolved(rows'[q])}]]
    /\ UNCHANGED <<now, history, posted, made, key, started, tasks, human, faults, extra, excused, forgot>>

Dispatch(r) ==
    /\ req[r].pc = "dispatch"
    /\ queue' = [p \in Posts |-> queue[p] + (IF p \in req[r].llm THEN 1 ELSE 0)]
    /\ req' = [req EXCEPT ![r] = Idle]
    /\ UNCHANGED <<now, history, posted, store, started, worker, tried, lost, human, faults, seen>>

\* Fault: the failure is caught, and the items are reported.
CommitFailsSilently(r) ==
    /\ req[r].pc = "broken"
    /\ req' = [req EXCEPT ![r] = [Idle EXCEPT !.pc = "dispatch", !.reported = req[r].reported]]
    /\ forgot' = forgot \union Touches(r)
    /\ UNCHANGED <<now, history, posted, store, started, tasks, human, faults, tagged, extra, excused>>

\* The commit of a broken session raises, whatever the other items were.
CommitFails(r) ==
    /\ req[r].pc = "broken"
    /\ req' = [req EXCEPT ![r] = Idle]
    /\ forgot' = forgot \union Touches(r)
    /\ UNCHANGED <<now, history, posted, store, started, tasks, human, faults, tagged, extra, excused>>

\* The process dies: its transaction, or its tasks, are gone.
RequestDies(r) ==
    /\ req[r].pc # "idle" /\ faults < history.faults
    /\ faults' = faults + 1
    /\ req' = [req EXCEPT ![r] = Idle]
    /\ forgot' = forgot \union Touches(r)
    /\ lost' = lost \union (IF req[r].pc = "dispatch" THEN req[r].llm ELSE {})
    /\ UNCHANGED <<now, history, posted, store, started, queue, worker, tried, human, tagged, extra, excused>>

-----------------------------------------------------------------------------
(* classify_message_task *)

\* Fault: a message with products is classified again.
ClassifyAnyway(w) == \E p \in Stored :
    /\ worker[w].pc = "idle" /\ queue[p] > 0
    /\ queue' = [queue EXCEPT ![p] = @ - 1]
    /\ tried' = tried \union {p}
    /\ worker' = [worker EXCEPT ![w] = [pc |-> "call", post |-> p, saw |-> rows[p].review,
                                        overtaken |-> FALSE]]
    /\ UNCHANGED <<now, history, posted, store, req, started, lost, human, faults, seen>>

\* A message with products is left alone; the others go to the LLM.
ClassifyStart(w) == \E p \in Stored :
    /\ worker[w].pc = "idle" /\ queue[p] > 0
    /\ queue' = [queue EXCEPT ![p] = @ - 1]
    /\ tried' = tried \union {p}
    /\ worker' = IF rows[p].products THEN worker
                 ELSE [worker EXCEPT ![w] = [pc |-> "call", post |-> p, saw |-> rows[p].review,
                                             overtaken |-> FALSE]]
    /\ UNCHANGED <<now, history, posted, store, req, started, lost, human, faults, seen>>

\* The LLM gives nothing.
ClassifyNothing(w) ==
    /\ worker[w].pc = "call"
    /\ worker' = [worker EXCEPT ![w] = NoWork]
    /\ UNCHANGED <<now, history, posted, store, req, started, queue, tried, lost, human, faults, seen>>

\* Who else is at work on the post is overtaken.
OvertakenOn(p, x) == IF x.pc = "idle" THEN x
                     ELSE IF x.post = p THEN [x EXCEPT !.overtaken = TRUE] ELSE x

\* The count goes up only where the confidence is above auto_min.
increment_tag_sync(p, found) == tagged' = [tagged EXCEPT ![p] = @ + (IF found = "auto" THEN 1 ELSE 0)]

\* The side, which leaves the expiry as it was; a product that is known, with a
\* confidence above or below market.confidence.auto_min; or one that is not.
\* The session writes the review status where it differs from what it has read.
ClassifyApply(w) == \E side \in Guesses \union {"UNKNOWN"}, found \in {"auto", "pending", "unknown", "none"} :
    /\ worker[w].pc = "call" /\ side # "MIXED"
    /\ LET p  == worker[w].post
           to == _apply_confidence_routing(found)
       IN  /\ rows' = [rows EXCEPT ![p].side = IF side = "UNKNOWN" THEN @ ELSE side,
                                   ![p].products = @ \/ found \in {"auto", "pending"},
                                   ![p].review = IF found # "none" /\ to # worker[w].saw THEN to ELSE @]
           /\ increment_tag_sync(p, found)
           /\ extra' = [extra EXCEPT ![p] = @ + (IF worker[w].overtaken THEN 1 ELSE 0)]
           /\ worker' = [x \in Workers |-> IF x = w THEN NoWork ELSE OvertakenOn(p, worker[x])]
           /\ reviewer' = [v \in Reviewers |-> OvertakenOn(p, reviewer[v])]
    /\ UNCHANGED <<now, history, posted, made, key, req, started, queue, tried, lost, reviews, listing, lists, faults,
                   excused, forgot>>

\* acks_late: the task of a worker that dies is delivered again.
WorkerDies(w) ==
    /\ worker[w].pc = "call" /\ faults < history.faults
    /\ faults' = faults + 1
    /\ queue' = [queue EXCEPT ![worker[w].post] = @ + 1]
    /\ worker' = [worker EXCEPT ![w] = NoWork]
    /\ UNCHANGED <<now, history, posted, store, req, started, tried, lost, human, seen>>

-----------------------------------------------------------------------------
(* MarketReviewService and POST /messages/{id}/correct *)
Decisions == {"resolve", "dismiss", "correct"}

ReviewStart(v) == \E p \in Stored, act \in Decisions :
    /\ reviewer[v].pc = "idle" /\ reviews < history.reviews
    /\ act # "correct" => rows[p].review = "PENDING"
    /\ reviews' = reviews + 1 /\ UNCHANGED <<listing, lists>>
    /\ reviewer' = [reviewer EXCEPT ![v] = [pc |-> act, post |-> p, saw |-> rows[p].review,
                        side |-> rows[p].side, at |-> rows[p].captured, overtaken |-> FALSE]]
    /\ UNCHANGED <<now, history, posted, store, req, started, tasks, faults, seen>>

\* _apply_resolve: a new side with its expiry, perhaps a product; every product
\* of the message adds to the counts of the contact, whatever added before.
ApplyResolve(v) == \E side \in Sides, adds \in BOOLEAN :
    /\ reviewer[v].pc \in {"resolve", "correct"}
    /\ side \in Guesses \/ side = reviewer[v].side
    /\ LET p == reviewer[v].post
       IN  /\ rows' = [rows EXCEPT
                  ![p].side = IF side = reviewer[v].side THEN @ ELSE side,
                  ![p].expires = IF side = reviewer[v].side THEN @
                                 ELSE _compute_expiry(side, reviewer[v].at),
                  ![p].products = @ \/ adds,
                  ![p].review = IF reviewer[v].saw = "REVIEWED" THEN @ ELSE "REVIEWED"]
           /\ increment_tag({q \in {p} : rows'[q].products})
           /\ extra' = [extra EXCEPT ![p] = @ +
                  (IF reviewer[v].overtaken \/ reviewer[v].pc = "correct" THEN 1 ELSE 0)]
           /\ reviewer' = [x \in Reviewers |-> IF x = v THEN NoReview ELSE OvertakenOn(p, reviewer[x])]
           /\ worker' = [w \in Workers |-> OvertakenOn(p, worker[w])]
    /\ UNCHANGED <<now, history, posted, made, key, req, started, queue, tried, lost, reviews, listing, lists, faults,
                   excused, forgot>>

\* Fault: the decision goes into the other status.
ApplyDismissStatus(v) ==
    /\ reviewer[v].pc = "dismiss"
    /\ LET p == reviewer[v].post
       IN  /\ rows' = [rows EXCEPT ![p].status = "DISMISSED"]
           /\ reviewer' = [x \in Reviewers |-> IF x = v THEN NoReview ELSE OvertakenOn(p, reviewer[x])]
           /\ worker' = [w \in Workers |-> OvertakenOn(p, worker[w])]
    /\ UNCHANGED <<now, history, posted, made, key, req, started, queue, tried, lost, reviews, listing, lists, faults, seen>>

ApplyDismiss(v) ==
    /\ reviewer[v].pc = "dismiss"
    /\ LET p == reviewer[v].post
       IN  /\ rows' = [rows EXCEPT ![p].review = "DISMISSED"]
           /\ reviewer' = [x \in Reviewers |-> IF x = v THEN NoReview ELSE OvertakenOn(p, reviewer[x])]
           /\ worker' = [w \in Workers |-> OvertakenOn(p, worker[w])]
    /\ UNCHANGED <<now, history, posted, made, key, req, started, queue, tried, lost, reviews, listing, lists, faults, seen>>

-----------------------------------------------------------------------------
(* GET /review-queue, a page of one row at a time *)
PENDING == {p \in Stored : rows[p].review = "PENDING"}

\* Those that have not expired come first, then those that end sooner.
Priority(expires) == IF expires > now THEN 0 ELSE 1
Rank(p) == <<Priority(rows[p].expires), rows[p].expires, Id[p]>>
Before(a, b) == \/ a[1] < b[1]
                \/ a[1] = b[1] /\ a[2] < b[2]
                \/ a[1] = b[1] /\ a[2] = b[2] /\ a[3] < b[3]

\* Fault: rows that end at the time of the cursor are passed over.
PendingAfterTime(last) == {p \in PENDING : \A c \in last :
    Before(<<Priority(c.expires), c.expires, 0>>, <<Rank(p)[1], Rank(p)[2], 0>>)}

\* list_pending: what comes after the cursor, whose priority is found anew.
list_pending(last) ==
    {p \in PENDING : \A c \in last : Before(<<Priority(c.expires), c.expires, c.id>>, Rank(p))}

ListStart ==
    /\ listing.pc = "idle" /\ lists < history.lists
    /\ lists' = lists + 1
    /\ listing' = [NoListing EXCEPT !.pc = "list", !.open = [p \in PENDING |-> rows[p].expires]]
    /\ UNCHANGED <<now, history, posted, store, req, started, tasks, reviewer, reviews, faults, seen>>

\* The next row, or the end.  open keeps the rows that wait unchanged.
NextPage ==
    /\ listing.pc = "list"
    /\ LET found == list_pending(listing.last)
           still == {p \in DOMAIN listing.open \intersect PENDING : rows[p].expires = listing.open[p]}
           changed == [listing EXCEPT
               !.open = Restrict(@, still),
               !.turned = @ \/ \E c \in listing.last : Priority(c.expires) # c.priority]
       IN  \/ found = {} /\ listing' = [changed EXCEPT !.pc = "done"]
           \/ \E p \in found :
                 /\ \A q \in found \ {p} : Before(Rank(p), Rank(q))
                 /\ listing' = [changed EXCEPT !.shown = @ \union {p},
                        !.last = {[expires |-> rows[p].expires, id |-> Id[p],
                                   priority |-> Priority(rows[p].expires)]}]
    /\ UNCHANGED <<now, history, posted, store, req, started, tasks, reviewer, reviews, lists, faults, seen>>

-----------------------------------------------------------------------------
(* expire_market_messages_task *)

\* Fault: a side that is unknown is forgotten.
StaleKnown(row) == /\ row.status = "ACTIVE"
                   /\ \/ row.side = "BUY" /\ row.captured + BuyTTL <= now
                      \/ row.side = "SELL" /\ row.captured + SellTTL <= now

\* MIXED posts have no end.
Stale(row) == /\ row.status = "ACTIVE"
              /\ \/ row.side \in {"BUY", "UNKNOWN"} /\ row.captured + BuyTTL <= now
                 \/ row.side = "SELL" /\ row.captured + SellTTL <= now
\* Fault: a review is no longer looked at.
UnreviewedAll(row) == row.review # "AUTO" /\ row.review # "UNREVIEWED_EXPIRED" /\ row.expires <= now

Unreviewed(row) == row.review = "PENDING" /\ row.expires <= now

\* Two updates of everything that is due, in one transaction.
expire_stale_sync ==
    /\ \E p \in Stored : Stale(rows[p]) \/ Unreviewed(rows[p])
    /\ rows' = [p \in Stored |->
           [rows[p] EXCEPT !.status = IF Stale(rows[p]) THEN "EXPIRED" ELSE @,
                           !.review = IF Unreviewed(rows[p]) THEN "UNREVIEWED_EXPIRED" ELSE @]]
    /\ UNCHANGED <<now, history, posted, made, key, req, started, tasks, human, faults, seen>>

\* Time passes, and the fingerprints come to their end.  A unit of time is
\* longer than a request: none goes from one into the next.
Pass ==
    /\ now < MaxTime
    /\ \A r \in Requests : ~Open(r)
    /\ now' = now + 1
    /\ key' = [k \in Kinds |-> IF key[k].until <= now' THEN [of |-> "none", until |-> 0] ELSE key[k]]
    /\ UNCHANGED <<history, posted, rows, made, req, started, tasks, human, faults, seen>>

-----------------------------------------------------------------------------
Item(r) == Duplicate(r) \/ CheckFingerprint(r) \/ Bump(r) \/ Insert(r) \/ Deadlocked(r)
Finish(r) == Commit(r) \/ Dispatch(r) \/ CommitFails(r)
Classify(w) == ClassifyApply(w) \/ ClassifyNothing(w)
Review(v) == ApplyResolve(v) \/ ApplyDismiss(v)

Next ==
    \/ \E r \in Requests : Start(r) \/ Item(r) \/ Finish(r) \/ RequestDies(r)
    \/ \E w \in Workers : ClassifyStart(w) \/ Classify(w) \/ WorkerDies(w)
    \/ \E v \in Reviewers : ReviewStart(v) \/ Review(v)
    \/ ListStart \/ NextPage \/ expire_stale_sync \/ Pass

Spec == Init /\ [][Next]_vars

\* Time passes, the beat starts the sweep every five minutes, and requests and
\* workers that have started go on as long as their process lives.
FairSpec ==
    /\ Spec
    /\ WF_vars(Pass) /\ WF_vars(expire_stale_sync)
    /\ \A r \in Requests : WF_vars(Item(r) \/ Finish(r))
    /\ \A w \in Workers : WF_vars(ClassifyStart(w)) /\ WF_vars(Classify(w))

-----------------------------------------------------------------------------
Times == 0..MaxTime
Bumped == [seen: Nat \ {0}, captured: Times, expires: 0..(MaxTime + SellTTL)]

TypeOK ==
    /\ now \in Times /\ history \in Histories /\ posted \in [Posts -> -1..LastPost]
    /\ Stored \subseteq Posts /\ rows \in [Stored -> Row] /\ made \in [Posts -> Times]
    /\ \A k \in Kinds : key[k].of \in {"none", "pending"} \union Posts /\ key[k].until \in 0..(MaxTime + Window)
    /\ \A r \in Requests :
          /\ req[r].pc \in {"idle", "item", "insert", "bump", "commit", "broken", "dispatch"}
          /\ req[r].new \in [DOMAIN req[r].new -> Row]
          /\ req[r].bumps \in [DOMAIN req[r].bumps -> Bumped]
          /\ DOMAIN req[r].bumps \subseteq Stored
    /\ queue \in [Posts -> 0..(history.requests + history.faults)]
    /\ listing.pc \in {"idle", "list", "done"} /\ lists \in Nat /\ listing.shown \subseteq Posts
    /\ \A v \in Reviewers : reviewer[v].pc \in {"idle"} \union Decisions
    /\ \A w \in Workers : worker[w].pc \in {"idle", "call"}
    /\ started \in 0..history.requests /\ reviews \in 0..history.reviews /\ faults \in 0..history.faults
    /\ tagged \in [Posts -> Nat] /\ extra \in [Posts -> Nat]
    /\ UNION {excused, tried, lost} \subseteq Posts /\ forgot \subseteq Kinds

\* Within a fingerprint's window there is one row for it, however the requests
\* overlap, but for posts that were looked up while the first one was not
\* committed, for fingerprints that a failure cut off, and for foreign brands.
OneRowPerWindow ==
    \A p, q \in Stored :
       /\ p # q /\ kind[p] = kind[q]
       /\ made[p] - made[q] \in 0..(Window - 1)
       => kind[p] \in {"foreign"} \union forgot \/ {p, q} \intersect excused # {}

\* A post adds to the counts of its contact once, whoever finds its product
\* first; corrections add again, and so does a writer who was overtaken.
CountedOnce == \A p \in Posts : tagged[p] <= 1 + extra[p]

\* What a request reports is in store: the ids that Redis names are looked up.
ReportedIsStored == \A r \in Requests : req[r].pc = "dispatch" => req[r].reported \subseteq Stored

\* Whoever turns the pages of the review queue to the end has seen every row
\* that waited in it all the time, unless a row at the end of a page expired
\* before the next page was asked for.
ListingShowsAll ==
    listing.pc = "done" => listing.turned \/ DOMAIN listing.open \subseteq listing.shown

\* No sweep and no classification undoes what a human has decided on a message
\* with a product, unless it was at work on the message at that time.
ReviewStands ==
    [][\A p \in Stored : rows[p].review \in {"REVIEWED", "DISMISSED"} /\ rows'[p].review # rows[p].review =>
          \/ \E w \in Workers : /\ worker[w].pc = "call" /\ worker[w].post = p /\ worker' # worker
                                /\ worker[w].overtaken \/ ~rows[p].products
          \/ \E v \in Reviewers : /\ reviewer[v].pc # "idle" /\ reviewer[v].post = p /\ reviewer' # reviewer
                                  /\ reviewer[v].overtaken \/ reviewer[v].pc = "correct"]_vars

\* The texts that are looked at: before the first post every text there can be,
\* and then those of the rows.
Texts(phrases) == IF started = 0 /\ now = 0 THEN SUBSET phrases ELSE {Text[kind[p]] : p \in Stored}

\* The keywords, which make the fingerprint, and the extractor, which makes the
\* side of the row, have tables of their own: yet no post that is a seller's by its
\* keywords is a buyer's by the extractor, and a post that has a side is without
\* keywords only where it spells W T S or announces stock.
SidesAgree == \A text \in Texts(Intents) : Agreed(text)

\* A buyer who says once more that he buys remains one, and a seller remains one,
\* whatever else the text has and whichever rule applied before: but for WTB,
\* which makes every post a buyer's, and for the end of an offer.
SaidTwiceStays == \A text \in Texts(Intents) : Steady(text)

\* A post that names something of Apple's is passed on whatever it names besides;
\* one that names something of Samsung's, unless a disk.  What is passed on has a
\* category, but for posts that name both brands and nothing that is known.
TargetsPass == \A text \in Texts(Goods) : PassesOn(text)

\* In the end every post that offers or asks has expired, reposted or not, and
\* none waits for a review: nothing that the sweep reads is put off for ever.
ACTIVE == {p \in Stored : rows[p].status = "ACTIVE" /\ rows[p].side # "MIXED"}
EverythingEnds == <>[](ACTIVE \union PENDING = {})

\* In the end every post without a product has been taken up by a worker, but
\* for those whose process died between the commit and the task.
Productless == {p \in Stored : ~rows[p].products}
Classified == <>[](Productless \subseteq tried \union lost)

-----------------------------------------------------------------------------
(* What the run checks of these together *)

\* Reposts are merged: a post of a kind has one row in its window, adds to the
\* counts once, and is found again by whoever it was reported to and by whoever
\* pages through the review queue.
PostsAreMerged == TypeOK /\ OneRowPerWindow /\ CountedOnce /\ ReportedIsStored /\ ListingShowsAll

\* The tables for a text's side and goods agree with one another and with themselves.
TextsAgree == SidesAgree /\ SaidTwiceStays /\ TargetsPass

\* Every post expires, and every post without a product is classified.
PostsEnd == EverythingEnds /\ Classified
=============================================================================
