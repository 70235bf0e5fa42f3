------------------------------- MODULE Search -------------------------------
(***************************************************************************)
(* The search of the market's messages: two panes, demands and offers,     *)
(* that are paged together with one cursor, while messages come in, are    *)
(* posted again and are corrected, and admins edit the vocabulary that a   *)
(* query is expanded with.  How messages come in is module Market.         *)
(*                                                                         *)
(* A message is found by words of its text; the rank that full-text search *)
(* gives it is its score.  Brand, family, condition and grade are filters  *)
(* like that of the products, and left out.                                *)
(***************************************************************************)
EXTENDS Requests

VARIABLES
    board,          \* market_messages, by id
    vocab           \* attribute_vocab, by id

searchState == <<board, vocab>>

Posted(side, at, words, score) == [side |-> side, at |-> at, words |-> words, score |-> score, products |-> {"X"}]
\* tag stands for category and tag, terms for the canonical name and the aliases.
Entry(tag, terms, active) == [tag |-> tag, terms |-> terms, active |-> active]
InitSearch(posts, entries) == board = posts /\ vocab = entries

IsPost(m) == /\ DOMAIN m = {"side", "at", "words", "score", "products"}
             /\ m.at \in Nat \ {0} /\ m.score \in Int
IsEntry(e) == DOMAIN e = {"tag", "terms", "active"}
\* What the schemas of the requests let through; an edit leaves the tag.
SearchWellFormed(q) ==
    /\ q.op = "search" => q.size \in Nat \ {0}
    /\ q.op = "ingest" => q.id \in Nat \ {0} /\ IsPost(q.row)
    /\ q.op = "repost" => q.at \in Nat \ {0}
    /\ q.op \in {"createEntry", "reseed"} => IsEntry(q.entry)
    /\ q.op = "editEntry" => DOMAIN q.patch \subseteq {"terms", "active"}

-----------------------------------------------------------------------------
(* What a query finds *)

_expand_query_vocab(word) ==
    {word} \union UNION {vocab[e].terms : e \in {x \in DOMAIN vocab : vocab[x].active /\ word \in vocab[x].terms}}

\* MARKET_SEARCH_USE_FTS, and a query.
use_fts(q) == q.fts /\ q.query # ""

Found(q, side) == {m \in DOMAIN board :
    /\ board[m].side = side
    /\ q.query # "" => (IF use_fts(q) THEN _expand_query_vocab(q.query) ELSE {q.query}) \intersect board[m].words # {}
    /\ q.products # {} => q.products \intersect board[m].products # {}}

\* Newest first.
Newer(m, n) == \/ board[m].at > board[n].at
               \/ board[m].at = board[n].at /\ m > n
Better(q, m, n) == IF use_fts(q) /\ board[m].score # board[n].score THEN board[m].score > board[n].score
                   ELSE Newer(m, n)

\* The position of a pane: at its top, or below a message.
Top == [at |-> 0, id |-> 0]
\* Fault: the message of the cursor is found again.
FromCursor(m, cursor) == cursor = Top \/ board[m].at < cursor.at \/ (board[m].at = cursor.at /\ m <= cursor.id)
\* Fault: messages of the same time are not told apart.
OlderThanCursor(m, cursor) == cursor = Top \/ board[m].at < cursor.at
Below(m, cursor) == cursor = Top \/ board[m].at < cursor.at \/ (board[m].at = cursor.at /\ m < cursor.id)

search_fts(q, side, cursor) == {m \in Found(q, side) : Below(m, cursor)}
FirstOf(q, S) == {m \in S : Cardinality({n \in S : Better(q, n, m)}) < q.size}
\* Where the next page begins, or Top if there is none.
NextCursor(q, S) ==
    IF Cardinality(S) <= q.size THEN Top
    ELSE LET last == CHOOSE m \in FirstOf(q, S) : \A n \in FirstOf(q, S) : n = m \/ Better(q, n, m)
         IN  [at |-> board[last].at, id |-> last]

-----------------------------------------------------------------------------
(* A user who turns the pages to the end *)

SearchStart(q) ==
    /\ Begin(q, [pc |-> "BUY", cursor |-> [BUY |-> Top, SELL |-> Top], first |-> TRUE, again |-> {},
                 found |-> Found(q, "BUY") \union Found(q, "SELL"), shown |-> [m \in {} |-> 0]])
    /\ UNCHANGED searchState

\* A pane: shown counts once and more often.  again: the panes that were at their
\* end and start from their top, because the other has more.
Pane(q, side) ==
    LET o == open[q]   rowsNow == search_fts(q, side, o.cursor[side])   now == FirstOf(q, rowsNow) IN
    [o EXCEPT !.cursor[side] = NextCursor(q, rowsNow),
              !.again = IF ~o.first /\ o.cursor[side] = Top THEN @ \union {side} ELSE @,
              !.shown = [m \in DOMAIN @ \union now |-> IF m \notin now THEN @[m] ELSE IF m \in DOMAIN @ THEN 2 ELSE 1]]

SearchBuy(q) ==
    /\ open[q].pc = "BUY"
    /\ Proceed(q, [Pane(q, "BUY") EXCEPT !.pc = "SELL"]) /\ UNCHANGED searchState

\* The cursor for both is none when both panes are at their end.
SearchSell(q) ==
    /\ open[q].pc = "SELL"
    /\ LET o == Pane(q, "SELL") IN
       Proceed(q, [o EXCEPT !.pc = IF o.cursor = [BUY |-> Top, SELL |-> Top] THEN "end" ELSE "BUY", !.first = FALSE])
    /\ UNCHANGED searchState

-----------------------------------------------------------------------------
(* What becomes of messages meanwhile *)

Ingested(q) == AtOnce(q) /\ board' = Added(board, q.id, q.row) /\ UNCHANGED vocab
\* A repost that was captured before keeps the earliest time.
_bump_fingerprint_row(q) ==
    /\ AtOnce(q) /\ UNCHANGED vocab
    /\ board' = [board EXCEPT ![q.id].at = IF q.at < @ THEN q.at ELSE @]
_apply_resolve(q) == AtOnce(q) /\ board' = [board EXCEPT ![q.id].side = q.side] /\ UNCHANGED vocab

-----------------------------------------------------------------------------
(* The vocabulary *)

get_by_tag(tag) == {e \in DOMAIN vocab : vocab[e].tag = tag}
NextEntry == Cardinality(DOMAIN vocab) + 1 + Cardinality({p \in done : p.op = "deleteEntry"})

\* Fault: the tag is not looked up.
CreateEntryBlindly(q) == Begin(q, [pc |-> "checked"]) /\ UNCHANGED searchState
CreateEntryRead(q) ==
    /\ IF get_by_tag(q.entry.tag) # {} THEN Refuse(q) ELSE Begin(q, [pc |-> "checked"])
    /\ UNCHANGED searchState
create_vocab_entry(q) ==
    /\ IF get_by_tag(q.entry.tag) # {} THEN Fail(q) /\ UNCHANGED vocab
       ELSE Commit(q) /\ vocab' = Added(vocab, NextEntry, q.entry)
    /\ UNCHANGED board

UpdateEntryRead(q) ==
    /\ IF q.e \notin DOMAIN vocab THEN Refuse(q) ELSE Begin(q, [pc |-> "read", row |-> vocab[q.e]])
    /\ UNCHANGED searchState
\* Fault: the whole row is written as it was read.
WrittenWhole(q, row) == Over(q.patch, open[q].row)
\* Columns that are given and differ from what was read.
WrittenParts(q, row) == [f \in DOMAIN row |->
    IF f \in DOMAIN q.patch /\ q.patch[f] # open[q].row[f] THEN q.patch[f] ELSE row[f]]
update_vocab_entry(q) ==
    /\ IF q.e \in DOMAIN vocab THEN Commit(q) /\ vocab' = [vocab EXCEPT ![q.e] = WrittenParts(q, @)]
       ELSE /\ UNCHANGED vocab
            /\ IF WrittenParts(q, open[q].row) = open[q].row THEN Commit(q) ELSE Fail(q)
    /\ UNCHANGED board

DeleteEntryRead(q) ==
    /\ IF q.e \notin DOMAIN vocab THEN Refuse(q) ELSE Begin(q, [pc |-> "read"])
    /\ UNCHANGED searchState
delete_vocab_entry(q) ==
    /\ Commit(q) /\ vocab' = Without(vocab, {q.e}) /\ UNCHANGED board

\* One entry of the seed; an entry with its tag becomes what the seed says.
upsert_seed(q) ==
    /\ AtOnce(q) /\ UNCHANGED board
    /\ vocab' = LET here == get_by_tag(q.entry.tag) IN
                IF here = {} THEN Added(vocab, NextEntry, q.entry) ELSE Over([e \in here |-> q.entry], vocab)

-----------------------------------------------------------------------------
search(q) == q.op = "search" /\ (\/ q \in todo /\ SearchStart(q)
                                 \/ q \in DOMAIN open /\ (SearchBuy(q) \/ SearchSell(q)))
PostEntry(q) == q.op = "createEntry" /\ (\/ q \in todo /\ CreateEntryRead(q)
                                         \/ q \in DOMAIN open /\ create_vocab_entry(q))
PatchEntry(q) == q.op = "editEntry" /\ (\/ q \in todo /\ UpdateEntryRead(q)
                                        \/ q \in DOMAIN open /\ update_vocab_entry(q))
DeleteEntry(q) == q.op = "deleteEntry" /\ (\/ q \in todo /\ DeleteEntryRead(q)
                                           \/ q \in DOMAIN open /\ delete_vocab_entry(q))
reseed_vocab(q) == q.op = "reseed" /\ q \in todo /\ upsert_seed(q)

SearchRequest(q) ==
    \/ search(q) \/ PostEntry(q) \/ PatchEntry(q) \/ DeleteEntry(q) \/ reseed_vocab(q)
    \/ q.op = "ingest" /\ q \in todo /\ Ingested(q)
    \/ q.op = "repost" /\ q \in todo /\ _bump_fingerprint_row(q)
    \/ q.op = "correct" /\ q \in todo /\ _apply_resolve(q)

-----------------------------------------------------------------------------
(* Properties *)

Searches == {q \in DOMAIN open : q.op = "search"}
\* What was found when the search began and nobody has touched since.
Untouched(q) == {m \in open[q].found : ~ \E p \in over[q] : p.op \in {"repost", "correct"} /\ p.id = m}
VocabEdited(q) == \E p \in over[q] : p.op \in {"createEntry", "editEntry", "deleteEntry", "reseed"}

Reposted(q, n) == \E p \in over[q] : p.op = "repost" /\ p.id = n

\* Paging shows no message twice, whatever comes in meanwhile: unless its pane was
\* at its end and begins again, or the message ranks above one that was shown too
\* and is newer, or was newer before its repost (the cursor knows the time, and the
\* order is that of the ranks).
SearchShowsOnce == \A q \in Searches : \A m \in Untouched(q) \intersect DOMAIN open[q].shown :
    \/ open[q].shown[m] = 1
    \/ board[m].side \in open[q].again
    \/ use_fts(q) /\ \E n \in DOMAIN open[q].shown : /\ board[n].score < board[m].score
                                                     /\ Newer(n, m) \/ Reposted(q, n)

\* Who pages to the end has seen all that was there: unless the vocabulary changed,
\* or an older message that ranks above it was shown.
SearchShowsAll == \A q \in Searches : open[q].pc = "end" => \A m \in Untouched(q) :
    \/ m \in DOMAIN open[q].shown
    \/ use_fts(q) /\ VocabEdited(q)
    \/ use_fts(q) /\ \E n \in DOMAIN open[q].shown : board[n].score > board[m].score /\ Newer(m, n)

\* What an admin sets of an entry stays until somebody sets it again, deletes the
\* entry or restores the seed, whatever others set of the entry at the same time.
VocabPatchStands == \A q \in {p \in done : p.op = "editEntry"} : \A f \in DOMAIN q.patch :
    \/ q.e \in DOMAIN vocab /\ vocab[q.e][f] = q.patch[f]
    \/ \E p \in done \ {q} : \/ p.op = "editEntry" /\ p.e = q.e /\ f \in DOMAIN p.patch
                             \/ p.op \in {"deleteEntry", "reseed"}

\* A request about the vocabulary ends with an error of the database only if
\* another took its tag or its entry meanwhile.
VocabErrorsHaveCause == \A q \in failed :
    /\ q.op = "createEntry" => \E p \in over[q] : p.op \in {"createEntry", "reseed"}
    /\ q.op = "editEntry" => \E p \in over[q] : p.op = "deleteEntry"
=============================================================================
