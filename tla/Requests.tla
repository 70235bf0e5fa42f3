------------------------------ MODULE Requests ------------------------------
(***************************************************************************)
(* Requests to the API, and tasks, as the transactions of the office       *)
(* modules see them: a request reads, and later writes and commits; other  *)
(* requests may commit in between (READ COMMITTED, no row is locked by a   *)
(* read).  Which requests there are in a behaviour is chosen at its start. *)
(***************************************************************************)
EXTENDS Integers, FiniteSets, Functions

VARIABLES
    todo,       \* the requests that are still to come
    open,       \* what each request in progress has read
    over,       \* over[q]: the requests that have committed since q's reading
    done,       \* the requests that have committed
    failed      \* those that an error of the database has ended at their writing

requests == <<todo, open, over, done, failed>>

\* f, with v at x unless f has an x; f over g; and f without S.
Added(f, x, v) == [y \in DOMAIN f \union {x} |-> IF y \in DOMAIN f THEN f[y] ELSE v]
Over(f, g) == [y \in DOMAIN f \union DOMAIN g |-> IF y \in DOMAIN f THEN f[y] ELSE g[y]]
Without(f, S) == [y \in DOMAIN f \ S |-> f[y]]

\* q passes its checks, having read r.
Begin(q, r) ==
    /\ q \in todo /\ todo' = todo \ {q}
    /\ open' = Added(open, q, r)
    /\ over' = Added(over, q, {})
    /\ UNCHANGED <<done, failed>>

\* q is answered with an error, or has nothing to do: it writes nothing.
Refuse(q) == q \in todo /\ todo' = todo \ {q} /\ UNCHANGED <<open, over, done, failed>>

\* q goes on: it has now read r.
Proceed(q, r) == q \in DOMAIN open /\ open' = [open EXCEPT ![q] = r]
                 /\ UNCHANGED <<todo, over, done, failed>>

Close(q) == open' = Without(open, {q}) /\ UNCHANGED todo

Commit(q) ==
    /\ q \in DOMAIN open /\ Close(q)
    /\ over' = [p \in DOMAIN over |-> IF p \in DOMAIN open \ {q} THEN over[p] \union {q} ELSE over[p]]
    /\ done' = done \union {q} /\ UNCHANGED failed

\* The database refuses what q writes (a unique or a foreign key, a row that is
\* gone): nothing of q is stored.
Fail(q) ==
    /\ q \in DOMAIN open /\ Close(q)
    /\ failed' = failed \union {q} /\ UNCHANGED <<over, done>>

\* q commits a part of its work, and goes on with r.
CommitPart(q, r) ==
    /\ q \in DOMAIN open /\ open' = [open EXCEPT ![q] = r]
    /\ over' = [p \in DOMAIN over |-> IF p \in DOMAIN open \ {q} THEN over[p] \union {q} ELSE over[p]]
    /\ UNCHANGED <<todo, done, failed>>

\* q ends without a write: its process dies, or it gives up.
Drop(q) == q \in DOMAIN open /\ Close(q) /\ UNCHANGED <<over, done, failed>>

\* A request without a reading of its own: one statement, and the commit.
AtOnce(q) ==
    /\ q \in todo /\ todo' = todo \ {q}
    /\ over' = [p \in DOMAIN over |-> IF p \in DOMAIN open THEN over[p] \union {q} ELSE over[p]]
    /\ done' = done \union {q} /\ UNCHANGED <<open, failed>>

\* p and q were in progress at the same time, and both have committed.
Overlapped(p, q) == \/ p \in DOMAIN over /\ q \in over[p]
                    \/ q \in DOMAIN over /\ p \in over[q]

InitRequests == open = <<>> /\ over = <<>> /\ done = {} /\ failed = {}
=============================================================================
