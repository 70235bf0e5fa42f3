------------------------------- MODULE Memory -------------------------------
(***************************************************************************)
(* What the AI remembers of a contact: a file with a summary of all the    *)
(* turns so far, and a row that tells the file's version.  A turn is added *)
(* by the orchestrator, or by the task that resumes the AI after an agent: *)
(* both read the file, ask the model for a new summary, write the file and *)
(* commit the row with the rest of their transaction.                      *)
(***************************************************************************)
EXTENDS Contacts

VARIABLES
    file,           \* the files, by contact; they outlive the contact
    memo            \* the rows of client_memories: the version of each contact's file

memoryState == <<file, memo>>

MemoryFile == [torn: BOOLEAN, version: Nat, turns: SUBSET Nat]

InitMemory == file = <<>> /\ memo = <<>>

\* No file, or one that cannot be parsed, is an empty memory.
_read_memory_file(id) ==
    IF id \in DOMAIN file /\ ~file[id].torn THEN [version |-> file[id].version, turns |-> file[id].turns]
    ELSE [version |-> 0, turns |-> {}]

Put(id, f) == file' = Over([i \in {id} |-> f], file)

RememberRead(q) ==
    /\ IF q.id \notin DOMAIN rows THEN Refuse(q)
       ELSE Begin(q, [at |-> "asked", old |-> _read_memory_file(q.id), row |-> 0])
    /\ UNCHANGED memoryState

\* Fault: the summary is of this exchange only.
_summarise_afresh(old, turn) == {turn}
\* The model is given the old summary with the exchange, and keeps what is in it.
_summarise(old, turn) == old.turns \union {turn}

\* No answer twice, or none that parses: the memory stays as it is.
_call_haiku_for_summary(q) == open[q].at = "asked" /\ Drop(q)
                              /\ UNCHANGED memoryState

\* write_text truncates the file before it writes.
TruncateFile(q) ==
    /\ open[q].at = "asked"
    /\ Proceed(q, [open[q] EXCEPT !.at = "writing"])
    /\ Put(q.id, [torn |-> TRUE, version |-> 0, turns |-> {}]) /\ UNCHANGED memo

\* Over a file that another has written since, a shorter text leaves its end.
WriteFile(q) ==
    /\ open[q].at = "writing"
    /\ Proceed(q, [open[q] EXCEPT !.at = "written", !.row = IF q.id \in DOMAIN memo THEN memo[q.id] ELSE 0])
    /\ LET old == open[q].old IN
       \/ Put(q.id, [torn |-> FALSE, version |-> old.version + 1, turns |-> _summarise(old, q.n)])
       \/ ~file[q.id].torn /\ Put(q.id, [torn |-> TRUE, version |-> 0, turns |-> {}])
    /\ UNCHANGED memo

\* The caller's commit, outside the try around the update: an error here takes
\* the caller's whole transaction with it, and the file stays.
_upsert_tracking_row(q) ==
    /\ open[q].at = "written"
    /\ LET version == open[q].old.version + 1   row == open[q].row IN
       IF q.id \notin DOMAIN rows \/ (row = 0 /\ q.id \in DOMAIN memo)
       THEN Fail(q) /\ UNCHANGED memo
       ELSE Commit(q) /\ memo' = IF version = row THEN memo ELSE Over([i \in {q.id} |-> version], memo)
    /\ UNCHANGED file

\* The worker dies before its commit.
RememberDies(q) == q.dies /\ Drop(q) /\ UNCHANGED memoryState

MemoryRequest(q) ==
    /\ q.op = "remember"
    /\ \/ q \in todo /\ RememberRead(q)
       \/ /\ q \in DOMAIN open
          /\ \/ _call_haiku_for_summary(q) \/ TruncateFile(q) \/ WriteFile(q)
             \/ _upsert_tracking_row(q) \/ RememberDies(q)
    /\ UNCHANGED contactState

\* The row goes with its contact, the file does not.
MemoryWithout(gone) == memo' = Without(memo, gone) /\ UNCHANGED file

-----------------------------------------------------------------------------
(* Properties *)

Turns(id) == {q \in DOMAIN over : q.op = "remember" /\ q.id = id}

\* Every turn whose update has committed is in the contact's file, and the row
\* tells that file's version: unless two updates of the contact overlapped, or
\* one is under way, has died or has failed (the file is read and written
\* without a lock, and before the commit).
TurnsKept ==
    \A q \in {p \in done : p.op = "remember"} :
        \/ q.n \in file[q.id].turns /\ (q.id \in DOMAIN memo => memo[q.id] = file[q.id].version)
        \/ \E p \in Turns(q.id) : p \notin done \/ \E r \in Turns(q.id) : p # r /\ Overlapped(p, r)
=============================================================================
