------------------------------- MODULE Ledger -------------------------------
(***************************************************************************)
(* The general ledger: PostingService, its numbering, and the fiscal       *)
(* periods; what every module of the ERP that posts shares.                *)
(*                                                                         *)
(* An HTTP request is one transaction (READ COMMITTED).  What it reads     *)
(* without a lock may be overtaken before it commits; a row that it has    *)
(* locked or written is its own until then.  A request is a record with a  *)
(* program counter, and what it means to write is invisible until Commit.  *)
(*                                                                         *)
(* A posting date is the fiscal period it falls in, all in one fiscal      *)
(* year; an amount is a whole number of the base currency.                 *)
(***************************************************************************)
EXTENDS Integers, Sequences, SequencesExt, FiniteSets, FiniteSetsExt

CONSTANTS
    Requests,       \* requests that are in progress at the same time (a bound)
    MaxRequests,    \* requests altogether (a bound)
    Periods,        \* the fiscal periods
    MaxPeriodMoves, \* closings and reopenings of a period (a bound)
    None            \* no document, no entry, nobody

ASSUME LedgerAssumption ==
    /\ MaxRequests \in Nat /\ MaxPeriodMoves \in Nat
    /\ IsFiniteSet(Requests) /\ None \notin Requests

\* The accounts of the starter chart that are posted to here.  A control account
\* takes entries of the system only.
Accounts == {"1020", "1100", "1200", "2100", "2200", "4100", "4200", "5100", "5200", "6500"}
ControlAccounts == {"1100", "1200", "2100", "2200"}
Vouchers == {"journal_entry", "bank_entry", "debit_note"}

\* number_sequences has a row per kind of voucher and of supplier document; the
\* debit notes and the entries with that voucher share one.
DocTypes == Vouchers \cup {"supplier_bill", "supplier_payment"}

VARIABLES
    period,         \* fiscal_periods.status
    journal,        \* the journal entries in the order of their commits
    sequence,       \* number_sequences.next_value - 1
    holder,         \* the transaction that has locked the sequence's row
    request,        \* what each request is doing
    requests, periodMoves,
    stragglers      \* per period: requests whose check its last closing overtook

ledger == <<period, journal, sequence, holder, periodMoves, stragglers>>

----------------------------------------------------------------------------
(* Journal entries.                                                        *)

Dr(a, amount) == [account |-> a, dr |-> amount, cr |-> 0]
Cr(a, amount) == [account |-> a, dr |-> 0, cr |-> amount]

\* A JournalEntryCreateRequest, with the number that it is given later.
Entry(voucher, date, lines, system, source) ==
    [voucher |-> voucher, date |-> date, lines |-> lines, system |-> system,
     source |-> source, no |-> 0, status |-> "posted", mirror |-> 0]

TotalDr(lines) == SumFunction([l \in lines |-> l.dr])
TotalCr(lines) == SumFunction([l \in lines |-> l.cr])

get_open_period(date) == period[date] = "open"

\* Fault: the period is not looked at.
AcceptableAnyTime(e) ==
    /\ \A l \in e.lines : l.account \in ControlAccounts => e.system
    /\ \A l \in e.lines : (l.dr = 0) # (l.cr = 0)
    /\ TotalDr(e.lines) = TotalCr(e.lines)

\* Fault: the two sides are not compared.
AcceptableUnbalanced(e) ==
    /\ get_open_period(e.date)
    /\ \A l \in e.lines : l.account \in ControlAccounts => e.system
    /\ \A l \in e.lines : (l.dr = 0) # (l.cr = 0)

\* The gates of PostingService.post.
Acceptable(e) ==
    /\ get_open_period(e.date)
    /\ \A l \in e.lines : l.account \in ControlAccounts => e.system
    /\ \A l \in e.lines : (l.dr = 0) # (l.cr = 0)
    /\ TotalDr(e.lines) = TotalCr(e.lines)

LinesOn(e, accounts) == {l \in e.lines : l.account \in accounts}

\* Over the entries at some positions of the journal.
LineSums(entries, accounts) ==
    [dr |-> SumFunctionOnSet([i \in DOMAIN journal |-> TotalDr(LinesOn(journal[i], accounts))], entries),
     cr |-> SumFunctionOnSet([i \in DOMAIN journal |-> TotalCr(LinesOn(journal[i], accounts))], entries)]

\* Only entries that are still POSTED count.
PostedEntries == {i \in DOMAIN journal : journal[i].status = "posted"}
sum_by_account(a) == LineSums(PostedEntries, {a})

Balance(a) == LET sums == sum_by_account(a) IN sums.dr - sums.cr

\* The trial balance shows each account in one of two columns.
TrialBalance ==
    LET net == [a \in Accounts |-> Balance(a)] IN
    [total_dr |-> SumFunctionOnSet(net, {a \in Accounts : net[a] > 0}),
     total_cr |-> -SumFunctionOnSet(net, {a \in Accounts : net[a] < 0})]

\* The entries of a document.
Entries(d) == Cardinality({i \in DOMAIN journal : journal[i].source = d})

----------------------------------------------------------------------------
(* Requests.                                                               *)

Idle == [pc |-> "idle", op |-> "none", doc |-> None, view |-> 0, entry |-> None]

\* The endpoint is entered: op on doc, with what it has read so far.
Enter(r, pc, op, doc, view, entry) ==
    /\ request[r].pc = "idle" /\ requests < MaxRequests
    /\ requests' = requests + 1
    /\ request' = [request EXCEPT ![r] =
           [pc |-> pc, op |-> op, doc |-> doc, view |-> view, entry |-> entry]]

At(r, pc, op) == request[r].pc = pc /\ request[r].op = op

Goto(r, pc) == request' = [request EXCEPT ![r].pc = pc]

\* emit_event_async: what the handler raises is logged and goes no further, so
\* the caller carries on without the entry.
Emit(r, e, view) ==
    request' = [request EXCEPT ![r].pc = IF Acceptable(e) THEN "accepted" ELSE "unposted",
                               ![r].entry = IF Acceptable(e) THEN e ELSE None,
                               ![r].view = view]

\* _next_entry_no: the row of the sequence is locked from here to the commit.
NextEntryNo(r) ==
    /\ request[r].pc = "accepted"
    /\ LET v == request[r].entry.voucher IN
         /\ holder[v] = None
         /\ holder' = [holder EXCEPT ![v] = r]
         /\ request' = [request EXCEPT ![r].pc = "numbered",
                                       ![r].entry.no = sequence[v] + 1]
    /\ UNCHANGED <<period, journal, sequence, periodMoves, stragglers, requests>>

Release(r) == [v \in DocTypes |-> IF holder[v] = r THEN None ELSE holder[v]]

\* session.commit(): the entry, the sequence and the rows of the caller.
Posted(r) ==
    /\ request[r].pc = "numbered"
    /\ journal' = Append(journal, request[r].entry)
    /\ sequence' = [sequence EXCEPT ![request[r].entry.voucher] = @ + 1]
    /\ holder' = Release(r)

Respond(r) == request' = [request EXCEPT ![r] = Idle]

\* The transaction is rolled back: a deadlock or a unique constraint chose it,
\* the statement timed out, or the connection was lost.
Rollback(r) ==
    /\ request[r].pc # "idle"
    /\ holder' = Release(r)
    /\ Respond(r)
    /\ UNCHANGED <<period, journal, sequence, periodMoves, stragglers, requests>>

----------------------------------------------------------------------------
(* The ledger's own endpoints.                                             *)

\* POST /ledger/journals: a manual entry; what the gates refuse changes nothing.
CreateJournal(r, voucher, date, lines) ==
    LET e == Entry(voucher, date, lines, FALSE, None) IN
    /\ Acceptable(e)
    /\ Enter(r, "accepted", "journal", <<None>>, 0, e)
    /\ UNCHANGED ledger

CommitJournal(r) ==
    /\ At(r, "numbered", "journal")
    /\ Posted(r) /\ Respond(r)
    /\ UNCHANGED <<period, periodMoves, stragglers, requests>>

\* Fault: the sides are not exchanged.
MirrorUnswapped(i) ==
    Entry(journal[i].voucher, journal[i].date, journal[i].lines, FALSE, <<"journal_entry", i>>)

\* The entry that PostingService.reverse posts; it is not system-generated.
Mirror(i) ==
    Entry(journal[i].voucher, journal[i].date,
          {[account |-> l.account, dr |-> l.cr, cr |-> l.dr] : l \in journal[i].lines},
          FALSE, <<"journal_entry", i>>)

\* POST /ledger/journals/{id}/reverse: the original is read without a lock.
ReverseJournal(r, i) ==
    /\ i \in DOMAIN journal
    /\ journal[i].status = "posted" /\ journal[i].mirror = 0
    /\ Acceptable(Mirror(i))
    /\ Enter(r, "accepted", "reverse", <<None>>, i, Mirror(i))
    /\ UNCHANGED ledger

CommitReversal(r) ==
    /\ At(r, "numbered", "reverse")
    /\ sequence' = [sequence EXCEPT ![request[r].entry.voucher] = @ + 1]
    /\ holder' = Release(r)
    /\ journal' = Append([journal EXCEPT ![request[r].view].status = "reversed",
                                         ![request[r].view].mirror = Len(journal) + 1],
                         request[r].entry)
    /\ Respond(r)
    /\ UNCHANGED <<period, periodMoves, stragglers, requests>>

\* Requests that have passed the period's gate and have not committed.
Passed(p) ==
    {r \in Requests : /\ request[r].pc \in {"accepted", "numbered"}
                      /\ request[r].entry.date = p}

\* Fault: a status that nothing else knows.
ClosePeriodLocked(p) ==
    /\ period[p] = "open" /\ periodMoves < MaxPeriodMoves
    /\ period' = [period EXCEPT ![p] = "locked"]
    /\ stragglers' = [stragglers EXCEPT ![p] = Passed(p)]
    /\ periodMoves' = periodMoves + 1
    /\ UNCHANGED <<journal, sequence, holder, request, requests>>

ClosePeriod(p) ==
    /\ period[p] = "open" /\ periodMoves < MaxPeriodMoves
    /\ period' = [period EXCEPT ![p] = "closed"]
    /\ stragglers' = [stragglers EXCEPT ![p] = Passed(p)]
    /\ periodMoves' = periodMoves + 1
    /\ UNCHANGED <<journal, sequence, holder, request, requests>>

ReopenPeriod(p) ==
    /\ period[p] = "closed" /\ periodMoves < MaxPeriodMoves
    /\ period' = [period EXCEPT ![p] = "open"]
    /\ periodMoves' = periodMoves + 1
    /\ UNCHANGED <<journal, sequence, holder, stragglers, request, requests>>

LedgerInit ==
    /\ period = [p \in Periods |-> "open"]
    /\ journal = << >>
    /\ sequence = [v \in DocTypes |-> 0]
    /\ holder = [v \in DocTypes |-> None]
    /\ request = [r \in Requests |-> Idle]
    /\ requests = 0 /\ periodMoves = 0
    /\ stragglers = [p \in Periods |-> {}]

\* A stored line, as the gates let it through; a stored entry.
JournalLineRow(l) ==
    /\ l.account \in Accounts /\ l.dr \in Nat /\ l.cr \in Nat
    /\ ~(l.dr > 0 /\ l.cr > 0)

JournalEntryRow(e) ==
    /\ e.voucher \in Vouchers /\ e.date \in Periods /\ e.no \in Nat \ {0}
    /\ e.status \in {"posted", "reversed"} /\ e.mirror \in 0 .. Len(journal)
    /\ \A l \in e.lines : JournalLineRow(l)

LedgerTypeOK ==
    /\ period \in [Periods -> {"open", "closed"}]
    /\ \A i \in DOMAIN journal : JournalEntryRow(journal[i])
    /\ sequence \in [DocTypes -> Nat]
    /\ holder \in [DocTypes -> Requests \cup {None}]
    /\ requests \in 0 .. MaxRequests /\ periodMoves \in 0 .. MaxPeriodMoves
    /\ stragglers \in [Periods -> SUBSET Requests]

----------------------------------------------------------------------------
(* Properties.                                                             *)

\* The trial balance balances: also while requests overlap, and whatever is
\* reversed, no account is debited without another being credited.
TrialBalances == LET totals == TrialBalance IN totals.total_dr = totals.total_cr

\* The period is checked before the wait for the sequence.  A closed period
\* grows only by entries whose check its closing overtook.
OnlyStragglersPostLate ==
    \A r \in Requests :
          Len(journal') > Len(journal) /\ request[r].pc = "numbered" /\ request'[r] = Idle
              => LET p == request[r].entry.date
                 IN  period[p] = "closed" => r \in stragglers[p]
=============================================================================
