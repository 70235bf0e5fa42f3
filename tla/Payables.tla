------------------------------ MODULE Payables ------------------------------
(***************************************************************************)
(* Accounts payable: supplier bills, payments to suppliers and what they   *)
(* are allocated to, debit notes.  Payables posts through PostingService   *)
(* itself, so that an entry that is refused refuses the request.           *)
(*                                                                         *)
(* One supplier.  A document is none before it is created; the totals and  *)
(* dates of the documents are fixed.  Each kind has its own table.         *)
(***************************************************************************)
EXTENDS Ledger

CONSTANTS
    Bills, SupplierPayments, DebitNotes,
    Total,          \* supplier_bills.total and sales_invoices.total
    Amount,         \* supplier_payments.amount and customer_payments.amount
    Date,           \* posting_date and payment_date: the period they fall in
    DaysOverdue,    \* today - due_date, in days; negative before the due date
    BillLimit       \* the LIMIT that get_ageing puts on the bills it lists; 10 000 in the code

ASSUME PayablesAssumption ==
    /\ BillLimit \in Nat
    /\ IsFiniteSet(Bills) /\ IsFiniteSet(SupplierPayments)
    /\ \A b \in Bills : Total[b] \in Nat /\ Date[b] \in Periods /\ DaysOverdue[b] \in Int
    /\ \A p \in SupplierPayments : Amount[p] \in Nat /\ Date[p] \in Periods
    /\ Bills \cap SupplierPayments = {} /\ Bills \cap DebitNotes = {}
    /\ SupplierPayments \cap DebitNotes = {}

BillStatus == {"none", "draft", "issued", "paid", "overdue", "void"}
PaymentStatus == {"none", "uncleared", "cleared"}

VARIABLES
    bill,           \* supplier_bills.status
    payment,        \* supplier_payments.status; nothing voids one
    note,           \* debit_notes.status
    allocation,     \* bill_allocations.amount, 0 without a row
    number,         \* bill_no, payment_no and debit_note_no
    unseen,         \* bills allocated over a sum that another request had changed
    stale           \* per bill: requests that had read it when it was paid or voided

payables == <<bill, payment, note, allocation, number, unseen, stale>>

sum_allocated(b) == SumFunction([p \in SupplierPayments |-> allocation[p][b]])

\* The entries of issue and of reconcile.
BillEntry(b) ==
    Entry("journal_entry", Date[b], {Dr("2200", Total[b]), Cr("2100", Total[b])}, TRUE, b)
PaymentEntry(p) ==
    Entry("bank_entry", Date[p], {Dr("2100", Amount[p]), Cr("1020", Amount[p])}, TRUE, p)

\* Requests that have read document d and not yet answered.
Reading(d) == {r \in Requests : request[r].pc # "idle" /\ request[r].doc[1] = d}

----------------------------------------------------------------------------
(* Bills.                                                                  *)

\* Fault: the number is taken from the sequence without its lock.
DocNumberUnlocked(type, d) ==
    /\ sequence' = [sequence EXCEPT ![type] = @ + 1]
    /\ number' = [number EXCEPT ![d] = sequence[type] + 1]

\* _next_doc_number: the sequence's row is free, and is the creator's until its
\* commit; nothing can fail in between.
_next_doc_number(type, d) ==
    /\ holder[type] = None
    /\ sequence' = [sequence EXCEPT ![type] = @ + 1]
    /\ number' = [number EXCEPT ![d] = sequence[type] + 1]

CreateBill(b) ==
    /\ bill[b] = "none"
    /\ _next_doc_number("supplier_bill", b)
    /\ bill' = [bill EXCEPT ![b] = "draft"]
    /\ UNCHANGED <<period, journal, holder, periodMoves, stragglers, request, requests,
                   payment, note, allocation, unseen, stale>>

\* Fault: an issued bill is issued again.
IssueAgain(r, b) ==
    /\ bill[b] \in {"draft", "issued"}
    /\ Acceptable(BillEntry(b))
    /\ Enter(r, "accepted", "issue bill", <<b>>, 0, BillEntry(b))
    /\ UNCHANGED <<ledger, payables>>

\* BillService.issue: the status is read without a lock; the gates of post.
IssueBill(r, b) ==
    /\ bill[b] = "draft"
    /\ Acceptable(BillEntry(b))
    /\ Enter(r, "accepted", "issue bill", <<b>>, 0, BillEntry(b))
    /\ UNCHANGED <<ledger, payables>>

CommitBill(r) ==
    LET b == request[r].doc[1] IN
    /\ At(r, "numbered", "issue bill")
    /\ Posted(r)
    /\ bill' = [bill EXCEPT ![b] = "issued"]
    /\ Respond(r)
    /\ UNCHANGED <<period, periodMoves, stragglers, requests, payment, note, allocation,
                   number, unseen, stale>>

\* BillService.void: nothing is reversed and nothing is taken back.
VoidBill(r, b) ==
    /\ bill[b] \notin {"none", "paid", "void"}
    /\ Enter(r, "begun", "void bill", <<b>>, 0, None)
    /\ UNCHANGED <<ledger, payables>>

CommitVoidBill(r) ==
    LET b == request[r].doc[1] IN
    /\ At(r, "begun", "void bill")
    /\ bill' = [bill EXCEPT ![b] = "void"]
    /\ stale' = [stale EXCEPT ![b] = Reading(b)]
    /\ Respond(r)
    /\ UNCHANGED <<ledger, requests, payment, note, allocation, number, unseen>>

\* Fault: the update leaves the status out of its condition.
BillsOverdueAll ==
    LET due == {b \in Bills : bill[b] \notin {"none", "draft"} /\ DaysOverdue[b] > 0} IN
    /\ due # {}
    /\ bill' = [b \in Bills |-> IF b \in due THEN "overdue" ELSE bill[b]]
    /\ UNCHANGED <<ledger, request, requests, payment, note, allocation, number, unseen, stale>>

\* recompute_ageing_task: one guarded UPDATE.  Nothing schedules it.
BillsOverdue ==
    LET due == {b \in Bills : bill[b] = "issued" /\ DaysOverdue[b] > 0} IN
    /\ due # {}
    /\ bill' = [b \in Bills |-> IF b \in due THEN "overdue" ELSE bill[b]]
    /\ UNCHANGED <<ledger, request, requests, payment, note, allocation, number, unseen, stale>>

----------------------------------------------------------------------------
(* Payments and debit notes.                                               *)

CreateSupplierPayment(p) ==
    /\ payment[p] = "none"
    /\ _next_doc_number("supplier_payment", p)
    /\ payment' = [payment EXCEPT ![p] = "uncleared"]
    /\ UNCHANGED <<period, journal, holder, periodMoves, stragglers, request, requests,
                   bill, note, allocation, unseen, stale>>

\* Fault: the amount is held against the bill's total.
AllocateTotal(r, p, b, amount) ==
    /\ payment[p] # "none"
    /\ bill[b] \in {"issued", "overdue"}
    /\ amount <= Total[b]
    /\ Enter(r, "begun", "allocate bill", <<b, p, amount>>, sum_allocated(b), None)
    /\ UNCHANGED <<ledger, payables>>

\* PaymentService.allocate: what remains of the bill is summed without a lock,
\* and the payment's own amount is not looked at.
AllocateBill(r, p, b, amount) ==
    /\ payment[p] # "none"
    /\ bill[b] \in {"issued", "overdue"}
    /\ amount <= Total[b] - sum_allocated(b)
    /\ Enter(r, "begun", "allocate bill", <<b, p, amount>>, sum_allocated(b), None)
    /\ UNCHANGED <<ledger, payables>>

\* The row (unique per payment and bill), and PAID when the sum it read and its
\* own amount cover the bill.
CommitAllocateBill(r) ==
    LET b == request[r].doc[1]  p == request[r].doc[2]  amount == request[r].doc[3]
        covers == request[r].view + amount >= Total[b]
    IN
    /\ At(r, "begun", "allocate bill")
    /\ allocation[p][b] = 0
    /\ allocation' = [allocation EXCEPT ![p][b] = amount]
    /\ bill' = IF covers THEN [bill EXCEPT ![b] = "paid"] ELSE bill
    /\ unseen' = IF request[r].view # sum_allocated(b) THEN unseen \cup {b} ELSE unseen
    /\ stale' = IF covers THEN [stale EXCEPT ![b] = Reading(b)] ELSE stale
    /\ Respond(r)
    /\ UNCHANGED <<ledger, requests, payment, note, number>>

\* PaymentService.reconcile; only the demo data call it so far.
ReconcileSupplierPayment(r, p) ==
    /\ payment[p] = "uncleared"
    /\ Acceptable(PaymentEntry(p))
    /\ Enter(r, "accepted", "reconcile", <<p>>, 0, PaymentEntry(p))
    /\ UNCHANGED <<ledger, payables>>

CommitReconcile(r) ==
    /\ At(r, "numbered", "reconcile")
    /\ Posted(r)
    /\ payment' = [payment EXCEPT ![request[r].doc[1]] = "cleared"]
    /\ Respond(r)
    /\ UNCHANGED <<period, periodMoves, stragglers, requests, bill, note, allocation,
                   number, unseen, stale>>

CreateDebitNote(n) ==
    /\ note[n] = "none"
    /\ _next_doc_number("debit_note", n)
    /\ note' = [note EXCEPT ![n] = "draft"]
    /\ UNCHANGED <<period, journal, holder, periodMoves, stragglers, request, requests,
                   bill, payment, allocation, unseen, stale>>

----------------------------------------------------------------------------
(* The ageing report.                                                      *)

\* Fault: the listing begins with what is due last.
LatestDue(S, limit) ==
    {L \in SUBSET S : /\ Cardinality(L) <= limit
                      /\ L # S => Cardinality(L) = limit
                      /\ \A d \in L, e \in S \ L : DaysOverdue[d] <= DaysOverdue[e]}

\* ORDER BY due_date ASC with a LIMIT: all of S or the limit's number of them, none
\* of the others due before a listed one.  What of one due date is cut is not said.
FirstDue(S, limit) ==
    {L \in SUBSET S : /\ Cardinality(L) <= limit
                      /\ L # S => Cardinality(L) = limit
                      /\ \A d \in L, e \in S \ L : DaysOverdue[d] >= DaysOverdue[e]}

Unpaid == {b \in Bills : bill[b] \in {"issued", "overdue"}}
list_outstanding == FirstDue(Unpaid, BillLimit)

AgeingBuckets == {"current", "1_30", "31_60", "61_90", "over_90"}

\* _compute_age_bucket.
_compute_age_bucket(days) ==
    CASE days <= 0  -> "current"
      [] days \in 1 .. 30 -> "1_30"
      [] days \in 31 .. 60 -> "31_60"
      [] days \in 61 .. 90 -> "61_90"
      [] OTHER -> "over_90"

\* Per bucket, the totals of the listed bills in it.
get_ageing(listed) ==
    [label \in AgeingBuckets |->
        SumFunctionOnSet(Total, {b \in listed : _compute_age_bucket(DaysOverdue[b]) = label})]

----------------------------------------------------------------------------
PayablesInit ==
    /\ bill = [b \in Bills |-> "none"]
    /\ payment = [p \in SupplierPayments |-> "none"]
    /\ note = [n \in DebitNotes |-> "none"]
    /\ allocation = [p \in SupplierPayments |-> [b \in Bills |-> 0]]
    /\ number = [d \in Bills \cup SupplierPayments \cup DebitNotes |-> 0]
    /\ unseen = {}
    /\ stale = [b \in Bills |-> {}]

PayablesTypeOK ==
    /\ bill \in [Bills -> BillStatus]
    /\ payment \in [SupplierPayments -> PaymentStatus]
    /\ note \in [DebitNotes -> {"none", "draft"}]
    /\ allocation \in [SupplierPayments -> [Bills -> Nat]]
    /\ number \in [Bills \cup SupplierPayments \cup DebitNotes -> Nat]
    /\ unseen \subseteq Bills
    /\ stale \in [Bills -> SUBSET Requests]

=============================================================================
