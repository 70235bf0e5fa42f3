-------------------------------- MODULE Books --------------------------------
(***************************************************************************)
(* Payables, receivables and the accountant's manual entries on one        *)
(* ledger: what the subledgers and the reports say of it.                  *)
(***************************************************************************)
EXTENDS Receivables, Reports

CONSTANTS
    Manual,         \* stands for manual entries and reversals in a scenario
    Scenarios,      \* what a behaviour is about: documents and periods (a bound)
    ManualLines     \* the lines of manual entries

\* The lines of an entry name accounts of the chart, with two amounts that are not
\* negative (JournalLine); no document is an entry, nor nothing.
ASSUME BooksAssumption ==
    /\ \A ls \in ManualLines : IsFiniteSet(ls) /\ ls \subseteq [account : Accounts, dr : Nat, cr : Nat]
    /\ None \notin Bills \cup SupplierPayments \cup Invoices
    /\ \A d \in Bills \cup SupplierPayments \cup Invoices \cup {None} : d \notin {"journal_entry"} \X Nat

VARIABLE inUse      \* the scenario

vars == <<ledger, request, requests, payables, receivables, inUse>>

Init ==
    /\ inUse \in Scenarios
    /\ LedgerInit /\ PayablesInit /\ ReceivablesInit

PayablesStep(r) ==
    \/ \E b \in Bills :
          \/ IssueBill(r, b) \/ VoidBill(r, b)
          \/ \E p \in SupplierPayments : \E amount \in 1 .. Amount[p] : AllocateBill(r, p, b, amount)
    \/ \E p \in SupplierPayments : ReconcileSupplierPayment(r, p)
    \/ CommitBill(r) \/ CommitVoidBill(r) \/ CommitAllocateBill(r) \/ CommitReconcile(r)

ReceivablesStep(r) ==
    \/ \E i \in Invoices :
          \/ IssueInvoice(r, i) \/ VoidInvoice(r, i)
          \/ \E p \in CustomerPayments : \E amount \in 1 .. Amount[p] : Allocate(r, p, i, amount)
    \/ Sweep(r) \/ CommitSweep(r)
    \/ FlushInvoice(r) \/ CommitInvoice(r) \/ CommitVoidInvoice(r)
    \/ Apply(r) \/ CommitAllocation(r)

LedgerStep(r) ==
    \/ /\ Manual \in inUse
       /\ \/ \E v \in {"journal_entry", "debit_note"}, p \in Periods \cap inUse, ls \in ManualLines :
                CreateJournal(r, v, p, ls)
          \/ \E i \in DOMAIN journal : ReverseJournal(r, i)
    \/ CommitJournal(r) \/ CommitReversal(r)
    \/ NextEntryNo(r) \/ Rollback(r)

CreatePayable ==
    \/ \E b \in Bills \cap inUse : CreateBill(b)
    \/ \E p \in SupplierPayments \cap inUse : CreateSupplierPayment(p)
    \/ \E n \in DebitNotes \cap inUse : CreateDebitNote(n)

CreateReceivable ==
    \/ \E i \in Invoices \cap inUse : CreateInvoice(i)
    \/ \E p \in CustomerPayments \cap inUse : CreateCustomerPayment(p)

Next ==
    \/ CreatePayable /\ UNCHANGED <<receivables, inUse>>
    \/ BillsOverdue /\ UNCHANGED <<receivables, inUse>>
    \/ CreateReceivable /\ UNCHANGED <<payables, inUse>>
    \/ \E r \in Requests :
          \/ PayablesStep(r) /\ UNCHANGED <<receivables, inUse>>
          \/ ReceivablesStep(r) /\ UNCHANGED <<payables, inUse>>
          \/ LedgerStep(r) /\ UNCHANGED <<payables, receivables, inUse>>
    \/ \E p \in Periods \cap inUse :
          (ClosePeriod(p) \/ ReopenPeriod(p)) /\ UNCHANGED <<payables, receivables, inUse>>

Spec == Init /\ [][Next]_vars

TypeOK == LedgerTypeOK /\ PayablesTypeOK /\ ReceivablesTypeOK /\ inUse \in Scenarios

----------------------------------------------------------------------------

\* The numbers that documents and entries of a type have been given.
NumbersOf(type) ==
    LET entries   == {i \in DOMAIN journal : journal[i].voucher = type}
        documents == {d \in DOMAIN number : number[d] > 0} \cap
                     (CASE type = "supplier_bill"    -> Bills
                        [] type = "supplier_payment" -> SupplierPayments
                        [] type = "debit_note"       -> DebitNotes
                        [] OTHER                     -> {})
    IN  [set |-> {journal[i].no : i \in entries} \cup {number[d] : d \in documents},
         count |-> Cardinality(entries) + Cardinality(documents)]

\* "Allocate the next gapless document number": whatever overlaps and whatever is
\* rolled back, each sequence has given out 1, 2, 3, ... , each number once.  (It
\* gives them to entries and debit notes in turn: neither alone is gapless.)
Gapless ==
    \A type \in DocTypes :
        /\ NumbersOf(type).set = 1 .. sequence[type]
        /\ NumbersOf(type).count = sequence[type]

\* The AP control account is what the bills say: every bill that is open or paid
\* is in it once, with its total, a void one if it had been issued, and once
\* more for every further issue that overlapped; less the reconciled payments.
PayablesControl ==
    LET counted == {b \in Bills : bill[b] \in {"issued", "overdue", "paid"}}
        void    == {b \in Bills : bill[b] = "void"}
        cleared == {p \in SupplierPayments : payment[p] = "cleared"}
    IN  /\ -Balance("2100") =
              SumFunctionOnSet(Total, counted)
              + SumFunction([b \in counted |-> (Entries(b) - 1) * Total[b]])
              + SumFunction([b \in void |-> Entries(b) * Total[b]])
              - SumFunction([p \in cleared |-> Entries(p) * Amount[p]])
        /\ \A b \in Bills :
              /\ b \in counted => Entries(b) \in 1 .. Cardinality(Requests)
              /\ b \in void => Entries(b) <= Cardinality(Requests)
        /\ \A p \in cleared : Entries(p) \in 1 .. Cardinality(Requests)

\* The AR control account against the revenue in the customer's summary: they
\* differ by invoices that lost their entry at the bridge, by void ones, which
\* keep theirs, and by overlapping issues.  Payments never reduce it.
ReceivablesControl ==
    LET counted == {i \in Invoices : invoice[i] \in {"issued", "overdue", "paid"}} IN
    /\ Balance("1100") = total_revenue
          + SumFunction([i \in Invoices |-> (Entries(i) - (IF i \in counted THEN 1 ELSE 0)) * Total[i]])
    /\ \A i \in Invoices :
          /\ i \in counted => Entries(i) + lost[i] \in 1 .. Cardinality(Requests)
          /\ invoice[i] = "draft" => Entries(i) = 0

\* A bill is not allocated beyond its total, nor a customer's payment beyond its
\* amount, unless two allocations summed up the same rows at the same time.
AllocatedWithin ==
    /\ \A b \in Bills : sum_allocated(b) > Total[b] => b \in unseen
    /\ \A p \in CustomerPayments :
          sum_allocated_for_payment(p) > Amount[p] => p \in unseenPayment

\* Paid and covered are the same, for bills and invoices to which anything is
\* allocated, up to what overlaps: an allocation that does not see another, a
\* second issue, a sweep that writes over PAID, a void bill.
PaidIsCovered ==
    /\ \A b \in Bills :
          /\ bill[b] = "paid" => sum_allocated(b) >= Total[b]
          /\ sum_allocated(b) > 0 /\ sum_allocated(b) >= Total[b] =>
                bill[b] \in {"paid", "void"} \/ b \in unseen \/ Entries(b) > 1
    /\ \A i \in Invoices :
          /\ invoice[i] = "paid" => sum_applied(i) >= Total[i]
          /\ sum_applied(i) > 0 /\ sum_applied(i) >= Total[i] =>
                \/ invoice[i] \in {"paid", "void"}
                \/ i \in unseenInvoice \cup swept
                \/ Entries(i) + lost[i] > 1

\* PAID and VOID are final, for bills and invoices, except for a request that had
\* read the row before; the AP sweep never touches them, the AR sweep may.
FinalUnlessOvertaken ==
    LET answers(S) == \E r \in S : request[r] # Idle /\ request'[r] = Idle IN
       /\ \A b \in Bills : bill[b] \in {"paid", "void"} /\ bill'[b] # bill[b] => answers(stale[b])
       /\ \A i \in Invoices : invoice[i] \in {"paid", "void"} /\ invoice'[i] # invoice[i]
                                 => answers(outdated[i])

\* The ageing reports, whatever the LIMIT of the listing cuts off.  The buckets of
\* the AP report add up to the listed bills, which are all that is outstanding while
\* that is no more than the limit.  The total of the AR report is not limited: its
\* buckets lack the listed invoices that are not due yet and those that were cut
\* off; and while no more invoices are due than the limit, they lack none of these.
AgeingAddsUp ==
    /\ \A listed \in list_outstanding :
          LET buckets == SumFunctionOnSet(get_ageing(listed), AgeingBuckets) IN
          /\ buckets = SumFunctionOnSet(Total, listed)
          /\ Cardinality(Unpaid) <= BillLimit => buckets = SumFunctionOnSet(Total, Unpaid)
    /\ \A listed \in list_outstanding_invoices :
          LET buckets == SumFunctionOnSet(ageing(listed), AgeingBuckets)
              due     == {i \in outstanding : DaysOverdue[i] >= 0}
          IN  /\ sum_outstanding = buckets + SumFunctionOnSet(Total, {i \in listed : DaysOverdue[i] < 0})
                                          + SumFunctionOnSet(Total, outstanding \ listed)
              /\ Cardinality(due) <= InvoiceLimit => buckets = SumFunctionOnSet(Total, due)

\* Only a manual entry is reversed, and mirrored once for every request that
\* overlapped, always with the opposite lines.
MirroredPerOverlap ==
    \A i \in DOMAIN journal :
        LET mirrors == {m \in DOMAIN journal : journal[m].source = <<"journal_entry", i>>} IN
        /\ journal[i].status = "reversed" <=> mirrors # {}
        /\ mirrors # {} => ~journal[i].system /\ journal[i].mirror \in mirrors
        /\ Cardinality(mirrors) <= Cardinality(Requests)
        /\ \A m \in mirrors, a \in Accounts :
              TotalDr({l \in journal[m].lines : l.account = a})
                  = TotalCr({l \in journal[i].lines : l.account = a})

-----------------------------------------------------------------------------
(* What the run checks of these together *)

\* Entries balance and are mirrored once per overlapping request at most; and the
\* statements drawn from them agree.
LedgerTies == TypeOK /\ TrialBalances /\ MirroredPerOverlap /\ BalanceSheetTies /\ ReportsDifferOnlyThere

\* The control accounts are what the documents say, the documents what is
\* allocated to them, and the ageing reports what is outstanding.
SubledgersAgree == PayablesControl /\ ReceivablesControl /\ AllocatedWithin /\ PaidIsCovered /\ AgeingAddsUp

\* The journal, the documents and the reports drawn from them tell the same story.
BooksAgree == LedgerTies /\ SubledgersAgree

\* Nothing happens to a closed period or to a finished document, but for a request
\* that was under way when it was closed or finished.
NothingComesLate == [][OnlyStragglersPostLate /\ FinalUnlessOvertaken]_vars
=============================================================================
