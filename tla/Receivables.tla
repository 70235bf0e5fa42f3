----------------------------- MODULE Receivables -----------------------------
(***************************************************************************)
(* Accounts receivable: sales invoices, customers' payments and what they  *)
(* are allocated to.  Only an issued invoice reaches the ledger, through   *)
(* an event and the bridge; the events of a void invoice, a reconciled     *)
(* payment and a credit note have no subscriber.                           *)
(*                                                                         *)
(* One customer; totals and dates are fixed, as in Payables.               *)
(***************************************************************************)
EXTENDS Payables

CONSTANTS
    Invoices, CustomerPayments,
    InvoiceLimit    \* the default LIMIT of list_outstanding; 100 in the code

ASSUME ReceivablesAssumption ==
    /\ InvoiceLimit \in Nat
    /\ IsFiniteSet(Invoices) /\ IsFiniteSet(CustomerPayments)
    /\ Invoices \cap (Bills \cup SupplierPayments) = {}
    /\ \A i \in Invoices : Total[i] \in Nat /\ Date[i] \in Periods /\ DaysOverdue[i] \in Int
    /\ \A p \in CustomerPayments : Amount[p] \in Nat

InvoiceStatus == BillStatus

VARIABLES
    invoice,        \* sales_invoices.status
    received,       \* customer_payments.status
    applied,        \* payment_allocations.amount, 0 without a row
    lost,           \* per invoice: how often it was issued without an entry
    unseenPayment, unseenInvoice,   \* allocated over a sum that had changed
    swept,          \* invoices that a sweep made overdue after it had read them
    outdated        \* per invoice: requests that had read it when it was paid or voided

receivables == <<invoice, received, applied, lost, unseenPayment, unseenInvoice, swept, outdated>>

sum_allocated_for_payment(p) == SumFunctionOnSet(applied[p], Invoices)
sum_applied(i) == SumFunction([p \in CustomerPayments |-> applied[p][i]])

\* _on_invoice_created, the bridge's entry.
_on_invoice_created(i) ==
    Entry("journal_entry", Date[i], {Dr("1100", Total[i]), Cr("4100", Total[i])}, TRUE, i)

\* Requests that have read invoice i; a sweep has read all that it will write.
ReadingInvoice(i) ==
    {r \in Requests : /\ request[r].pc # "idle"
                      /\ IF request[r].op = "sweep" THEN i \in request[r].view
                                                    ELSE request[r].doc[1] = i}

----------------------------------------------------------------------------
(* Invoices.                                                               *)

CreateInvoice(i) ==
    /\ invoice[i] = "none"
    /\ invoice' = [invoice EXCEPT ![i] = "draft"]
    /\ UNCHANGED <<ledger, request, requests, received, applied, lost, unseenPayment,
                   unseenInvoice, swept, outdated>>

\* Fault: an issued invoice is issued again.
IssueInvoiceAgain(r, i) ==
    /\ invoice[i] \in {"draft", "issued"}
    /\ Enter(r, "begun", "issue invoice", <<i>>, 0, None)
    /\ UNCHANGED <<ledger, receivables>>

IssueInvoice(r, i) ==
    /\ invoice[i] = "draft"
    /\ Enter(r, "begun", "issue invoice", <<i>>, 0, None)
    /\ UNCHANGED <<ledger, receivables>>

\* ISSUED is flushed before the event: the row is locked from here to the commit.
FlushedBy(i) ==
    {r \in Requests : /\ request[r].op = "issue invoice" /\ request[r].doc[1] = i
                      /\ request[r].pc \in {"accepted", "numbered", "unposted"}}

FlushInvoice(r) ==
    /\ At(r, "begun", "issue invoice")
    /\ FlushedBy(request[r].doc[1]) = {}
    /\ Emit(r, _on_invoice_created(request[r].doc[1]), 0)
    /\ UNCHANGED <<ledger, requests, receivables>>

CommitInvoice(r) ==
    LET i == request[r].doc[1] IN
    /\ request[r].op = "issue invoice"
    /\ \/ Posted(r) /\ lost' = lost
       \/ /\ request[r].pc = "unposted"
          /\ lost' = [lost EXCEPT ![i] = @ + 1]
          /\ UNCHANGED <<journal, sequence, holder>>
    /\ invoice' = [invoice EXCEPT ![i] = "issued"]
    /\ Respond(r)
    /\ UNCHANGED <<period, periodMoves, stragglers, requests, received, applied,
                   unseenPayment, unseenInvoice, swept, outdated>>

\* InvoiceService.void: je_id is never set, so that nothing is reversed.
VoidInvoice(r, i) ==
    /\ invoice[i] \in {"draft", "issued"}
    /\ Enter(r, "begun", "void invoice", <<i>>, 0, None)
    /\ UNCHANGED <<ledger, receivables>>

CommitVoidInvoice(r) ==
    LET i == request[r].doc[1] IN
    /\ At(r, "begun", "void invoice")
    /\ FlushedBy(i) = {}
    /\ invoice' = [invoice EXCEPT ![i] = "void"]
    /\ outdated' = [outdated EXCEPT ![i] = ReadingInvoice(i)]
    /\ Respond(r)
    /\ UNCHANGED <<ledger, requests, received, applied, lost, unseenPayment, unseenInvoice, swept>>

\* recompute_ageing_task reads the invoices that are due, and then writes each
\* by its id.  Nothing schedules it.
list_overdue_and_issued == {i \in Invoices : invoice[i] = "issued" /\ DaysOverdue[i] > 0}

Sweep(r) ==
    /\ list_overdue_and_issued # {}
    /\ Enter(r, "begun", "sweep", <<None>>, list_overdue_and_issued, None)
    /\ UNCHANGED <<ledger, receivables>>

CommitSweep(r) ==
    /\ At(r, "begun", "sweep")
    /\ \A i \in request[r].view : FlushedBy(i) = {}
    /\ invoice' = [i \in Invoices |-> IF i \in request[r].view THEN "overdue" ELSE invoice[i]]
    /\ swept' = swept \cup {i \in request[r].view : invoice[i] # "issued"}
    /\ Respond(r)
    /\ UNCHANGED <<ledger, requests, received, applied, lost, unseenPayment, unseenInvoice, outdated>>

----------------------------------------------------------------------------
(* Payments.                                                               *)

CreateCustomerPayment(p) ==
    /\ received[p] = "none"
    /\ received' = [received EXCEPT ![p] = "uncleared"]
    /\ UNCHANGED <<ledger, request, requests, invoice, applied, lost, unseenPayment,
                   unseenInvoice, swept, outdated>>

\* Fault: what is already allocated of the payment is not counted.
AllocateAgain(r, p, i, amount) ==
    /\ received[p] # "none"
    /\ amount <= Amount[p]
    /\ invoice[i] \in {"issued", "overdue", "paid"}
    /\ Enter(r, "begun", "allocate", <<i, p, amount, invoice[i]>>, sum_allocated_for_payment(p), None)
    /\ UNCHANGED <<ledger, receivables>>

\* PaymentService.allocate, for one invoice: held against the payment's amount;
\* a paid invoice is not refused, nor an amount beyond its total.
Allocate(r, p, i, amount) ==
    /\ received[p] # "none"
    /\ sum_allocated_for_payment(p) + amount <= Amount[p]
    /\ invoice[i] \in {"issued", "overdue", "paid"}
    /\ Enter(r, "begun", "allocate", <<i, p, amount, invoice[i]>>, sum_allocated_for_payment(p), None)
    /\ UNCHANGED <<ledger, receivables>>

\* Fault: the invoice's sum is taken before the row is inserted.
ApplyBefore(r) ==
    LET i == request[r].doc[1]  p == request[r].doc[2]  amount == request[r].doc[3] IN
    /\ At(r, "begun", "allocate")
    /\ applied[p][i] = 0
    /\ request' = [request EXCEPT
           ![r].pc = "applied",
           ![r].entry = [paid    |-> sum_applied(i) >= Total[i],
                         cleared |-> sum_allocated_for_payment(p) + amount >= Amount[p],
                         sum     |-> sum_applied(i)]]
    /\ UNCHANGED <<ledger, requests, receivables>>

\* The row is inserted (unique per payment and invoice), and the sums are read
\* again, with it: they decide what becomes of the invoice and of the payment.
Apply(r) ==
    LET i == request[r].doc[1]  p == request[r].doc[2]  amount == request[r].doc[3] IN
    /\ At(r, "begun", "allocate")
    /\ applied[p][i] = 0
    /\ request' = [request EXCEPT
           ![r].pc = "applied",
           ![r].entry = [paid    |-> sum_applied(i) + amount >= Total[i],
                         cleared |-> sum_allocated_for_payment(p) + amount >= Amount[p],
                         sum     |-> sum_applied(i)]]
    /\ UNCHANGED <<ledger, requests, receivables>>

\* An invoice that was PAID when it was read is not written again.
CommitAllocation(r) ==
    LET i == request[r].doc[1]  p == request[r].doc[2]  amount == request[r].doc[3]
        outcome == request[r].entry
        writes  == outcome.paid /\ request[r].doc[4] # "paid"
    IN
    /\ At(r, "applied", "allocate")
    /\ applied[p][i] = 0
    /\ writes => FlushedBy(i) = {}
    /\ applied' = [applied EXCEPT ![p][i] = amount]
    /\ invoice' = IF writes THEN [invoice EXCEPT ![i] = "paid"] ELSE invoice
    /\ received' = IF outcome.cleared THEN [received EXCEPT ![p] = "cleared"] ELSE received
    /\ unseenPayment' = IF request[r].view # sum_allocated_for_payment(p)
                        THEN unseenPayment \cup {p} ELSE unseenPayment
    /\ unseenInvoice' = IF outcome.sum # sum_applied(i)
                        THEN unseenInvoice \cup {i} ELSE unseenInvoice
    /\ outdated' = IF writes THEN [outdated EXCEPT ![i] = ReadingInvoice(i)] ELSE outdated
    /\ Respond(r)
    /\ UNCHANGED <<ledger, requests, lost, swept>>

----------------------------------------------------------------------------
(* Reports.                                                                *)

\* list_outstanding is cut at its LIMIT, sum_outstanding is not.
outstanding == {i \in Invoices : invoice[i] \in {"issued", "overdue"}}
list_outstanding_invoices == FirstDue(outstanding, InvoiceLimit)
sum_outstanding == SumFunctionOnSet(Total, outstanding)

\* Fault: the last bucket begins a day late.
BucketFrom92(label) ==
    CASE label = "current" -> {0}
      [] label = "1_30"  -> 1 .. 30
      [] label = "31_60" -> 31 .. 60
      [] label = "61_90" -> 61 .. 90
      [] OTHER           -> {d \in {DaysOverdue[i] : i \in Invoices} : d > 91}

\* AGEING_BUCKETS: an invoice that is not due yet falls in none of them.
Bucket(label) ==
    CASE label = "current" -> {0}
      [] label = "1_30"  -> 1 .. 30
      [] label = "31_60" -> 31 .. 60
      [] label = "61_90" -> 61 .. 90
      [] OTHER           -> {d \in {DaysOverdue[i] : i \in Invoices} : d >= 91}

\* Per bucket, the totals of the listed invoices in it.
ageing(listed) ==
    [label \in AgeingBuckets |->
        SumFunctionOnSet(Total, {i \in listed : DaysOverdue[i] \in Bucket(label)})]

\* get_contact_erp_summary: the totals of all invoices issued, paid or overdue.
total_revenue ==
    SumFunctionOnSet(Total, {i \in Invoices : invoice[i] \in {"issued", "paid", "overdue"}})

----------------------------------------------------------------------------
ReceivablesInit ==
    /\ invoice = [i \in Invoices |-> "none"]
    /\ received = [p \in CustomerPayments |-> "none"]
    /\ applied = [p \in CustomerPayments |-> [i \in Invoices |-> 0]]
    /\ lost = [i \in Invoices |-> 0]
    /\ unseenPayment = {} /\ unseenInvoice = {} /\ swept = {}
    /\ outdated = [i \in Invoices |-> {}]

ReceivablesTypeOK ==
    /\ invoice \in [Invoices -> InvoiceStatus]
    /\ received \in [CustomerPayments -> PaymentStatus]
    /\ applied \in [CustomerPayments -> [Invoices -> Nat]]
    /\ lost \in [Invoices -> Nat]
    /\ unseenPayment \subseteq CustomerPayments
    /\ unseenInvoice \subseteq Invoices /\ swept \subseteq Invoices
    /\ outdated \in [Invoices -> SUBSET Requests]

=============================================================================
