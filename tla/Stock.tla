-------------------------------- MODULE Stock --------------------------------
(***************************************************************************)
(* Inventory, procurement and fulfilment, and the bridge that writes each  *)
(* of their vouchers into the general ledger.                              *)
(*                                                                         *)
(* One bulk item, kept in one location, and serialized units.  Everything  *)
(* costs 1, so a quantity is a value and an average cost does not move.    *)
(* The lines of a document are fixed: what varies is who confirms it, and  *)
(* when.  A document is none before it is created.                         *)
(***************************************************************************)
EXTENDS Ledger

CONSTANTS
    Serials,        \* the serialized units
    PurchaseOrders, Receipts, SalesOrders, Dispatches,  \* documents
    Ordered,        \* the quantity of the bulk item on a purchase or sales order
    Lines,          \* [order, date, bulk, serials, qty] of a receipt or a dispatch; qty:
                    \* qty_received of the receipt's line that lists the serials
    Opening,        \* the bulk quantity in stock at the start, already in 1200
    MaxAdjustments  \* stock adjustments (a bound)

ASSUME StockAssumption ==
    /\ Opening \in Nat /\ MaxAdjustments \in Nat
    /\ IsFiniteSet(Serials) /\ IsFiniteSet(Receipts) /\ IsFiniteSet(Dispatches)
    /\ Receipts \cap Dispatches = {} /\ None \notin Receipts \cup Dispatches
    /\ None \notin PurchaseOrders \cup SalesOrders
    /\ "balance" \notin Receipts \cup Dispatches \cup Serials
    /\ \A o \in PurchaseOrders \cup SalesOrders : Ordered[o] \in Nat
    /\ \A d \in Receipts \cup Dispatches :
           /\ Lines[d].order \in PurchaseOrders \cup SalesOrders \cup {None}
           /\ Lines[d].date \in Periods
           /\ Lines[d].bulk \in Seq(Nat \ {0}) /\ Lines[d].serials \subseteq Serials
           /\ Lines[d].qty \in Nat

Orders == PurchaseOrders \cup SalesOrders
Documents == Receipts \cup Dispatches

VARIABLES
    order,          \* purchase_orders.status and sales_orders.status
    doc,            \* goods_receipt_notes.status and dispatches.status
    unit,           \* stock_units.status, "NONE" before the unit arrives
    bal,            \* stock_balances.qty of the bulk item
    arrived, sold, \* per unit: its ledger entries of +1 and of -1
    moved,          \* the sum of qty_change over the bulk item's ledger entries
    adjustments,
    confirms,       \* how often each document's confirmation has committed
    unposted,       \* the value of what has been committed without an entry
    gained,         \* the value of the adjustments upwards that were posted
    overtaken,      \* a receipt or an adjustment wrote over a balance it never saw
    missed          \* orders whose last look at their coverage was overtaken, or too early

stock == <<order, doc, unit, bal, arrived, sold, moved, adjustments, confirms,
           unposted, gained, overtaken, missed>>
stockVars == <<ledger, request, requests, stock>>

Qty(d) == SumFunction(Lines[d].bulk)

\* A receipt is worth the quantity that its line says, a dispatch what its units
\* have cost: nothing compares the quantity with the serials that are listed.
Value(d) == Qty(d) + IF d \in Receipts THEN Lines[d].qty ELSE Cardinality(Lines[d].serials)

----------------------------------------------------------------------------
(* Row locks.                                                              *)

\* The rows that a document's confirmation writes.
RowsOf(d) == {d} \cup Lines[d].serials \cup (IF Qty(d) > 0 THEN {"balance"} ELSE {})

\* What a request has written or selected FOR UPDATE, until it commits.
Locked(r) ==
    IF request[r].pc \notin {"accepted", "numbered", "unposted", "covered", "uncovered"} THEN {}
    ELSE IF request[r].doc \in Documents THEN RowsOf(request[r].doc) ELSE {"balance"}

Free(r, rows) == \A q \in Requests \ {r} : Locked(q) \cap rows = {}

----------------------------------------------------------------------------
(* The bridge.                                                             *)

\* Fault: the cost of goods sold leaves the serialized units out.
CostOfBulk(d) ==
    Entry("journal_entry", Lines[d].date, {Dr("5100", Qty(d)), Cr("1200", Qty(d))}, TRUE, d)

\* _on_grn_confirmed and _on_unit_dispatched.
_on_grn_confirmed(g) ==
    Entry("journal_entry", Lines[g].date, {Dr("1200", Value(g)), Cr("2200", Value(g))}, TRUE, g)
_on_unit_dispatched(d) ==
    Entry("journal_entry", Lines[d].date, {Dr("5100", Value(d)), Cr("1200", Value(d))}, TRUE, d)

\* _on_adjustment_confirmed is sent an absolute amount, and would book a
\* negative one as a gain: up or down, the entry is a write-off.
_on_adjustment_confirmed(date, amount) ==
    Entry("journal_entry", date,
          IF amount < 0 THEN {Dr("1200", -amount), Cr("4200", -amount)}
                        ELSE {Dr("5200", amount), Cr("1200", amount)}, TRUE, None)

----------------------------------------------------------------------------
(* Orders.                                                                 *)

Draft(o) ==
    /\ order[o] = "none"
    /\ order' = [order EXCEPT ![o] = "draft"]
    /\ UNCHANGED <<ledger, request, requests, doc, unit, bal, arrived, sold, moved,
                   adjustments, confirms, unposted, gained, overtaken, missed>>

CreatePO(o) == o \in PurchaseOrders /\ Draft(o)
CreateSO(o) == o \in SalesOrders /\ Draft(o)

\* POService.issue: the status is read, then written by id.
IssuePO(r, o) ==
    /\ o \in PurchaseOrders /\ order[o] = "draft"
    /\ Enter(r, "begun", "open", o, 0, None)
    /\ UNCHANGED <<ledger, stock>>

\* SOService.confirm, the same way; the customer's credit suffices, or the
\* request ends here (check_credit_limit in Receivables).
ConfirmSO(r, o) ==
    /\ o \in SalesOrders /\ order[o] = "draft"
    /\ Enter(r, "begun", "open", o, 0, None)
    /\ UNCHANGED <<ledger, stock>>

CommitOpenOrder(r) ==
    /\ At(r, "begun", "open")
    /\ order' = [order EXCEPT ![request[r].doc] = "open"]
    /\ missed' = IF \/ order[request[r].doc] = "done"
                    \/ \E d \in Documents :
                          /\ Lines[d].order = request[r].doc
                          /\ \/ doc[d] = "confirmed"
                             \/ \E q \in Requests : /\ request[q].doc = d
                                                    /\ request[q].pc = "uncovered"
                 THEN missed \cup {request[r].doc} ELSE missed
    /\ Respond(r)
    /\ UNCHANGED <<ledger, requests, doc, unit, bal, arrived, sold, moved,
                   adjustments, confirms, unposted, gained, overtaken>>

\* What the documents ds of an order bring of it.
Brought(ds) == SumFunctionOnSet([d \in Documents |-> Qty(d)], ds)

ConfirmedFor(o) == {d \in Documents : Lines[d].order = o /\ doc[d] = "confirmed"}

\* Fault: the confirmation at hand has not been flushed when the lines are added up.
CoveredOthers(o, d) == Brought(ConfirmedFor(o)) >= Ordered[o]

\* All lines of o are covered by confirmed documents and by d.
Covered(o, d) == Brought(ConfirmedFor(o) \cup {d}) >= Ordered[o]

\* Both run within the confirmation of d, after its entry.
_maybe_receive_po(d) ==
    /\ d \in Receipts /\ Lines[d].order # None
    /\ order[Lines[d].order] = "open"
    /\ Covered(Lines[d].order, d)

_maybe_mark_so_dispatched(d) ==
    /\ d \in Dispatches /\ Lines[d].order # None
    /\ order[Lines[d].order] = "open"
    /\ Covered(Lines[d].order, d)

Completes(d) == _maybe_receive_po(d) \/ _maybe_mark_so_dispatched(d)

----------------------------------------------------------------------------
(* Receipts and dispatches.                                                *)

CreateDocument(d) ==
    /\ doc[d] = "none"
    /\ Lines[d].order # None => order[Lines[d].order] # "none"
    /\ doc' = [doc EXCEPT ![d] = "draft"]
    /\ UNCHANGED <<ledger, request, requests, order, unit, bal, arrived, sold, moved,
                   adjustments, confirms, unposted, gained, overtaken, missed>>

CreateGRN(g) == g \in Receipts /\ CreateDocument(g)
CreateDispatch(d) == d \in Dispatches /\ CreateDocument(d)

\* Fault: confirming again is not refused.
ConfirmAgain(r, d) ==
    /\ doc[d] # "none"
    /\ Enter(r, "begun", "confirm", d, 0, None)
    /\ UNCHANGED <<ledger, stock>>

\* GRNService.confirm and DispatchService.confirm: get_with_lines, and the check.
Confirm(r, d) ==
    /\ doc[d] = "draft"
    /\ Enter(r, "begun", "confirm", d, 0, None)
    /\ UNCHANGED <<ledger, stock>>

\* The receipt reads the balance; nothing locks it yet.
ReadBalance(r) ==
    /\ At(r, "begun", "confirm") /\ request[r].doc \in Receipts
    /\ request' = [request EXCEPT ![r].pc = "read", ![r].view = bal]
    /\ UNCHANGED <<ledger, requests, stock>>

\* A receipt's flush: its units are inserted (the serial is unique), and the
\* balance, the unit and the receipt are its own until the commit.
Receive(r) ==
    LET g == request[r].doc IN
    /\ At(r, "read", "confirm")
    /\ Free(r, RowsOf(g))
    /\ \A s \in Lines[g].serials : unit[s] = "NONE"
    /\ Emit(r, _on_grn_confirmed(g), request[r].view)
    /\ UNCHANGED <<ledger, requests, stock>>

\* Fault: the units and the balance are read without FOR UPDATE.
PickUnlocked(r) ==
    LET d == request[r].doc IN
    /\ At(r, "begun", "confirm") /\ d \in Dispatches
    /\ \A s \in Lines[d].serials : unit[s] = "IN_STOCK"
    /\ \A i \in DOMAIN Lines[d].bulk : bal >= Lines[d].bulk[i]
    /\ Emit(r, _on_unit_dispatched(d), bal)
    /\ UNCHANGED <<ledger, requests, stock>>

\* Fault: the balance is held against zero, not against the line.
PickAnything(r) ==
    LET d == request[r].doc IN
    /\ At(r, "begun", "confirm") /\ d \in Dispatches
    /\ Free(r, RowsOf(d))
    /\ \A s \in Lines[d].serials : unit[s] = "IN_STOCK"
    /\ bal >= 0
    /\ Emit(r, _on_unit_dispatched(d), bal)
    /\ UNCHANGED <<ledger, requests, stock>>

\* A dispatch locks its units and the balance, and reads them under the lock.
\* Each bulk line is held against the balance in the database, which the lines
\* before it have not reached yet.
Pick(r) ==
    LET d == request[r].doc IN
    /\ At(r, "begun", "confirm") /\ d \in Dispatches
    /\ Free(r, RowsOf(d))
    /\ \A s \in Lines[d].serials : unit[s] = "IN_STOCK"
    /\ \A i \in DOMAIN Lines[d].bulk : bal >= Lines[d].bulk[i]
    /\ Emit(r, _on_unit_dispatched(d), bal)
    /\ UNCHANGED <<ledger, requests, stock>>

\* Without an entry there is no sequence to hold the others back: the order's
\* coverage is read before they commit.
CheckOrder(r) ==
    /\ At(r, "unposted", "confirm")
    /\ Goto(r, IF Completes(request[r].doc) THEN "covered" ELSE "uncovered")
    /\ UNCHANGED <<ledger, requests, stock>>

\* What the confirmation of d leaves behind when it commits.
Confirmed(r, d, completes, posted) ==
    LET in   == d \in Receipts
        sign == IF in THEN 1 ELSE -1
    IN
    /\ doc' = [doc EXCEPT ![d] = "confirmed"]
    /\ unit' = [s \in Serials |-> IF s \notin Lines[d].serials THEN unit[s]
                                  ELSE IF in THEN "IN_STOCK" ELSE "SOLD"]
    /\ arrived' = [s \in Serials |-> IF in /\ s \in Lines[d].serials
                                      THEN arrived[s] + 1 ELSE arrived[s]]
    /\ sold' = [s \in Serials |-> IF ~in /\ s \in Lines[d].serials
                                  THEN sold[s] + 1 ELSE sold[s]]
    /\ bal' = IF Qty(d) > 0 THEN request[r].view + sign * Qty(d) ELSE bal
    /\ moved' = moved + sign * Qty(d)
    /\ overtaken' = (overtaken \/ (in /\ Qty(d) > 0 /\ request[r].view # bal))
    /\ order' = IF completes THEN [order EXCEPT ![Lines[d].order] = "done"] ELSE order
    /\ confirms' = [confirms EXCEPT ![d] = @ + 1]
    /\ unposted' = IF posted THEN unposted ELSE unposted + sign * Value(d)
    /\ missed' = IF /\ Lines[d].order # None
                    /\ \/ order[Lines[d].order] = "draft"
                       \/ Completes(d) /\ ~completes
                 THEN missed \cup {Lines[d].order} ELSE missed
    /\ Respond(r)
    /\ UNCHANGED <<adjustments, gained, requests>>

CommitConfirmation(r) ==
    /\ At(r, "numbered", "confirm")
    /\ Posted(r)
    /\ Confirmed(r, request[r].doc, Completes(request[r].doc), TRUE)
    /\ UNCHANGED <<period, periodMoves, stragglers>>

CommitUnposted(r) ==
    /\ At(r, "covered", "confirm") \/ At(r, "uncovered", "confirm")
    /\ Confirmed(r, request[r].doc, request[r].pc = "covered", FALSE)
    /\ UNCHANGED ledger

----------------------------------------------------------------------------
(* Adjustments and transfers.                                              *)

Sign(r) == IF request[r].op = "found" THEN 1 ELSE -1

\* StockService.adjust_stock: the balance is read before it is locked, and the
\* locked row does not replace what the session has already loaded.
Adjust(r, op) ==
    /\ adjustments < MaxAdjustments /\ adjustments' = adjustments + 1
    /\ op = "lost" => bal >= 1
    /\ Enter(r, "read", op, None, bal, None)
    /\ UNCHANGED <<ledger, order, doc, unit, bal, arrived, sold, moved, confirms,
                   unposted, gained, overtaken, missed>>

\* upsert_balance, and the event with adjustment_amount = abs(qty) * avg_cost.
WriteAdjustment(r, date) ==
    /\ request[r].op \in {"found", "lost"} /\ request[r].pc = "read"
    /\ Free(r, {"balance"})
    /\ Emit(r, _on_adjustment_confirmed(date, 1), request[r].view)
    /\ UNCHANGED <<ledger, requests, stock>>

CommitAdjustment(r) ==
    LET posted == request[r].pc = "numbered" IN
    /\ request[r].op \in {"found", "lost"}
    /\ \/ Posted(r)
       \/ request[r].pc = "unposted" /\ UNCHANGED <<journal, sequence, holder>>
    /\ bal' = request[r].view + Sign(r)
    /\ moved' = moved + Sign(r)
    /\ overtaken' = (overtaken \/ request[r].view # bal)
    /\ unposted' = IF posted THEN unposted ELSE unposted + Sign(r)
    /\ gained' = IF posted /\ Sign(r) = 1 THEN gained + 1 ELSE gained
    /\ Respond(r)
    /\ UNCHANGED <<period, periodMoves, stragglers, requests, order, doc, unit, arrived,
                   sold, adjustments, confirms, missed>>

\* StockService.transfer_units: one locked read, one write, no entry.
Transfer(r, s) ==
    /\ request[r].pc = "idle" /\ requests < MaxRequests
    /\ Free(r, {s})
    /\ unit[s] = "IN_STOCK"
    /\ unit' = [unit EXCEPT ![s] = "IN_TRANSIT"]
    /\ requests' = requests + 1
    /\ UNCHANGED <<ledger, request, order, doc, bal, arrived, sold, moved, adjustments,
                   confirms, unposted, gained, overtaken, missed>>

----------------------------------------------------------------------------
StockInit ==
    /\ LedgerInit
    /\ order = [o \in Orders |-> "none"]
    /\ doc = [d \in Documents |-> "none"]
    /\ unit = [s \in Serials |-> "NONE"]
    /\ bal = Opening
    /\ arrived = [s \in Serials |-> 0] /\ sold = [s \in Serials |-> 0]
    /\ moved = 0 /\ adjustments = 0
    /\ confirms = [d \in Documents |-> 0]
    /\ unposted = 0 /\ gained = 0 /\ overtaken = FALSE /\ missed = {}

StockNext ==
    \/ \E o \in Orders : CreatePO(o) \/ CreateSO(o)
    \/ \E d \in Documents : CreateGRN(d) \/ CreateDispatch(d)
    \/ \E r \in Requests :
          \/ \E o \in Orders : IssuePO(r, o) \/ ConfirmSO(r, o)
          \/ CommitOpenOrder(r)
          \/ \E d \in Documents : Confirm(r, d)
          \/ ReadBalance(r) \/ Receive(r) \/ Pick(r)
          \/ CheckOrder(r) \/ CommitConfirmation(r) \/ CommitUnposted(r)
          \/ \E op \in {"found", "lost"} : Adjust(r, op)
          \/ \E p \in Periods : WriteAdjustment(r, p)
          \/ CommitAdjustment(r)
          \/ \E s \in Serials : Transfer(r, s)
          \/ NextEntryNo(r) /\ UNCHANGED stock
          \/ Rollback(r) /\ UNCHANGED stock
    \/ \E p \in Periods : (ClosePeriod(p) \/ ReopenPeriod(p)) /\ UNCHANGED stock

StockSpec == StockInit /\ [][StockNext]_stockVars

StockTypeOK ==
    /\ LedgerTypeOK
    /\ order \in [Orders -> {"none", "draft", "open", "done"}]
    /\ doc \in [Documents -> {"none", "draft", "confirmed"}]
    /\ unit \in [Serials -> {"NONE", "IN_STOCK", "SOLD", "IN_TRANSIT"}]
    /\ bal \in Int /\ moved \in Int /\ unposted \in Int /\ gained \in Nat
    /\ arrived \in [Serials -> Nat] /\ sold \in [Serials -> Nat]
    /\ adjustments \in 0 .. MaxAdjustments
    /\ confirms \in [Documents -> Nat]
    /\ overtaken \in BOOLEAN /\ missed \subseteq Orders

----------------------------------------------------------------------------
(* What the reports show.                                                  *)

\* compute_stock_value: a unit in transit is not in stock.
StockValue == Cardinality({s \in Serials : unit[s] = "IN_STOCK"}) + bal

\* reconcile_to_gl: the stock's value against the balance of account 1200.
Variance == StockValue - (Opening + Balance("1200"))

\* serial_lookup: the movements of a unit, and where it ends up.
Lifecycle(s) == [receipts |-> arrived[s], sales |-> sold[s], status |-> unit[s]]

----------------------------------------------------------------------------
(* Properties.                                                             *)

\* "Two concurrent dispatches cannot grab the same unit": a unit arrives
\* once and sold at most once, by one dispatch, also when receipts and
\* dispatches are confirmed twice at the same time and transferred meanwhile.
UnitsMoveOnce ==
    \A s \in Serials :
        LET life == Lifecycle(s) IN
        /\ life.receipts = (IF life.status = "NONE" THEN 0 ELSE 1)
        /\ life.sales = (IF life.status = "SOLD" THEN 1 ELSE 0)
        /\ life.sales = 1 => \E d \in Dispatches : s \in Lines[d].serials /\ confirms[d] = 1

\* What the reconciliation of stock and general ledger reports is made of:
\* vouchers whose entry a gate refused, adjustments upwards (posted with the
\* wrong sign), units left in transit, balances written over, and receipts that
\* list more or fewer serials than the quantity they are booked with.  Nothing
\* else parts the two where everything costs the same, in no committed state.
Miscounted ==
    SumFunctionOnSet([g \in Receipts |-> confirms[g] * (Cardinality(Lines[g].serials) - Lines[g].qty)],
                     Receipts)
VarianceExplained ==
    LET inTransit == Cardinality({s \in Serials : unit[s] = "IN_TRANSIT"})
        lost      == Opening + moved - bal
    IN  Variance = unposted + 2 * gained - inTransit - lost + Miscounted

\* The balance is the sum of its ledger entries until a receipt or an adjustment
\* writes over a balance that it had not seen.  The lock of a dispatch rules
\* that out for dispatches, whatever overlaps them.
BalanceIsSum == ~overtaken => bal = Opening + moved

\* Stock is never sold below zero, except by a dispatch with two lines of the
\* same item, whose second line does not see the first.
NeverNegative ==
    bal < 0 => \E d \in Dispatches : confirms[d] > 0 /\ Len(Lines[d].bulk) > 1

\* A document is posted at most once for every request that overlapped, and
\* one that moves a serialized unit takes effect once.
PostedOncePerOverlap ==
    \A d \in Documents :
        /\ Entries(d) <= confirms[d] /\ confirms[d] <= Cardinality(Requests)
        /\ Lines[d].serials # {} => confirms[d] <= 1

\* An order is done exactly when its documents cover it, although each
\* confirmation looks only at what has committed: the lock of the number
\* sequence orders the looks.  Only an order that was not open yet, or a
\* confirmation without an entry, can miss it, and one of quantity zero that
\* has no document.
CoveredIsDone ==
    \A o \in Orders :
        LET covered == Brought(ConfirmedFor(o)) >= Ordered[o] IN
        /\ order[o] = "done" => covered
        /\ order[o] = "open" /\ covered => o \in missed \/ ConfirmedFor(o) = {}

-----------------------------------------------------------------------------
(* What the run checks of these together *)

\* A unit moves once; what is in stock is what was moved and never less than
\* nothing; and stock and ledger part only where it is explained.
StockIsSound == StockTypeOK /\ UnitsMoveOnce /\ BalanceIsSum /\ NeverNegative /\ VarianceExplained

\* A document takes effect once, and an order is done when its documents cover it.
DocumentsTakeEffectOnce == PostedOncePerOverlap /\ CoveredIsDone
=============================================================================
