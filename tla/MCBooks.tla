------------------------------- MODULE MCBooks -------------------------------
(* A bill and its payments with a debit note; invoices and a payment; manual    *)
(* entries, one of which does not balance and one of which names 2100.          *)
EXTENDS Books

CONSTANTS r1, r2, bil1, bil2, pay1, pay2, dbn1, inv1, inv2, pmt1, pmt2

MCTotal == [d \in {bil1, bil2, inv1, inv2} |-> IF d \in {bil1, inv1} THEN 2 ELSE 1]
MCAmount == [p \in {pay1, pay2, pmt1, pmt2} |-> IF p \in {pay1, pmt1} THEN 2 ELSE 1]
MCDate == [d \in {bil1, bil2, inv1, inv2, pay1, pay2, pmt1, pmt2} |->
             IF d \in {pay2, inv2, pmt2} THEN 2 ELSE 1]
MCDaysOverdue ==
    [d \in {bil1, bil2, inv1, inv2} |->
       CASE d = bil1 -> 31 [] d = bil2 -> 0 [] d = inv1 -> 91 [] OTHER -> -1]

MCScenarios ==
    {{bil1, pay1, pay2}, {bil2, pay1, 1}, {bil2, dbn1, 1}, {bil2, Manual, 1}, {dbn1, Manual, 1},
     {inv1, Manual, 2}, {inv1, pmt1, pmt2}, {inv1, inv2, pmt1}, {inv1, pmt1, 1},
     {bil1, bil2}}

MCManualLines ==
    {{Dr("6500", 1), Dr("5200", 1), Cr("1020", 2)}, {Dr("6500", 2), Cr("1020", 1)}, {Dr("2100", 1), Cr("1020", 1)}}

Symmetry == Permutations({r1, r2})
=============================================================================
