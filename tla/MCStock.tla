------------------------------- MODULE MCStock -------------------------------
(* Two receipts of one purchase order, one of them with a unit that is       *)
(* booked as two, and two dispatches, one of them with two lines of the same *)
(* item.                                                                     *)
EXTENDS Stock

CONSTANTS r1, r2, po, so, grn1, grn2, dsp1, dsp2, s1

MCOrdered == [o \in {po, so} |-> IF o = po THEN 2 ELSE 1]

MCLines ==
    [d \in {grn1, grn2, dsp1, dsp2} |->
       CASE d = grn1 -> [order |-> po, date |-> "may", bulk |-> <<1>>, serials |-> {s1}, qty |-> 2]
         [] d = grn2 -> [order |-> po, date |-> "may", bulk |-> <<1>>, serials |-> {}, qty |-> 0]
         [] d = dsp1 -> [order |-> so, date |-> "may", bulk |-> <<1>>, serials |-> {s1}, qty |-> 1]
         [] OTHER    -> [order |-> None, date |-> "may", bulk |-> <<1, 1>>, serials |-> {}, qty |-> 0]]

Symmetry == Permutations({r1, r2})
=============================================================================
