------------------------------ MODULE MCMarket ------------------------------
(* Two posts of one sender, in histories of which each has some of the hard  *)
(* cases: overlapping requests, failures, classifications and reviews.       *)
EXTENDS Market

CONSTANTS p1, p2

MCId == (p1 :> 1 @@ p2 :> 2)

History(k1, k2, r, v, f, l) ==
    [kind |-> (p1 :> k1 @@ p2 :> k2), requests |-> r, reviews |-> v, faults |-> f, lists |-> l]

MCHistories ==
    {History("buy", "buy", 2, 0, 1, 0), History("sell", "sell", 2, 0, 0, 0),
     History("bad", "buy", 2, 0, 0, 0), History("vague", "none", 2, 1, 0, 0),
     History("foreign", "none", 1, 2, 0, 0), History("vague", "none", 1, 1, 1, 0),
     History("foreign", "none", 1, 1, 1, 0), History("mixed", "none", 1, 2, 0, 0),
     History("foreign", "foreign", 1, 0, 0, 1)}
=============================================================================
