----------------------------- MODULE MCCampaign -----------------------------
(* The recipients are numbers: a batch goes through its list in that order. *)
EXTENDS Campaign

CONSTANT N

MCRecipients == 1..N
=============================================================================
