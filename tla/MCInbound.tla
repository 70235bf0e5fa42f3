----------------------------- MODULE MCInbound -----------------------------
(* Model values for model checking Inbound: a webhook with two messages and *)
(* one with an opt-out.                                                     *)
EXTENDS Inbound

CONSTANTS m1, m2, m3

MCPayloads == {<<m1, m2>>, <<m3>>}
=============================================================================
