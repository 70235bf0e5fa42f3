----------------------------- MODULE MCDelivery -----------------------------
(* Symmetry of the task slots, for model checking Delivery. *)
EXTENDS Delivery, TLC

SlotSymmetry == Permutations(Slots)
=============================================================================
