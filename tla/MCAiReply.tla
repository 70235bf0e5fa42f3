----------------------------- MODULE MCAiReply -----------------------------
(* Model values for model checking AiReply. *)
EXTENDS AiReply
=============================================================================
