------------------------------- MODULE Lease -------------------------------
(***************************************************************************)
(* What the conversation lock promises its users: it has at most one       *)
(* holder, and only a free lock is granted.  How it becomes free (release, *)
(* expiry, an administrator) is left open.                                 *)
(***************************************************************************)
CONSTANTS Clients, Nobody

VARIABLE holder

Init == holder = Nobody

Grant(c) == holder = Nobody /\ holder' = c

Free == holder # Nobody /\ holder' = Nobody

Next == Free \/ \E c \in Clients : Grant(c)

Spec == Init /\ [][Next]_holder
=============================================================================
