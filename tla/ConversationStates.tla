-------------------------- MODULE ConversationStates --------------------------
(* The states of a conversation and the arcs between them. *)

States == {"NEW", "AI_ACTIVE", "AWAITING_APPROVAL", "HUMAN_ASSIGNED",
           "AI_PAUSED", "CLOSED"}

Allowed ==
    [s \in States |->
        CASE s = "NEW"               -> {"AI_ACTIVE", "HUMAN_ASSIGNED", "CLOSED"}
          [] s = "AI_ACTIVE"         -> {"AWAITING_APPROVAL", "HUMAN_ASSIGNED",
                                         "AI_PAUSED", "CLOSED"}
          [] s = "AWAITING_APPROVAL" -> {"AI_ACTIVE", "HUMAN_ASSIGNED",
                                         "AI_PAUSED", "CLOSED"}
          [] s = "HUMAN_ASSIGNED"    -> {"AI_PAUSED", "AI_ACTIVE", "CLOSED"}
          [] s = "AI_PAUSED"         -> {"AI_ACTIVE", "HUMAN_ASSIGNED", "CLOSED"}
          [] s = "CLOSED"            -> {}]
=============================================================================
