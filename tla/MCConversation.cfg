SPECIFICATION ConversationSpec
CONSTANTS
    Agents = {a1}
    Admins = {m}
    Requests = {r1, r2}
    Owner = a1
    None = None
SYMMETRY RequestSymmetry
INVARIANTS ConversationTypeOK AllPrepared
PROPERTIES LegalArcs NoLostUpdate AiNeverOverridesHuman AuditIsTrue LockIsLease
