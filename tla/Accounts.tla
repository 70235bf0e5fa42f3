------------------------------ MODULE Accounts ------------------------------
(***************************************************************************)
(* The users: their sessions, which are refresh tokens that each refresh   *)
(* replaces, what admins change of them, and the sections of the user      *)
(* interface that each user sees.                                          *)
(*                                                                         *)
(* Passwords, the signature of access tokens and the expiry of refresh     *)
(* tokens are left out.                                                    *)
(***************************************************************************)
EXTENDS Requests

CONSTANTS Users         \* the users that there may be

VARIABLES
    users,          \* users that there are: their role and whether they are active
    tokens,         \* refresh tokens, by id
    sections        \* the section grants of each user

accountState == <<users, tokens, sections>>

User == [role: {"admin", "agent"}, active: BOOLEAN]

\* What the schemas of the requests let through.
WellFormed(q) ==
    /\ q.op = "createUser" => q.patch.role \in {"admin", "agent"}
    /\ q.op = "updateUser" => \A f \in DOMAIN q.patch :
          \/ f = "role" /\ q.patch[f] \in {"admin", "agent"}
          \/ f = "active" /\ q.patch[f] \in BOOLEAN

Admins == {u \in DOMAIN users : users[u].role = "admin" /\ users[u].active}
Live(u) == {t \in DOMAIN tokens : tokens[t].user = u /\ ~tokens[t].revoked}

InitAccounts == tokens = <<>> /\ sections = [u \in Users |-> {}]

-----------------------------------------------------------------------------
(* Sessions *)

LoginRead(q) ==
    /\ IF q.user \notin DOMAIN users \/ ~users[q.user].active THEN Refuse(q) ELSE Begin(q, 0)
    /\ UNCHANGED accountState

Issue(q, ts) == tokens' = Added(ts, Cardinality(DOMAIN ts) + 1, [user |-> q.user, revoked |-> FALSE,
                                                              by |-> q])
login(q) == Commit(q) /\ Issue(q, tokens) /\ UNCHANGED <<users, sections>>

\* The holder of a token refreshes it, q.user's.
RefreshRead(q) ==
    /\ IF Live(q.user) = {} \/ ~users[q.user].active THEN Refuse(q)
       ELSE \E t \in Live(q.user) : Begin(q, t)
    /\ UNCHANGED accountState
\* Fault: the token that was used stays valid.
RefreshKeeps(q) == Commit(q) /\ Issue(q, tokens) /\ UNCHANGED <<users, sections>>
\* The consumed token is revoked by its id, whatever has become of it.
refresh(q) == Commit(q) /\ Issue(q, [tokens EXCEPT ![open[q]].revoked = TRUE])
              /\ UNCHANGED <<users, sections>>

logout(q) ==
    /\ AtOnce(q)
    /\ \E t \in Live(q.user) : tokens' = [tokens EXCEPT ![t].revoked = TRUE]
    /\ UNCHANGED <<users, sections>>

-----------------------------------------------------------------------------
(* The admins' changes *)

\* The active admins besides u.
count_other_active_admins(u) == Cardinality(Admins \ {u})

CreateUserRead(q) ==
    /\ IF q.by \notin Admins \/ q.user \in DOMAIN users THEN Refuse(q) ELSE Begin(q, 0)
    /\ UNCHANGED accountState
create_user(q) ==
    /\ IF q.user \in DOMAIN users THEN Fail(q) /\ UNCHANGED users
       ELSE Commit(q) /\ users' = Added(users, q.user, [role |-> q.patch.role, active |-> TRUE])
    /\ UNCHANGED <<tokens, sections>>

\* The fields of the patch that differ, for the user that was read.
Diff(q, old) == {f \in DOMAIN q.patch : q.patch[f] # old[f]}
\* Fault: the role that is asked for is taken for the one that there is.
DemotesTo(q, old) == "role" \in Diff(q, old) /\ q.patch.role = "admin"
Demotes(q, old) == "role" \in Diff(q, old) /\ old.role = "admin"
Deactivates(q, old) == "active" \in Diff(q, old) /\ old.active

UpdateUserRead(q) ==
    /\ IF q.by \notin Admins \/ q.user \notin DOMAIN users THEN Refuse(q)
       ELSE LET old == users[q.user] IN
            IF \/ Diff(q, old) = {}
               \/ q.user = q.by /\ (Demotes(q, old) \/ Deactivates(q, old))
               \/ /\ old.active /\ (Demotes(q, old) \/ (Deactivates(q, old) /\ old.role = "admin"))
                  /\ count_other_active_admins(q.user) = 0
            THEN Refuse(q) ELSE Begin(q, old)
    /\ UNCHANGED accountState

\* The columns that differ from what was read.
apply_updates(q, old, row) == [f \in DOMAIN row |-> IF f \in Diff(q, old) THEN q.patch[f] ELSE row[f]]

\* Fault: sessions end with a demotion only.
LockoutIfDemoted(q, old) == Demotes(q, old)
Lockout(q, old) == Demotes(q, old) \/ Deactivates(q, old)

RevokeAll(u) == tokens' = [t \in DOMAIN tokens |->
                             IF tokens[t].user = u THEN [tokens[t] EXCEPT !.revoked = TRUE] ELSE tokens[t]]

update_user(q) ==
    /\ Commit(q)
    /\ users' = [users EXCEPT ![q.user] = apply_updates(q, open[q], @)]
    /\ IF Lockout(q, open[q]) THEN RevokeAll(q.user) ELSE UNCHANGED tokens
    /\ UNCHANGED sections

reset_password(q) ==
    /\ IF q.by \in Admins THEN AtOnce(q) /\ RevokeAll(q.user) ELSE Refuse(q) /\ UNCHANGED tokens
    /\ UNCHANGED <<users, sections>>

-----------------------------------------------------------------------------
(* Section grants: deleted, and inserted anew *)

SectionsRead(q) ==
    /\ IF q.by \in Admins THEN Begin(q, 0) ELSE Refuse(q)
    /\ UNCHANGED accountState

\* Fault: the grants are added to those that there are.
KeptAll(q) == sections[q.user]
\* The grants that q does not delete: those that another has inserted since q looked.
Kept(q) == IF \E p \in over[q] : p.op = "sections" /\ p.user = q.user THEN sections[q.user] ELSE {}

set_accessible_sections(q) ==
    /\ IF Kept(q) \intersect q.sections # {} THEN Fail(q) /\ UNCHANGED sections
       ELSE Commit(q) /\ sections' = [sections EXCEPT ![q.user] = Kept(q) \union q.sections]
    /\ UNCHANGED <<users, tokens>>

PostLogin(q) ==
    /\ q.op = "login"
    /\ \/ q \in todo /\ LoginRead(q)
       \/ q \in DOMAIN open /\ login(q)
PostRefresh(q) ==
    /\ q.op = "refresh"
    /\ \/ q \in todo /\ RefreshRead(q)
       \/ q \in DOMAIN open /\ refresh(q)
PostLogout(q) == q.op = "logout" /\ q \in todo /\ logout(q)
PostUser(q) ==
    /\ q.op = "createUser"
    /\ \/ q \in todo /\ CreateUserRead(q)
       \/ q \in DOMAIN open /\ create_user(q)
PatchUser(q) ==
    /\ q.op = "updateUser"
    /\ \/ q \in todo /\ UpdateUserRead(q)
       \/ q \in DOMAIN open /\ update_user(q)
PostPassword(q) == q.op = "password" /\ q \in todo /\ reset_password(q)
PutSections(q) ==
    /\ q.op = "sections"
    /\ \/ q \in todo /\ SectionsRead(q)
       \/ q \in DOMAIN open /\ set_accessible_sections(q)

AccountRequest(q) ==
    \/ PostLogin(q) \/ PostRefresh(q) \/ PostLogout(q)
    \/ PostUser(q) \/ PatchUser(q) \/ PostPassword(q) \/ PutSections(q)

-----------------------------------------------------------------------------
(* Properties *)

Changes_ == {q \in done : q.op = "updateUser"}
TakesAdmin(q) == ("role" \in DOMAIN q.patch /\ q.patch.role = "agent")
                 \/ ("active" \in DOMAIN q.patch /\ ~q.patch.active)

\* There is an active admin, as the guard says: unless two requests that each
\* demote or deactivate somebody overlapped (each counted the other's admin).
LastAdminStands ==
    Admins # {} \/ \E p, q \in Changes_ : p # q /\ TakesAdmin(p) /\ TakesAdmin(q) /\ Overlapped(p, q)

\* A user who is not active has no session: unless he logged in, or refreshed,
\* while he was deactivated.
DeactivatedHasNoSession ==
    \A u \in DOMAIN users : ~users[u].active =>
        \A t \in Live(u) : \E q \in Changes_ : q.user = u /\ Overlapped(q, tokens[t].by)

\* One login is one session: each refresh ends the token it was given, so a user
\* has no more live tokens than he has logged in, unless two refreshes overlapped.
OneSuccessor ==
    \A u \in DOMAIN users :
        \/ Cardinality(Live(u)) <= Cardinality({q \in done : q.op = "login" /\ q.user = u})
        \/ \E p, q \in done : /\ p # q /\ p.op = "refresh" /\ q.op = "refresh" /\ p.user = u /\ q.user = u
                              /\ Overlapped(p, q)

\* The sections of a user are those that one request gave him, unless two
\* overlapped.
SectionsAreOneRequests ==
    \A u \in Users :
        LET given == {q \in done : q.op = "sections" /\ q.user = u} IN
        \/ sections[u] \in {{}} \union {q.sections : q \in given}
        \/ \E p, q \in given : p # q /\ Overlapped(p, q)
=============================================================================
