------------------------------ MODULE Console -------------------------------
(***************************************************************************)
(* What admins set up: the settings, of which each change is told in the   *)
(* audit trail, and the message templates, which are submitted to Meta,    *)
(* reviewed there, and asked about or imported from there.                 *)
(***************************************************************************)
EXTENDS Requests

CONSTANTS MaxVerdicts   \* changes of a template's status at Meta (a bound)

VARIABLES
    setting,        \* the settings that there are, by key
    trail,          \* the audit entries of settings
    remote,         \* templates at Meta, by id: by whom, and whether Meta has ever approved them
    local,          \* templates, by name
    verdicts        \* changes of status at Meta so far

settingState == <<setting, trail>>
templateState == <<remote, local, verdicts>>

MetaStatus == {"PENDING", "APPROVED", "REJECTED", "PAUSED"}
TemplateStatus == {"pending", "approved", "rejected", "disabled"}
Template == [meta: Nat, status: TemplateStatus]

InitConsole == setting = <<>> /\ trail = {} /\ verdicts = 0

-----------------------------------------------------------------------------
(* Settings *)

ValueOf(key) == IF key \in DOMAIN setting THEN setting[key] ELSE "none"

\* More than five test numbers are refused, after other keys were written: all
\* of it is rolled back.
SettingsRead(q) ==
    /\ IF q.numbers > 5 THEN Refuse(q) ELSE Begin(q, [k \in DOMAIN q.values |-> ValueOf(k)])
    /\ UNCHANGED settingState

\* Fault: what was set is told as the value before.
BeforeIsAfter(q) ==
    /\ Commit(q)
    /\ setting' = Over(q.values, setting)
    /\ trail' = trail \union {[key |-> k, before |-> q.values[k], after |-> q.values[k], by |-> q] :
                                k \in DOMAIN q.values}

\* Each key is upserted, and told of with the value that was read before.
set_setting(q) ==
    /\ Commit(q)
    /\ setting' = Over(q.values, setting)
    /\ trail' = trail \union {[key |-> k, before |-> open[q][k], after |-> q.values[k], by |-> q] :
                                k \in DOMAIN q.values}

-----------------------------------------------------------------------------
(* Templates *)

\* Fault: what is not rejected is approved.
map_meta_optimistic(s) == IF s = "REJECTED" THEN "rejected" ELSE "approved"
map_meta_status(s) == CASE s = "PENDING" -> "pending" [] s = "APPROVED" -> "approved"
                        [] s = "REJECTED" -> "rejected" [] OTHER -> "disabled"

Meta == {local[n].meta : n \in DOMAIN local} \ {0}
SetLocal(n, t) == local' = Over([x \in {n} |-> t], local)

\* The name is free.
SubmitRead(q) ==
    /\ IF q.name \in DOMAIN local THEN Refuse(q) ELSE Begin(q, [at |-> "checked", meta |-> 0])
    /\ UNCHANGED templateState

\* The row is inserted before Meta is asked, which waits for an open insert of
\* the same name; once that has committed, this one is refused.
SubmitFails(q) == open[q].at = "checked" /\ q.name \in DOMAIN local /\ Fail(q)
                  /\ UNCHANGED templateState

\* The names of rows that are inserted and not committed.
Held == {p.name : p \in {x \in DOMAIN open : x.op = "submit" /\ open[x].at = "called"}}

\* Fault: Meta is asked before the row is inserted.
Unwaited(q) == TRUE
Inserted(q) == q.name \notin DOMAIN local \union Held

submit_message_template(q) ==
    /\ open[q].at = "checked" /\ Inserted(q)
    /\ IF \E m \in DOMAIN remote : remote[m].name = q.name /\ remote[m].language = q.language
       THEN Drop(q) /\ UNCHANGED remote
       ELSE LET m == Cardinality(DOMAIN remote) + 1 IN
            /\ Proceed(q, [at |-> "called", meta |-> m])
            /\ remote' = Added(remote, m, [name |-> q.name, language |-> q.language, status |-> "PENDING",
                                       by |-> {q}, approved |-> FALSE])
    /\ UNCHANGED <<local, verdicts>>

submit_template(q) ==
    /\ open[q].at = "called"
    /\ IF q.name \in DOMAIN local THEN Fail(q) /\ UNCHANGED local
       ELSE Commit(q) /\ SetLocal(q.name, [meta |-> open[q].meta, status |-> "pending"])
    /\ UNCHANGED <<remote, verdicts>>

SubmitDies(q) == q.dies /\ open[q].at = "called" /\ Drop(q)
                 /\ UNCHANGED templateState

\* Meta decides, or pauses a template that it had approved.
Verdict(m) ==
    /\ verdicts < MaxVerdicts /\ verdicts' = verdicts + 1
    /\ \E s \in MetaStatus \ {"PENDING", remote[m].status} :
         /\ s = "PAUSED" => remote[m].status = "APPROVED"
         /\ remote' = [remote EXCEPT ![m].status = s, ![m].approved = @ \/ s = "APPROVED"]
    /\ UNCHANGED local

SyncRead(q) ==
    /\ IF q.name \notin DOMAIN local \/ local[q.name].meta = 0 THEN Refuse(q)
       ELSE Begin(q, [at |-> "read", row |-> local[q.name], status |-> ""])
    /\ UNCHANGED templateState
SyncAnswer(q) ==
    /\ open[q].at = "read"
    /\ Proceed(q, [open[q] EXCEPT !.at = "told", !.status = map_meta_status(remote[open[q].row.meta].status)])
    /\ UNCHANGED templateState
\* The status is written if it differs from the one in the row that was read.
sync_status_from_meta(q) ==
    /\ open[q].at = "told" /\ Commit(q)
    /\ local' = IF open[q].status = open[q].row.status THEN local
                ELSE [local EXCEPT ![q.name].status = open[q].status]
    /\ UNCHANGED <<remote, verdicts>>

\* All templates at Meta, and the rows of their names.
ImportRead_(q) == Begin(q, [at |-> "told", remote |-> remote, local |-> local]) /\ UNCHANGED templateState

\* A row that is inserted is not seen by the next reading (no autoflush): a new
\* name in two languages is inserted twice.
Clashes(q) ==
    LET r == open[q].remote   new == {m \in DOMAIN r : r[m].name \notin DOMAIN open[q].local} IN
    \/ \E m, n \in new : m # n /\ r[m].name = r[n].name
    \/ \E m \in new : r[m].name \in DOMAIN local

Names(q) == {open[q].remote[m].name : m \in DOMAIN open[q].remote}

\* What is written of t, where old was read and row is there now.
Refreshed(t, old, row) == [meta   |-> IF t.meta # old.meta THEN t.meta ELSE row.meta,
                           status |-> IF t.status # old.status THEN t.status ELSE row.status]

\* Of the languages of a name the last one stays.
import_from_meta(q) ==
    /\ open[q].at = "told"
    /\ (Names(q) \ DOMAIN open[q].local) \intersect Held = {}
    /\ IF Clashes(q) THEN Fail(q) /\ UNCHANGED local
       ELSE LET r == open[q].remote IN
            /\ Commit(q)
            /\ \E last \in [Names(q) -> DOMAIN r] :
                 /\ \A n \in Names(q) : r[last[n]].name = n
                 /\ LET New(n) == [meta |-> last[n], status |-> map_meta_status(r[last[n]].status)] IN
                    local' = Over([n \in Names(q) |->
                                     IF n \in DOMAIN open[q].local
                                     THEN Refreshed(New(n), open[q].local[n], local[n]) ELSE New(n)], local)
    /\ UNCHANGED <<remote, verdicts>>

PutSettings(q) ==
    /\ q.op = "settings"
    /\ \/ q \in todo /\ SettingsRead(q)
       \/ q \in DOMAIN open /\ set_setting(q)
PostTemplate(q) ==
    /\ q.op = "submit"
    /\ \/ q \in todo /\ SubmitRead(q)
       \/ /\ q \in DOMAIN open
          /\ (SubmitFails(q) \/ submit_message_template(q) \/ submit_template(q) \/ SubmitDies(q))
PostSync(q) ==
    /\ q.op = "sync"
    /\ \/ q \in todo /\ SyncRead(q)
       \/ q \in DOMAIN open /\ (SyncAnswer(q) \/ sync_status_from_meta(q))
PostImportFromMeta(q) ==
    /\ q.op = "importTemplates"
    /\ \/ q \in todo /\ ImportRead_(q)
       \/ q \in DOMAIN open /\ import_from_meta(q)

ConsoleRequest(q) ==
    \/ PutSettings(q) /\ UNCHANGED templateState
    \/ (PostTemplate(q) \/ PostSync(q) \/ PostImportFromMeta(q)) /\ UNCHANGED settingState

-----------------------------------------------------------------------------
(* Properties *)

\* The audit trail tells how each setting came to be: its value was set by an
\* entry, and the value before each entry is what another had set, or none:
\* unless two changes of the key overlapped.
TrailExplains ==
    \A k \in DOMAIN setting :
        LET told == {e \in trail : e.key = k} IN
        \/ /\ \E e \in told : e.after = setting[k]
           /\ \E e \in told : e.before = "none"
           /\ \A e \in told : e.before = "none" \/ \E d \in told \ {e} : d.after = e.before
        \/ \E d, e \in told : d # e /\ Overlapped(d.by, e.by)

\* Every template that a submission has put to Meta is the one in the row of its
\* name: unless the submission is under way or died before its commit, or an
\* import found the name in another language too.
SubmittedIsKept ==
    \A m \in DOMAIN remote : \A q \in remote[m].by :
        \/ m \in Meta \/ q \in DOMAIN open
        \/ q.dies /\ q \notin done \union failed
        \/ \E i \in done : i.op = "importTemplates"
           /\ \E n \in DOMAIN remote \ {m} : remote[n].name = remote[m].name

\* A template that campaigns may use has been approved by Meta, as the one that
\* the row names: unless an import overlapped with a sync of it or with another
\* import.
ApprovedByMeta ==
    \A n \in DOMAIN local : local[n].status = "approved" =>
        \/ remote[local[n].meta].approved
        \/ \E p, q \in done : /\ q.op = "importTemplates" /\ Overlapped(p, q)
                              /\ (p.op = "sync" /\ p.name = n) \/ (p.op = q.op /\ p # q)
=============================================================================
