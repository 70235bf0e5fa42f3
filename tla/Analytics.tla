----------------------------- MODULE Analytics -----------------------------
(***************************************************************************)
(* The rollup tables of the dashboard, and its reports.  Each night a task *)
(* reads the messages of the day that has ended and upserts the day's rows *)
(* in four tables; an admin's backfill does it again for a range of days.  *)
(* Reports read the tables, or the messages themselves, or both.           *)
(*                                                                         *)
(* The messages are those of campaigns, and the contacts' replies, which   *)
(* the AI answers with one call each; a contact's revenue, a message's and *)
(* a call's price are 1, rates and quotients are left out.                 *)
(***************************************************************************)
EXTENDS Contacts, FiniteSetsExt

CONSTANTS
    Attribution,    \* the days in which a reply answers a message
    MaxNights       \* bound on nightly runs

ASSUME AnalyticsAssumption == Attribution \in Nat

VARIABLES
    sends,          \* campaign_recipients that were sent to, with their messages
    counters,       \* what campaigns count of their recipients as they go
    replies,        \* inbound messages, with the AI's calls for them
    rollup,         \* the four tables: by day, campaign, template and hour
    touched,        \* days of which something has changed since their rows were computed
    dirty,          \* jobs of whose day something has changed since they read it
    late            \* nightly runs that began after another midnight

analyticsState == <<sends, counters, replies, rollup, touched, dirty, late>>

InitAnalytics == /\ sends = <<>> /\ counters = <<>> /\ replies = {} /\ touched = {} /\ dirty = {} /\ late = {}
                 /\ rollup = [global |-> <<>>, campaigns |-> <<>>, templates |-> <<>>, hours |-> <<>>]

Jobs == {q \in DOMAIN open : q.op \in {"nightly", "backfill"}}
Touch(days) == /\ touched' = touched \union days
               /\ dirty' = dirty \union {q \in Jobs : open[q].day \in days}

-----------------------------------------------------------------------------
(* What happens to messages *)

NoCounts == [sent |-> 0, delivered |-> 0, failed |-> 0, responses |-> 0]
increment_counters(cs, field) ==
    counters' = [c \in DOMAIN counters \union cs |->
        LET n == IF c \in DOMAIN counters THEN counters[c] ELSE NoCounts IN
        IF c \in cs THEN [n EXCEPT ![field] = @ + 1] ELSE n]

mark_sent_sync(q) ==
    /\ q.op = "campaign" /\ q \in todo
    /\ IF q.x.contact \notin DOMAIN rows THEN Refuse(q) /\ UNCHANGED <<sends, counters, touched, dirty>>
       ELSE /\ AtOnce(q) /\ Touch({clock}) /\ increment_counters({q.x.campaign}, "sent")
            /\ sends' = Added(sends, q.x, [day |-> clock, nth |-> Cardinality(DOMAIN sends) + 1, hour |-> q.hour,
                                          msg |-> "sent", delivered |-> 0, failed |-> 0, responded |-> FALSE])
    /\ UNCHANGED <<replies, rollup, late>>

\* Fault: what is read counts as delivered.
ReadCounts(q) == IF q.to = "failed" THEN increment_counters({q.x.campaign}, "failed")
                 ELSE increment_counters({q.x.campaign}, "delivered")
Counts(q) == IF q.to = "read" THEN UNCHANGED counters ELSE increment_counters({q.x.campaign}, q.to)

Rank == [sent |-> 2, failed |-> 3, delivered |-> 4, read |-> 5]

\* A status that does not advance the message is dropped; a message that is read
\* before it was told to be delivered leaves its recipient undelivered.
update_delivery_status_sync(q) ==
    /\ q.op = "status" /\ q \in todo /\ q.x \in DOMAIN sends
    /\ IF Rank[q.to] <= Rank[sends[q.x].msg] THEN Refuse(q) /\ UNCHANGED <<sends, counters, touched, dirty>>
       ELSE /\ AtOnce(q) /\ Touch({sends[q.x].day}) /\ Counts(q)
            /\ sends' = [sends EXCEPT ![q.x].msg = q.to,
                                      ![q.x].delivered = IF q.to = "delivered" THEN clock ELSE @,
                                      ![q.x].failed = IF q.to = "failed" THEN clock ELSE @]
    /\ UNCHANGED <<replies, rollup, late>>

Answered(contact) == {x \in DOMAIN sends : /\ x.contact = contact /\ ~sends[x].responded
                                           /\ sends[x].day >= clock - Attribution}

mark_responded_for_contact_sync(q) ==
    /\ q.op = "reply" /\ q \in todo
    /\ IF q.contact \notin DOMAIN rows THEN Refuse(q) /\ UNCHANGED <<sends, counters, replies, touched, dirty>>
       ELSE /\ AtOnce(q) /\ increment_counters({x.campaign : x \in Answered(q.contact)}, "responses")
            /\ replies' = replies \union {[contact |-> q.contact, day |-> clock, hour |-> q.hour, n |-> q.n]}
            /\ sends' = [x \in DOMAIN sends |-> [sends[x] EXCEPT !.responded = @ \/ x \in Answered(q.contact)]]
            /\ Touch({clock} \union {sends[x].day : x \in Answered(q.contact)})
    /\ UNCHANGED <<rollup, late>>

\* Messages and recipients go with their contact.
AnalyticsWithout(gone) ==
    LET lost == {x \in DOMAIN sends : x.contact \in gone}
        unheard == {r \in replies : r.contact \in gone}
    IN  /\ sends' = Without(sends, lost) /\ replies' = replies \ unheard
        /\ Touch({sends[x].day : x \in lost} \union {r.day : r \in unheard})
        /\ UNCHANGED <<counters, rollup, late>>

-----------------------------------------------------------------------------
(* What the reading of a day, or of the days from d to e, finds *)

SentIn(d, e) == {x \in DOMAIN sends : sends[x].day \in d..e}
SentOn(d) == SentIn(d, d)
ReceivedIn(d, e) == {r \in replies : r.day \in d..e}
Having(X, status) == Cardinality({x \in X : sends[x].msg \in status})
Responded(X) == Cardinality({x \in X : sends[x].responded})
DeliveredBy(X, days) == Cardinality({x \in X : sends[x].delivered \in days})

\* The AI's calls in the conversations of the recipients X: those of a contact
\* count once for each of his messages.
AiCalls(X, d, e) == MapThenSumSet(LAMBDA x : Cardinality({r \in ReceivedIn(d, e) : r.contact = x.contact}), X)

Of(X, campaign) == {x \in X : x.campaign = campaign}
Using(X, template) == {x \in X : x.template = template}

upsert_global_daily(d) ==
    [sent |-> Having(SentOn(d), {"sent", "delivered", "read"}), failed |-> Having(SentOn(d), {"failed"}),
     delivered |-> Having(SentOn(d), {"delivered", "read"}),
     received |-> Cardinality(ReceivedIn(d, d)), ai |-> Cardinality(ReceivedIn(d, d))]

\* Fault: every message that was answered is credited.
AllTouches(d) == {x \in DOMAIN sends : sends[x].responded}
\* The last message that each contact answered.
LastTouch(d) ==
    LET touches == {x \in DOMAIN sends : sends[x].responded /\ sends[x].day \in (d - Attribution)..d}
    IN  {x \in touches : \A y \in touches : y.contact = x.contact => sends[y].nth <= sends[x].nth}

upsert_campaign_daily(d) ==
    [k \in {<<x.campaign, d>> : x \in SentOn(d)} |->
        LET X == Of(SentOn(d), k[1]) IN
        [sent |-> Cardinality(X), delivered |-> DeliveredBy(X, {d}), responded |-> Responded(X),
         failed |-> Cardinality({x \in X : sends[x].failed = d}), ai |-> AiCalls(X, d, d),
         revenue |-> Cardinality(X \intersect LastTouch(d))]]

\* Fault: a message counts as delivered whenever it was.
TemplatesWithLate(d) ==
    [k \in {<<x.template, d>> : x \in SentOn(d)} |->
        LET X == Using(SentOn(d), k[1]) IN
        [campaigns |-> Cardinality({x.campaign : x \in X}), sent |-> Cardinality(X),
         delivered |-> DeliveredBy(X, Nat \ {0}), responded |-> Responded(X), ai |-> AiCalls(X, d, d)]]
upsert_template_daily(d) ==
    [k \in {<<x.template, d>> : x \in SentOn(d)} |->
        LET X == Using(SentOn(d), k[1]) IN
        [campaigns |-> Cardinality({x.campaign : x \in X}), sent |-> Cardinality(X),
         delivered |-> DeliveredBy(X, {d}), responded |-> Responded(X), ai |-> AiCalls(X, d, d)]]

upsert_hourly_metrics(d) ==
    [k \in {<<sends[x].hour, d>> : x \in SentOn(d)} \union {<<r.hour, d>> : r \in ReceivedIn(d, d)} |->
        [sent |-> Cardinality({x \in SentOn(d) : sends[x].hour = k[1]}),
         received |-> Cardinality({r \in ReceivedIn(d, d) : r.hour = k[1]})]]

-----------------------------------------------------------------------------
(* Jobs: one transaction a day, each statement with a reading of its own;  *)
(* the first row that is written keeps other jobs of the day waiting.      *)

\* Fault: the day that has begun.
Today == clock
Yesterday == clock - 1

\* The first statement has read the day, and is to write its row.
Job(d, until) == [at |-> "read", day |-> d, until |-> until,
                  new |-> [global |-> [x \in {d} |-> upsert_global_daily(d)], campaigns |-> <<>>, templates |-> <<>>]]
Reading(q, d, until) == Begin(q, Job(d, until)) /\ UNCHANGED <<sends, counters, replies, rollup, touched, dirty>>

\* The day is chosen when the run begins.
aggregate_daily_metrics_task(q) ==
    /\ q.op = "nightly" /\ q \in todo
    /\ Reading(q, Yesterday, Yesterday)
    /\ late' = late \union {r \in {q} : clock > q.n + 1}
backfill_daily_metrics_task(q) ==
    /\ q.op = "backfill" /\ q \in todo
    /\ IF q.until < q.from THEN Refuse(q) /\ UNCHANGED analyticsState
       ELSE Reading(q, q.from, q.until) /\ UNCHANGED late

Writes(q, at, then, new) == open[q].at = at /\ Proceed(q, [open[q] EXCEPT !.at = then, !.new = new])
                            /\ UNCHANGED analyticsState

WriteGlobal(q) ==
    /\ ~ \E p \in Jobs \ {q} : open[p].day = open[q].day /\ open[p].at # "read"
    /\ Writes(q, "read", "global", open[q].new)
WriteCampaigns(q) ==
    Writes(q, "global", "campaigns", [open[q].new EXCEPT !.campaigns = upsert_campaign_daily(open[q].day)])
WriteTemplates(q) ==
    Writes(q, "campaigns", "templates", [open[q].new EXCEPT !.templates = upsert_template_daily(open[q].day)])

\* The last statement and the commit; a backfill goes on to the next day.
WriteHours(q) ==
    LET job == open[q]   d == job.day
    IN  /\ job.at = "templates"
        /\ IF d < job.until THEN CommitPart(q, Job(d + 1, job.until)) ELSE Commit(q)
        /\ rollup' = [global    |-> Over(job.new.global, rollup.global),
                      campaigns |-> Over(job.new.campaigns, rollup.campaigns),
                      templates |-> Over(job.new.templates, rollup.templates),
                      hours     |-> Over(upsert_hourly_metrics(d), rollup.hours)]
        /\ touched' = IF q \in dirty THEN touched \union {d} ELSE touched \ {d}
        /\ dirty' = dirty \ {q}
        /\ UNCHANGED <<sends, counters, replies, late>>

\* An error ends the run, which is not retried (at most one in a behaviour).
JobFails(q) == q.op = "nightly" /\ failed = {} /\ Fail(q) /\ UNCHANGED analyticsState

AnalyticsRequest(q) ==
    /\ \/ mark_sent_sync(q) \/ update_delivery_status_sync(q) \/ mark_responded_for_contact_sync(q)
       \/ aggregate_daily_metrics_task(q) \/ backfill_daily_metrics_task(q)
       \/ q \in Jobs /\ (WriteGlobal(q) \/ WriteCampaigns(q) \/ WriteTemplates(q) \/ WriteHours(q) \/ JobFails(q))
    /\ UNCHANGED contactState

\* After each day with messages before or on it beat queues a run (at most MaxNights).
Nightly ==
    LET queued == {q \in todo \union DOMAIN open \union done \union failed : q.op = "nightly"}
    IN  todo' = IF (sends = <<>> /\ replies = {}) \/ Cardinality(queued) = MaxNights THEN todo
                ELSE todo \union {[op |-> "nightly", n |-> clock]}
-----------------------------------------------------------------------------
(* Reports on the days d to e, which have ended.  Those on campaigns add   *)
(* figures of the messages to those of the tables.                         *)

RecipientStatus(x) == IF sends[x].delivered > 0 THEN "delivered" ELSE IF sends[x].failed > 0 THEN "failed" ELSE "sent"
count_by_status(c) == [s \in {"sent", "delivered", "failed"} |->
    Cardinality({x \in Of(DOMAIN sends, c) : RecipientStatus(x) = s})]
get_report(c) == Over(counters[c], [status_breakdown |-> count_by_status(c)])

Days(table, d, e) == {k \in DOMAIN table : k[2] \in d..e}
Sum(f(_), S) == MapThenSumSet(f, S)

conversion_by_day(d, e) == Restrict(rollup.global, DOMAIN rollup.global \intersect (d..e))
conversion_totals(d, e) ==
    LET rs == conversion_by_day(d, e) IN
    [sent |-> Sum(LAMBDA x : rs[x].sent, DOMAIN rs), failed |-> Sum(LAMBDA x : rs[x].failed, DOMAIN rs),
     delivered |-> Sum(LAMBDA x : rs[x].delivered, DOMAIN rs),
     received |-> Sum(LAMBDA x : rs[x].received, DOMAIN rs)]
cost_totals(d, e) ==
    [msg |-> conversion_totals(d, e).delivered, meta |-> Having(SentIn(d, e), {"delivered", "read"}),
     tokens |-> Cardinality(ReceivedIn(d, e))]
cost_by_day(d, e) == [x \in DOMAIN rollup.global \intersect (d..e) |-> [msg |-> rollup.global[x].delivered]]
ai_totals(d, e) ==
    LET rs == conversion_by_day(d, e) IN
    [calls |-> Sum(LAMBDA x : rs[x].ai, DOMAIN rs), tokens |-> Cardinality(ReceivedIn(d, e))]

\* Fault: only what was delivered in the days asked for.
DeliveredInTime(campaign, d, e) ==
    LET X == Of(SentIn(d, e), campaign) IN [meta |-> DeliveredBy(X, d..e), tokens |-> AiCalls(X, d, e)]
\* Of the messages, whenever they were delivered, and of the calls on all the days.
_campaign_source_extra(campaign, d, e) ==
    LET X == Of(SentIn(d, e), campaign) IN [meta |-> DeliveredBy(X, 1..clock), tokens |-> AiCalls(X, d, e)]
campaign_totals_for(campaign, d, e) ==
    LET ks == {k \in Days(rollup.campaigns, d, e) : k[1] = campaign}
        table == rollup.campaigns
    IN  Over([sent |-> Sum(LAMBDA k : table[k].sent, ks), delivered |-> Sum(LAMBDA k : table[k].delivered, ks),
              responded |-> Sum(LAMBDA k : table[k].responded, ks), revenue |-> Sum(LAMBDA k : table[k].revenue, ks)],
             _campaign_source_extra(campaign, d, e))
list_campaign_summary(d, e) ==
    [c \in {k[1] : k \in Days(rollup.campaigns, d, e)} |-> campaign_totals_for(c, d, e)]
campaign_totals(d, e) == Sum(LAMBDA k : rollup.campaigns[k].revenue, Days(rollup.campaigns, d, e))
top_campaigns_by_roi(d, e) ==
    LET ks == Days(rollup.campaigns, d, e)
    IN  [c \in {k[1] : k \in ks} |-> Sum(LAMBDA k : rollup.campaigns[k].revenue, {k \in ks : k[1] = c})]
_campaign_by_day_source_extra(campaign, x, d, e) ==
    LET X == Of(SentOn(x), campaign) IN [meta |-> DeliveredBy(X, 1..clock), tokens |-> AiCalls(X, d, e)]
campaign_by_day(campaign, d, e) ==
    [x \in {k[2] : k \in {l \in Days(rollup.campaigns, d, e) : l[1] = campaign}} |->
        Over(rollup.campaigns[<<campaign, x>>], _campaign_by_day_source_extra(campaign, x, d, e))]

TemplateFigures(X, d, e) ==
    [campaigns |-> Cardinality({x.campaign : x \in X}), sent |-> Cardinality(X),
     delivered |-> DeliveredBy(X, 1..clock), responded |-> Responded(X), ai |-> AiCalls(X, d, e)]
template_totals_for(t, d, e) == TemplateFigures(Using(SentIn(d, e), t), d, e)
list_template_summary(d, e) ==
    [t \in {x.template : x \in SentIn(d, e)} |-> template_totals_for(t, d, e)]
\* Fault: the calls of the day only, as in the table.
TemplateDays(t, d, e) ==
    [y \in {sends[x].day : x \in Using(SentIn(d, e), t)} |-> TemplateFigures(Using(SentOn(y), t), y, y)]
template_by_day(t, d, e) ==
    [y \in {sends[x].day : x \in Using(SentIn(d, e), t)} |-> TemplateFigures(Using(SentOn(y), t), d, e)]

Pattern(X, R) == [sent |-> Cardinality(X), received |-> Cardinality(R)]
hourly_pattern(d, e) ==
    [h \in {sends[x].hour : x \in SentIn(d, e)} \union {r.hour : r \in ReceivedIn(d, e)} |->
        Pattern({x \in SentIn(d, e) : sends[x].hour = h}, {r \in ReceivedIn(d, e) : r.hour = h})]
daily_pattern(d, e) ==
    [w \in {sends[x].day % 7 : x \in SentIn(d, e)} \union {r.day % 7 : r \in ReceivedIn(d, e)} |->
        Pattern({x \in SentIn(d, e) : sends[x].day % 7 = w}, {r \in ReceivedIn(d, e) : r.day % 7 = w})]

\* What the endpoints answer.
cost(d, e) == [totals |-> cost_totals(d, e), by_day |-> cost_by_day(d, e)]
conversion(d, e) == [totals |-> conversion_totals(d, e), by_day |-> conversion_by_day(d, e)]
roi(d, e) == [total |-> campaign_totals(d, e), top |-> top_campaigns_by_roi(d, e)]
campaign_detail(c, d, e) == [totals |-> campaign_totals_for(c, d, e), by_day |-> campaign_by_day(c, d, e)]
template_detail(t, d, e) == [totals |-> template_totals_for(t, d, e), by_day |-> template_by_day(t, d, e)]
responsiveness(d, e) == [by_hour |-> hourly_pattern(d, e), by_weekday |-> daily_pattern(d, e)]

-----------------------------------------------------------------------------
(* Properties *)

Deleted == \E q \in done : q.op = "delete"
\* Days whose rows tell of all that has happened to their messages.
Current == DOMAIN rollup.global \ touched

\* The four tables of a day tell of the same messages: the hours add up to the
\* day, where a message that failed is sent, and so do the campaigns and the
\* templates: unless something changed since they were computed, or a contact was
\* deleted (a row that nothing is left of is not removed).
TablesAgree ==
    \A d \in Current : Deleted \/
        LET g == rollup.global[d]
            hs == Days(rollup.hours, d, d)   cs == Days(rollup.campaigns, d, d)   ts == Days(rollup.templates, d, d)
            Same(f) == Sum(LAMBDA k : rollup.campaigns[k][f], cs) = Sum(LAMBDA k : rollup.templates[k][f], ts)
        IN  /\ Sum(LAMBDA k : rollup.hours[k].sent, hs) = g.sent + g.failed
            /\ Sum(LAMBDA k : rollup.hours[k].received, hs) = g.received
            /\ Sum(LAMBDA k : rollup.campaigns[k].sent, cs) = g.sent + g.failed
            /\ Same("sent") /\ Same("delivered") /\ Same("responded") /\ Same("ai")

\* The figures of a campaign that are taken from its messages are those of the
\* tables and the messages that were delivered after the day they were sent on,
\* which no table ever counts.
LiveCountsLate ==
    \A k \in {l \in DOMAIN rollup.campaigns : l[2] \in Current} :
        Deleted \/ _campaign_source_extra(k[1], k[2], k[2]).meta =
                   rollup.campaigns[k].delivered
                   + Cardinality({x \in Of(SentOn(k[2]), k[1]) : sends[x].delivered > k[2]})

\* The revenue of a contact is credited once for each day on which it was sent a
\* message that it answered: to the campaign of the last such message of the day,
\* and again on another day.
CreditedOnce ==
    Deleted \/ campaign_totals(1, clock) <= Cardinality({<<x.contact, sends[x].day>> : x \in
                                                {y \in DOMAIN sends : sends[y].responded}})

\* Reports on the same days agree: the campaigns' with the total, a campaign's or a
\* template's days with its sum, and the list with the details, though they are
\* queried apart; unless a day with messages has no rows.  The patterns count the
\* same messages, and those of the totals where the tables are current.
ReportsAgree ==
    \A e \in 1..(clock - 1) : \A d \in 1..e :
        LET total(f_, days) == Sum(LAMBDA x : days[x][f_], DOMAIN days)
            Adds(detail, fs) == \A f \in fs : total(f, detail.by_day) = detail.totals[f]
            cs == list_campaign_summary(d, e)
            by == responsiveness(d, e)
            sums == conversion(d, e).totals
            computed == \A x \in SentIn(d, e) : <<x.campaign, sends[x].day>> \in DOMAIN rollup.campaigns
        IN  /\ Sum(LAMBDA c : cs[c].revenue, DOMAIN cs) = roi(d, e).total
            /\ \A c \in DOMAIN cs : roi(d, e).top[c] = cs[c].revenue
            /\ computed => \A c \in DOMAIN cs : Adds(campaign_detail(c, d, e), DOMAIN cs[c])
            /\ \A t \in DOMAIN list_template_summary(d, e) :
                  Adds(template_detail(t, d, e), {"sent", "delivered", "responded", "ai"})
            /\ \A f \in {"sent", "received"} : total(f, by.by_hour) = total(f, by.by_weekday)
            /\ Adds(cost(d, e), {"msg"}) /\ Adds(conversion(d, e), {"sent", "received"})
            /\ d..e \subseteq Current =>
                  /\ total("sent", by.by_hour) = sums.sent + sums.failed
                  /\ cost(d, e).totals.msg = cost(d, e).totals.meta
                  /\ ai_totals(d, e).calls = ai_totals(d, e).tokens

\* A campaign's report adds up: what it has counted is what its recipients are by
\* now, of which one that was delivered after it had failed counts as both; unless
\* recipients went with their contacts, which the counts do not tell.
ReportAddsUp ==
    \A c \in DOMAIN counters : Deleted \/
        LET r == get_report(c)   is == r.status_breakdown   X == Of(DOMAIN sends, c) IN
        /\ r.sent = is["sent"] + is["delivered"] + is["failed"]
        /\ r.delivered = is["delivered"] /\ r.responses = Responded(X)
        /\ r.failed = is["failed"] + Cardinality({x \in X : sends[x].failed > 0 /\ sends[x].delivered > 0})

\* Every day with messages gets its rows in the end: unless its run failed, or
\* began after another midnight and took the wrong day.
DaysAreComputed ==
    <>[](\A q \in todo \union DOMAIN open \union done \union failed :
            q.op = "nightly" => q.n \in DOMAIN rollup.global \/ q \in late \union failed)
=============================================================================
