------------------------------ MODULE MCOffice ------------------------------
(* Starts with two to four requests each, chosen so that those that can      *)
(* disturb each other meet.  In those that no time matters to, none passes.  *)
EXTENDS Office, TLC

CONSTANTS p1, p2, p3, a1, nobody, u1, u2

Row(phone, name) == NewContact(phone, name, {})
One == (1 :> Row(p1, "Ann"))
Two == One @@ (2 :> [Row(p2, "") EXCEPT !.agent = a1])
\* One who has replied before, and was sent to since.
Replied == (1 :> [Row(p1, "Ann") EXCEPT !.inbound = 1])
Staff == (u1 :> [role |-> "admin", active |-> TRUE] @@ u2 :> [role |-> "admin", active |-> TRUE])
Mixed == (u1 :> [role |-> "admin", active |-> TRUE] @@ u2 :> [role |-> "agent", active |-> TRUE])
AtMeta(name, language) == [name |-> name, language |-> language, status |-> "PENDING", by |-> {}, approved |-> FALSE]

Start(reqs, contacts, us, templates) ==
    [requests |-> reqs, contacts |-> contacts, users |-> us, remote |-> templates, clock |-> MaxTime,
     local |-> <<>>, drafts |-> <<>>, categories |-> <<>>, board |-> <<>>, vocab |-> <<>>,
     threads |-> [convs |-> <<>>, msgs |-> <<>>, assets |-> <<>>]]
Begun(reqs, contacts) == Start(reqs, contacts, Staff, <<>>)
Timed(reqs, contacts) == [Begun(reqs, contacts) EXCEPT !.clock = 1]
\* With one day less to go.
TimedLater(reqs, contacts) == [Begun(reqs, contacts) EXCEPT !.clock = 2]

Create(phone, agent, ai) == [op |-> "create", phone |-> phone, name |-> "Bob", agent |-> agent, ai |-> ai]
Append(phone, note) == [op |-> "append", phone |-> phone, name |-> "Cy", info |-> note]
Inbound(phone) == [op |-> "inbound", phone |-> phone]
Patch(n, patch) == [op |-> "patch", ids |-> n, patch |-> patch]
Delete(n) == [op |-> "delete", ids |-> n]
Import(pairs) == [op |-> "import", rows |-> pairs]
InFile(phone, name) == [phone |-> phone, name |-> name]
Send(n, id) == [op |-> "send", id |-> id, n |-> n]

Extract(n, id) == [op |-> "extract", id |-> id, n |-> n, found |-> IF n = 1 THEN "f" ELSE "g"]
Noted == (1 :> [Row(p1, "Ann") EXCEPT !.info = {"z"}])

ContactStarts ==
    {Begun({Create(p1, a1, TRUE), Append(p1, "x"), Append(p1, "y")}, <<>>),
     Begun({Append(p1, "x"), Inbound(p1), Import({InFile(p1, "Dan")})}, <<>>),
     Begun({Patch({1, 2}, [ai |-> TRUE]), Patch({1}, [agent |-> a1]), Create(p2, nobody, TRUE)}, Two),
     Begun({Patch({1}, [info |-> {}]), Append(p1, "x"), Delete({1, 2})}, Two),
     Begun({Import({InFile(p1, "Eve"), InFile(p2, LongName)}), Patch({1}, [name |-> "Fay"]), Inbound(p2)}, One),
     Begun({Import({InFile(p1, LongName), InFile(p2, "Gil")}), Create(p2, nobody, FALSE)}, One),
     Begun({Import({InFile(p1, "Ann")}), Import({InFile(p1, "Dan")})}, One),
     Begun({Import({InFile(p1, "Ann")}), Import({InFile(p1, "Ann"), InFile(p2, "")}), Append(p1, "x")}, (1 :> Row(p1, ""))),
     Begun({Append(p1, "x"), Extract(1, 1), Extract(2, 1), Delete({1})}, One),
     Begun({Append(p1, "x"), Extract(1, 1), Patch({1}, [info |-> {}])}, Noted),
     Timed({Send(1, 1), Inbound(p1), Patch({1}, [status |-> "interested"])}, One),
     Timed({Send(1, 1), Send(2, 1), Inbound(p1)}, Replied)}

Remember(n, id, dies) == [op |-> "remember", id |-> id, n |-> n, dies |-> dies]
MemoryStarts ==
    {Begun({Remember(1, 1, FALSE), Remember(2, 1, FALSE), Remember(3, 1, FALSE)}, One),
     Begun({Remember(1, 1, FALSE), Remember(2, 1, TRUE), Delete({1})}, One)}

Suggest(id, name) == [op |-> "suggest", id |-> id, name |-> name]
AutoTag(id, name) == [op |-> "autotag", id |-> id, name |-> name]
Review(op, n, s) == [op |-> op, s |-> s, n |-> n]
Hand(op, id, tag) == [op |-> op, id |-> id, tag |-> tag]
TagStarts ==
    {Begun({Suggest(1, "hot"), Review("approve", 1, 2), Review("reject", 2, 2)}, One),
     Begun({Suggest(1, "hot"), Review("approve", 1, 2), Hand("remove", 1, 1), Hand("apply", 1, 1)}, One),
     Begun({Suggest(1, "hot"), Review("approve", 1, 2), Hand("deleteTag", 0, 1), Delete({1})}, One),
     Begun({Suggest(1, "hot"), AutoTag(2, "hot"), [op |-> "createTag", name |-> "hot"], Hand("deleteTag", 0, 1)}, Two),
     Begun({AutoTag(1, "dnc"), [op |-> "renameTag", tag |-> 1, name |-> "old"], Suggest(2, "dnc"),
            Hand("apply", 2, 1)}, Two)}

Session(op, n, u) == [op |-> op, user |-> u, n |-> n]
Change(by, u, patch) == [op |-> "updateUser", by |-> by, user |-> u, patch |-> patch]
Grant(by, u, s) == [op |-> "sections", by |-> by, user |-> u, sections |-> s]
Agent == [role |-> "agent"]
AccountStarts ==
    {Start(s, <<>>, Staff, <<>>) : s \in
        {{Change(u1, u2, Agent), Change(u2, u1, Agent), Change(u1, u1, Agent)},
         {Session("login", 1, u2), Session("refresh", 1, u2), Session("refresh", 2, u2), Session("logout", 1, u2)},
         {Session("login", 1, u2), Session("refresh", 1, u2), Change(u1, u2, [active |-> FALSE])},
         {Session("login", 1, u1), [op |-> "password", by |-> u2, user |-> u1], Session("refresh", 1, u1)},
         {Grant(u1, u2, {"inbox"}), Grant(u1, u2, {"users"}), Grant(u1, u2, {"inbox", "audit"})}}}
    \union
    {Start({Change(u1, u2, [role |-> "admin"]), Change(u2, u1, Agent), Change(u1, u2, [active |-> TRUE, role |-> "agent"]),
            Change(u1, u2, [active |-> FALSE])}, <<>>, Mixed, <<>>),
     Start({[op |-> "createUser", by |-> u1, user |-> u2, patch |-> Agent],
            [op |-> "createUser", by |-> u1, user |-> u2, patch |-> [role |-> "admin"]]}, <<>>, Restrict(Staff, {u1}), <<>>)}

Set(n, values) == [op |-> "settings", values |-> values, numbers |-> n]
Submit(name, language, dies) == [op |-> "submit", name |-> name, language |-> language, dies |-> dies]
Sync(n, name) == [op |-> "sync", name |-> name, n |-> n]
ImportAll(n) == [op |-> "importTemplates", n |-> n]
ConsoleStarts ==
    {Begun({Set(1, [cap |-> "on"]), Set(2, [cap |-> "off", kill |-> "on"]), Set(6, [kill |-> "off"])}, <<>>),
     Begun({Submit("hi", "en", FALSE), Submit("hi", "ar", FALSE), ImportAll(1)}, <<>>),
     Begun({Submit("hi", "en", TRUE), Sync(1, "hi"), Sync(2, "hi")}, <<>>),
     Start({ImportAll(1), ImportAll(2), Sync(1, "hi"), Submit("hi", "ar", FALSE)}, <<>>, Staff, (1 :> AtMeta("hi", "en")))}

Recipient(c, id) == [campaign |-> c, template |-> "t", contact |-> id]
Blast(c, id, h) == [op |-> "campaign", x |-> Recipient(c, id), hour |-> h]
Status(c, id, to) == [op |-> "status", x |-> Recipient(c, id), to |-> to]
Reply(n, id) == [op |-> "reply", contact |-> id, hour |-> 1, n |-> n]
Backfill(d, e) == [op |-> "backfill", from |-> d, until |-> e]
AnalyticsStarts ==
    {TimedLater({Blast("A", 1, 1), Blast("B", 1, 2), Reply(1, 1)}, One),
     TimedLater({Blast("A", 1, 1), Status("A", 1, "read"), Status("A", 1, "failed"), Status("A", 1, "delivered")}, One),
     Timed({Blast("A", 1, 1), Backfill(2, 1), Backfill(1, 2)}, One),
     TimedLater({Blast("A", 1, 1), Reply(1, 1), Delete({1})}, One)}

Receive_(n, id) == [op |-> "receive", id |-> id, n |-> n, asset |-> 0]
ReceivePhoto(id, asset) == [op |-> "receive", id |-> id, n |-> 1, asset |-> asset]
Upload(asset) == [op |-> "upload", asset |-> asset]
Template_(n, id, dies) == [op |-> "start", id |-> id, n |-> n, dies |-> dies]
Compose(c, asset) == [op |-> "sendMessage", to |-> c, asset |-> asset, dies |-> FALSE]
Forward(n, ms, c) == [op |-> "forward", n |-> n, msgs |-> ms, to |-> c]
Unsend(n, ms, scope, dies) == [op |-> "deleteMessages", n |-> n, ids |-> ms, scope |-> scope, dies |-> dies]
Open(n) == [op |-> "open", conv |-> 1, n |-> n]
Inbox(f) == [op |-> "inbox", filter |-> f]
In(contact, state, last) == [NewConversation(contact) EXCEPT !.state = state, !.last = last]
Thread(reqs, contacts, convs_, msgs_, assets_) ==
    [Begun(reqs, contacts) EXCEPT !.threads = [convs |-> convs_, msgs |-> msgs_, assets |-> assets_]]
Photo(status) == (1 :> NewMessage(1, "outbound", 1, status, TRUE, 0))
Three == (1 :> Row(p1, "Ann") @@ 2 :> Row(p2, "Bo") @@ 3 :> Row(p3, ""))
Listed == (1 :> In(1, "HUMAN_ASSIGNED", 1) @@ 2 :> In(2, "AWAITING_APPROVAL", 1) @@ 3 :> In(3, "HUMAN_ASSIGNED", 1))
ThreadStarts ==
    {Begun({Receive_(1, 1), Receive_(2, 1), Template_(1, 1, FALSE), Open(1)}, One),
     Begun({Receive_(1, 1), Receive_(2, 1), Open(1), Open(2)}, One),
     Begun({Template_(1, 1, TRUE), Template_(2, 1, FALSE), [op |-> "close", conv |-> 1], Delete({1})}, One),
     Thread({Forward(1, <<1>>, 2), Forward(2, <<1>>, 2), Unsend(1, {1}, "for_everyone", FALSE)}, Three,
            Restrict(Listed, {1, 2}), Photo("QUEUED"), (1 :> 1)),
     Thread({Compose(1, 1), Forward(1, <<1, 2>>, 2), Unsend(2, {1}, "for_everyone", TRUE)}, Three,
            Restrict(Listed, {1, 2}), Photo("SENT"), (1 :> 0 @@ 2 :> 1)),
     Thread({Compose(2, 1), Unsend(1, {1}, "for_me", FALSE)}, Three, Restrict(Listed, {1, 2}), Photo("SENT"), (1 :> 1)),
     Thread({ReceivePhoto(1, 1), Forward(1, <<1>>, 2), Upload(2), Compose(2, 2)}, Three, Restrict(Listed, {1, 2}), <<>>, <<>>),
     Thread({Inbox([states |-> NeedsHuman]), Receive_(1, 1), Receive_(2, 1), Delete({2})}, Three,
            Listed, <<>>, <<>>)}

Validate(n, c) == [op |-> "validate", c |-> c, n |-> n]
Edit(n, c, patch) == [op |-> "editCampaign", c |-> c, patch |-> patch, n |-> n]
NewCampaign(filter, category) ==
    [op |-> "createCampaign", template |-> "hi", filter |-> filter, category |-> category]
Category(op, k, name) == [op |-> op, category |-> k, name |-> name]
Contacted_ == [status |-> {"contacted"}]
Everyone == NewDraft("hi", [none |-> ""], NoCategory)
Drafted(reqs, status, ds) ==
    [Start(reqs, Two, Staff, (1 :> [AtMeta("hi", "en") EXCEPT !.status = "APPROVED", !.approved = TRUE]))
        EXCEPT !.local = ("hi" :> [meta |-> 1, status |-> status]), !.drafts = ds, !.categories = (1 :> "sale")]
DraftStarts ==
    {Drafted({Validate(1, 1), Validate(2, 1), Edit(1, 1, [filter |-> [agent |-> a1]]), Patch({2}, [status |-> "blocked"])},
             "approved", (1 :> Everyone)),
     Drafted({Validate(1, 1), Validate(2, 1), Edit(1, 1, [filter |-> [ids |-> {1}]]), Sync(1, "hi")}, "pending", (1 :> Everyone)),
     Drafted({Validate(1, 1), Validate(2, 2), Edit(1, 2, [filter |-> [status |-> {"active"}]]), Delete({1})}, "approved",
             (1 :> Everyone @@ 2 :> Everyone)),
     Drafted({AutoTag(1, "hot"), NewCampaign([tags |-> {1}], NoCategory), Validate(1, 1), Hand("remove", 1, 1)}, "approved", <<>>),
     Drafted({Category("createCategory", 0, "new"), Category("renameCategory", 1, "new"), NewCampaign([none |-> ""], 1),
              Category("deleteCategory", 1, ""), Edit(1, 1, [category |-> 1])}, "approved", (1 :> Everyone)),
     Drafted({Validate(1, 1), Send(1, 1), Edit(1, 1, [filter |-> [status |-> {"active"}]])}, "approved", (1 :> Everyone)),
     [Drafted({Validate(1, 1), Patch({1}, [agent |-> a1])}, "approved", (1 :> [Everyone EXCEPT !.filter = Contacted_]))
         EXCEPT !.contacts[1].status = "contacted", !.contacts[1].contacted = 1],
     Begun({NewCampaign([none |-> ""], NoCategory), Submit("hi", "en", FALSE)}, One)}

Search_(query, fts, size) == [op |-> "search", query |-> query, products |-> {}, fts |-> fts, size |-> size]
SearchIn(reqs, posts, entries) == [Begun(reqs, <<>>) EXCEPT !.board = posts, !.vocab = entries]
Ingest(id, row) == [op |-> "ingest", id |-> id, row |-> row]
EditEntry(e, patch) == [op |-> "editEntry", e |-> e, patch |-> patch]
UK == Entry("uk", {"UK", "UK spec"}, TRUE)
\* Two demands and three offers, of two words; those of one time are in some order.
Market == (1 :> Posted("BUY", 1, {"UK"}, 2) @@ 3 :> Posted("BUY", 1, {"UK spec"}, 1)
           @@ 2 :> Posted("SELL", 1, {"UK"}, 3) @@ 4 :> Posted("SELL", 2, {"UK spec"}, 1) @@ 5 :> Posted("SELL", 2, {"UK"}, 2))
SearchStarts ==
    {SearchIn({Search_("", TRUE, 2), Ingest(6, Posted("SELL", 2, {"UK"}, 1)), [op |-> "repost", id |-> 4, at |-> 1],
               [op |-> "correct", id |-> 3, side |-> "SELL"]}, Market, <<>>),
     SearchIn({Search_("UK", FALSE, 1), Ingest(6, Posted("SELL", 3, {"UK"}, 1))}, Market, (1 :> UK)),
     SearchIn({Search_("UK", TRUE, 2), [op |-> "repost", id |-> 1, at |-> 1]},
              (1 :> Posted("SELL", 3, {"UK"}, 2) @@ 2 :> Posted("SELL", 1, {"UK"}, 1) @@ 3 :> Posted("SELL", 2, {"UK"}, 3)), <<>>),
     SearchIn({Search_("UK", TRUE, 2), EditEntry(1, [active |-> FALSE])}, Market, (1 :> UK)),
     SearchIn({EditEntry(1, [active |-> FALSE]), EditEntry(1, [terms |-> {"UK"}]), [op |-> "deleteEntry", e |-> 1],
               [op |-> "reseed", entry |-> UK], [op |-> "createEntry", entry |-> Entry("uk", {"GB"}, TRUE)]}, <<>>, (1 :> UK)),
     SearchIn({EditEntry(1, [active |-> FALSE]), EditEntry(1, [terms |-> {"UK"}]),
               [op |-> "createEntry", entry |-> Entry("uk", {"GB"}, TRUE)]}, <<>>, (1 :> UK))}

MCScenarios == UNION {SearchStarts, DraftStarts, ContactStarts, MemoryStarts, TagStarts, ThreadStarts, AnalyticsStarts, AccountStarts, ConsoleStarts}
=============================================================================
