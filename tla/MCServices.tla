----------------------------- MODULE MCServices -----------------------------
(* The services of a tenant in one run.  They share no table here: in each   *)
(* behaviour either those of Governance or those of Knowledge are at work,   *)
(* on a scene of theirs, while the others have nothing to do.                *)
EXTENDS Knowledge, Governance

-----------------------------------------------------------------------------
(* Small instances of the services that reason over a tenant's memories.    *)
MCNameKey == [n \in {"acme", "Acme", "acme inc", "srv 1", "srv 2", "bob", "it"} |-> IF n = "Acme" THEN "acme" ELSE n]
MCNameTokens == [n \in DOMAIN MCNameKey |-> IF n \in {"srv 1", "srv 2"} THEN {n} ELSE {}]
MCNameLength == [n \in DOMAIN MCNameKey |-> CASE n \in {"acme", "Acme"} -> 4 [] n = "acme inc" -> 8 [] n \in {"srv 1", "srv 2"} -> 5 [] OTHER -> 3]
MCAlike == {{"acme", "acme inc"}, {"Acme", "acme"}, {"Acme", "acme inc"}, {"srv 1", "srv 2"}}
MCTextNames == [t \in {"none", "x", "y", "z", "r", "acme text", "x again"} |-> IF t = "acme text" THEN {"acme"} ELSE {}]
MCNearTexts == {{"x", "y"}, {"y", "z"}, {"x", "x again"}}

Row(owner, fleet) == [Fresh EXCEPT !.owner = owner, !.fleet = fleet]

Quiet == [mem |-> <<>>, faults |-> 0, deletes |-> FALSE, iruns |-> <<>>, evolves |-> <<>>, ents |-> <<>>, links |-> {},
          rels |-> {{}}, xruns |-> <<>>, lruns |-> <<>>, pairs |-> {}, seeds |-> {}, cruns |-> <<>>,
          calls |-> {}, searches |-> <<>>, changes |-> {}]

-----------------------------------------------------------------------------
(* Insights.                                                               *)
Ask(via, focus, scope) ==
    [via |-> via, agent |-> "a", fleet |-> "f", focus |-> focus, scope |-> scope, admin |-> FALSE, trust |-> 2, quota |-> TRUE,
     enabled |-> TRUE, fake |-> FALSE, texts |-> {<<"x">>}]
OldInsight(focus, scope) ==
    [Row("a", "f") EXCEPT !.kind = "insight", !.text = "y", !.focus = focus, !.scope = scope]
Facts == <<Row("a", "f"), Row("b", "f"), Row("a", NoFleet)>>

InsightScenes ==
  {[Quiet EXCEPT !.faults = 1, !.mem = <<Row("a", "f"), OldInsight("patterns", "agent"), Row("b", "f")>>,
       !.iruns = <<[Ask("rest", "patterns", "agent") EXCEPT !.texts = {<<"x", "z">>, <<"y">>}],
                   [Ask("mcp", "patterns", "agent") EXCEPT !.texts = {<<"z">>}]>>],
   [Quiet EXCEPT !.faults = 2, !.mem = <<Row("a", "f"), OldInsight("patterns", "agent")>>,
       !.iruns = <<[Ask("rest", "patterns", "agent") EXCEPT !.texts = {<<"x", "x">>, <<>>}]>>],
   [Quiet EXCEPT !.faults = 1, !.mem = <<Row("a", "f"), OldInsight("patterns", "fleet"), Row("b", "f")>>,
       !.iruns = <<Ask("nightly", "patterns", "fleet"), [Ask("nightly", "patterns", "fleet") EXCEPT !.fake = TRUE]>>]}

\* Who may ask for what.
GateScenes ==
  {[Quiet EXCEPT !.mem = Facts,
       !.iruns = <<[Ask(via, focus, scope) EXCEPT !.admin = admin, !.trust = trust, !.fleet = fleet, !.quota = quota]>>] :
     via \in {"rest", "mcp"}, focus \in {"patterns", "divergence", "none"}, scope \in {"agent", "fleet", "all"},
     admin \in BOOLEAN, trust \in {0, 1, 2}, fleet \in {"f", NoFleet}, quota \in BOOLEAN}

\* Every query, on rows that differ in what it looks at.
Mixed == <<[Row("a", "f") EXCEPT !.weight = 20, !.recalls = 1, !.subj = 1, !.val = 1],
           [Row("b", "f") EXCEPT !.weight = 20, !.recalls = 2, !.subj = 1, !.val = 2, !.sup = 1],
           [Row("a", NoFleet) EXCEPT !.aged = TRUE, !.status = "conflicted"],
           [Row("a", "f") EXCEPT !.subj = 2, !.val = 1], Row("a", "f")>>
QueryScenes ==
  {[Quiet EXCEPT !.mem = Mixed, !.iruns = <<[Ask("rest", focus, scope) EXCEPT !.fleet = fleet]>>] :
     focus \in {"contradictions", "failures", "stale", "divergence", "patterns", "discover"},
     scope \in {"agent", "fleet", "all"}, fleet \in {"f", NoFleet}}

-----------------------------------------------------------------------------
(* Outcomes.                                                               *)
Report(via, type, ids) ==
    [via |-> via, agent |-> "a", fleet |-> "f", scope |-> "agent", type |-> type, ids |-> ids, text |-> "x", rule |-> "r",
     admin |-> FALSE, trust |-> 2, quota |-> TRUE]
EvolveScenes ==
  {[Quiet EXCEPT !.faults = 2, !.deletes = TRUE, !.mem = Facts,
       !.evolves = <<Report("rest", "failure", <<1, 1, 2, 3, 0>>)>>],
   [Quiet EXCEPT !.faults = 1, !.mem = <<[Row("a", "f") EXCEPT !.weight = 10], [Row("a", "f") EXCEPT !.weight = 95]>>,
       !.evolves = <<Report("mcp", "success", <<1, 2>>), [Report("rest", "failure", <<2, 1>>) EXCEPT !.text = "y"]>>],
   [Quiet EXCEPT !.faults = 1, !.mem = Facts,
       !.evolves = <<Report("rest", "failure", <<1>>), Report("rest", "partial", <<1>>)>>]}
  \cup
  {[Quiet EXCEPT !.mem = Facts,
       !.evolves = <<[Report(via, type, ids) EXCEPT !.scope = scope, !.trust = trust, !.fleet = fleet, !.admin = admin]>>] :
     via \in {"rest", "mcp"}, type \in {"success", "partial", "none"}, ids \in {<<>>, <<2>>, <<1, 2, 3>>},
     scope \in {"agent", "fleet", "all"}, trust \in {0, 1, 2}, fleet \in {"f", NoFleet}, admin \in BOOLEAN}

-----------------------------------------------------------------------------
(* Entities.                                                               *)
Ent(name, type) == [name |-> name, type |-> type, fleet |-> "f", aliases |-> {}, vec |-> name, into |-> 0]
Mention(name, role) == [name |-> name, type |-> "org", role |-> role]
Rel(a, b) == [from |-> a, type |-> "manages", to |-> b]
Edge(a, b, w) == [from |-> a, type |-> "manages", to |-> b, w |-> w]
Link(m, e) == [m |-> m, e |-> e, role |-> "subject"]
Extract(m, ents, rels) ==
    [via |-> "worker", fleet |-> "f", mem |-> m, linking |-> FALSE, graph |-> [ents |-> ents, rels |-> rels, split |-> {}]]
Nightly == [fleet |-> "f", enabled |-> TRUE]
Texts == <<[Row("a", "f") EXCEPT !.text = "acme text"], [Row("b", "f") EXCEPT !.vis = "agent"]>>

WorkerScenes ==
  {\* two workers, the same new name in two spellings
   [Quiet EXCEPT !.mem = Texts,
       !.xruns = <<Extract(1, <<Mention("acme", "subject"), Mention("it", "other")>>, <<>>),
                   Extract(2, <<Mention("Acme", "subject")>>, <<>>)>>],
   \* names told apart by their identifiers only
   [Quiet EXCEPT !.faults = 1, !.mem = Texts, !.ents = <<Ent("srv 1", "org")>>,
       !.xruns = <<Extract(1, <<Mention("srv 2", "subject"), Mention("bob", "other"), Mention("bob", "subject")>>, <<Rel("srv 2", "bob")>>)>>],
   \* a disambiguator folded into its subject
   [Quiet EXCEPT !.mem = Texts,
       !.xruns = <<[Extract(1, <<Mention("acme", "subject"), Mention("bob", "other")>>, <<Rel("acme", "acme")>>)
                      EXCEPT !.graph.split = {[subject |-> "acme", disc |-> "bob", joined |-> "acme inc"]}]>>],
   \* nothing left after the filter; a relation between names without a row
   [Quiet EXCEPT !.mem = Texts, !.xruns = <<Extract(1, <<Mention("it", "subject")>>, <<Rel("it", "bob")>>)>>],
   [Quiet EXCEPT !.mem = Texts, !.xruns = <<Extract(1, <<>>, <<>>)>>],
   \* links to what the text names
   [Quiet EXCEPT !.faults = 1, !.mem = Texts, !.ents = <<Ent("acme", "org")>>,
       !.xruns = <<[Extract(1, <<Mention("bob", "subject")>>, <<>>) EXCEPT !.linking = TRUE]>>]}

RequestScenes ==
  {[Quiet EXCEPT !.faults = 1, !.mem = Texts, !.ents = <<Ent("acme", "org")>>,
       !.xruns = <<[via |-> "upsert", fleet |-> "f", type |-> "org", name |-> n], [via |-> "upsert", fleet |-> "f", type |-> "org", name |-> "bob"],
                   Extract(1, <<Mention("acme", "subject")>>, <<>>)>>] : n \in {"acme", "Acme"}}
  \cup
  {[Quiet EXCEPT !.faults = 1, !.mem = Texts, !.ents = <<Ent("acme", "org"), Ent("bob", "org")>>, !.links = {Link(1, 1), Link(2, 1)},
       !.rels = {{Edge(1, 2, 3)}},
       !.xruns = <<[via |-> "relation", from |-> 1, to |-> 2, type |-> "manages", w |-> 5],
                   [via |-> "get", e |-> 1, agent |-> "a", fleet |-> "g", trust |-> trust]>>] : trust \in 0 .. 2}

Twins == <<Ent("acme", "org"), Ent("acme inc", "org"), Ent("bob", "org")>>
LinkingScenes ==
  {\* a worker in the window of a merge
   [Quiet EXCEPT !.mem = Texts, !.ents = Twins, !.links = {Link(1, 1), Link(2, 2)}, !.rels = {{Edge(1, 3, 3)}},
       !.lruns = <<Nightly>>,
       !.xruns = <<Extract(2, <<Mention("acme", "subject"), Mention("bob", "other")>>, <<Rel("acme", "bob")>>)>>],
   [Quiet EXCEPT !.mem = Texts, !.ents = Twins, !.links = {Link(1, 2)}, !.lruns = <<Nightly>>,
       !.xruns = <<[via |-> "relation", from |-> 1, to |-> 3, type |-> "manages", w |-> 5],
                   [via |-> "relation", from |-> 3, to |-> 1, type |-> "manages", w |-> 5],
                   [via |-> "get", e |-> 1, agent |-> "a", fleet |-> "g", trust |-> 2]>>],
   \* names without a vector, a merge that fails in part, co-occurrence
   [Quiet EXCEPT !.faults = 1, !.mem = Texts, !.links = {Link(m, e) : m \in 1 .. 2, e \in 2 .. 3},
       !.ents = <<[Ent("acme", "org") EXCEPT !.vec = NoVec], [Ent("acme inc", "org") EXCEPT !.vec = NoVec], Ent("bob", "org")>>,
       !.rels = {{[from |-> 3, type |-> "related_to", to |-> 2, w |-> 9]}, {}}, !.lruns = <<Nightly>>],
   [Quiet EXCEPT !.mem = Texts, !.links = {Link(m, e) : m \in 1 .. 2, e \in 2 .. 3}, !.ents = Twins,
       !.rels = {{[from |-> 3, type |-> "related_to", to |-> 2, w |-> 3]}, {}}, !.lruns = <<Nightly>>,
       !.xruns = <<[via |-> "relation", from |-> 2, to |-> 3, type |-> "related_to", w |-> 9],
                   [via |-> "relation", from |-> 3, to |-> 2, type |-> "related_to", w |-> 9]>>],
   [Quiet EXCEPT !.mem = Texts, !.ents = Twins, !.lruns = <<[Nightly EXCEPT !.fleet = NoFleet], [Nightly EXCEPT !.enabled = FALSE]>>]}

\* Every graph on three entities: what a merge of two, or of all three, makes of it, and what it expands to.
Weighed(S) == {{Edge(p[1], p[2], w[p]) : p \in {q \in DOMAIN w : w[q] > 0}} : w \in [S -> {0, 3, 6}]}
Arcs == {p \in (1 .. 3) \X (1 .. 3) : p[1] # p[2]}
GraphScenes ==
  {[Quiet EXCEPT !.ents = es, !.rels = Weighed(Arcs), !.lruns = <<Nightly>>] :
     es \in {Twins, <<Ent("acme", "org"), Ent("acme inc", "org"), Ent("Acme", "org")>>}}
ExpandScenes ==
  {[Quiet EXCEPT !.ents = <<Ent("acme", "org"), Ent("bob", "org"), Ent("srv 1", "org"), Ent("srv 2", "org")>>,
       !.rels = Weighed({p \in (1 .. 4) \X (1 .. 4) : p[1] < p[2]}), !.seeds = {{1}, {1, 4}, {3}, {1, 2, 3}}]}

\* Every sequence of up to four pairs.
PairSeqs == LET P == {p \in (1 .. 4) \X (1 .. 4) : p[1] < p[2]} IN UNION {[1 .. n -> P] : n \in 1 .. 4}
ClusterScenes == {[Quiet EXCEPT !.pairs = PairSeqs]}

-----------------------------------------------------------------------------
(* Crystallization.                                                        *)
Text(t) == [Row("a", "f") EXCEPT !.text = t]
Sweep(via, facts) == [via |-> via, fleet |-> "f", enabled |-> TRUE, facts |-> facts, fake |-> FALSE]
Three == <<Text("x"), Text("y"), Text("z")>>
CrystalScenes ==
  {[Quiet EXCEPT !.faults = 1, !.mem = Three, !.cruns = <<Sweep("manual", {<<"x">>, <<"r">>, <<>>})>>],
   [Quiet EXCEPT !.mem = Three, !.cruns = <<Sweep("lifecycle", {<<"x">>}), Sweep("manual", {<<"y", "r">>})>>],
   [Quiet EXCEPT !.faults = 1, !.deletes = TRUE, !.mem = Three \o <<Text("y")>>, !.cruns = <<Sweep("scheduled", {<<"z", "x">>})>>],
   [Quiet EXCEPT !.mem = <<Text("x"), Text("y"), [Row("crystallizer", "f") EXCEPT !.text = "x"]>>, !.cruns = <<Sweep("manual", {<<"x">>})>>],
   [Quiet EXCEPT !.mem = Three \o <<[Text("x again") EXCEPT !.vec = FALSE, !.expired = TRUE]>>,
       !.cruns = <<[Sweep("manual", {}) EXCEPT !.fake = TRUE], [Sweep("manual", {<<"z">>}) EXCEPT !.enabled = FALSE]>>]}

-----------------------------------------------------------------------------
(* Search and recall.                                                      *)
Find(via) ==
    [via |-> via, home |-> "t", readable |-> {}, admin |-> FALSE, agent |-> "a", filter |-> "none", fleet |-> "f", trust |-> 1, known |-> TRUE,
     quota |-> TRUE, fleets |-> {}, kind |-> "any", status |-> "any", asof |-> FALSE, future |-> {}, k |-> 2, profk |-> 0, defk |-> 0,
     window |-> FALSE, recency |-> FALSE, fts |-> 3, blend |-> 8, expand |-> TRUE, boosting |-> TRUE, tokens |-> {}, key |-> "k",
     cos |-> <<80, 70, 60, 50, 40>>, over |-> <<1, 2, 1, 1, 1>>, lex |-> {2}, recent |-> {1}, dated |-> {}, floor |-> 45, pool |-> 0,
     stm |-> FALSE, log |-> FALSE, brief |-> FALSE, llm |-> "openai", fallback |-> TRUE, summaries |-> TRUE]
Acme == [Find("search") EXCEPT !.tokens = {"acme"}]

\* Rows of every kind the filters tell apart, most of them linked to the entity asked for.
Shelf == <<Row("a", "f"), [Row("b", "f") EXCEPT !.vis = "agent"], [Row("b", "g") EXCEPT !.vis = "org"],
           [Row("a", NoFleet) EXCEPT !.tenant = "u"], [Row("b", "f") EXCEPT !.sup = 1]>>
AboutAcme == <<Ent("acme", "org"), Ent("bob", "org")>>
AllLinked == {Link(m, 1) : m \in 1 .. 4} \cup {Link(1, 2)}

\* What the graph leads to changes between the links and the load.
GraphSearchScenes ==
  {[Quiet EXCEPT !.mem = Shelf, !.faults = 1, !.ents = AboutAcme, !.links = AllLinked, !.rels = {{Edge(1, 2, 5)}}, !.searches = <<q>>,
       !.changes = {[m |-> 1, row |-> c]}] :
     c \in {[Shelf[1] EXCEPT !.owner = "b", !.vis = "agent"], [Shelf[1] EXCEPT !.deleted = TRUE, !.status = "deleted"],
            [Shelf[1] EXCEPT !.status = "conflicted"], [Shelf[1] EXCEPT !.status = "outdated"]},
     q \in {Acme, [Acme EXCEPT !.via = "recall"], [Acme EXCEPT !.via = "mcp", !.tokens = {"acme", "bob"}, !.log = TRUE]}}
  \cup
  {[Quiet EXCEPT !.mem = Shelf, !.ents = AboutAcme, !.links = AllLinked, !.rels = {{}}, !.searches = <<q>>,
       !.xruns = <<Extract(5, <<Mention("acme", "subject")>>, <<>>)>>] : q \in {Acme, [Acme EXCEPT !.filter = "b"]}}
  \cup
  {[Quiet EXCEPT !.mem = Shelf, !.faults = f, !.ents = Twins \o <<Ent("srv 1", "org")>>, !.links = AllLinked, !.rels = {{}}, !.searches = <<q>>] :
     f \in 0 .. 2,
     q \in {[Acme EXCEPT !.tokens = DOMAIN MCNameKey], [Acme EXCEPT !.tokens = {"bob"}], [Acme EXCEPT !.filter = "z"], [Acme EXCEPT !.expand = FALSE],
            [Acme EXCEPT !.tokens = {"acme", "acme inc"}]}}

\* Three searches of the same text, one of another.
FlightScenes ==
  {[Quiet EXCEPT !.mem = <<Row("a", "f")>>, !.faults = 2,
       !.searches = <<Find("search"), [Find("search") EXCEPT !.agent = "none"], [Find("mcp") EXCEPT !.agent = "b"]>>],
   [Quiet EXCEPT !.mem = <<Row("a", "f")>>, !.faults = 1, !.searches = <<Find("recall"), [Find("search") EXCEPT !.key = "l"], Find("mcp")>>]}

\* Which rows come first, and how many.
Ranks == <<[Row("a", "f") EXCEPT !.aged = TRUE, !.recalls = 5, !.cold = FALSE], [Row("b", "f") EXCEPT !.vec = FALSE],
           [Row("a", "f") EXCEPT !.status = "conflicted"], [Row("a", "f") EXCEPT !.expired = TRUE, !.weight = 95], [Row("b", "f") EXCEPT !.sup = 3]>>
RankScenes ==
  {[Quiet EXCEPT !.mem = Ranks,
       !.searches = <<[Find("mcp") EXCEPT !.window = w, !.recency = y, !.asof = d, !.future = {5}, !.dated = IF d THEN {1} ELSE {}, !.lex = lex,
                                          !.status = st, !.k = k, !.pool = pool, !.fts = fts, !.boosting = d, !.log = TRUE, !.brief = TRUE]>>] :
     w \in BOOLEAN, y \in BOOLEAN, d \in BOOLEAN, lex \in {{}, {2, 3}}, st \in {"any", "conflicted"}, k \in {1, 3, 7}, pool \in {0, 3}, fts \in {3, 7}}

\* Who may search what.
SearchGateScenes ==
  {[Quiet EXCEPT !.mem = Shelf,
       !.searches = <<[Find(via) EXCEPT !.admin = admin, !.trust = trust, !.fleets = fs, !.filter = filter, !.agent = agent, !.home = home,
                                        !.readable = rd, !.quota = quota, !.known = (agent # "z"), !.fleet = IF agent = "z" THEN NoFleet ELSE "f",
                                        !.profk = IF quota THEN 1 ELSE 0, !.defk = IF admin THEN 3 ELSE 0]>>] :
     via \in {"search", "recall"}, admin \in BOOLEAN, trust \in {1, 2}, fs \in {{}, {"f"}, {"g"}, {"f", "g"}}, filter \in {"none", "b"},
     agent \in {"none", "a", "z"}, home \in {"t", "u"}, rd \in {{}, {"t", "u"}}, quota \in BOOLEAN}
  \cup
  {[Quiet EXCEPT !.mem = Shelf,
       !.searches = <<[Find("mcp") EXCEPT !.trust = trust, !.fleets = fs, !.filter = filter, !.agent = agent, !.readable = rd, !.quota = quota,
                                          !.known = (agent # "z"), !.fleet = IF agent = "z" THEN NoFleet ELSE "f", !.kind = "fact"]>>] :
     trust \in {1, 2}, fs \in {{}, {"f"}, {"g"}, {"f", "g"}}, filter \in {"none", "b"}, agent \in {"a", "z"}, rd \in {{}, {"t", "u"}}, quota \in BOOLEAN}

\* Notes beside the search, and the brief.
Post(agent, vis, text) == [op |-> "post", agent |-> agent, fleet |-> "f", vis |-> vis, text |-> text]
NoteScenes ==
  {[Quiet EXCEPT !.mem = <<Row("a", "f")>>, !.faults = 1, !.searches = <<[Find("mcp") EXCEPT !.stm = TRUE, !.brief = TRUE]>>,
       !.calls = {Post("a", "agent", "x"), Post("b", "agent", "y"), Post("b", "team", "z")}],
   [Quiet EXCEPT !.mem = <<Row("a", "f")>>, !.faults = 1, !.searches = <<[Find("search") EXCEPT !.stm = TRUE, !.fleets = {"f"}]>>,
       !.calls = {Post("a", "agent", "x"), Post("a", "agent", "y"), Post("a", "agent", "z"), [op |-> "forget", place |-> <<"notes", "a">>]}],
   [Quiet EXCEPT !.mem = <<Row("a", "f")>>, !.faults = 1, !.searches = <<[Find("recall") EXCEPT !.stm = TRUE, !.filter = "b"]>>,
       !.calls = {Post("b", "agent", "x"), [op |-> "clear", place |-> <<"notes", "b">>, auth |-> "a"], [op |-> "clear", place |-> <<"notes", "b">>, auth |-> "b"],
                  [op |-> "promote", agent |-> "b", auth |-> "b", fleet |-> "f", text |-> "x", vis |-> "agent"],
                  [op |-> "promote", agent |-> "b", auth |-> "a", fleet |-> "f", text |-> "x", vis |-> "agent"]}]}
  \cup
  {[Quiet EXCEPT !.mem = <<Row("a", "f")>>, !.faults = 2,
       !.searches = <<[Find("recall") EXCEPT !.llm = llm, !.fallback = fb, !.summaries = on, !.filter = filter]>>] :
     llm \in {"openai", "fake"}, fb \in BOOLEAN, on \in BOOLEAN, filter \in {"a", "z"}}

SearchScenes == GraphSearchScenes \cup FlightScenes \cup RankScenes \cup SearchGateScenes \cup NoteScenes

MCNScenes == InsightScenes \cup GateScenes \cup QueryScenes \cup EvolveScenes \cup WorkerScenes \cup RequestScenes
             \cup LinkingScenes \cup GraphScenes \cup ExpandScenes \cup ClusterScenes \cup CrystalScenes \cup SearchScenes

-----------------------------------------------------------------------------
(* Small instances of the tenant boundary, settings, agents and keystones.  *)
MCMainOf(i) == <<"main-1", "main-2">>[i]
MCLabel(i) == <<"broker:1", "broker:2">>[i]

Plain == [ownKey |-> FALSE, standalone |-> FALSE, secret |-> TRUE]
NoSettings == [there |-> FALSE, val |-> NoOverrides]
Override(s, l, v) == [NoOverrides EXCEPT ![s][l] = v]

GQuiet == [dep |-> Plain, faults |-> 0, clock |-> FALSE, readers |-> FALSE,
          settings |-> NoSettings, updates |-> <<>>, events |-> <<>>, reqs |-> <<>>, purge |-> <<>>,
          known |-> {}, trust |-> 1, regs |-> <<>>, aops |-> <<>>, rule |-> NoRule, kops |-> <<>>]

-----------------------------------------------------------------------------
(* Settings.                                                               *)
Upd(w, o) == [w |-> w, new |-> o]
SettingsScenes ==
  {[GQuiet EXCEPT !.faults = 1, !.settings = [there |-> TRUE, val |-> Override("a", "x", 1)],
       !.updates = <<Upd(1, Override("a", "y", 2)), Upd(2, Override("a", "x", 2)), Upd(1, Override("a", "x", 9))>>],
   [GQuiet EXCEPT !.updates = <<Upd(1, Override("a", "x", 1)), Upd(1, Override("a", "y", 2)), Upd(2, Override("b", "x", 2))>>],
   [GQuiet EXCEPT !.faults = 1, !.clock = TRUE, !.readers = TRUE,
       !.updates = <<Upd(1, Override("a", "x", 1))>>]}

(* Requests against suppression.                                           *)
Req(w, home, verb) == [key |-> "none", home |-> home, readable |-> <<>>, secret |-> TRUE, via |-> "rest",
                       w |-> w, verb |-> verb, table |-> "memories", target |-> home, caps |-> {"read", "write"}, overPlan |-> FALSE]
Sup(action, ts) == [action |-> action, tenants |-> ts]
SuppressionScenes ==
  {[GQuiet EXCEPT !.faults = 1, !.clock = TRUE, !.events = <<Sup("suppress", <<"t1">>)>>,
       !.reqs = <<Req(1, "t1", "write"), Req(1, "t1", "read")>>],
   [GQuiet EXCEPT !.clock = TRUE, !.events = <<Sup("suppress", <<"t1">>), Sup("restore", <<"t1">>)>>,
       !.reqs = <<Req(1, "t1", "write"), Req(1, "t1", "delete")>>],
   [GQuiet EXCEPT !.faults = 2, !.clock = TRUE, !.events = <<Sup("suppress", <<"t1", "t2">>), Sup("malformed", <<>>)>>,
       !.reqs = <<[Req(1, "t1", "read") EXCEPT !.readable = <<"t2", "t1">>, !.target = "t2"]>>]}

(* The paths a caller is identified by.                                    *)
AuthScenes ==
  {[GQuiet EXCEPT !.clock = TRUE, !.dep = [ownKey |-> o, standalone |-> s, secret |-> TRUE],
       !.events = <<Sup("suppress", <<"t1">>)>>,
       !.reqs = <<[Req(1, home, verb) EXCEPT !.key = key, !.secret = sec, !.via = via, !.target = "t1",
                                             !.caps = IF over THEN {"read"} ELSE {"read", "write"},
                                             !.overPlan = over]>>] :
     o \in BOOLEAN, s \in BOOLEAN, home \in {"t1", "none"}, verb \in {"read", "write"},
     key \in {"admin", "memclaw", "none"}, sec \in BOOLEAN, via \in {"rest", "mcp"}, over \in BOOLEAN}

PurgeScenes ==
  {[GQuiet EXCEPT !.faults = 2, !.purge = <<"t1", "t2">>,
       !.reqs = <<Req(1, "t1", "write"), [Req(1, "t2", "write") EXCEPT !.table = "session_traces"]>>],
   [GQuiet EXCEPT !.faults = 1, !.purge = <<"t1">>, !.updates = <<Upd(1, Override("a", "x", 1))>>,
       !.settings = [there |-> TRUE, val |-> Override("a", "y", 1)]]}

-----------------------------------------------------------------------------
(* Agents.                                                                 *)
Reg(broker, i, name) == [broker |-> broker, install |-> i, name |-> name, fleet |-> "f1", instId |-> NoInstall,
                         approval |-> FALSE]
Beat(i, name) == [Reg(FALSE, NoInstall, name) EXCEPT !.instId = i]
Op(kind, name) == [kind |-> kind, name |-> name, level |-> 3, fleet |-> "f2", fields |-> {kind}]
AgentScenes ==
  {\* two installs touch the same name first, a third names the other's label
   [GQuiet EXCEPT !.faults = 1, !.regs = <<Reg(TRUE, 1, "a"), Reg(TRUE, 2, "a"), Reg(TRUE, 2, "broker:1")>>],
   \* the same, with an operator
   [GQuiet EXCEPT !.regs = <<Reg(TRUE, 1, "a"), Reg(TRUE, 2, "a")>>, !.aops = <<Op("trust", "a"), Op("delete", "a")>>],
   \* a row its owner is about to fill in is deleted, and the other install claims the name
   [GQuiet EXCEPT !.regs = <<[Reg(TRUE, 1, "a") EXCEPT !.fleet = Unassigned], Reg(TRUE, 1, "a"), Reg(TRUE, 2, "a")>>,
       !.aops = <<Op("delete", "a")>>],
   \* a name that exists without an owner
   [GQuiet EXCEPT !.faults = 1, !.known = {"a"}, !.regs = <<Reg(TRUE, 1, "a"), Reg(TRUE, 2, "a"), Reg(FALSE, NoInstall, "a")>>],
   \* a heartbeat against an approval-gated write, and the legacy main
   [GQuiet EXCEPT !.known = {"main"}, !.trust = 2,
       !.regs = <<Beat(1, "main-1"), [Beat(1, "main-1") EXCEPT !.approval = TRUE], [Beat(1, "main-1") EXCEPT !.fleet = Unassigned]>>,
       !.aops = <<Op("trust", "main")>>],
   [GQuiet EXCEPT !.regs = <<Reg(TRUE, NoInstall, "a")>>,
       !.aops = <<Op("tune", "a"), Op("reset", "a"), Op("fleet", "a"), Op("backfill", "a"), Op("delete", "a")>>]}

(* Keystones.                                                              *)
Rule(scope, target) == [scope |-> scope, target |-> target]
Call(via, caller, op, rule) == [via |-> via, caller |-> caller, verified |-> TRUE, op |-> op, new |-> rule]
Mine == Rule("agent", "a")
Wide == Rule("fleet", "none")
KeyScenes ==
  {[GQuiet EXCEPT !.known = {"a", "main"}, !.trust = t, !.rule = r, !.kops = ks, !.aops = <<Op("trust", "main")>>] :
     t \in {1, 2}, r \in {NoRule, Mine, Wide},
     ks \in {<<Call("rest", "a", "set", Mine), Call("mcp", "main", "set", Wide), Call("rest", "a", "delete", Mine)>>,
             <<Call("mcp", "a", "set", Mine), Call("rest", "main", "set", Wide), Call("mcp", "a", "delete", Mine)>>,
             <<Call("rest", "a", "delete", Mine), Call("mcp", "a", "delete", Mine)>>,
             <<[Call("rest", "a", "set", Mine) EXCEPT !.verified = FALSE], Call("rest", "zz", "set", Wide),
               Call("rest", "main", "set", Rule("tenant", "a"))>>}}
  \cup {[GQuiet EXCEPT !.dep.standalone = TRUE, !.kops = <<Call("rest", "rest-admin", "set", Wide)>>]}

MCGScenes == SettingsScenes \cup SuppressionScenes \cup AuthScenes \cup PurgeScenes \cup AgentScenes \cup KeyScenes

-----------------------------------------------------------------------------
ServicesInit ==
    /\ nscene = Quiet \/ gscene = GQuiet
    /\ Init /\ GInit

ServicesNext ==
    \/ Next /\ UNCHANGED gvars
    \/ GNext /\ UNCHANGED knowledgeVars

\* The fairness is that of GSpec; nothing is assumed of the services of Knowledge.
ServicesSpec ==
    /\ ServicesInit /\ [][ServicesNext]_<<knowledgeVars, gvars>>
    /\ WF_gvars(Progress) /\ WF_gvars(Loading) /\ WF_gvars(Tick /\ UNCHANGED <<agentVars, keyVars>>)

MCNWithQuiet == MCNScenes \cup {Quiet}
MCGWithQuiet == MCGScenes \cup {GQuiet}
=============================================================================
