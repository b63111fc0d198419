------------------------------ MODULE Insights ------------------------------
(***************************************************************************)
(* Insight generation.  A run reads a subset of the memories, has a model    *)
(* reason over it and stores the findings as memories of kind "insight",     *)
(* replacing the active ones of the same owner, fleet, focus and scope.      *)
(* The replacement is three separate commits: outdate the old generation,    *)
(* store the new one, restore the old one if nothing could be stored.        *)
(***************************************************************************)
EXTENDS Memories

CONSTANTS
    InsightsMax,     \* INSIGHTS_MAX_MEMORIES
    SampleSize,      \* INSIGHTS_DISCOVER_SAMPLE_SIZE
    MinToCluster     \* fewer sampled memories are not clustered (10)

LowWeight == 30
FakeText == "fake"

VARIABLE irun        \* the insight runs

insightVars == <<irun>>

-----------------------------------------------------------------------------
(* What a run reads.                                                       *)

insights_scope_filters(q) ==
    {m \in MemIds : /\ Live(m)
                    /\ q.scope = "agent" => nmem[m].owner = q.agent /\ (q.fleet # NoFleet => nmem[m].fleet = q.fleet)
                    /\ q.scope = "fleet" => nmem[m].fleet = q.fleet}

NotInsights(q) == {m \in insights_scope_filters(q) : nmem[m].kind # "insight"}
NotDeleted(q) == {m \in NotInsights(q) : nmem[m].status # "deleted"}
Active(q) == {m \in NotInsights(q) : nmem[m].status = "active"}

\* n rows of S, where the query says which come first but not how ties fall.
Firsts(S, n, Before(_, _)) ==
    {T \in SUBSET S : /\ Cardinality(T) = IF n < Cardinality(S) THEN n ELSE Cardinality(S)
                      /\ \A t \in T, m \in S \ T : ~Before(m, t)}
Unordered(a, b) == FALSE

\* Superseding or conflicted rows, then the rows they supersede, then the rows of subjects with several values.
query_contradictions(q) ==
    LET first == Newest({m \in NotDeleted(q) : nmem[m].sup # 0 \/ nmem[m].status = "conflicted"}, InsightsMax)
        older == (NotInsights(q) \cap {nmem[m].sup : m \in first}) \ first
        torn == {e \in {nmem[m].subj : m \in NotDeleted(q)} \ {0} :
                   Cardinality({nmem[m].val : m \in {n \in NotDeleted(q) : nmem[n].subj = e}} \ {0}) > 1}
        extra(n) == Newest({m \in NotDeleted(q) : nmem[m].subj \in torn}, n)
    IN {first \cup s \cup extra(InsightsMax - Cardinality(first \cup s)) :
          s \in Firsts(older, InsightsMax - Cardinality(first), Unordered)}

query_failures(q) ==
    LET Worse(a, b) == \/ nmem[a].recalls > nmem[b].recalls
                       \/ nmem[a].recalls = nmem[b].recalls /\ nmem[a].weight < nmem[b].weight
    IN Firsts({m \in Active(q) : nmem[m].weight < LowWeight /\ nmem[m].recalls > 0}, InsightsMax, Worse)

query_stale(q) ==
    {Lowest({m \in Active(q) : \/ nmem[m].recalls = 0 /\ nmem[m].aged
                               \/ nmem[m].weight < LowWeight /\ nmem[m].cold}, InsightsMax)}

query_divergence(q) ==
    LET shared == {e \in {nmem[m].subj : m \in NotInsights(q)} \ {0} :
                     Cardinality({nmem[m].owner : m \in {n \in NotInsights(q) : nmem[n].subj = e}}) >= 2}
        Sooner(a, b) == nmem[a].subj < nmem[b].subj
    IN Firsts({m \in NotDeleted(q) : nmem[m].subj \in shared}, InsightsMax, Sooner)

query_patterns(q) == {Newest(Active(q), InsightsMax)}

discover_sample(q) == Newest({m \in Active(q) : nmem[m].vec}, SampleSize)

\* Any labelling with two labels: which one k-means finds depends on vectors the model does not have.
numpy_kmeans(S) == [S -> 1 .. 2]

\* A clustered sample shows the model only each cluster's representatives (one here, three in the code).
query_discover(q) ==
    LET S == discover_sample(q)
        Representatives(lab) == {T \in SUBSET S : \A k \in 1 .. 2 :
                                   LET C == {m \in S : lab[m] = k}
                                   IN Cardinality(T \cap C) = IF C = {} THEN 0 ELSE 1}
    IN IF Cardinality(S) < MinToCluster THEN {S}
       ELSE UNION {Representatives(lab) : lab \in numpy_kmeans(S)}

insights_route(q) ==
    CASE q.focus = "contradictions" -> query_contradictions(q)
      [] q.focus = "failures" -> query_failures(q)
      [] q.focus = "stale" -> query_stale(q)
      [] q.focus = "divergence" -> query_divergence(q)
      [] q.focus = "patterns" -> query_patterns(q)
      [] OTHER -> query_discover(q)

-----------------------------------------------------------------------------
(* Who may run.  trust 0 is an agent that is not registered.               *)

ValidInsights(q) ==
    /\ q.focus \in {"contradictions", "failures", "stale", "divergence", "patterns", "discover"}
    /\ q.scope = "fleet" => q.fleet # NoFleet
    /\ ~(q.focus = "divergence" /\ q.scope = "agent")

MinTrust(q) == IF q.scope = "agent" THEN 1 ELSE 2

resolve_caller_and_gate(q) == q.admin \/ q.trust >= MinTrust(q)

check_and_increment(q) == q.quota

EnterInsights(c, pass) == irun' = [irun EXCEPT ![c].pc = IF pass THEN "query" ELSE "refused"]

RestInsights(c) ==
    LET q == irun[c].q
    IN /\ irun[c].pc = "start" /\ q.via = "rest"
       /\ EnterInsights(c, ValidInsights(q) /\ resolve_caller_and_gate(q) /\ check_and_increment(q))
       /\ UNCHANGED memVars

\* The tool has no administrator bypass.
McpInsights(c) ==
    LET q == irun[c].q
    IN /\ irun[c].pc = "start" /\ q.via = "mcp"
       /\ EnterInsights(c, ValidInsights(q) /\ q.trust >= MinTrust(q) /\ check_and_increment(q))
       /\ UNCHANGED memVars

\* Newest memory that is not an insight, and newest insight, in the fleet or the tenant.
activity_gate(q) ==
    LET there == {m \in MemIds : Live(m) /\ (q.fleet # NoFleet => nmem[m].fleet = q.fleet)}
    IN [other |-> Latest({m \in there : nmem[m].kind # "insight"}),
        insight |-> Latest({m \in there : nmem[m].kind = "insight"})]

NightlyInsights(c) ==
    LET q == irun[c].q
        gate == activity_gate(q)
    IN /\ irun[c].pc = "start" /\ q.via = "nightly"
       /\ EnterInsights(c, q.enabled /\ gate.other > gate.insight)
       /\ UNCHANGED memVars

-----------------------------------------------------------------------------
(* One run.                                                                *)

IQuery(c) ==
    /\ irun[c].pc = "query"
    /\ \/ \E S \in insights_route(irun[c].q) :
             irun' = [irun EXCEPT ![c].shown = S, ![c].pc = IF S = {} THEN "done" ELSE "llm"]
          /\ Smooth
       \/ Fault /\ irun' = [irun EXCEPT ![c].pc = "failed"]
    /\ UNCHANGED <<nscene, nmem>>

\* The model may name any id it likes.
run_llm_analysis(c) ==
    IF irun[c].q.fake THEN {<<[text |-> FakeText, cites |-> {}]>>}
    ELSE UNION {{[i \in DOMAIN ts |-> [text |-> ts[i], cites |-> raw[i]]] : raw \in [DOMAIN ts -> SUBSET MemIds]} :
                  ts \in irun[c].q.texts}

AnyRelated(raw, shown) == raw
kept_related(raw, shown) == raw \cap shown

synthesize_insights(c) ==
    /\ irun[c].pc = "llm"
    /\ \E fs \in run_llm_analysis(c) :
         irun' = [irun EXCEPT
                    ![c].found = [i \in DOMAIN fs |-> [fs[i] EXCEPT !.cites = kept_related(@, irun[c].shown)]],
                    ![c].pc = IF fs = <<>> THEN "done" ELSE "supersede"]
    /\ UNCHANGED memVars

SameGeneration(q) ==
    {m \in MemIds : /\ Live(m) /\ nmem[m].kind = "insight" /\ nmem[m].owner = q.agent /\ nmem[m].fleet = q.fleet
                    /\ nmem[m].focus = q.focus /\ nmem[m].scope = q.scope}

\* One statement: the ids returned are the rows this call turned.
supersede_priors(q) == {m \in SameGeneration(q) : nmem[m].status = "active"}

\* A refused call ends the run; one whose answer is lost skips the store.  Either may have committed.
ISupersede(c) ==
    LET prior == supersede_priors(irun[c].q)
    IN /\ irun[c].pc = "supersede"
       /\ \/ /\ nmem' = update_status(prior, "outdated")
             /\ irun' = [irun EXCEPT ![c].prior = prior, ![c].pc = "store"]
             /\ Smooth
          \/ /\ Fault
             /\ nmem' \in {nmem, update_status(prior, "outdated")}
             /\ irun' = [irun EXCEPT ![c].pc = "cut off"]
       /\ UNCHANGED nscene

NewInsight(q, f) ==
    [Fresh EXCEPT !.owner = q.agent, !.fleet = q.fleet, !.kind = "insight", !.text = f.text,
                  !.focus = q.focus, !.scope = q.scope, !.cites = f.cites]

\* The ids of the findings in good when those whose text is known answer with the row that has it
\* and a text repeated within the batch answers with none.
BulkIds(c, good) ==
    LET q == irun[c].q
        found == irun[c].found
        known == bulk_find_by_content_hashes(q.agent, q.fleet, {found[i].text : i \in good})
        fresh == {i \in good : /\ found[i].text \notin DOMAIN known
                               /\ ~\E j \in good : j < i /\ found[j].text = found[i].text}
    IN [i \in DOMAIN found |->
          CASE i \notin good \/ (i \notin fresh /\ found[i].text \notin DOMAIN known) -> 0
            [] i \in fresh -> Len(nmem) + Cardinality({j \in fresh : j <= i})
            [] OTHER -> known[found[i].text]]

BulkRows(c, good) ==
    LET ids == BulkIds(c, good)
        n == Cardinality({i \in good : ids[i] > Len(nmem)})
    IN nmem \o [k \in 1 .. n |->
                  NewInsight(irun[c].q, irun[c].found[CHOOSE i \in good : ids[i] = Len(nmem) + k])]

NeverRestores(prior, ids) == FALSE
\* Restore is for a run that outdated something and has no id at all.
NeedsRestore(prior, ids) == prior # {} /\ \A i \in DOMAIN ids : ids[i] = 0

StoredInsights(c, ids) ==
    irun' = [irun EXCEPT ![c].ids = ids, ![c].pc = IF NeedsRestore(irun[c].prior, ids) THEN "restore" ELSE "done"]

IPersist(c) ==
    LET all == DOMAIN irun[c].found
        none == [i \in all |-> 0]
    IN /\ irun[c].pc = "store"
       /\ \/ Smooth /\ nmem' = BulkRows(c, all) /\ StoredInsights(c, BulkIds(c, all))
          \/ /\ Fault
             /\ \/ \E good \in SUBSET all : nmem' = BulkRows(c, good) /\ StoredInsights(c, BulkIds(c, good))
                \/ nmem' = BulkRows(c, all) /\ StoredInsights(c, none)
       /\ UNCHANGED nscene

restore_priors(S) == update_status({m \in S : nmem[m].status = "outdated"}, "active")

IRestore(c) ==
    /\ irun[c].pc = "restore"
    /\ \/ Smooth /\ nmem' = restore_priors(irun[c].prior) /\ irun' = [irun EXCEPT ![c].pc = "done"]
       \/ /\ Fault
          /\ nmem' \in {nmem, restore_priors(irun[c].prior)}
          /\ irun' = [irun EXCEPT ![c].pc = "cut off"]
    /\ UNCHANGED nscene

ICrash(c) ==
    /\ irun[c].pc \in {"query", "llm", "supersede", "store", "restore"}
    /\ Fault
    /\ irun' = [irun EXCEPT ![c].pc = "cut off"]
    /\ UNCHANGED <<nscene, nmem>>

InsightsInit(sc) ==
    irun = [c \in DOMAIN sc.iruns |->
              [pc |-> "start", q |-> sc.iruns[c], shown |-> {}, found |-> <<>>, prior |-> {}, ids |-> <<>>]]

InsightStep ==
    \E c \in DOMAIN irun :
      \/ RestInsights(c) \/ McpInsights(c) \/ NightlyInsights(c) \/ IQuery(c) \/ synthesize_insights(c)
      \/ ISupersede(c) \/ IPersist(c) \/ IRestore(c) \/ ICrash(c)

-----------------------------------------------------------------------------
(* Properties.                                                             *)

KeyOf(r) == <<r.owner, r.fleet, r.focus, r.scope>>
SameKey(c, m) == <<irun[c].q.agent, irun[c].q.fleet, irun[c].q.focus, irun[c].q.scope>> = KeyOf(nmem[m])

\* Some generation stands in for the outdated insight m: an active one, or the one a run is about to store.
Replaced(m) ==
    \/ \E n \in MemIds : nmem[n].kind = "insight" /\ nmem[n].status = "active" /\ KeyOf(nmem[n]) = KeyOf(nmem[m])
    \/ \E c \in DOMAIN irun : m \in irun[c].prior /\ irun[c].pc \in {"store", "restore"}

\* A run was answered with an outdated row for a finding it regenerated word for word.
AnsweredWithOld(m) ==
    \E c \in DOMAIN irun : SameKey(c, m) /\ \E i \in DOMAIN irun[c].ids :
        irun[c].ids[i] # 0 /\ nmem[irun[c].ids[i]].status = "outdated"

\* Whoever had an active insight keeps one: a generation is outdated only while a run holds its ids to restore or
\* after a newer one is stored.  Left out are runs cut off between the separate commits (_persist_findings accepts
\* that in its docstring), and a finding regenerated word for word.
InsightsKept ==
    \A m \in MemIds : nmem[m].kind = "insight" /\ nmem[m].status = "outdated" =>
        \/ Replaced(m)
        \/ \E c \in DOMAIN irun : SameKey(c, m) /\ irun[c].pc = "cut off"
        \/ AnsweredWithOld(m)

\* An insight cites only memories its run could see: of its owner or fleet as the scope says, never another insight,
\* whatever ids the model named (synthesize_insights drops the ones it was not shown).
CitedWithinScope ==
    \A m \in MemIds : nmem[m].kind = "insight" => \A k \in nmem[m].cites :
        /\ nmem[k].kind # "insight"
        /\ nmem[m].scope = "agent" => nmem[k].owner = nmem[m].owner
        /\ nmem[m].scope = "fleet" \/ (nmem[m].scope = "agent" /\ nmem[m].fleet # NoFleet) => nmem[k].fleet = nmem[m].fleet

\* The insights of an agent or a fleet: they are kept until replaced, and cite only what their scope shows.
InsightsSound == MemoriesTypeOK /\ InsightsKept /\ CitedWithinScope
=============================================================================
