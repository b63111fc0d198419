------------------------------- MODULE Search -------------------------------
(***************************************************************************)
(* Search and recall: the gates of the three entry points, the entity        *)
(* short-circuit over the graph, the shared embedding of the query, the       *)
(* scored search, successors, short-term notes, recall counters and the       *)
(* recall log, and the brief.  Between any two calls of the storage service   *)
(* others change the tables.  What a query text matches is part of the        *)
(* request: cos (cosine, hundredths), lex (rows that match it word for word), *)
(* over (shared tokens), future, recent and dated rows.                       *)
(***************************************************************************)
EXTENDS EntityLinking, Stm

CONSTANTS
    TopMax,         \* MAX_SEARCH_TOP_K
    MatchMax,       \* ENTITY_LOOKUP_MAX_MATCHES
    BoostMax,       \* GRAPH_MAX_BOOSTED_MEMORIES
    SuccessorMax,   \* MAX_SUCCESSOR_LOOKUPS
    NearMisses      \* _NEAR_MISS_LIMIT

VARIABLES
    srun,       \* the searches
    sflight,    \* _inflight_embeddings: [key -> the search whose future it is, 0: none]
    scached,    \* the keys whose vector is cached
    slog        \* recall_event rows with their candidates

searchVars == <<srun, sflight, scached, slog>>

Nobody == "none"
SGoto(s, pc) == srun' = [srun EXCEPT ![s].pc = pc]
Lesser(a, b) == IF a < b THEN a ELSE b

-----------------------------------------------------------------------------
(* Entry points.                                                           *)

\* The identity whose private rows are visible and whose recalls count.
eff_agent_id(q) == IF q.filter # Nobody THEN q.filter ELSE q.agent
Caller(q) == CASE q.via = "search" -> eff_agent_id(q) [] q.via = "recall" -> q.filter [] q.via = "mcp" -> q.agent

readable_tenant(q) == q.admin \/ q.home = "t" \/ "t" \in q.readable

\* An agent below trust 2 that names no fleet searches its own.
OwnFleet(q) == IF q.fleets = {} /\ q.fleet # NoFleet /\ q.trust < 2 THEN {q.fleet} ELSE q.fleets

\* A single fleet that is not the agent's needs trust 2; an agent without a row is let through.
enforce_fleet_read(q, fleets) ==
    Cardinality(fleets) = 1 /\ q.known => q.fleet = NoFleet \/ q.fleet \in fleets \/ q.trust >= 2

\* The REST routes register an unknown agent; a search without an agent, or an admin's, is not scoped.
SearchScope(q) == IF q.admin \/ Caller(q) = Nobody THEN q.fleets ELSE OwnFleet(q)
memclaw_recall(q) == IF q.known THEN OwnFleet(q) ELSE q.fleets
Scope(q) == IF q.via = "mcp" THEN memclaw_recall(q) ELSE SearchScope(q)

SRefused(q) ==
    \/ q.via # "mcp" /\ ~readable_tenant(q)
    \/ (q.via = "mcp" \/ (~q.admin /\ Caller(q) # Nobody)) /\ ~enforce_fleet_read(q, Scope(q))
    \/ ~q.admin /\ ~q.quota

\* The agent's profile, else the tenant's default, else the request, which MCP caps.  /recall passes no profile.
resolve_search_profile(q) ==
    CASE q.profk > 0 /\ q.via # "recall" /\ Caller(q) # Nobody -> q.profk
      [] q.defk > 0 -> q.defk
      [] OTHER -> IF q.via = "mcp" THEN Lesser(q.k, TopMax) ELSE q.k

\* /search also takes one of the tenant's slots, or is told to come back.
search(s) ==
    LET q == srun[s].q
    IN /\ srun[s].pc = "start"
       /\ \/ SRefused(q) /\ Smooth /\ SGoto(s, "refused")
          \/ q.via = "search" /\ Fault /\ SGoto(s, "refused")
          \/ /\ ~SRefused(q) /\ Smooth
             /\ srun' = [srun EXCEPT ![s].pc = "classify", ![s].fleets = Scope(q), ![s].k = resolve_search_profile(q)]
       /\ UNCHANGED <<nscene, nmem, entityVars, stmVars, sflight, scached, slog>>

-----------------------------------------------------------------------------
(* Which rows the storage service may answer with.                         *)

SearchTenants(q) == IF q.readable # {} THEN q.readable ELSE {"t"}

VisibleTo(caller, m) == nmem[m].vis = "agent" => caller # Nobody /\ nmem[m].owner = caller

Requested(r, m) ==
    LET row == nmem[m]
    IN /\ r.fleets # {} => row.fleet \in r.fleets \cup {NoFleet} \/ row.vis = "org"
       /\ r.q.filter # Nobody => row.owner = r.q.filter
       /\ r.q.kind # "any" => row.kind = r.q.kind
       /\ ~(r.q.asof /\ m \in r.q.future)

load_unfiltered(r, ids) ==
    {m \in ids : /\ Live(m) /\ nmem[m].tenant \in SearchTenants(r.q) /\ Requested(r, m)
                 /\ IF r.q.status # "any" THEN nmem[m].status = r.q.status ELSE nmem[m].status # "outdated"}
\* Graph search keeps conflicted rows: they are about the entity asked for.
load_by_ids(r, ids) ==
    {m \in ids : /\ Live(m) /\ nmem[m].tenant \in SearchTenants(r.q) /\ VisibleTo(Caller(r.q), m) /\ Requested(r, m)
                 /\ IF r.q.status # "any" THEN nmem[m].status = r.q.status ELSE nmem[m].status # "outdated"}

\* Scored search keeps a conflicted row only if it matches word for word, and a row without a vector likewise.
scored_rows(r) ==
    {m \in MemIds : /\ Live(m) /\ nmem[m].tenant \in SearchTenants(r.q) /\ VisibleTo(Caller(r.q), m) /\ Requested(r, m)
                    /\ nmem[m].vec \/ m \in r.q.lex
                    /\ IF r.q.status # "any" THEN nmem[m].status = r.q.status
                       ELSE nmem[m].status # "outdated" /\ (nmem[m].status = "conflicted" => m \in r.q.lex)}

\* Successors come from the home tenant, at a time when they held.
find_successors(r, ids) ==
    {m \in MemIds : /\ nmem[m].tenant = "t" /\ nmem[m].sup \in ids /\ nmem[m].status \in {"active", "confirmed"} /\ Live(m)
                    /\ VisibleTo(Caller(r.q), m) /\ Requested(r, m) /\ (r.q.asof => ~nmem[m].expired)}

\* The rows as they were read.
Taken(ids) == {[m |-> m, row |-> nmem[m]] : m \in ids}

-----------------------------------------------------------------------------
(* Classifying the query: the entity short-circuit.                        *)

entity_fts_search(q, fleets) ==
    {e \in EntIds : ELive(e) /\ NameKey[eents[e].name] \in q.tokens /\ (fleets # {} => eents[e].fleet \in fleets \cup {NoFleet})}

\* No rows from the graph: what the later steps search with.
Strategy(q) == CASE q.window -> "temporal" [] q.recency -> "recent_context" [] q.fts >= 6 -> "keyword_search" [] OTHER -> "semantic_search"
RecentMax == 5

\* Hops that are not kept are looked up again for the boost, unless the match was declined.
classify_query(s, kept, declined) ==
    srun' = [srun EXCEPT ![s].pc = "embed", ![s].strategy = Strategy(srun[s].q), ![s].kept = kept, ![s].declined = declined,
                         ![s].k = IF Strategy(srun[s].q) = "recent_context" THEN Lesser(@, RecentMax) ELSE @]

\* Too many entities name nothing in particular.
EntityFts(s) ==
    LET r == srun[s]
        matched == entity_fts_search(r.q, r.fleets)
    IN /\ r.pc = "classify"
       /\ \/ /\ Smooth /\ (r.q.tokens = {} \/ matched = {}) /\ classify_query(s, FALSE, FALSE)
          \/ /\ Smooth /\ Cardinality(matched) > MatchMax /\ classify_query(s, FALSE, TRUE)
          \/ /\ Smooth /\ matched # {} /\ Cardinality(matched) <= MatchMax
             /\ srun' = [srun EXCEPT ![s].seeds = matched, ![s].pc = "expand"]
          \/ r.q.tokens # {} /\ Fault /\ classify_query(s, FALSE, FALSE)
       /\ UNCHANGED <<nscene, nmem, entityVars, stmVars, sflight, scached, slog>>

Flat(hops) == {[e |-> e, hop |-> hops[e].hop, w |-> hops[e].w] : e \in DOMAIN hops}

\* One expansion per fleet, of which a failed one is left out; relations carry no fleet here, so they differ in nothing else.
expand_per_fleet(s) ==
    /\ srun[s].pc = "expand"
    /\ \/ Smooth /\ srun' = [srun EXCEPT ![s].hops = Flat(entity_expand_graph(srun[s].seeds, 2)), ![s].pc = "links"]
       \/ Fault /\ srun' = [srun EXCEPT ![s].hops = {}, ![s].pc = "links"]
    /\ UNCHANGED <<nscene, nmem, entityVars, stmVars, sflight, scached, slog>>

\* The nearest entities, by hop and then weight.
CappedHops(hops) ==
    LET Before(a, b) == a.hop < b.hop \/ (a.hop = b.hop /\ a.w > b.w)
    IN Firsts(hops, FrontierCap, Before)

\* No tenant here: the load filters.
memory_ids_by_entity_ids(es) == {k \in elinks : k.e \in es}

GRAPH_HOP_BOOST(hop) == 13 - hop        \* tenths, for hops 0, 1 and 2; weights are hundredths

\* The best way to m.
HopBoost(hops, links, m) ==
    LET ways == {GRAPH_HOP_BOOST(h.hop) * h.w : h \in {g \in hops : \E k \in links : k.m = m /\ k.e = g.e}}
    IN CHOOSE b \in ways : \A c \in ways : c <= b

Matches(hops, links, m) == Cardinality({h \in hops : h.hop = 0 /\ \E k \in links : k.m = m /\ k.e = h.e})

\* Of too many memories, those that more of the query's entities name.
collect_memories(s) ==
    LET r == srun[s]
    IN /\ r.pc = "links"
       /\ \/ /\ Smooth
             /\ \E near \in CappedHops(r.hops) :
                  LET links == memory_ids_by_entity_ids({h.e : h \in near})
                      ms == {k.m : k \in links}
                      Before(a, b) == \/ Matches(r.hops, links, a) > Matches(r.hops, links, b)
                                      \/ /\ Matches(r.hops, links, a) = Matches(r.hops, links, b)
                                         /\ HopBoost(r.hops, links, a) > HopBoost(r.hops, links, b)
                  IN IF ms = {} THEN classify_query(s, TRUE, FALSE)
                     ELSE \E some \in Firsts(ms, BoostMax, Before) :
                            srun' = [srun EXCEPT ![s].ids = {[m |-> m, b |-> HopBoost(r.hops, links, m)] : m \in some}, ![s].pc = "load"]
          \/ Fault /\ classify_query(s, FALSE, FALSE)
       /\ UNCHANGED <<nscene, nmem, entityVars, stmVars, sflight, scached, slog>>

\* The rows that share most tokens with the query, then the nearest.  With rows, embedding and scoring are skipped.
load_memories_by_ids(s) ==
    LET r == srun[s]
        there == load_by_ids(r, {i.m : i \in r.ids})
        Boost(m) == (CHOOSE i \in r.ids : i.m = m).b
        Before(a, b) == r.q.over[a] > r.q.over[b] \/ (r.q.over[a] = r.q.over[b] /\ Boost(a) > Boost(b))
    IN /\ r.pc = "load"
       /\ \/ Smooth /\ there = {} /\ classify_query(s, TRUE, FALSE)
          \/ /\ Smooth /\ there # {}
             /\ \E top \in Firsts(there, r.k, Before) :
                  srun' = [srun EXCEPT ![s].hits = Taken(top), ![s].raw = {}, ![s].strategy = "entity_lookup", ![s].pc = "serialize"]
          \/ Fault /\ classify_query(s, FALSE, FALSE)
       /\ UNCHANGED <<nscene, nmem, entityVars, stmVars, sflight, scached, slog>>

-----------------------------------------------------------------------------
(* The query's vector: one call of the embedding service per key at a time.  *)

\* cache_get answers nothing when the cache is down.
EmbedLookup(s) ==
    /\ srun[s].pc = "embed"
    /\ \/ Smooth /\ SGoto(s, IF srun[s].q.key \in scached THEN "score" ELSE "flight")
       \/ srun[s].q.key \in scached /\ Fault /\ SGoto(s, "flight")
    /\ UNCHANGED <<nscene, nmem, entityVars, stmVars, sflight, scached, slog>>

\* No await between looking at the table and entering it.
join_or_lead(s) ==
    IF sflight[srun[s].q.key] # 0
    THEN srun' = [srun EXCEPT ![s].on = sflight[srun[s].q.key], ![s].pc = "joined"] /\ UNCHANGED sflight
    ELSE /\ sflight' = [sflight EXCEPT ![srun[s].q.key] = s]
         /\ srun' = [srun EXCEPT ![s].fut = "pending", ![s].pc = "leading"]

Flight(s) ==
    /\ srun[s].pc = "flight" /\ join_or_lead(s)
    /\ UNCHANGED <<memVars, entityVars, stmVars, scached, slog>>

\* Whatever ends the leader's call, a future that is still pending takes it over, and the table forgets it.
CancelStrands(s, how) ==
    /\ srun' = [srun EXCEPT ![s].fut = IF @ = "pending" /\ how # "cancelled" THEN how ELSE @, ![s].pc = how]
    /\ sflight' = [sflight EXCEPT ![srun[s].q.key] = 0]
leader_fails(s, how) ==
    /\ srun' = [srun EXCEPT ![s].fut = IF @ = "pending" THEN how ELSE @, ![s].pc = how]
    /\ sflight' = [sflight EXCEPT ![srun[s].q.key] = 0]

\* No slot for the tenant, the provider slow or without an answer.
Provider(s) ==
    /\ srun[s].pc = "leading"
    /\ \/ Smooth /\ SGoto(s, "caching") /\ UNCHANGED sflight
       \/ Fault /\ \E how \in {"429", "503", "504"} : leader_fails(s, how)
    /\ UNCHANGED <<nscene, nmem, entityVars, stmVars, scached, slog>>

\* cache_set, whose failures are swallowed, then the future.  One that a joiner cancelled cannot be resolved any more.
CacheSet(s) ==
    /\ srun[s].pc = "caching"
    /\ \/ Smooth /\ scached' = scached \cup {srun[s].q.key}
       \/ Fault /\ UNCHANGED scached
    /\ sflight' = [sflight EXCEPT ![srun[s].q.key] = 0]
    /\ srun' = [srun EXCEPT ![s].fut = IF @ = "pending" THEN "result" ELSE @, ![s].pc = IF srun[s].fut = "pending" THEN "score" ELSE "500"]
    /\ UNCHANGED <<nscene, nmem, entityVars, stmVars, slog>>

JoinerWakes(s) ==
    /\ srun[s].pc = "joined" /\ srun[srun[s].on].fut # "pending"
    /\ SGoto(s, IF srun[srun[s].on].fut = "result" THEN "score" ELSE srun[srun[s].on].fut)
    /\ UNCHANGED <<memVars, entityVars, stmVars, sflight, scached, slog>>

\* The step's own timeout, or the request's.  A joiner awaits the shared future itself, so its cancellation is everybody's.
EmbedCancelled(s) ==
    /\ Fault
    /\ \/ srun[s].pc \in {"leading", "caching"} /\ leader_fails(s, "cancelled")
       \/ /\ srun[s].pc = "joined" /\ UNCHANGED sflight
          /\ srun' = [t \in DOMAIN srun |->
                        CASE t = s -> [srun[t] EXCEPT !.pc = "cancelled"]
                          [] t = srun[s].on /\ srun[t].fut = "pending" -> [srun[t] EXCEPT !.fut = "cancelled"]
                          [] OTHER -> srun[t]]
    /\ UNCHANGED <<nscene, nmem, entityVars, stmVars, scached, slog>>

-----------------------------------------------------------------------------
(* The boost of the rows the graph leads to, in thousandths.               *)

RecallCap == 1100       \* RECALL_BOOST_CAP, below the boost of a direct match: a second match lowers the boost
multi_entity_boost(b, n) == IF n > 1 /\ b > 1000 THEN Lesser((b * (10 + Lesser(n - 1, 4))) \div 10, RecallCap) ELSE b

\* The boosts the lookup may find: links by hop, until enough memories have one.
entity_boost(r) ==
    LET fresh == entity_fts_search(r.q, r.fleets)
        hops == CASE r.kept -> r.hops
                  [] r.q.expand -> Flat(entity_expand_graph(fresh, 2))
                  [] OTHER -> {[e |-> e, hop |-> 0, w |-> 10 * FullWeight] : e \in fresh}
        Matched(links, m) == IF Cardinality({h \in hops : h.hop = 0}) > 1 THEN Matches(hops, links, m) ELSE 0
        Found(near) ==
            LET links == memory_ids_by_entity_ids({h.e : h \in near})
                HopOf(m) == LET hs == {h.hop : h \in {g \in hops : \E k \in links : k.m = m /\ k.e = g.e}}
                            IN CHOOSE h \in hs : \A g \in hs : h <= g
                Before(a, b) == HopOf(a) < HopOf(b)
            IN {{[m |-> m, b |-> multi_entity_boost(HopBoost(hops, links, m), Matched(links, m))] : m \in some} :
                  some \in Firsts({k.m : k \in links}, BoostMax, Before)}
    IN IF r.declined \/ {h \in hops : h.hop = 0} = {} THEN {{}} ELSE UNION {Found(near) : near \in CappedHops(hops)}

-----------------------------------------------------------------------------
(* Scoring.  Ten thousandths, rounded down after every factor.             *)

vec_sim(q, m) == IF nmem[m].vec THEN q.cos[m] ELSE 0
fts_score(q, m) == IF m \in q.lex THEN 50 ELSE 0

\* A row without a vector is judged by its words alone.
similarity(q, m) == IF nmem[m].vec THEN (10 - q.fts) * vec_sim(q, m) + q.fts * fts_score(q, m) ELSE 10 * fts_score(q, m)

base_score(q, m) == q.blend * similarity(q, m) + (10 - q.blend) * 10 * nmem[m].weight

\* The floor, in tenths, where the strategy does not lower it; the linear decay is cut to its ends.
FreshnessFloor(strategy) == CASE strategy = "temporal" -> 3 [] strategy = "recent_context" -> 2 [] OTHER -> 7
freshness(r, m) == IF nmem[m].expired \/ nmem[m].aged THEN FreshnessFloor(r.strategy) ELSE 10

RecallScale == 10
recall_boost(q, m) == IF q.boosting /\ ~nmem[m].cold THEN 100 + (10 * nmem[m].recalls) \div (nmem[m].recalls + RecallScale) ELSE 100

temporal_boost(q, m) == IF q.window /\ m \in q.recent THEN 13 ELSE 10
date_range_boost(q, m) == IF m \in q.dated THEN 2 ELSE 1
currency_factor(q, m) == IF q.asof /\ nmem[m].expired THEN 1 ELSE 2
status_penalty(q, m) == IF nmem[m].status = "outdated" \/ (nmem[m].status = "conflicted" /\ m \notin q.lex) THEN 1 ELSE 2
BoostOf(boosts, m) == IF \E i \in boosts : i.m = m THEN (CHOOSE i \in boosts : i.m = m).b ELSE 1000

score(r, boosts, m) ==
    LET q == r.q
        fresh == (base_score(q, m) * freshness(r, m)) \div 10
        near == (fresh * BoostOf(boosts, m)) \div 1000
        used == (near * recall_boost(q, m)) \div 100
        timely == ((used * temporal_boost(q, m)) \div 10) * date_range_boost(q, m)
    IN (timely * currency_factor(q, m) * status_penalty(q, m)) \div 4

\* The n best, newer rows first among equals.
Top(S, n, Value(_)) == {m \in S : Cardinality({o \in S : Value(o) > Value(m) \/ (Value(o) = Value(m) /\ o > m)}) < n}

\* The LIMIT.  The request's own top_k, which the caller multiplies by SEARCH_OVERFETCH_FACTOR, is not looked at: sp.get("top_k", top_k)
\* finds the profile's.  With a candidate pool the limit is the pool's, by similarity.
limit_of(r) == r.k
memory_scored_search(r, boosts) ==
    LET Score(m) == score(r, boosts, m)
        Similar(m) == similarity(r.q, m)
    IN IF r.q.pool > 0 THEN Top(scored_rows(r), r.q.pool, Similar) ELSE Top(scored_rows(r), limit_of(r), Score)

PassesFloor(q, m) == ~nmem[m].vec \/ vec_sim(q, m) >= q.floor

post_filter_results(r, raw, boosts) ==
    LET Score(m) == score(r, boosts, m) IN Top({m \in raw : PassesFloor(r.q, m)}, r.k, Score)

\* The boost is done without when its lookup fails or is late.  One read answers; the filter follows without an await.
execute_scored_search(s) ==
    LET r == srun[s]
    IN /\ r.pc = "score"
       /\ \/ \E boosts \in entity_boost(r) \cup {{}} :
               LET raw == memory_scored_search(r, boosts)
                   top == post_filter_results(r, raw, boosts)
               IN /\ IF boosts \in entity_boost(r) THEN Smooth ELSE Fault
                  /\ srun' = [srun EXCEPT ![s].boosts = boosts, ![s].hits = Taken(top), ![s].raw = raw, ![s].pc = "serialize"]
          \/ Fault /\ SGoto(s, "500")
       /\ UNCHANGED <<nscene, nmem, entityVars, stmVars, sflight, scached, slog>>

-----------------------------------------------------------------------------
(* The answer.                                                             *)

\* What supersedes an outdated or conflicted hit is put beside it.
load_and_serialize(s) ==
    LET r == srun[s]
        stale == {h.m : h \in {g \in r.hits : g.row.status \in {"outdated", "conflicted"}}}
    IN /\ r.pc = "serialize"
       /\ \/ stale = {} /\ Smooth /\ SGoto(s, "notes")
          \/ /\ stale # {} /\ Smooth
             /\ \E some \in Firsts(stale, SuccessorMax, Unordered) :
                  srun' = [srun EXCEPT ![s].extra = Taken(find_successors(r, some) \ {h.m : h \in r.hits}), ![s].pc = "notes"]
          \/ stale # {} /\ Fault /\ SGoto(s, "notes")
       /\ UNCHANGED <<nscene, nmem, entityVars, stmVars, sflight, scached, slog>>

\* The caller's notes and the bulletins of the fleets searched; a board that cannot be read is an empty one.
inject_stm_context(s) ==
    LET r == srun[s]
        mine == IF Caller(r.q) = Nobody THEN {} ELSE get_notes(Caller(r.q))
        boards == UNION {get_bulletin(f) : f \in r.fleets}
    IN /\ r.pc = "notes"
       /\ \/ Smooth /\ srun' = [srun EXCEPT ![s].notes = IF r.q.stm THEN mine \cup boards ELSE {}, ![s].pc = "track"]
          \/ r.q.stm /\ Fault /\ SGoto(s, "track")
       /\ UNCHANGED <<nscene, nmem, entityVars, stmVars, sflight, scached, slog>>

\* Only an agent's search counts as a use of what it found.
track_everyone(r) == IF r.hits # {} THEN {h.m : h \in r.hits} ELSE {}
track_recalls(r) == IF Caller(r.q) # Nobody THEN {h.m : h \in r.hits} ELSE {}

\* MCP logs near misses too, /search a sample of them.
log_recall_event(r) ==
    LET near == {m \in r.raw : m \notin {h.m : h \in r.hits}}
    IN IF ~r.q.log THEN {{}}
       ELSE {{[returned |-> {h.m : h \in r.hits}, near |-> n]} : n \in (IF r.q.via # "mcp" THEN {{}} ELSE {}) \cup Firsts(near, NearMisses, Unordered)}

\* Both run on after the answer.
Finish(s) ==
    LET r == srun[s]
    IN /\ r.pc = "track"
       /\ \E ev \in log_recall_event(r) :
            srun' = [srun EXCEPT ![s].tracking = track_recalls(r), ![s].logging = ev,
                                 ![s].pc = IF r.q.via = "recall" \/ (r.q.via = "mcp" /\ r.q.brief) THEN "brief" ELSE "done"]
       /\ UNCHANGED <<memVars, entityVars, stmVars, sflight, scached, slog>>

\* Sent once more only if the connection was never made.
memory_increment_recall(ids) == nmem' = [m \in MemIds |-> IF m \in ids THEN [nmem[m] EXCEPT !.recalls = @ + 1, !.cold = FALSE] ELSE nmem[m]]

track_recalls_background(s) ==
    /\ srun[s].tracking # {}
    /\ \/ Smooth /\ memory_increment_recall(srun[s].tracking)
       \/ Fault /\ UNCHANGED nmem
    /\ srun' = [srun EXCEPT ![s].tracking = {}]
    /\ UNCHANGED <<nscene, entityVars, stmVars, sflight, scached, slog>>

\* The event and its candidates are one transaction.
recall_log_write(s) ==
    /\ srun[s].logging # {}
    /\ \/ Smooth /\ slog' = slog \cup {[s |-> s, ev |-> e] : e \in srun[s].logging}
       \/ Fault /\ UNCHANGED slog
    /\ srun' = [srun EXCEPT ![s].logging = {}]
    /\ UNCHANGED <<nscene, nmem, entityVars, stmVars, sflight, scached>>

\* The primary provider, then another one, then a joined text.
call_with_fallback(q) ==
    {[by |-> "fake", cost |-> IF q.llm = "fake" THEN 0 ELSE IF q.fallback THEN 2 ELSE 1]}
      \cup (IF q.llm = "fake" THEN {} ELSE {[by |-> "primary", cost |-> 0]})
      \cup (IF q.llm # "fake" /\ q.fallback THEN {[by |-> "fallback", cost |-> 1]} ELSE {})

\* Nothing found, and summaries switched off, need no provider.
summarize_memories(s) ==
    LET r == srun[s]
    IN /\ r.pc = "brief"
       /\ \/ /\ r.hits \cup r.extra = {} /\ r.notes = {} /\ Smooth
             /\ srun' = [srun EXCEPT ![s].brief = "empty", ![s].pc = "done"]
          \/ /\ (r.hits \cup r.extra # {} \/ r.notes # {}) /\ ~r.q.summaries /\ Smooth
             /\ srun' = [srun EXCEPT ![s].brief = "disabled", ![s].pc = "done"]
          \/ /\ (r.hits \cup r.extra # {} \/ r.notes # {}) /\ r.q.summaries
             /\ \E a \in call_with_fallback(r.q) :
                  /\ nfault >= a.cost /\ nfault' = nfault - a.cost
                  /\ srun' = [srun EXCEPT ![s].brief = a.by, ![s].pc = "done"]
       /\ UNCHANGED <<nscene, nmem, entityVars, stmVars, sflight, scached, slog>>

\* What other requests do to a row meanwhile.
RowChanges(c) ==
    /\ c \in nscene.changes /\ nmem[c.m] # c.row
    /\ nmem' = [nmem EXCEPT ![c.m] = [c.row EXCEPT !.recalls = nmem[c.m].recalls, !.cold = nmem[c.m].cold]]
    /\ UNCHANGED <<nscene, nfault, entityVars, stmVars, searchVars>>

SearchInit(sc) ==
    /\ srun = [s \in DOMAIN sc.searches |->
                 [pc |-> "start", q |-> sc.searches[s], fleets |-> {}, k |-> 0, strategy |-> "none", seeds |-> {}, hops |-> {},
                  kept |-> FALSE, declined |-> FALSE, ids |-> {}, on |-> 0, fut |-> "none", boosts |-> {}, hits |-> {}, raw |-> {},
                  extra |-> {}, notes |-> {}, tracking |-> {}, logging |-> {}, brief |-> "none"]]
    /\ sflight = [k \in {sc.searches[s].key : s \in DOMAIN sc.searches} |-> 0]
    /\ scached = {} /\ slog = {}

SearchStep ==
    \/ StmStep /\ UNCHANGED <<entityVars, searchVars>>
    \/ \E c \in nscene.changes : RowChanges(c)
    \/ \E s \in DOMAIN srun :
         \/ search(s) \/ EntityFts(s) \/ expand_per_fleet(s) \/ collect_memories(s) \/ load_memories_by_ids(s)
         \/ EmbedLookup(s) \/ Flight(s) \/ Provider(s) \/ CacheSet(s) \/ JoinerWakes(s) \/ EmbedCancelled(s)
         \/ execute_scored_search(s) \/ load_and_serialize(s) \/ inject_stm_context(s) \/ Finish(s)
         \/ track_recalls_background(s) \/ recall_log_write(s) \/ summarize_memories(s)

-----------------------------------------------------------------------------
(* Properties.                                                             *)

\* Whatever changes between the steps of a search, each row it answers with was, when it was read, one the caller may
\* see: not deleted, of a tenant the credential reads, not another agent's private one, not retracted unless asked for,
\* and for an agent below trust 2 that names no other fleet from its own fleet, no fleet or the whole organization.  The
\* graph's links name memories of anybody (entity_get_memory_ids_by_entity_ids has no tenant), so the three queries'
\* filters are all there is.  Notes are the caller's own, bulletins of a fleet searched.
AnswersVisible ==
    \A s \in DOMAIN srun :
        LET r == srun[s]
            who == CASE r.q.via = "mcp" -> r.q.agent [] r.q.filter # Nobody -> r.q.filter [] r.q.via = "search" -> r.q.agent [] OTHER -> Nobody
            bound == who # Nobody /\ ~r.q.admin /\ r.q.known /\ r.q.trust < 2 /\ r.q.fleet # NoFleet /\ Cardinality(r.q.fleets) < 2
        IN /\ \A h \in r.hits \cup r.extra :
                /\ ~h.row.deleted /\ (h.row.tenant = "t" \/ h.row.tenant \in r.q.readable)
                /\ h.row.vis = "agent" => h.row.owner = who
                /\ h.row.status = "outdated" => r.q.status = "outdated"
                /\ bound => h.row.fleet \in {r.q.fleet, NoFleet} \/ h.row.vis = "org"
           /\ \A e \in r.notes : IF e.vis = "agent" THEN e.agent = who ELSE e.fleet \in r.fleets \cup {NoFleet}

\* A memory's recall counter grows by one for each agent's search that answered with it and for nothing else (a search
\* without an agent, a successor and a repeated request do not count), and without faults by exactly that once the
\* background tasks have run (TrackRecalls, increment_recall): the counter feeds recall_boost, so each wrong step is ranked.
RecallsCounted ==
    nscene.searches # <<>> =>
        \A m \in DOMAIN nscene.mem :
            LET uses == {s \in DOMAIN srun : srun[s].pc \in {"brief", "done"} /\ (\E h \in srun[s].hits : h.m = m)
                                             /\ (srun[s].q.filter # Nobody \/ (srun[s].q.via # "recall" /\ srun[s].q.agent # Nobody)
                                                   \/ srun[s].q.via = "mcp")}
                gained == nmem[m].recalls - nscene.mem[m].recalls
            IN /\ gained <= Cardinality(uses)
               /\ nfault = nscene.faults /\ (\A s \in DOMAIN srun : srun[s].tracking = {}) => gained = Cardinality(uses)

\* The searches that share an embedding: at most one call of the service per key is under way, and whoever waits for it
\* waits for a leader that is still at work or for a future that is settled, also after the leader, or another of those
\* waiting, was cancelled (_get_or_cache_embedding: "leaking a cancelled future would otherwise strand every joiner").
NoStrandedJoiner ==
    /\ \A s \in DOMAIN srun : srun[s].pc = "joined" /\ srun[srun[s].on].fut = "pending" =>
         srun[srun[s].on].pc \in {"leading", "caching"} /\ sflight[srun[s].q.key] = srun[s].on
    /\ \A s, t \in DOMAIN srun : {srun[s].pc, srun[t].pc} \subseteq {"leading", "caching"} /\ srun[s].q.key = srun[t].q.key => s = t

=============================================================================
