-------------------------------- MODULE Forge --------------------------------
(***************************************************************************)
(* The calculations of the skill factory, as operators: the Sentinel scan  *)
(* of a skill, the validator every skill write goes through, the gates of  *)
(* the promoter, and the mining pipeline that turns the memories of a      *)
(* window into clusters (outcome signals, session traces, greedy           *)
(* clustering, the fingerprint a rejection poisons).                       *)
(*                                                                         *)
(* The text of a skill is a body: which of Sentinel's patterns it carries, *)
(* its support files, whether it is over a size cap, and an identity for   *)
(* its content.  content_hash is that identity, SHA-256 being injective.   *)
(* Weights are in tenths.                                                  *)
(***************************************************************************)
EXTENDS Naturals, Sequences, FiniteSets, Functions

CONSTANTS
    MinClusterSize, MinDistinctAgents, FreshnessWindow,
    MaxMemoryIds,       \* MAX_MEMORY_IDS_BEFORE_WARN
    MinTotalWeight,     \* MIN_TOTAL_WEIGHT_FOR_LABEL
    RecallThreshold,    \* DEFAULT_RECALL_COUNT_THRESHOLD
    Jaccard,            \* cluster_entity_jaccard_threshold, in tenths
    GoalTopK, EntityTopK, StepWordsCap,
    Stopwords, Singular \* words are numbers; Singular maps a plural to its singular

Unset == "unset"    \* a key the document does not have
Nil == 0            \* no body, hash, run, fleet or live document
NoFp == <<>>        \* no fingerprint

-----------------------------------------------------------------------------
(* Sentinel.                                                               *)

Finding(code, severity, fatal) == {[code |-> code, severity |-> severity, fatal |-> fatal]}
Fires(cond, finding) == IF cond THEN finding ELSE {}

_scan_prompt_injection(marks) ==
    Fires("inject" \in marks, Finding("PROMPT_INJECTION", "critical", FALSE))

_scan_pii(marks) == Fires("pii" \in marks, Finding("PII", "warn", FALSE))

_scan_shell_injection(file) ==
    Fires("shell" \in file.marks, Finding("SHELL_INJECTION", "critical", FALSE))

_scan_url_exfil(file) ==
    Fires("exfil" \in file.marks, Finding("URL_EXFILTRATION", "warn", FALSE))

\* A path that is missing, not ASCII, absolute, climbs, hides a segment or names a binary is
\* fatal; a script must also say that it is one.
_scan_path_violations(files) ==
    UNION {Fires(\/ f.path \in {"missing", "nonascii", "absolute", "climbs", "hidden", "binary"}
                 \/ f.path = "script" /\ f.role # "scripts",
                 Finding("PATH_VIOLATION", "critical", TRUE)) : f \in files}

_scan_memory_id_stuffing(body) ==
    Fires(body.cites > MaxMemoryIds, Finding("MEMORY_ID_STUFFING", "warn", FALSE))

_scan_sizes(body) ==
    Fires(body.big, Finding("BODY_TOO_LARGE", "critical", TRUE))
      \cup Fires(body.long, Finding("DESCRIPTION_TOO_LARGE", "critical", TRUE))

\* Strings nested in the evidence deeper than the recursion cap are not read.
_iter_evidence_strings(body) == {m \in body.evidence : m.depth <= 4}

any_fatal(scan) == scan.fatal

\* The verdict, and the body it was reached on.
scan_skill_doc(id, body) ==
    LET texts == {body.text} \cup {m.marks : m \in _iter_evidence_strings(body)}
        found == UNION {_scan_prompt_injection(t) \cup _scan_pii(t) : t \in texts}
                   \cup UNION {_scan_shell_injection(f) : f \in body.files}
                   \cup UNION {_scan_url_exfil(f) : f \in {g \in body.files : g.role = "scripts"}}
                   \cup _scan_path_violations(body.files)
                   \cup _scan_memory_id_stuffing(body) \cup _scan_sizes(body)
    IN  [state |-> IF \E f \in found : f.fatal \/ f.severity = "critical"
                   THEN "quarantined" ELSE "clean",
         fatal |-> \E f \in found : f.fatal,
         of |-> id]

-----------------------------------------------------------------------------
(* What a write of a skill may say, and what it becomes.  ctx tells who    *)
(* writes (admin, forge, an inbox edit); live is the hash of the document  *)
(* a kind="update" write replaces.                                         *)

Refused(code) == [code |-> code]

\* forge is the Forge worker's alone, manual an administrator's; an edit keeps what there is.
SourceAllowed(data, ctx) ==
    ctx.edit \/ ((data.source = "forge" => ctx.forge) /\ (data.source = "manual" => ctx.admin))

StatusOf(data, ctx) ==
    IF data.status # Unset THEN data.status ELSE IF ctx.forge THEN "candidate" ELSE "staged"

StatusAllowed(status, ctx) ==
    /\ status = "candidate" => ctx.forge
    /\ status = "active" => ctx.admin
    /\ status \notin {"quarantined", "rejected", "stale", "deprecated"}

\* The hash the caller says it updates must be that of the live document.
Binding(data, liveHash) ==
    CASE data.kind # "update" -> 200
      [] data.bound = Nil -> 422
      [] liveHash = Nil -> 404
      [] data.bound # liveHash -> 409
      [] OTHER -> 200

validate_and_normalize_skill_write(data, ctx, bodies, liveHash) ==
    LET status == StatusOf(data, ctx)
        scan == scan_skill_doc(data.body, bodies[data.body])
    IN  CASE ~SourceAllowed(data, ctx) \/ ~StatusAllowed(status, ctx) -> Refused(403)
          [] bodies[data.body].long \/ bodies[data.body].big -> Refused(422)
          [] Binding(data, liveHash) # 200 -> Refused(Binding(data, liveHash))
          [] any_fatal(scan) -> Refused(422)
          [] OTHER -> [code |-> 200, scan |-> scan, hash |-> bodies[data.body].content,
                       status |-> IF scan.state = "quarantined" THEN "quarantined" ELSE status]

\* The six gates.  poisoned is what the poison checker said, "error" when it raised: a gate
\* that cannot be evaluated fails closed.
evaluate_auto_gates(doc, now, poisoned, liveHash) ==
    /\ doc.size >= MinClusterSize
    /\ doc.agents >= MinDistinctAgents
    /\ now <= doc.windowEnd + FreshnessWindow
    /\ doc.fp # NoFp /\ poisoned = "no"
    /\ doc.scan.state = "clean"
    /\ doc.kind = "update" => doc.bound = liveHash

_scan_is_clean(doc) == doc.scan.state = "clean" /\ ~doc.scan.fatal

-----------------------------------------------------------------------------
(* Outcome signals of the memories of a window.                            *)

InWindow(t, w) == w.from <= t /\ t < w.to
Signal(kind, m, by, polarity, weight) ==
    [kind |-> kind, mem |-> m.id, by |-> by, run |-> m.run, agent |-> m.agent,
     polarity |-> polarity, weight |-> weight]

\* Their time is when they were written: the schema has no time of the status change.
outcome_contradiction_signals(lake, w) ==
    {m \in lake : m.status \in {"outdated", "conflicted"} /\ m.run # Nil /\ InWindow(m.at, w)}

contradictions(lake, w) ==
    {Signal("contradiction", m, Nil, "failure", 7) : m \in outcome_contradiction_signals(lake, w)}

\* Pairs of a memory and one of the window that supersedes it, whenever the first was written.
outcome_supersession_signals(lake, w) ==
    {p \in lake \X lake : p[2].supersedes = p[1].id /\ InWindow(p[2].at, w) /\ p[1].run # Nil}

\* The session that wrote the superseded memory pays.
supersessions(lake, w) ==
    {Signal("supersession", p[1], p[2].id, "failure", 7) : p \in outcome_supersession_signals(lake, w)}

outcome_cross_agent_reuse_signals(lake, w) ==
    {m \in lake : m.recalls >= RecallThreshold /\ m.run # Nil /\ InWindow(m.at, w)}

cross_agent_reuse(lake, w) ==
    {Signal("reuse", m, Nil, "neutral", 3) : m \in outcome_cross_agent_reuse_signals(lake, w)}

_classify(m) ==
    IF "failure" \in m.says THEN "failure" ELSE IF "success" \in m.says THEN "success" ELSE Unset

\* The last memory of every session of the window.
outcome_terminal_memory_signals(lake, w) ==
    {m \in lake : /\ m.run # Nil /\ InWindow(m.at, w)
                  /\ \A n \in lake : n.run = m.run /\ n.agent = m.agent /\ InWindow(n.at, w)
                                       => n.at <= m.at}

terminal_memory(lake, w) ==
    {Signal("terminal", m, Nil, _classify(m), 9) :
       m \in {n \in outcome_terminal_memory_signals(lake, w) : _classify(n) # Unset}}

-----------------------------------------------------------------------------
(* Session traces and clusters.                                            *)

\* The elements of S in the order of Before.
Sorted(S, Before(_, _)) ==
    [i \in 1..Cardinality(S) |-> CHOOSE x \in S : Cardinality({y \in S : Before(y, x)}) = i - 1]

Weight(evidence, polarity) ==
    LET counted == {e \in evidence : e.polarity = polarity}
    IN  SumFunction([e \in counted |-> e.weight])

fold_outcome_label(evidence) ==
    LET good == Weight(evidence, "success")
        bad == Weight(evidence, "failure")
    IN  CASE good + bad < MinTotalWeight -> "unknown"
          [] bad > good -> "failure"
          [] good > bad -> "success"
          [] OTHER -> "unknown"

\* A memory outside a run belongs to no session.
_query_memories_in_window(lake, w) == {m \in lake : m.run # Nil /\ InWindow(m.at, w)}

_query_entity_ids_for_memories(members) == UNION {m.ents : m \in members}

\* An extractor that raised contributes nothing; the rest of the build goes on.
build_session_traces(lake, w, raised) ==
    LET signals == (IF "contradictions" \in raised THEN {} ELSE {contradictions(lake, w)})
                     \cup (IF "supersessions" \in raised THEN {} ELSE {supersessions(lake, w)})
                     \cup (IF "reuse" \in raised THEN {} ELSE {cross_agent_reuse(lake, w)})
                     \cup (IF "terminal" \in raised THEN {} ELSE {terminal_memory(lake, w)})
        window == _query_memories_in_window(lake, w)
        Trace(run, agent) ==
          LET members == {m \in window : m.run = run /\ m.agent = agent}
          IN  [run |-> run, agent |-> agent,
               label |-> fold_outcome_label(UNION {{e \in s : e.run = run /\ e.agent = agent} :
                                                    s \in signals}),
               mems |-> {m.id : m \in members},
               ents |-> _query_entity_ids_for_memories(members)]
    IN  Sorted({Trace(m.run, m.agent) : m \in window},
               LAMBDA s, t : s.run < t.run \/ (s.run = t.run /\ s.agent < t.agent))

Overlaps(ents, cluster) ==
    10 * Cardinality(ents \cap cluster.ents) >= Jaccard * Cardinality(ents \cup cluster.ents)

Join(clusters, trace) ==
    LET fits == {i \in DOMAIN clusters : Overlaps(trace.ents, clusters[i])}
    IN  CASE trace.ents = {} -> clusters
          [] fits = {} -> Append(clusters, [traces |-> {trace}, ents |-> trace.ents])
          [] OTHER -> LET first == CHOOSE i \in fits : \A j \in fits : i <= j
                      IN  [clusters EXCEPT ![first] = [traces |-> @.traces \cup {trace},
                                                       ents |-> @.ents \cup trace.ents]]

\* Greedy, in one pass: a trace joins the first cluster it overlaps enough.
_cluster_by_entity_overlap(traces) ==
    LET after[i \in 0..Len(traces)] == IF i = 0 THEN <<>> ELSE Join(after[i - 1], traces[i])
    IN  after[Len(traces)]

Agents(cluster) == {t.agent : t \in cluster.traces}

_gate_clusters(clusters) ==
    SelectSeq(clusters, LAMBDA c : /\ Cardinality(c.traces) >= MinClusterSize
                                   /\ Cardinality(Agents(c)) >= MinDistinctAgents)

Labelled(traces) == SelectSeq(traces, LAMBDA t : t.label # "unknown")

-----------------------------------------------------------------------------
(* The fingerprint: the canonical form of what the model answered and of   *)
(* the entities of the cluster.                                            *)

Ascending(S) == Sorted(S, <)
First(s, n) == SubSeq(s, 1, IF Len(s) < n THEN Len(s) ELSE n)
_strip_simple_plural(word) == IF word \in DOMAIN Singular THEN Singular[word] ELSE word

\* A bag of words: order and repetition do not matter.
canonical_goal_phrase(words) ==
    First(Ascending({_strip_simple_plural(words[i]) :
                       i \in {j \in DOMAIN words : words[j] \notin Stopwords}}), GoalTopK)

canonical_entities(ents) == First(Ascending(ents), EntityTopK)

\* The order of the steps, and of the words of a step, does matter.
canonical_step_skeleton(steps) ==
    [i \in DOMAIN steps |->
       LET kept == SelectSeq(steps[i], LAMBDA w : w \notin Stopwords)
       IN  First([j \in DOMAIN kept |-> _strip_simple_plural(kept[j])], StepWordsCap)]

compute_fingerprint(answer, ents) ==
    <<canonical_goal_phrase(answer.goal), answer.domain, canonical_entities(ents),
      canonical_step_skeleton(answer.steps)>>

\* What the parser and Forge accept of an answer: an object of the schema, and kind="create".
parse_distill_response(answer) == answer.shape = "object"
=============================================================================
