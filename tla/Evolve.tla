------------------------------- MODULE Evolve -------------------------------
(***************************************************************************)
(* Outcome reports.  A call names the memories an agent acted on; the        *)
(* outcome is stored, a failure may yield a rule, and the weights of the      *)
(* named memories move.  Rule, outcome and weights are three commits; the     *)
(* weights and the rule's link to its outcome are one.                        *)
(***************************************************************************)
EXTENDS Insights

CONSTANT EvolveMax       \* EVOLVE_MAX_RELATED_IDS

VARIABLE nev             \* the calls

evolveVars == <<nev>>

Delta(type) == CASE type = "success" -> 10 [] type = "failure" -> -15 [] OTHER -> 3
WeightFloor == 5
WeightCap == 100
Clamp(w) == IF w < WeightFloor THEN WeightFloor ELSE IF w > WeightCap THEN WeightCap ELSE w

-----------------------------------------------------------------------------
ValidEvolve(q) == q.type \in {"success", "failure", "partial"} /\ (q.scope = "fleet" => q.fleet # NoFleet)

EnterEvolve(c, pass) == nev' = [nev EXCEPT ![c].pc = IF pass THEN "filter" ELSE "refused"]

RestEvolve(c) ==
    LET q == nev[c].q
    IN /\ nev[c].pc = "start" /\ q.via = "rest"
       /\ EnterEvolve(c, ValidEvolve(q) /\ resolve_caller_and_gate(q) /\ check_and_increment(q))
       /\ UNCHANGED memVars

McpEvolve(c) ==
    LET q == nev[c].q
    IN /\ nev[c].pc = "start" /\ q.via = "mcp"
       /\ EnterEvolve(c, ValidEvolve(q) /\ q.trust >= MinTrust(q) /\ check_and_increment(q))
       /\ UNCHANGED memVars

\* What the storage service finds of the ids asked for.
evolve_filter_by_scope(q, ids) ==
    {m \in ids \cap MemIds : /\ Live(m)
                             /\ q.scope = "agent" => nmem[m].owner = q.agent
                             /\ q.scope = "fleet" => nmem[m].fleet = q.fleet}

\* Ids that are malformed (0), repeated, missing or out of scope are dropped.
filter_by_scope(q) == evolve_filter_by_scope(q, {q.ids[i] : i \in DOMAIN q.ids} \ {0})

WeightSkip(q, kept) ==
    CASE q.ids = <<>> -> "no_related_ids"
      [] q.ids # <<>> /\ kept = {} -> (CASE q.scope = "agent" -> "agent_id_mismatch"
                                          [] q.scope = "fleet" -> "fleet_id_mismatch" [] OTHER -> "all_out_of_scope")
      [] OTHER -> "none"

EFilter(c) ==
    LET kept == filter_by_scope(nev[c].q)
    IN /\ nev[c].pc = "filter"
       /\ \/ /\ Smooth
             /\ nev' = [nev EXCEPT ![c].ids = kept, ![c].wskip = WeightSkip(nev[c].q, kept), ![c].pc = "rule?"]
          \/ Fault /\ nev' = [nev EXCEPT ![c].pc = "failed"]
       /\ UNCHANGED <<nscene, nmem>>

\* The memories are fetched again; the model's answer has a confidence, or it fails.
generate_rule(c) ==
    IF \A m \in nev[c].ids : ~Live(m) THEN {"no_memories_fetched"}
    ELSE {"firm", "weak"} \cup (IF nfault > 0 THEN {"llm_failed"} ELSE {})

maybe_generate_rule(c) ==
    CASE nev[c].q.type = "success" -> {"not_failure_or_partial"}
      [] nev[c].q.type # "success" /\ nev[c].ids = {} -> {"no_related_ids"}
      [] OTHER -> generate_rule(c)

ERule(c) ==
    /\ nev[c].pc = "rule?"
    /\ \E r \in maybe_generate_rule(c) :
         /\ nev' = [nev EXCEPT ![c].pc = IF r = "firm" THEN "store rule" ELSE "store outcome",
                               ![c].rskip = CASE r = "firm" -> "none"
                                              [] r = "weak" -> "below_confidence_threshold"
                                              [] OTHER -> r]
         /\ IF r = "llm_failed" THEN Fault ELSE Smooth
    /\ UNCHANGED <<nscene, nmem>>

\* A row with the same text is a 409; a failed call may have stored the row.
Refused(q, text) == find_by_content_hash(q.agent, q.fleet, text) # {}
MayStore(row) == nmem' \in {nmem, Append(nmem, row)}

RuleRow(q) == [Fresh EXCEPT !.owner = q.agent, !.fleet = q.fleet, !.kind = "rule", !.text = q.rule]

\* Whatever goes wrong, the call goes on without a rule.
persist_rule(c) ==
    LET q == nev[c].q
        gone == nev' = [nev EXCEPT ![c].pc = "store outcome", ![c].rskip = "persist_failed"]
    IN /\ nev[c].pc = "store rule"
       /\ \/ Refused(q, q.rule) /\ gone /\ Smooth /\ UNCHANGED nmem
          \/ /\ ~Refused(q, q.rule) /\ Smooth
             /\ memory_add(RuleRow(q))
             /\ nev' = [nev EXCEPT ![c].pc = "store outcome", ![c].ruleId = Len(nmem) + 1]
          \/ ~Refused(q, q.rule) /\ Fault /\ MayStore(RuleRow(q)) /\ gone
       /\ UNCHANGED nscene

OutcomeRow(c) ==
    LET q == nev[c].q
    IN [Fresh EXCEPT !.owner = q.agent, !.fleet = q.fleet, !.kind = "outcome", !.text = q.text,
                     !.cites = nev[c].ids, !.link = nev[c].ruleId]

\* Whatever goes wrong, the call fails.
persist_outcome(c) ==
    LET q == nev[c].q
        failed == nev' = [nev EXCEPT ![c].pc = "failed"]
    IN /\ nev[c].pc = "store outcome"
       /\ \/ Refused(q, q.text) /\ failed /\ Smooth /\ UNCHANGED nmem
          \/ /\ ~Refused(q, q.text) /\ Smooth
             /\ memory_add(OutcomeRow(c))
             /\ nev' = [nev EXCEPT ![c].outId = Len(nmem) + 1,
                                   ![c].pc = IF nev[c].ids = {} THEN "done" ELSE "send weights"]
          \/ ~Refused(q, q.text) /\ Fault /\ MayStore(OutcomeRow(c)) /\ failed
       /\ UNCHANGED nscene

-----------------------------------------------------------------------------
(* The weights.                                                            *)

\* Sorted and without repetition, so that concurrent calls lock rows in one order; the rest is dropped.
Asked(c) == Lowest(nev[c].ids, EvolveMax)

\* The statement's snapshot: the weights it will report as old.
EReadWeights(c) ==
    /\ nev[c].pc = "send weights"
    /\ nev' = [nev EXCEPT ![c].pc = "apply weights", ![c].old = [m \in {n \in Asked(c) : Live(n)} |-> nmem[m].weight]]
    /\ UNCHANGED memVars

\* The rows it updates, each from the weight it finds once it holds the row.
evolve_apply_weights(c) ==
    LET hit == {m \in DOMAIN nev[c].old : Live(m)}
        d == Delta(nev[c].q.type)
        rule == nev[c].ruleId
    IN [m \in MemIds |->
          CASE m \in hit -> [nmem[m] EXCEPT !.weight = Clamp(@ + d), !.moved = @ + 1]
            [] m = rule -> [nmem[m] EXCEPT !.link = nev[c].outId]
            [] OTHER -> nmem[m]]

SentAgainWhenLost(fault) == fault \in {"connect", "lost"}
\* The client sends a POST again only if it never reached the service.
SentAgain(fault) == fault = "connect"

ReportsAsked(c) == [m \in DOMAIN nev[c].old |-> Clamp(nev[c].old[m] + Delta(nev[c].q.type))]
\* The rows the service says it moved, with the weights it left them at.
Adjustments(c) == [m \in {n \in DOMAIN nev[c].old : Live(n)} |-> Clamp(nmem[m].weight + Delta(nev[c].q.type))]

NotMoved(c) == [nev EXCEPT ![c].pc = "done", ![c].wskip = "no_rows_updated"]

adjust_weights(c) ==
    /\ nev[c].pc = "apply weights"
    /\ \/ /\ Smooth
          /\ nmem' = evolve_apply_weights(c)
          /\ nev' = [nev EXCEPT ![c].pc = "done", ![c].adj = Adjustments(c),
                                ![c].wskip = IF DOMAIN Adjustments(c) = {} THEN "no_rows_updated" ELSE "none"]
       \/ \E fault \in {"connect", "refused", "lost"} :
            /\ Fault
            /\ nmem' = IF fault = "lost" THEN evolve_apply_weights(c) ELSE nmem
            /\ nev' = IF SentAgain(fault) THEN [nev EXCEPT ![c].pc = "send weights"] ELSE NotMoved(c)
    /\ UNCHANGED nscene

ECrash(c) ==
    /\ nev[c].pc \in {"filter", "rule?", "store rule", "store outcome", "send weights"}
    /\ Fault
    /\ nev' = [nev EXCEPT ![c].pc = "failed"]
    /\ UNCHANGED <<nscene, nmem>>

\* Somebody deletes a memory while a call is using it.
MemoryDeleted(m) == nscene.deletes /\ nmem[m].kind = "fact" /\ soft_delete(m) /\ UNCHANGED nev

EvolveInit(sc) ==
    nev = [c \in DOMAIN sc.evolves |->
             [pc |-> "start", q |-> sc.evolves[c], ids |-> {}, ruleId |-> 0, outId |-> 0, old |-> <<>>, adj |-> <<>>,
              wskip |-> "none", rskip |-> "none"]]

EvolveStep ==
    \/ \E c \in DOMAIN nev :
         \/ RestEvolve(c) \/ McpEvolve(c) \/ EFilter(c) \/ ERule(c) \/ persist_rule(c) \/ persist_outcome(c)
         \/ EReadWeights(c) \/ adjust_weights(c) \/ ECrash(c)
    \/ \E m \in MemIds : MemoryDeleted(m)

-----------------------------------------------------------------------------
(* Properties.                                                             *)

OutcomesNaming(m) == {o \in MemIds : nmem[o].kind = "outcome" /\ m \in nmem[o].cites}

\* No weight moves without a stored outcome that names the memory, none moves twice for one outcome however the call
\* to the storage service fails, and every moved weight stays between the floor and the cap.
WeightsBacked ==
    \A m \in MemIds : nmem[m].moved > 0 =>
        /\ nmem[m].moved <= Cardinality(OutcomesNaming(m))
        /\ nmem[m].weight \in WeightFloor .. WeightCap

\* What report_outcome answers happened: a rule it lists is stored, and points at the outcome once the weights
\* were applied; a skipped rule or adjustment has a reason and only a skipped one does; each adjustment it lists
\* is of a row whose weight moved, and a rule that names an outcome is the rule that outcome names.
EvolveAnswerTrue ==
    /\ \A c \in DOMAIN nev : nev[c].pc = "done" =>
         /\ nev[c].outId # 0 /\ nmem[nev[c].outId].kind = "outcome"
         /\ nev[c].rskip = "none" <=> nev[c].ruleId # 0
         /\ nev[c].ruleId # 0 => nmem[nev[c].ruleId].kind = "rule"
         /\ nev[c].wskip = "none" <=> DOMAIN nev[c].adj # {}
         /\ \A m \in DOMAIN nev[c].adj : nmem[m].moved > 0
         /\ nev[c].ruleId # 0 /\ DOMAIN nev[c].adj # {} => nmem[nev[c].ruleId].link = nev[c].outId
    /\ \A m \in MemIds : nmem[m].kind = "rule" /\ nmem[m].link # 0 => nmem[nmem[m].link].link = m

\* Outcome reports: weights move for stored outcomes only, and the answer tells what happened.
OutcomesTrue == WeightsBacked /\ EvolveAnswerTrue
=============================================================================
