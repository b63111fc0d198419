---------------------------- MODULE Crystallizer ----------------------------
(***************************************************************************)
(* Crystallization: a run opens a report, looks for what is wrong with the   *)
(* memories, has a model condense each cluster of near duplicates into new   *)
(* memories, archives the sources and closes the report.  One run at a time   *)
(* per tenant and fleet is the report's job: a running report turns a second  *)
(* run away.                                                                  *)
(***************************************************************************)
EXTENDS EntityLinking
LOCAL INSTANCE SequencesExt

CONSTANTS
    NearTexts,          \* sets of two texts whose vectors pass CRYSTALLIZER_DEDUP_THRESHOLD
    InvalidTexts,       \* texts MemoryCreate refuses
    MinActive,          \* _CRYSTALLIZE_MIN_ACTIVE_MEMORIES
    DedupBatch,         \* CRYSTALLIZER_DEDUP_BATCH_SIZE
    DedupNeighbors,     \* CRYSTALLIZER_DEDUP_NEIGHBORS
    MaxPairs,           \* CRYSTALLIZER_MAX_DEDUP_PAIRS
    MinCluster,         \* CRYSTALLIZER_MIN_CLUSTER_SIZE
    MaxBatch            \* CRYSTALLIZER_MAX_BATCH_SIZE

VARIABLES
    creport,            \* the reports, in the order they were opened
    crun                \* the runs

crystalVars == <<creport, crun>>

CGoto(c, pc) == crun' = [crun EXCEPT ![c].pc = pc]

InScope(fleet) == {m \in MemIds : Live(m) /\ (fleet # NoFleet => nmem[m].fleet = fleet)}

-----------------------------------------------------------------------------
(* Entry.                                                                  *)

memory_count_active(fleet) == Cardinality({m \in InScope(fleet) : nmem[m].status = "active"})

TriggerCrystallization(c) ==
    /\ crun[c].pc = "start" /\ crun[c].q.via \in {"manual", "scheduled"}
    /\ CGoto(c, "find")
    /\ UNCHANGED <<memVars, creport>>

\* The nightly job asks the setting and the size first.
LifecycleCrystallize(c) ==
    LET q == crun[c].q
    IN /\ crun[c].pc = "start" /\ q.via = "lifecycle"
       /\ CGoto(c, IF q.enabled /\ memory_count_active(q.fleet) > MinActive THEN "find" ELSE "done")
       /\ UNCHANGED <<memVars, creport>>

report_find_running(fleet) == {r \in DOMAIN creport : creport[r].fleet = fleet /\ creport[r].status = "running"}

\* A running report answers for the run; two of them are an error.
FindRunning(c) ==
    LET running == report_find_running(crun[c].q.fleet)
    IN /\ crun[c].pc = "find"
       /\ CGoto(c, CASE running = {} -> "open" [] Cardinality(running) = 1 -> "done" [] OTHER -> "failed")
       /\ UNCHANGED <<memVars, creport>>

report_add(c) ==
    /\ crun[c].pc = "open"
    /\ \/ /\ Smooth
          /\ creport' = Append(creport, [fleet |-> crun[c].q.fleet, status |-> "running", score |-> 0])
          /\ crun' = [crun EXCEPT ![c].report = Len(creport) + 1, ![c].pc = "scan"]
       \/ Fault /\ CGoto(c, "failed") /\ UNCHANGED creport
    /\ UNCHANGED <<nscene, nmem>>

-----------------------------------------------------------------------------
(* The checks.  An answer is read key by key; a key it lacks reads as empty. *)

Get(answer, key) == IF key \in DOMAIN answer THEN answer[key] ELSE {}

memory_find_expired_still_active == {m \in InScope(NoFleet) : nmem[m].expired /\ nmem[m].status = "active"}
memory_find_stale_count == {m \in InScope(NoFleet) : nmem[m].aged /\ nmem[m].recalls = 0 /\ nmem[m].weight < LowWeight}
memory_find_missing_embeddings(fleet) == {m \in InScope(fleet) : ~nmem[m].vec}

get_lifecycle_candidates == [expired_still_active |-> memory_find_expired_still_active,
                             stale_low_weight |-> memory_find_stale_count]

get_embedding_coverage(fleet) == [total_active |-> memory_count_active(fleet),
                                  missing_embeddings |-> Cardinality(memory_find_missing_embeddings(fleet))]

entity_find_orphaned == {e \in EntIds : ELive(e) /\ ~\E k \in elinks : k.e = e}
entity_find_broken_links == {k \in elinks : ~Live(k.m)}

check_orphaned_entities == Cardinality(entity_find_orphaned)
check_missing_embeddings(fleet) == Cardinality(Get(get_embedding_coverage(fleet), "missing_ids"))
\* The ids are strings where the check expects rows: one expired memory and it fails.
check_expired_still_active == IF Get(get_lifecycle_candidates, "expired_still_active") = {} THEN 0 ELSE -1
check_stale_memories == Cardinality(Get(get_lifecycle_candidates, "stale_memories"))
check_short_content == Cardinality(Get(get_lifecycle_candidates, "short_content"))
check_broken_entity_links == Cardinality(entity_find_broken_links)

Near(m, n) == nmem[m].text = nmem[n].text \/ {nmem[m].text, nmem[n].text} \in NearTexts

near_duplicate_candidates(fleet) == {m \in InScope(fleet) : nmem[m].vec /\ ~nmem[m].checked}

\* Archived memories are neighbours too.
neighbors_by_embedding(fleet, m) == {n \in InScope(fleet) : n # m /\ nmem[n].vec /\ Near(m, n)}

Sorted(m, n) == IF m < n THEN <<m, n>> ELSE <<n, m>>

\* Newest first in batches until there are pairs enough; of more than enough, some.
check_near_duplicates(fleet) ==
    LET cands == near_duplicate_candidates(fleet)
        choices == {f \in [cands -> SUBSET MemIds] :
                      \A m \in cands : f[m] \in Firsts(neighbors_by_embedding(fleet, m), DedupNeighbors, Unordered)}
        PairsOf(f, S) == UNION {{Sorted(m, n) : n \in f[m]} : m \in S}
        Sizes == {k * DedupBatch : k \in 0 .. Cardinality(cands)}
        Enough(f, k) == Cardinality(PairsOf(f, Newest(cands, k))) >= MaxPairs \/ k >= Cardinality(cands)
        Stop(f) == CHOOSE k \in Sizes : Enough(f, k) /\ \A j \in Sizes : Enough(f, j) => k <= j
    IN UNION {{[seen |-> Newest(cands, Stop(f)), pairs |-> P] :
                 P \in Firsts(PairsOf(f, Newest(cands, Stop(f))), MaxPairs, Unordered)} : f \in choices}

\* The share of the active memories that have a vector; the missing ones are counted whatever their status.
compute_health(fleet) ==
    LET n == Cardinality(InScope(fleet))
        cov == get_embedding_coverage(fleet)
    IN [total |-> n,
        low |-> n > 0 /\ (cov.total_active = 0 \/ 100 * (cov.total_active - cov.missing_embeddings) < 90 * cov.total_active),
        pending |-> Cardinality({m \in InScope(fleet) : nmem[m].status = "pending"}),
        contradicted |-> Cardinality({m \in InScope(fleet) : nmem[m].status \in {"outdated", "conflicted"}})]

Scan(c) ==
    LET fleet == crun[c].q.fleet
        h == [orphaned |-> check_orphaned_entities, missing |-> check_missing_embeddings(fleet),
              expired |-> check_expired_still_active, stale |-> check_stale_memories, short |-> check_short_content,
              broken |-> check_broken_entity_links]
    IN /\ crun[c].pc = "scan"
       /\ \E found \in check_near_duplicates(fleet) :
            crun' = [crun EXCEPT ![c].seen = found.seen, ![c].pairs = found.pairs, ![c].hygiene = h,
                                 ![c].health = compute_health(fleet), ![c].pc = "mark"]
       /\ UNCHANGED <<memVars, creport>>

\* The storage service does not answer any of the checks.
ScanFails(c) ==
    /\ crun[c].pc = "scan" /\ Fault
    /\ crun' = [crun EXCEPT ![c].down = TRUE, ![c].pc = "cluster"]
    /\ UNCHANGED <<nscene, nmem, creport>>

mark_dedup_checked(S) == nmem' = [m \in MemIds |-> IF m \in S THEN [nmem[m] EXCEPT !.checked = TRUE] ELSE nmem[m]]

\* The check fails as a whole if its last call does; the pairs are gone then, the marks may not be.
Mark(c) ==
    /\ crun[c].pc = "mark"
    /\ \/ Smooth /\ mark_dedup_checked(crun[c].seen) /\ CGoto(c, "remediate")
       \/ /\ Fault /\ (UNCHANGED nmem \/ mark_dedup_checked(crun[c].seen))
          /\ crun' = [crun EXCEPT ![c].pairs = {}, ![c].pc = "remediate"]
    /\ UNCHANGED <<nscene, creport>>

remediate_missing_embeddings(c) ==
    LET missing == Get(get_lifecycle_candidates, "missing_embeddings")
    IN /\ crun[c].pc = "remediate"
       /\ nmem' = [m \in MemIds |-> IF m \in missing THEN [nmem[m] EXCEPT !.vec = TRUE] ELSE nmem[m]]
       /\ CGoto(c, "cluster")
       /\ UNCHANGED <<nscene, nfault, creport>>

-----------------------------------------------------------------------------
(* Condensing.                                                             *)

\* Clusters in any order, up to the first that does not fit.
SelectedClusters(pairs) ==
    LET big == {C \in build_clusters(SetToSeq(pairs)) : Cardinality(C) >= MinCluster}
        Size(s, n) == Cardinality(UNION {s[i] : i \in 1 .. n})
        Fits(s) == CHOOSE n \in 0 .. Len(s) : Size(s, n) <= MaxBatch /\ (n = Len(s) \/ Size(s, n + 1) > MaxBatch)
    IN {SubSeq(s, 1, Fits(s)) : s \in SetToSeqs(big)}

\* Memories that are gone are left out of their cluster.
FetchClusters(c) ==
    /\ crun[c].pc = "cluster"
    /\ \/ /\ ~crun[c].q.enabled /\ CGoto(c, "report") /\ Smooth
       \/ /\ crun[c].q.enabled /\ Smooth
          /\ \E s \in SelectedClusters(crun[c].pairs) :
               crun' = [crun EXCEPT ![c].clusters = [i \in DOMAIN s |-> {m \in s[i] : Live(m)}], ![c].pc = "next"]
       \/ crun[c].q.enabled /\ Fault /\ CGoto(c, "report")
    /\ UNCHANGED <<nscene, nmem, creport>>

\* The model's answers the scene allows, or the text of the heaviest member.
crystallize_fake(S) == {<<nmem[m].text>> : m \in {n \in S : \A o \in S : nmem[o].weight <= nmem[n].weight}}
crystallize_cluster(c, S) == crun[c].q.facts \cup (IF crun[c].q.fake THEN crystallize_fake(S) ELSE {})

ArchivesFirst(c) ==
    LET S == Head(crun[c].clusters)
    IN /\ crun[c].pc = "next"
       /\ \/ crun[c].clusters = <<>> /\ CGoto(c, "report") /\ UNCHANGED nmem
          \/ /\ crun[c].clusters # <<>> /\ nmem' = update_status(S, "archived")
             /\ \E facts \in crystallize_cluster(c, S) :
                  crun' = [crun EXCEPT ![c].facts = facts, ![c].new = {}, ![c].pc = "create"]
       /\ UNCHANGED <<nscene, nfault, creport>>

\* A cluster that shrank, or of which nothing could be said, is left alone.
NextCluster(c) ==
    LET S == Head(crun[c].clusters)
        rest == Tail(crun[c].clusters)
    IN /\ crun[c].pc = "next"
       /\ \/ crun[c].clusters = <<>> /\ CGoto(c, "report")
          \/ /\ crun[c].clusters # <<>> /\ Cardinality(S) < MinCluster
             /\ crun' = [crun EXCEPT ![c].clusters = rest]
          \/ /\ crun[c].clusters # <<>> /\ Cardinality(S) >= MinCluster
             /\ \E facts \in crystallize_cluster(c, S) :
                  crun' = IF facts = <<>> THEN [crun EXCEPT ![c].clusters = rest]
                          ELSE [crun EXCEPT ![c].facts = facts, ![c].new = {}, ![c].pc = "create"]
       /\ UNCHANGED <<memVars, creport>>

Crystal(c, text) ==
    [Fresh EXCEPT !.owner = "crystallizer", !.fleet = crun[c].q.fleet, !.kind = "crystal", !.text = text,
                  !.status = "confirmed", !.weight = 70, !.cites = Head(crun[c].clusters)]

\* A fact MemoryCreate refuses is skipped.  A text the crystallizer already stored, and a write that fails, are
\* HTTP errors, which neither handler above catches.
CreateFact(c) ==
    LET text == Head(crun[c].facts)
        known == find_by_content_hash("crystallizer", crun[c].q.fleet, text) # {}
        done == [crun EXCEPT ![c].facts = Tail(@)]
    IN /\ crun[c].pc = "create" /\ crun[c].facts # <<>>
       /\ \/ text \in InvalidTexts /\ crun' = done /\ Smooth /\ UNCHANGED nmem
          \/ text \notin InvalidTexts /\ known /\ CGoto(c, "escaped") /\ Smooth /\ UNCHANGED nmem
          \/ /\ text \notin InvalidTexts /\ ~known /\ Smooth
             /\ memory_add(Crystal(c, text))
             /\ crun' = [done EXCEPT ![c].new = @ \cup {Len(nmem) + 1}]
          \/ text \notin InvalidTexts /\ ~known /\ Fault /\ CGoto(c, "escaped") /\ MayStore(Crystal(c, text))
       /\ UNCHANGED <<nscene, creport>>

\* The sources are archived whether or not anything was stored; rows are written one by one and a failure is logged.
batch_update_status(c) ==
    LET S == Head(crun[c].clusters)
        next == [crun EXCEPT ![c].clusters = Tail(@), ![c].pc = "next",
                             ![c].unbacked = IF crun[c].new = {} THEN @ \cup S ELSE @]
    IN /\ crun[c].pc = "create" /\ crun[c].facts = <<>>
       /\ \/ Smooth /\ nmem' = update_status(S, "archived")
          \/ Fault /\ \E some \in SUBSET S : nmem' = update_status(some, "archived")
       /\ crun' = next
       /\ UNCHANGED <<nscene, creport>>

-----------------------------------------------------------------------------
(* The report.  Counting of personal data is left out.                     *)

\* A check that failed raises no issue.
generate_issues(pairs, h, health) ==
    [critical |-> IF health.low THEN {"embeddings"} ELSE {},
     warning |-> (IF pairs # {} THEN {"near"} ELSE {}) \cup {k \in {"missing", "expired", "broken"} : h[k] > 0}
                 \cup (IF 5 * health.pending > health.total THEN {"pending"} ELSE {}),
     info |-> {k \in {"orphaned", "stale", "short"} : h[k] > 0} \cup (IF health.contradicted > 0 THEN {"contradicted"} ELSE {})]

Score(i) ==
    LET lost == 20 * Cardinality(i.critical) + 5 * Cardinality(i.warning) + Cardinality(i.info)
    IN IF lost > 100 THEN 0 ELSE 100 - lost

\* The run's last call; if it fails the report stays as it is.
report_update_completed(c) ==
    LET r == crun[c]
        score == IF r.down THEN 100 ELSE Score(generate_issues(r.pairs, r.hygiene, r.health))
    IN /\ crun[c].pc = "report"
       /\ \/ /\ Smooth /\ CGoto(c, "done")
             /\ creport' = [creport EXCEPT ![r.report].status = IF r.down THEN "failed" ELSE "completed",
                                          ![r.report].score = score]
          \/ Fault /\ CGoto(c, "escaped") /\ UNCHANGED creport
       /\ UNCHANGED <<nscene, nmem>>

CrystalCrash(c) ==
    /\ crun[c].pc \in {"scan", "mark", "cluster", "next", "create", "report"}
    /\ Fault /\ CGoto(c, "crashed")
    /\ UNCHANGED <<nscene, nmem, creport>>

CrystalInit(sc) ==
    /\ creport = <<>>
    /\ crun = [c \in DOMAIN sc.cruns |->
                 [pc |-> "start", q |-> sc.cruns[c], report |-> 0, seen |-> {}, pairs |-> {}, hygiene |-> <<>>, health |-> <<>>,
                  clusters |-> <<>>, facts |-> <<>>, new |-> {}, unbacked |-> {}, down |-> FALSE]]

CrystalStep ==
    \E c \in DOMAIN crun :
      \/ TriggerCrystallization(c) \/ LifecycleCrystallize(c) \/ FindRunning(c) \/ report_add(c) \/ Scan(c) \/ ScanFails(c) \/ Mark(c)
      \/ remediate_missing_embeddings(c) \/ FetchClusters(c) \/ NextCluster(c) \/ CreateFact(c) \/ batch_update_status(c)
      \/ report_update_completed(c) \/ CrystalCrash(c)

-----------------------------------------------------------------------------
(* Properties.                                                             *)

\* A crystal stands for m, itself or, if it was archived in its turn, through the crystal made of it.
RECURSIVE Represented(_)
Represented(m) ==
    \E n \in MemIds : nmem[n].kind = "crystal" /\ m \in nmem[n].cites /\ (nmem[n].status # "archived" \/ Represented(n))

\* No memory is archived without a stored crystal that names it as a source, however many sweeps condense crystals
\* again and however runs overlap or die (_run_crystallization stores before it archives).  Left out are clusters none
\* of whose facts MemoryCreate accepted: their sources are archived all the same.
ArchivedRepresented ==
    \A m \in MemIds : nmem[m].status = "archived" =>
        Represented(m) \/ \E c \in DOMAIN crun : m \in crun[c].unbacked

=============================================================================
