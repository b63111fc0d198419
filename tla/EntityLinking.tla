--------------------------- MODULE EntityLinking ---------------------------
(***************************************************************************)
(* The nightly run over the entity graph: embed the names that have no       *)
(* vector, merge duplicates, link memories to entities their text names,     *)
(* and infer relations from co-occurrence.  Each is one call to the storage   *)
(* service; an exception stops the run.  The merge is one transaction of      *)
(* many statements, so what others commit between its first and its last       *)
(* statement on a duplicate is carried over or deleted with the duplicate.    *)
(***************************************************************************)
EXTENDS EntityExtraction, UnionFind
LOCAL INSTANCE SequencesExt

CONSTANTS
    NameLength,         \* [name -> its length]
    BackfillBatch,      \* ENTITY_EMBEDDING_BACKFILL_BATCH_SIZE
    ResolveBatch,       \* ENTITY_RESOLUTION_BATCH_SIZE
    CandidateLimit,     \* ENTITY_RESOLUTION_CANDIDATE_LIMIT
    CrossBatch,         \* CROSS_LINK_MEMORY_BATCH_SIZE
    MinCooccurrence,    \* MIN_COOCCURRENCE_FOR_RELATION
    FrontierCap         \* GRAPH_MAX_EXPANDED_ENTITIES

Delta1 == 1             \* RELATION_REINFORCE_DELTA, in tenths
CrossLinkMin == 3       \* a memory with fewer links is looked at

LGoto(l, pc) == lrun' = [lrun EXCEPT ![l].pc = pc]

LSettle(l, pc) == lrun' = [lrun EXCEPT ![l].pc = pc, ![l].to = <<>>, ![l].was = <<>>, ![l].links = {}, ![l].rels = {}]

InFleet(q, fleet) == q.fleet # NoFleet => fleet = q.fleet

\* With the setting off the job answers 0 without running.
entity_link(l) ==
    /\ lrun[l].pc = "start"
    /\ LGoto(l, IF lrun[l].q.enabled THEN "backfill" ELSE "done")
    /\ UNCHANGED <<memVars, graphVars, xrun>>

-----------------------------------------------------------------------------
(* Backfill: a read, a call of the embedding service per name, a write.    *)

entity_list_null_embeddings(q) == {e \in EntIds : ELive(e) /\ eents[e].vec = NoVec /\ InFleet(q, eents[e].fleet)}

BackfillRead(l) ==
    /\ lrun[l].pc = "backfill"
    /\ \/ /\ Smooth
          /\ \E rows \in Firsts(entity_list_null_embeddings(lrun[l].q), BackfillBatch, Unordered) :
               lrun' = [lrun EXCEPT ![l].rows = rows, ![l].pc = "embed"]
       \/ Fault /\ LGoto(l, "stopped")
    /\ UNCHANGED <<nscene, nmem, graphVars, xrun>>

\* The vector is that of the name as it was read, written whatever the row has by now.
entity_set_embeddings(rows) ==
    eents' = [e \in EntIds |-> IF e \in rows /\ ELive(e) THEN [eents[e] EXCEPT !.vec = eents[e].name] ELSE eents[e]]

BackfillWrite(l) ==
    /\ lrun[l].pc = "embed"
    /\ \/ Smooth /\ entity_set_embeddings(lrun[l].rows) /\ LGoto(l, "resolve")
       \/ Fault /\ (\E some \in SUBSET lrun[l].rows : some # lrun[l].rows /\ entity_set_embeddings(some)) /\ LGoto(l, "resolve")
       \/ Fault /\ UNCHANGED eents /\ LGoto(l, "stopped")
    /\ UNCHANGED <<nscene, nmem, elinks, erels, xrun>>

-----------------------------------------------------------------------------
(* Merging duplicates.                                                     *)

\* The possible answers of the pair query: for each of the first entities, some of the close later ones.
resolve_pairs(q) ==
    LET there == {e \in EntIds : ELive(e) /\ eents[e].vec # NoVec /\ InFleet(q, eents[e].fleet)}
        batch == Lowest(there, ResolveBatch)
        near(b) == {e \in there : e > b /\ eents[e].type = eents[b].type /\ Close(eents[b].vec, eents[e].vec)}
    IN {UNION {{<<b, e>> : e \in f[b]} : b \in batch} :
          f \in {g \in [batch -> SUBSET there] : \A b \in batch : g[b] \in Firsts(near(b), CandidateLimit, Unordered)}}

\* The longest name, and of those the smallest id.
PickCanonical(C) ==
    LET len(e) == NameLength[eents[e].name]
    IN CHOOSE c \in C : \A d \in C : len(c) > len(d) \/ (len(c) = len(d) /\ c <= d)

\* Every entity of a cluster but its canonical one goes into the canonical one.
MergePlan(pairs) ==
    LET clusters == entity_clusters(SetToSeq(pairs))
        dupes == UNION {C \ {PickCanonical(C)} : C \in clusters}
    IN [d \in dupes |-> PickCanonical(CHOOSE C \in clusters : d \in C)]

\* The transaction's reads.  Without a close pair there is nothing to do.
entity_resolve_duplicates(l) ==
    /\ lrun[l].pc = "resolve"
    /\ \/ /\ Smooth
          /\ \E pairs \in resolve_pairs(lrun[l].q) :
               lrun' = [lrun EXCEPT ![l].to = MergePlan(pairs), ![l].was = eents, ![l].links = elinks, ![l].rels = erels,
                                    ![l].pc = IF pairs = {} THEN "discover" ELSE "merging"]
       \/ Fault /\ LGoto(l, "stopped")
    /\ UNCHANGED <<nscene, nmem, graphVars, xrun>>

links_dropped(links, c, d) == {k \in links : k.e # d}
merge_links(links, c, d) ==
    {IF k.e = d THEN [k EXCEPT !.e = c] ELSE k :
       k \in {j \in links : ~(j.e = d /\ \E i \in links : i.e = c /\ i.m = j.m)}}

Kept(a, b) == a
Larger(a, b) == IF a > b THEN a ELSE b

\* Raise the weights of c's relations to those of d's like ones, drop d's loops and repetitions, move the others to c.
merge_from(rels, c, d) ==
    LET alike(r) == {s \in rels : s.from = d /\ s.type = r.type /\ s.to = r.to}
        raised == {IF r.from = c /\ alike(r) # {} THEN [r EXCEPT !.w = Larger(@, (CHOOSE s \in alike(r) : TRUE).w)] ELSE r :
                     r \in rels}
        kept == {r \in raised : r.from = d => /\ r.to # c
                                              /\ ~\E s \in raised : s.from = c /\ s.type = r.type /\ s.to = r.to}
    IN {IF r.from = d THEN [r EXCEPT !.from = c] ELSE r : r \in kept}

Turned(rels) == {[r EXCEPT !.from = r.to, !.to = r.from] : r \in rels}

merge_dupe_into_canonical(g, c, d) ==
    [links |-> merge_links(g.links, c, d), rels |-> Turned(merge_from(Turned(merge_from(g.rels, c, d)), c, d))]

\* The aliases come from the rows as they were read.
merged_aliases(l, c, gone) ==
    LET was == lrun[l].was
        members == {c} \cup {d \in gone : lrun[l].to[d] = c}
    IN UNION {was[e].aliases \cup {was[e].name} : e \in members}

merge_cluster(l, gone, links, rels) ==
    LET to == lrun[l].to
        Fold(g, d) == merge_dupe_into_canonical(g, to[d], d)
        graph == FoldLeft(Fold, [links |-> links, rels |-> rels], SetToSeq(gone))
    IN /\ elinks' = graph.links /\ erels' = graph.rels
       /\ eents' = [e \in EntIds |->
                      CASE e \in gone -> [eents[e] EXCEPT !.into = to[e]]
                        [] e \in {to[d] : d \in gone} -> [eents[e] EXCEPT !.aliases = merged_aliases(l, e, gone)]
                        [] OTHER -> eents[e]]

LateLinks(l) == {k \in elinks \ lrun[l].links : k.e \in DOMAIN lrun[l].to}
LateRels(l) == {r \in erels \ lrun[l].rels : {r.from, r.to} \cap DOMAIN lrun[l].to # {}}

\* A duplicate whose merge fails is left alone, and so are the later ones of its cluster.
MergeCommit(l) ==
    /\ lrun[l].pc = "merging"
    /\ \/ \E gone \in SUBSET DOMAIN lrun[l].to :
          \E lostLinks \in SUBSET {k \in LateLinks(l) : k.e \in gone} :
          \E lostRels \in SUBSET {r \in LateRels(l) : {r.from, r.to} \cap gone # {}} :
            /\ IF gone = DOMAIN lrun[l].to \/ elinks # lrun[l].links \/ erels # lrun[l].rels THEN Smooth ELSE Fault
            /\ merge_cluster(l, gone, elinks \ lostLinks, erels \ lostRels)
            /\ LSettle(l, "discover")
       \/ Fault /\ UNCHANGED graphVars /\ LSettle(l, "stopped")
    /\ UNCHANGED <<nscene, nmem, xrun>>

-----------------------------------------------------------------------------
(* Links and relations.                                                    *)

UnderLinked(q) ==
    Newest({m \in MemIds : /\ Live(m) /\ nmem[m].status = "active" /\ nmem[m].vec /\ InFleet(q, nmem[m].fleet)
                           /\ Cardinality({k \in elinks : k.m = m}) < CrossLinkMin}, CrossBatch)

DiscoverCrossLinks(l) ==
    /\ lrun[l].pc = "discover"
    /\ \/ /\ Smooth /\ LGoto(l, "infer")
          /\ \E near \in SUBSET entity_discover_cross_links(UnderLinked(lrun[l].q), lrun[l].q.fleet) :
               elinks' = CrossLinked(elinks, near)
       \/ Fault /\ UNCHANGED elinks /\ LGoto(l, "stopped")
    /\ UNCHANGED <<nscene, nmem, eents, erels, xrun>>

\* How many memories name both.
Cooccur(q, a, b) ==
    Cardinality({m \in MemIds : /\ Live(m) /\ InFleet(q, nmem[m].fleet)
                                /\ [m |-> m, e |-> a] \in {[m |-> k.m, e |-> k.e] : k \in elinks}
                                /\ [m |-> m, e |-> b] \in {[m |-> k.m, e |-> k.e] : k \in elinks}})

Unclamped(w, n) == w + n * Delta1
Reinforced(w, n) == IF w + n * Delta1 > FullWeight THEN FullWeight ELSE w + n * Delta1

\* The limit on the number of pairs (500) is out of the instances' reach.  Either orientation counts as the pair's
\* relation; if both are there one of them is strengthened.
InferRead(q) ==
    LET there == {e \in EntIds : ELive(e) /\ InFleet(q, eents[e].fleet)}
        pairs == {p \in there \X there : p[1] < p[2] /\ Cooccur(q, p[1], p[2]) >= MinCooccurrence}
        Of(p) == {r \in erels : r.type = "related_to" /\ {r.from, r.to} = {p[1], p[2]}}
        Grown(w, p) == Reinforced(w, Cooccur(q, p[1], p[2]))
        old == {(CHOOSE r \in Of(p) : TRUE) : p \in {o \in pairs : Of(o) # {}}}
    IN [grown |-> {[r EXCEPT !.w = Grown(@, IF r.from < r.to THEN <<r.from, r.to>> ELSE <<r.to, r.from>>)] : r \in old},
        new |-> {[from |-> p[1], type |-> "related_to", to |-> p[2], w |-> Grown(0, p)] : p \in {o \in pairs : Of(o) = {}}}]

SameRelation(r, s) == r.from = s.from /\ r.type = s.type /\ r.to = s.to

\* The weights as read and grown are written over whatever the rows have by now; a new relation that is there stays.
InferWrite(rels, plan) ==
    LET Now(r) == {g \in plan.grown : SameRelation(g, r)}
        there == {IF Now(r) = {} THEN r ELSE CHOOSE g \in Now(r) : TRUE : r \in rels}
    IN there \cup {n \in plan.new : ~\E r \in rels : SameRelation(n, r)}

\* One transaction, between whose reads and writes others commit.
entity_infer_relations(l) ==
    /\ \/ /\ lrun[l].pc = "infer" /\ Smooth /\ UNCHANGED erels
          /\ lrun' = [lrun EXCEPT ![l].pc = "inferring", ![l].to = InferRead(lrun[l].q), ![l].rels = erels]
       \/ /\ lrun[l].pc = "inferring" /\ Smooth
          /\ erels' = InferWrite(erels, lrun[l].to)
          /\ LSettle(l, "done")
       \/ lrun[l].pc \in {"infer", "inferring"} /\ Fault /\ UNCHANGED erels /\ LSettle(l, "stopped")
    /\ UNCHANGED <<nscene, nmem, eents, elinks, xrun>>

LinkingInit(sc) ==
    lrun = [l \in DOMAIN sc.lruns |->
              [pc |-> "start", q |-> sc.lruns[l], rows |-> {}, to |-> <<>>, was |-> <<>>, links |-> {}, rels |-> {}]]

LinkingStep ==
    \E l \in DOMAIN lrun :
      \/ entity_link(l) \/ BackfillRead(l) \/ BackfillWrite(l) \/ entity_resolve_duplicates(l) \/ MergeCommit(l)
      \/ DiscoverCrossLinks(l) \/ entity_infer_relations(l)

-----------------------------------------------------------------------------
(* Reading the graph: the entities within a number of hops of the seeds.   *)

\* RELATION_TYPE_WEIGHTS, in tenths.
TypeWeight(type) == IF type = "manages" THEN 10 ELSE 5

relation_weight(r) == TypeWeight(r.type) * r.w

\* Of a frontier that is too large, the entities reached over the heaviest relations.
CappedFrontier(hops, F) ==
    {e \in F : Cardinality({f \in F : hops[f].w > hops[e].w \/ (hops[f].w = hops[e].w /\ f < e)}) < FrontierCap}

JoinsForward(r, F, e) == r.from \in F /\ r.to = e
Joins(r, F, e) == (r.from \in F /\ r.to = e) \/ (r.to \in F /\ r.from = e)

\* One hop, in both directions; an entity keeps the hop and the weight it was first reached with.
Hop(g, n) ==
    LET F == CappedFrontier(g.hops, g.frontier)
        edges == {r \in erels : r.from \in F \/ r.to \in F}
        Into(e) == {r \in edges : Joins(r, F, e)}
        new == {e \in EntIds : Into(e) # {}} \ DOMAIN g.hops
        Best(e) == LET ws == {relation_weight(r) : r \in Into(e)} IN CHOOSE w \in ws : \A v \in ws : v <= w
    IN [hops |-> [e \in DOMAIN g.hops \cup new |-> IF e \in new THEN [hop |-> n, w |-> Best(e)] ELSE g.hops[e]],
        frontier |-> new]

entity_expand_graph(seeds, max) ==
    FoldLeft(Hop, [hops |-> [e \in seeds |-> [hop |-> 0, w |-> 10 * FullWeight]], frontier |-> seeds], [n \in 1 .. max |-> n]).hops

-----------------------------------------------------------------------------
(* Properties.                                                             *)

\* What became of e: itself, or what the merges made of it.
RECURSIVE Final(_, _)
Final(ents, e) == IF ents[e].into = 0 THEN e ELSE Final(ents, ents[e].into)

\* A memory linked to an entity stays linked to it or to what it was merged into, through any number of merges and
\* whatever extraction workers and a nightly run do meanwhile (_entity_merge_dupe_into_canonical repoints the links
\* before it deletes the duplicate).  Left out are links made while the duplicate's merge is uncommitted.
LinksFollowMerges ==
    \A k \in {<<j.m, j.e>> : j \in nscene.links} \cup UNION {xrun[x].stored : x \in DOMAIN xrun} :
        \E j \in elinks : j.m = k[1] /\ j.e = Final(eents, k[2])

\* The relations that become r's after a merge.
ImageKey(r) == <<Final(eents', r.from), r.type, Final(eents', r.to)>>
Becoming(key) == {r \in erels : ImageKey(r) = key}

\* A merge leaves the quotient of the graph: for every pair of different surviving entities and every type the heaviest
\* of the relations between what was merged into them, and none where there was none.  Relations added while the merge
\* was uncommitted are left out.
MergeIsQuotient ==
    [][\A l \in DOMAIN lrun : lrun[l].pc = "merging" /\ lrun'[l].pc = "discover" =>
         \A r \in {s \in erels \cup erels' : ImageKey(s)[1] # ImageKey(s)[3]} :
           LET from == Becoming(ImageKey(r))
           IN from \subseteq lrun[l].rels =>
                {s.w : s \in {t \in erels' : <<t.from, t.type, t.to>> = ImageKey(r)}}
                  = {s.w : s \in {t \in from : \A u \in from : u.w <= t.w}}]_<<erels, eents, lrun>>

\* The other steps of a nightly run never remove a relation, whoever adds or changes one meanwhile, and never weaken
\* one that is as the run read it; no weight goes above the full one (entity_infer_relations reinforces the
\* orientation it finds and clamps).  A weight upserted between its reads and its writes may be overwritten.
InferenceStrengthens ==
    [][\A l \in DOMAIN lrun : lrun'[l] # lrun[l] /\ eents' = eents =>
         /\ \A r \in erels : \E s \in erels' : SameRelation(s, r) /\ (r \in lrun[l].rels \/ lrun[l].pc # "inferring" => s.w >= r.w)
         /\ \A s \in erels' : s.w <= FullWeight]_<<erels, eents, lrun>>

\* Extraction never gives an entity a name with other identifiers than its own ("#0002" and "#0012" stay apart), and
\* never renames one (the first name seen stays).  Entities a nightly merge has touched are left out.
NamesKeepIdentity ==
    \A e \in EntIds : ELive(e) /\ (~\E d \in EntIds : eents[d].into = e) =>
        /\ \A a \in eents[e].aliases : NameTokens[a] = NameTokens[eents[e].name]
        /\ e <= Len(nscene.ents) => eents[e].name = nscene.ents[e].name

\* Both union-find forests find the connected components, for the pairs of the scene in any order.
ClustersAreComponents ==
    \A pairs \in nscene.pairs : build_clusters(pairs) = Components(pairs) /\ entity_clusters(pairs) = Components(pairs)

\* Entities within n undirected hops.
RECURSIVE Within(_, _)
Within(S, n) ==
    IF n = 0 THEN S
    ELSE Within(S \cup {e \in EntIds : \E r \in erels : (r.from \in S /\ r.to = e) \/ (r.to \in S /\ r.from = e)}, n - 1)

\* The graph expansion a search boosts by: below the frontier's cap it reaches exactly the entities within the hops, each
\* at its distance, with the weight of the heaviest relation from the hop before; with the cap it claims no shorter way.
ExpansionExact ==
    \A seeds \in nscene.seeds :
        LET hops == entity_expand_graph(seeds, 2)
            Prev(e) == {f \in DOMAIN hops : hops[f].hop = hops[e].hop - 1}
            Ways(e) == {r \in erels : (r.from \in Prev(e) /\ r.to = e) \/ (r.to \in Prev(e) /\ r.from = e)}
        IN /\ DOMAIN hops \subseteq Within(seeds, 2)
           /\ \A e \in DOMAIN hops : e \in Within(seeds, hops[e].hop)
           /\ Cardinality(DOMAIN hops) <= FrontierCap =>
                /\ DOMAIN hops = Within(seeds, 2)
                /\ \A e \in DOMAIN hops : hops[e].hop > 0 =>
                     /\ e \notin Within(seeds, hops[e].hop - 1)
                     /\ hops[e].w \in {relation_weight(r) : r \in Ways(e)} /\ \A r \in Ways(e) : relation_weight(r) <= hops[e].w

\* No link and no relation names an entity that was merged away, whatever was written while the merge ran.
GraphRefers ==
    /\ \A j \in elinks : j.m \in MemIds /\ ELive(j.e)
    /\ \A r \in erels : ELive(r.from) /\ ELive(r.to)

\* The entities under extraction and nightly merges: memories stay linked to them, and names keep their identity.
EntitiesSound == GraphRefers /\ LinksFollowMerges /\ NamesKeepIdentity

\* The steps of a nightly run on the graph: a merge is a quotient, everything else only strengthens.
GraphStepsSound == MergeIsQuotient /\ InferenceStrengthens

\* The graph algorithms compute what their definitions say: the clusterings, and the expansion of a search.
AlgorithmsExact == ClustersAreComponents /\ ExpansionExact
=============================================================================
