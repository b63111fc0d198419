-------------------------- MODULE EntityExtraction --------------------------
(***************************************************************************)
(* Entities, their links to memories and the relations between them, and    *)
(* the workers that add to them.  An entity's id is its place in eents; one  *)
(* that was merged away names the entity it became in into.  Each item of a  *)
(* bulk call is its own transaction, so a worker's items interleave with     *)
(* other workers and with a merge.  An entity keeps the vector of the last   *)
(* surface form resolved to it; vec is that form.                            *)
(***************************************************************************)
EXTENDS Evolve

CONSTANTS
    NameKey,        \* [name -> its lower-case form, the unique index's key]
    NameTokens,     \* [name -> its digit-bearing tokens]
    Alike,          \* sets of two names whose vectors pass ENTITY_RESOLUTION_THRESHOLD
    BadNames,       \* names _is_valid_entity refuses
    TextNames,      \* [text -> the names it contains]
    NoVec

VARIABLES
    eents,          \* sequence of entities
    elinks,         \* set of memory-entity links
    erels,          \* set of relations
    xrun,           \* workers and requests
    lrun            \* nightly runs, which EntityLinking describes

graphVars == <<eents, elinks, erels>>
entityVars == <<graphVars, xrun, lrun>>

FullWeight == 10        \* weights are tenths

EntIds == 1 .. Len(eents)
ELive(e) == eents[e].into = 0

Close(a, b) == a # NoVec /\ b # NoVec /\ (a = b \/ {a, b} \in Alike)

\* e is being merged away by a transaction that has not committed.
InMerge(e) == \E l \in DOMAIN lrun : lrun[l].pc = "merging" /\ e \in DOMAIN lrun[l].to

-----------------------------------------------------------------------------
(* The tables.                                                             *)

entity_find_exact(type, name, fleet) ==
    {e \in EntIds : ELive(e) /\ eents[e].type = type /\ eents[e].name = name /\ eents[e].fleet = fleet}

\* What an insert collides with: the unique index ignores case.
SameNaturalKey(type, name, fleet) ==
    {e \in EntIds : /\ ELive(e) /\ eents[e].type = type /\ eents[e].fleet = fleet
                    /\ NameKey[eents[e].name] = NameKey[name]}

entity_find_by_embedding_similarity(type, name, fleet) ==
    {e \in EntIds : ELive(e) /\ eents[e].type = type /\ eents[e].fleet = fleet /\ Close(eents[e].vec, name)}

\* For each item the ids it may answer: the exact row, else a close one, else none.
entity_bulk_resolve(x) ==
    [i \in DOMAIN xrun[x].ents |->
       LET n == xrun[x].ents[i]
           exact == entity_find_exact(n.type, n.name, xrun[x].q.fleet)
           close == IF n.name \in xrun[x].vecs
                    THEN entity_find_by_embedding_similarity(n.type, n.name, xrun[x].q.fleet) ELSE {}
       IN IF exact # {} THEN exact ELSE IF close # {} THEN close ELSE {0}]

Reformed(vec, name, vecs) == IF name \in vecs THEN name ELSE vec

\* A write to a row that is gone changes nothing.
entity_update(e, name, aliases, form, vecs) ==
    eents' = IF ELive(e) THEN [eents EXCEPT ![e].name = name, ![e].aliases = aliases, ![e].vec = Reformed(@, form, vecs)]
             ELSE eents

entity_add(type, name, fleet, vecs) ==
    eents' = Append(eents, [name |-> name, type |-> type, fleet |-> fleet, aliases |-> {},
                            vec |-> Reformed(NoVec, name, vecs), into |-> 0])

\* A link that is there keeps its role.
entity_add_link(links, m, e, role) ==
    IF \E k \in links : k.m = m /\ k.e = e THEN links ELSE links \cup {[m |-> m, e |-> e, role |-> role]}

\* The latest weight and evidence win; the key is the two ends and the type.
relation_add(rels, r) ==
    {s \in rels : ~(s.from = r.from /\ s.type = r.type /\ s.to = r.to)} \cup {r}

\* Links of active embedded memories to entities whose name or an alias stands in the text.
entity_discover_cross_links(ms, fleet) ==
    {k \in ms \X EntIds :
       LET m == nmem[k[1]]
           e == eents[k[2]]
       IN /\ ~m.deleted /\ m.status = "active" /\ m.vec /\ (fleet # NoFleet => m.fleet = fleet)
          /\ ELive(k[2]) /\ e.vec # NoVec /\ (fleet # NoFleet => e.fleet = fleet)
          /\ ({e.name} \cup e.aliases) \cap TextNames[m.text] # {}}

CrossLinked(links, new) == links \cup {[m |-> k[1], e |-> k[2], role |-> "mentioned"] :
                                         k \in {n \in new : ~\E o \in links : o.m = n[1] /\ o.e = n[2]}}

-----------------------------------------------------------------------------
(* What the extraction model says of a text.                               *)

Goto(x, pc) == xrun' = [xrun EXCEPT ![x].pc = pc]

Renamed(fold, n) == IF \E s \in fold : s.subject = n THEN (CHOOSE s \in fold : s.subject = n).joined ELSE n

\* A disambiguator the text shows right after its subject is folded back into the subject's name.
reattach_subject_discriminators(g) ==
    LET Has(n, subject) == \E i \in DOMAIN g.ents : g.ents[i].name = n /\ (g.ents[i].role = "subject") = subject
        fold == {s \in g.split : Has(s.subject, TRUE) /\ Has(s.disc, FALSE)}
        Kept(n) == n.role = "subject" \/ ~\E s \in fold : s.disc = n.name
        Subject(n) == IF n.role = "subject" THEN [n EXCEPT !.name = Renamed(fold, @)] ELSE n
        kept == SelectSeq(g.ents, Kept)
    IN [ents |-> [i \in DOMAIN kept |-> Subject(kept[i])],
        rels |-> [i \in DOMAIN g.rels |-> [g.rels[i] EXCEPT !.from = Renamed(fold, @), !.to = Renamed(fold, @)]]]

\* The last resort of the provider chain finds names but no relations.
fake_extract(g) == [g EXCEPT !.rels = <<>>, !.split = {}]

\* Names that are refused, and repetitions of a name, are left out.
is_valid_entity(n) == n.name \notin BadNames
Filtered(ents) ==
    LET valid == SelectSeq(ents, is_valid_entity)
        First(i) == ~\E j \in 1 .. (i - 1) : valid[j].name = valid[i].name
        at == SelectSeq([i \in DOMAIN valid |-> i], First)
    IN [k \in DOMAIN at |-> valid[at[k]]]

\* A name whose vector could not be had is resolved by its spelling only.
extract_entities_from_content(x) ==
    /\ xrun[x].pc = "extract"
    /\ \E g \in {xrun[x].q.graph, fake_extract(xrun[x].q.graph)} :
         LET h == reattach_subject_discriminators(g)
             ents == Filtered(h.ents)
             names == {ents[i].name : i \in DOMAIN ents}
         IN \E vecs \in SUBSET names :
              /\ IF g = xrun[x].q.graph /\ vecs = names THEN Smooth ELSE Fault
              /\ xrun' = [xrun EXCEPT ![x].ents = ents, ![x].rels = h.rels, ![x].vecs = vecs,
                                      ![x].ids = [i \in DOMAIN ents |-> 0],
                                      ![x].pc = CASE h.ents = <<>> -> "done"
                                                  [] h.ents # <<>> /\ ents = <<>> -> "relate"
                                                  [] OTHER -> "resolve"]
    /\ UNCHANGED <<nscene, nmem, graphVars, lrun>>

-----------------------------------------------------------------------------
(* One worker.                                                             *)

SignatureIgnored(a, b) == TRUE
same_identifier_signature(a, b) == NameTokens[a] = NameTokens[b]

\* First seen wins: the row keeps its name and the new form becomes an alias.  Different identifiers do not merge.
MergeItem(n, e) ==
    IF e # 0 /\ same_identifier_signature(n.name, eents[e].name)
    THEN [e |-> e, name |-> eents[e].name, aliases |-> eents[e].aliases \cup {eents[e].name, n.name}]
    ELSE [e |-> 0, name |-> n.name, aliases |-> {}]

\* The storage service takes the updates first.
UpsertOrder(items) ==
    LET all == [i \in DOMAIN items |-> i]
        Known(i) == items[i].e # 0
        New(i) == items[i].e = 0
    IN SelectSeq(all, Known) \o SelectSeq(all, New)

XResolve(x) ==
    LET found == entity_bulk_resolve(x)
    IN /\ xrun[x].pc = "resolve"
       /\ \/ \E match \in [DOMAIN found -> UNION {found[i] : i \in DOMAIN found}] :
               /\ \A i \in DOMAIN found : match[i] \in found[i]
               /\ LET items == [i \in DOMAIN found |-> MergeItem(xrun[x].ents[i], match[i])]
                  IN xrun' = [xrun EXCEPT ![x].items = items, ![x].todo = UpsertOrder(items), ![x].pc = "upsert"]
               /\ Smooth
          \/ Fault /\ Goto(x, "failed")
       /\ UNCHANGED <<nscene, nmem, graphVars, lrun>>

\* An update of a row that is gone is answered "missing" with the row's id, which the worker keeps.
entity_bulk_upsert(x, i) ==
    LET n == xrun[x].ents[i]
        item == xrun[x].items[i]
        q == xrun[x].q
        same == SameNaturalKey(n.type, n.name, q.fleet)
        Known(e) == [xrun EXCEPT ![x].ids[i] = e, ![x].todo = Tail(@)]
    IN \/ /\ item.e # 0 /\ xrun' = Known(item.e)
          /\ entity_update(item.e, item.name, item.aliases, n.name, xrun[x].vecs)
       \/ /\ item.e = 0 /\ same # {}
          /\ \E e \in same : xrun' = Known(e) /\ entity_update(e, eents[e].name, {}, n.name, xrun[x].vecs)
       \/ /\ item.e = 0 /\ same = {}
          /\ xrun' = Known(Len(eents) + 1) /\ entity_add(n.type, n.name, q.fleet, xrun[x].vecs)

XUpsert(x) ==
    /\ xrun[x].pc = "upsert"
    /\ \/ xrun[x].todo # <<>> /\ entity_bulk_upsert(x, Head(xrun[x].todo)) /\ Smooth
       \/ /\ xrun[x].todo = <<>>
          /\ xrun' = [xrun EXCEPT ![x].pc = "link", ![x].todo = [i \in DOMAIN xrun[x].ents |-> i]]
          /\ Smooth /\ UNCHANGED eents
       \/ Fault /\ Goto(x, "failed") /\ UNCHANGED eents
    /\ UNCHANGED <<nscene, nmem, elinks, erels, lrun>>

\* A link to a row that is gone is reported and skipped.  stored: links a merge that commits later has to carry over.
entity_bulk_upsert_links(x, i) ==
    LET m == xrun[x].q.mem
        e == xrun[x].ids[i]
    IN /\ elinks' = IF ELive(e) THEN entity_add_link(elinks, m, e, xrun[x].ents[i].role) ELSE elinks
       /\ xrun' = [xrun EXCEPT ![x].todo = Tail(@),
                               ![x].stored = IF ELive(e) /\ ~InMerge(e) THEN @ \cup {<<m, e>>} ELSE @]

XLink(x) ==
    /\ xrun[x].pc = "link"
    /\ \/ xrun[x].todo # <<>> /\ entity_bulk_upsert_links(x, Head(xrun[x].todo)) /\ Smooth
       \/ xrun[x].todo = <<>> /\ Goto(x, "relate") /\ Smooth /\ UNCHANGED elinks
       \/ Fault /\ Goto(x, "failed") /\ UNCHANGED elinks
    /\ UNCHANGED <<nscene, nmem, eents, erels, lrun>>

IdOf(x, name) ==
    IF \E i \in DOMAIN xrun[x].ents : xrun[x].ents[i].name = name
    THEN xrun[x].ids[CHOOSE i \in DOMAIN xrun[x].ents : xrun[x].ents[i].name = name] ELSE 0

\* A relation both of whose names have an id is upserted; if one of the rows is gone the worker gives up.
XRelate(x) ==
    LET r == Head(xrun[x].rels)
        from == IdOf(x, r.from)
        to == IdOf(x, r.to)
        next == [xrun EXCEPT ![x].rels = Tail(@)]
    IN /\ xrun[x].pc = "relate"
       /\ \/ xrun[x].rels = <<>> /\ Goto(x, "cross") /\ Smooth /\ UNCHANGED erels
          \/ /\ xrun[x].rels # <<>> /\ Smooth
             /\ \/ (from = 0 \/ to = 0) /\ xrun' = next /\ UNCHANGED erels
                \/ from # 0 /\ to # 0 /\ ~(ELive(from) /\ ELive(to)) /\ Goto(x, "failed") /\ UNCHANGED erels
                \/ /\ from # 0 /\ to # 0 /\ ELive(from) /\ ELive(to)
                   /\ erels' = relation_add(erels, [from |-> from, type |-> r.type, to |-> to, w |-> FullWeight])
                   /\ xrun' = next
          \/ Fault /\ Goto(x, "failed") /\ UNCHANGED erels
       /\ UNCHANGED <<nscene, nmem, eents, elinks, lrun>>

\* The vectors decide which of the possible links are close enough.  Failing here is not fatal.
discover_cross_links_for_memory(x) ==
    LET q == xrun[x].q
    IN /\ xrun[x].pc = "cross"
       /\ \/ /\ q.linking /\ Smooth
             /\ \E near \in SUBSET entity_discover_cross_links({q.mem}, q.fleet) : elinks' = CrossLinked(elinks, near)
          \/ ~q.linking /\ Smooth /\ UNCHANGED elinks
          \/ q.linking /\ Fault /\ UNCHANGED elinks
       /\ Goto(x, "done")
       /\ UNCHANGED <<nscene, nmem, eents, erels, lrun>>

-----------------------------------------------------------------------------
(* Requests.  No caller of upsert_entity has a vector for the name.        *)

UFind(x) ==
    LET q == xrun[x].q
        exact == entity_find_exact(q.type, q.name, q.fleet)
    IN /\ xrun[x].pc = "find"
       /\ \/ /\ Smooth
             /\ xrun' = [xrun EXCEPT ![x].pc = "write", ![x].items = <<MergeItem(q, Latest(exact))>>]
          \/ Fault /\ Goto(x, "failed")
       /\ UNCHANGED <<nscene, nmem, graphVars, lrun>>

\* An insert that collides leaves the row it collided with as it is.
upsert_entity(x) ==
    LET q == xrun[x].q
        item == xrun[x].items[1]
    IN /\ xrun[x].pc = "write"
       /\ \/ Smooth /\ item.e # 0 /\ entity_update(item.e, item.name, item.aliases, q.name, {})
          \/ Smooth /\ item.e = 0 /\ SameNaturalKey(q.type, q.name, q.fleet) # {} /\ UNCHANGED eents
          \/ Smooth /\ item.e = 0 /\ SameNaturalKey(q.type, q.name, q.fleet) = {} /\ entity_add(q.type, q.name, q.fleet, {})
          \/ Fault /\ UNCHANGED eents
       /\ Goto(x, "done")
       /\ UNCHANGED <<nscene, nmem, elinks, erels, lrun>>

\* A relation to a row that is gone is refused.
upsert_relation(x) ==
    LET q == xrun[x].q
    IN /\ xrun[x].pc = "relation"
       /\ \/ /\ Smooth /\ ELive(q.from) /\ ELive(q.to)
             /\ erels' = relation_add(erels, [from |-> q.from, type |-> q.type, to |-> q.to, w |-> q.w])
          \/ Smooth /\ ~(ELive(q.from) /\ ELive(q.to)) /\ UNCHANGED erels
          \/ Fault /\ UNCHANGED erels
       /\ Goto(x, "done")
       /\ UNCHANGED <<nscene, nmem, eents, elinks, lrun>>

\* trust 0: an agent that is not registered, which reads what is not private.
memory_access_allowed_for_agent(q, m) ==
    CASE m.vis = "agent" -> m.owner = q.agent
      [] m.vis = "org" -> TRUE
      [] OTHER -> q.trust = 0 \/ m.fleet \in {NoFleet, q.fleet} \/ q.trust >= 2

entity_get_linked_memories(e) == {m \in MemIds : Live(m) /\ \E k \in elinks : k.m = m /\ k.e = e}

get_entity(x) ==
    LET q == xrun[x].q
        seen == {m \in entity_get_linked_memories(q.e) : memory_access_allowed_for_agent(q, nmem[m])}
    IN /\ xrun[x].pc = "read"
       /\ xrun' = [xrun EXCEPT ![x].seen = IF ELive(q.e) THEN seen ELSE {},
                               ![x].pc = IF ELive(q.e) /\ seen # {} THEN "count" ELSE "done"]
       /\ UNCHANGED <<memVars, graphVars, lrun>>

\* The recall counters of the memories that were shown; failing to count is ignored.
increment_recall(x) ==
    /\ xrun[x].pc = "count"
    /\ \/ Smooth /\ nmem' = [m \in MemIds |-> IF m \in xrun[x].seen THEN [nmem[m] EXCEPT !.recalls = @ + 1, !.cold = FALSE]
                                              ELSE nmem[m]]
       \/ Fault /\ UNCHANGED nmem
    /\ Goto(x, "done")
    /\ UNCHANGED <<nscene, graphVars, lrun>>

EntryPc(q) == CASE q.via = "worker" -> "extract" [] q.via = "upsert" -> "find" [] q.via = "relation" -> "relation" [] OTHER -> "read"

ExtractionInit(sc) ==
    /\ eents = sc.ents /\ elinks = sc.links /\ erels \in sc.rels
    /\ xrun = [x \in DOMAIN sc.xruns |->
                 [pc |-> EntryPc(sc.xruns[x]), q |-> sc.xruns[x], ents |-> <<>>, rels |-> <<>>, vecs |-> {},
                  items |-> <<>>, todo |-> <<>>, ids |-> <<>>, stored |-> {}, seen |-> {}]]

ExtractionStep ==
    \E x \in DOMAIN xrun :
      \/ extract_entities_from_content(x) \/ XResolve(x) \/ XUpsert(x) \/ XLink(x) \/ XRelate(x)
      \/ discover_cross_links_for_memory(x) \/ UFind(x) \/ upsert_entity(x) \/ upsert_relation(x)
      \/ get_entity(x) \/ increment_recall(x)
=============================================================================
