-------------------------------- MODULE Skills --------------------------------
(***************************************************************************)
(* The lifecycle of the documents of the "skills" collection of a tenant   *)
(* that has opted in to the skill factory: the operator's inbox            *)
(* (routes/skills_inbox.py), the document routes and the memclaw_doc tool, *)
(* and the Forge tick, which mines candidates and promotes the ones that   *)
(* pass the gates.                                                         *)
(*                                                                         *)
(* Every handler reads the document, works, and writes the WHOLE document  *)
(* back; only the promoter's flip is conditional.  A handler is a slot of  *)
(* Reqs with a program counter at each await.  Consecutive reads whose     *)
(* only use is to refuse are one step, taken at the last of them.          *)
(*                                                                         *)
(* Where core-storage is split into a writer and a reader, reads go to the *)
(* reader, whose replica is an earlier state of the database.              *)
(***************************************************************************)
EXTENDS Forge

CONSTANTS
    Slugs,                \* doc ids; Forge's are forge/<slug>
    Bodies,               \* the bodies, a function on their identities 1..n
    Reqs,                 \* slots for requests under way
    Lake, Answers,        \* the memories Forge mines, and what the model may answer
    Cooloff,              \* days a rejection poisons
    MaxWrites,            \* max_writes_per_run
    Scenes                \* what a behaviour is about, and its bounds

VARIABLES
    docs,      \* the skills collection, on the primary
    poison,    \* forge_rejected_fingerprints
    replica,   \* what the reader service sees of both
    clock,     \* in days
    req, tick, \* the requests and the Forge tick under way
    carried,   \* fingerprints each slug's document has ever carried
    blessed,   \* <<slug, body>> that have been active with a clean scan
    shown,     \* <<slug, body>> an agent or a node has been given
    scene

skillVars == <<docs, poison, replica, clock, req, tick, carried, blessed, shown, scene>>

NoDoc == [status |-> "none"]
Exists(doc) == doc.status # "none"
Whole(doc) == Exists(doc) /\ doc.status = "active" /\ doc.scan.state = "clean"
                   /\ doc.scan.of = doc.body
IdleReq == [pc |-> "idle", op |-> "none", slug |-> "none", snap |-> NoDoc, hash |-> Nil,
            fp |-> NoFp]
IdleTick == [pc |-> "idle", todo |-> <<>>, slug |-> "none", cand |-> NoDoc, rows |-> {},
             began |-> Nil, known |-> {}]

DocFields ==
    {"status", "body", "hash", "scan", "source", "kind", "bound", "target", "fp", "fleet",
     "size", "agents", "windowEnd", "deferred"}
SceneFields ==
    {"ops", "requests", "bodies", "data", "docs", "ticks", "raised", "faults", "days", "split",
     "enabled", "auto", "fleet", "pulls", "foreign"}
Statuses == {"staged", "candidate", "active", "quarantined", "rejected", "stale", "deprecated"}

\* A document, and one the validator or Forge has let in: it holds the hash and the scan of
\* its text, and is a candidate or active only if that scan is clean.
IsDoc(doc) == Exists(doc) => DOMAIN doc = DocFields /\ doc.body \in DOMAIN Bodies
Vetted(doc) ==
    Exists(doc) =>
        /\ doc.hash = Bodies[doc.body].content
        /\ doc.scan = scan_skill_doc(doc.body, Bodies[doc.body])
        /\ doc.status \in {"staged", "candidate", "active", "quarantined", "rejected"}
        /\ doc.status \in {"candidate", "active"} => doc.scan.state = "clean"

\* A behaviour begins with documents the program has stored, none of them rejected yet.
\* The bodies callers and the model send are of Bodies; a status is one of the lifecycle.
SceneOK(sc) ==
    /\ DOMAIN sc = SceneFields
    /\ \A data \in sc.data : data.body \in DOMAIN Bodies /\ data.status \in Statuses \cup {Unset}

ASSUME SkillsAssumption ==
    /\ Cooloff \in Nat
    /\ \A answer \in Answers : answer.slug \in Slugs /\ answer.body \in DOMAIN Bodies
    /\ \A sc \in Scenes :
          /\ SceneOK(sc) /\ DOMAIN sc.docs = Slugs
          /\ \A s \in Slugs : /\ IsDoc(sc.docs[s]) /\ sc.docs[s].status # "rejected"
                              /\ sc.enabled => Vetted(sc.docs[s])

SkillsInit ==
    /\ scene \in Scenes
    /\ docs = scene.docs /\ poison = {} /\ clock = 1
    /\ replica = [docs |-> docs, poison |-> poison]
    /\ req = [r \in Reqs |-> IdleReq] /\ tick = IdleTick
    /\ carried = [s \in Slugs |-> IF Exists(docs[s]) THEN {docs[s].fp} \ {NoFp} ELSE {}]
    /\ shown = {}
    /\ blessed = {<<s, docs[s].body>> : s \in {t \in Slugs : Whole(docs[t])}}

\* The database a read=True call reaches.
Read == IF scene.split THEN replica ELSE [docs |-> docs, poison |-> poison]

get_document(s) == Read.docs[s]

CatchUp ==
    /\ scene.split /\ replica # [docs |-> docs, poison |-> poison]
    /\ replica' = [docs |-> docs, poison |-> poison]
    /\ UNCHANGED <<docs, poison, clock, req, tick, carried, blessed, shown, scene>>

DayPasses ==
    /\ clock < scene.days /\ clock' = clock + 1
    /\ UNCHANGED <<docs, poison, replica, req, tick, carried, blessed, shown, scene>>

-----------------------------------------------------------------------------
(* Storage.                                                                *)

\* The whole document is replaced.
document_upsert(s, doc) ==
    /\ docs' = [docs EXCEPT ![s] = doc]
    /\ carried' = [carried EXCEPT ![s] = @ \cup ({doc.fp} \ {NoFp})]
    /\ blessed' = IF Whole(doc) THEN blessed \cup {<<s, doc.body>>} ELSE blessed

document_delete_by_doc_id(s, requireStatus) ==
    /\ Exists(docs[s]) /\ (requireStatus # Unset => docs[s].status = requireStatus)
    /\ docs' = [docs EXCEPT ![s] = NoDoc]
    /\ UNCHANGED <<carried, blessed>>

\* Compare and set on the status; a miss leaves the row alone.
document_update_status(s, new, expected) ==
    IF docs[s].status = expected THEN document_upsert(s, [docs[s] EXCEPT !.status = new])
    ELSE UNCHANGED <<docs, carried, blessed>>

forge_write_rejected_fingerprint(fp, fleet) ==
    poison' = poison \cup {[fp |-> fp, fleet |-> fleet, until |-> clock + Cooloff]}

Covers(row, fp, fleet) ==
    row.fp = fp /\ (row.fleet = Nil \/ fleet = Nil \/ row.fleet = fleet) /\ row.until > clock

forge_is_fingerprint_poisoned(rows, fp, fleet) == \E row \in rows : Covers(row, fp, fleet)

\* An empty fingerprint or a cooloff below a day is refused before the write.
write_rejected_fingerprint(fp, fleet) ==
    fp # NoFp /\ Cooloff >= 1 /\ forge_write_rejected_fingerprint(fp, fleet)

\* Mutant: only the rejections of the whole tenant count.
PoisonedTenantWide(fp, fleet) ==
    forge_is_fingerprint_poisoned({row \in Read.poison : row.fleet = Nil}, fp, fleet)

\* The client sends it to the reader.
is_fingerprint_poisoned(fp, fleet) == forge_is_fingerprint_poisoned(Read.poison, fp, fleet)

-----------------------------------------------------------------------------
(* The inbox.                                                              *)

Go(r, fields) == req' = [req EXCEPT ![r] = fields]
Done(r) == Go(r, IdleReq)
World == UNCHANGED <<replica, clock, tick, shown>>
Stored == UNCHANGED <<docs, carried, blessed>>

\* The slots are alike: the first idle one is taken.
Opens(r, op) ==
    /\ req[r].pc = "idle" /\ \A q \in Reqs : q < r => req[q].pc # "idle"
    /\ op \in scene.ops /\ scene.requests > 0
    /\ scene' = [scene EXCEPT !.requests = @ - 1]

At(r, op, pc) == req[r].op = op /\ req[r].pc = pc /\ UNCHANGED scene

Allowed == [approve |-> {"staged"}, reject |-> {"staged", "candidate", "quarantined"},
            quarantine |-> {"staged", "candidate"}, defer |-> {"staged"}, edit |-> {"staged"}]

_reload_and_assert_status(op, s) == get_document(s).status \in Allowed[op]

\* The reads of a handler up to the first whose answer it keeps.
Loads(r, op, s) ==
    /\ Opens(r, op) /\ scene.enabled /\ _reload_and_assert_status(op, s)
    /\ Go(r, [pc |-> "loaded", op |-> op, slug |-> s, snap |-> get_document(s),
              hash |-> get_document(s).hash, fp |-> get_document(s).fp])
    /\ Stored /\ World /\ UNCHANGED poison

\* Without a hash the later comparison would say nothing: refused.
ApproveLoads(r, s) == Loads(r, "approve", s) /\ get_document(s).hash # Nil
RejectLoads(r, s) == Loads(r, "reject", s) /\ get_document(s).fp # NoFp
QuarantineLoads(r, s) == Loads(r, "quarantine", s)
DeferLoads(r, s) == Loads(r, "defer", s)
EditLoads(r, s) == Loads(r, "edit", s)

\* The last step of every handler: the document it holds, with the new status, is upserted.
_persist_status_transition(r, status) ==
    /\ document_upsert(req[r].slug, [req[r].snap EXCEPT !.status = status])
    /\ Done(r) /\ World /\ UNCHANGED poison

\* Mutant: the text of the earlier load is what is scanned.
ApproveScansSnapshot(r) ==
    /\ At(r, "approve", "loaded")
    /\ LET doc == get_document(req[r].slug)
           scan == scan_skill_doc(req[r].snap.body, Bodies[req[r].snap.body])
           fresh == _reload_and_assert_status("approve", req[r].slug) /\ doc.hash = req[r].hash
       IN  IF fresh /\ scan.state = "clean" /\ ~any_fatal(scan)
           THEN Go(r, [req[r] EXCEPT !.pc = "write",
                                     !.snap = [doc EXCEPT !.scan = scan, !.deferred = FALSE]])
           ELSE Done(r)
    /\ Stored /\ World /\ UNCHANGED poison

\* The third reload: the hash must not have moved, and it is this document that is scanned.
ApproveScans(r) ==
    /\ At(r, "approve", "loaded")
    /\ LET doc == get_document(req[r].slug)
           scan == scan_skill_doc(doc.body, Bodies[doc.body])
           fresh == _reload_and_assert_status("approve", req[r].slug) /\ doc.hash = req[r].hash
       IN  IF fresh /\ scan.state = "clean" /\ ~any_fatal(scan)
           THEN Go(r, [req[r] EXCEPT !.pc = "write",
                                     !.snap = [doc EXCEPT !.scan = scan, !.deferred = FALSE]])
           ELSE Done(r)
    /\ Stored /\ World /\ UNCHANGED poison

approve(r) == At(r, "approve", "write") /\ _persist_status_transition(r, "active")

\* The fingerprint is kept from the reload before; the document and its fleet are this one's.
RejectReloads(r) ==
    /\ At(r, "reject", "loaded")
    /\ IF _reload_and_assert_status("reject", req[r].slug)
       THEN Go(r, [req[r] EXCEPT !.pc = "poison", !.snap = get_document(req[r].slug)])
       ELSE Done(r)
    /\ Stored /\ World /\ UNCHANGED poison

\* Mutant: a poison write that fails does not stop the reject.
PoisonBestEffort(r) ==
    /\ At(r, "reject", "poison")
    /\ write_rejected_fingerprint(req[r].fp, req[r].snap.fleet) \/ UNCHANGED poison
    /\ Go(r, [req[r] EXCEPT !.pc = "write"])
    /\ Stored /\ World

RejectPoisons(r) ==
    /\ At(r, "reject", "poison")
    /\ write_rejected_fingerprint(req[r].fp, req[r].snap.fleet)
    /\ Go(r, [req[r] EXCEPT !.pc = "write"])
    /\ Stored /\ World

reject(r) == At(r, "reject", "write") /\ _persist_status_transition(r, "rejected")

quarantine(r) == At(r, "quarantine", "loaded") /\ _persist_status_transition(r, "quarantined")

defer(r) ==
    /\ At(r, "defer", "loaded")
    /\ document_upsert(req[r].slug, [req[r].snap EXCEPT !.deferred = TRUE])
    /\ Done(r) /\ World /\ UNCHANGED poison

\* The hash of the live document a kind="update" names, as the reader has it.
LiveHash(s) == IF Exists(get_document(s)) THEN get_document(s).hash ELSE Nil

\* The edited text is validated with the reserved fields put aside and restored.
EditValidates(r, body) ==
    /\ At(r, "edit", "loaded") /\ body \in scene.bodies
    /\ LET old == req[r].snap
           verdict == validate_and_normalize_skill_write(
                        [status |-> Unset, source |-> old.source, kind |-> old.kind,
                         bound |-> old.bound, body |-> body],
                        [admin |-> TRUE, forge |-> FALSE, edit |-> TRUE], Bodies,
                        LiveHash(old.target))
       IN  IF verdict.code = 200
           THEN Go(r, [req[r] EXCEPT !.pc = "checked",
                         !.snap = [old EXCEPT !.body = body, !.hash = verdict.hash,
                                     !.scan = verdict.scan, !.status = verdict.status,
                                     !.deferred = FALSE]])
           ELSE Done(r)
    /\ Stored /\ World /\ UNCHANGED poison

\* The second reload only refuses, and gives the fleet: the text is the first one's.
EditReloads(r) ==
    /\ At(r, "edit", "checked")
    /\ IF _reload_and_assert_status("edit", req[r].slug)
       THEN Go(r, [req[r] EXCEPT !.pc = "write", !.snap.fleet = get_document(req[r].slug).fleet])
       ELSE Done(r)
    /\ Stored /\ World /\ UNCHANGED poison

edit(r) == At(r, "edit", "write") /\ _persist_status_transition(r, req[r].snap.status)

\* Any await of a handler may raise, and its process may die.
Raises(r) ==
    /\ req[r].pc # "idle" /\ scene.faults > 0
    /\ scene' = [scene EXCEPT !.faults = @ - 1]
    /\ Done(r) /\ Stored /\ World /\ UNCHANGED poison

-----------------------------------------------------------------------------
(* The document routes and the memclaw_doc tool, on the skills collection. *)

NoScan == [state |-> "none", fatal |-> FALSE, of |-> Nil]

\* What a caller's write stores: it replaces the document, so nothing of Forge's is kept.
Fresh(data, fleet, status, hash, scan) ==
    [status |-> status, body |-> data.body, hash |-> hash, scan |-> scan, source |-> data.source,
     kind |-> data.kind, bound |-> data.bound, target |-> data.target, fp |-> NoFp,
     fleet |-> fleet, size |-> 0, agents |-> 0, windowEnd |-> 0, deferred |-> FALSE]

\* What the write becomes.  Of a tenant that has not opted in, it is stored as it came.
Checked(s, data, admin, fleet) ==
    LET verdict == validate_and_normalize_skill_write(
                     data, [admin |-> admin, forge |-> FALSE, edit |-> FALSE], Bodies, LiveHash(s))
    IN  IF ~scene.enabled THEN {Fresh(data, fleet, data.status, Nil, NoScan)}
        ELSE IF verdict.code # 200 THEN {}
        ELSE {Fresh(data, fleet, verdict.status, verdict.hash, verdict.scan)}

Embeds(r, op, s, doc) ==
    /\ Go(r, [pc |-> "embed", op |-> op, slug |-> s, snap |-> doc, hash |-> Nil, fp |-> NoFp])
    /\ Stored /\ World /\ UNCHANGED poison

\* The REST route: an administrator or an agent.  Settings that cannot be read refuse.
UpsertValidates(r, s, data, admin) ==
    LET op == IF admin THEN "admin_write" ELSE "agent_write"
    IN  Opens(r, op) /\ \E doc \in Checked(s, data, admin, Nil) : Embeds(r, op, s, doc)

\* op=write of the tool: nobody is an administrator there.
McpWriteValidates(r, s, data) ==
    Opens(r, "mcp_write") /\ \E doc \in Checked(s, data, FALSE, Nil) : Embeds(r, "mcp_write", s, doc)

\* Once the text is embedded.
upsert_document(r) ==
    /\ req[r].op \in {"admin_write", "agent_write"} /\ At(r, req[r].op, "embed")
    /\ document_upsert(req[r].slug, req[r].snap)
    /\ Done(r) /\ World /\ UNCHANGED poison

\* The tool puts a document without a fleet into the agent's home fleet.
McpWrites(r) ==
    /\ At(r, "mcp_write", "embed")
    /\ document_upsert(req[r].slug, [req[r].snap EXCEPT !.fleet = scene.fleet])
    /\ Done(r) /\ World /\ UNCHANGED poison

delete_document(r, s) ==
    /\ Opens(r, "delete") /\ document_delete_by_doc_id(s, Unset)
    /\ World /\ UNCHANGED <<req, poison>>

\* The tool deletes only what an agent may see; the check is in the statement.
McpDeletes(r, s) ==
    /\ Opens(r, "mcp_delete")
    /\ document_delete_by_doc_id(s, IF scene.enabled THEN "active" ELSE Unset)
    /\ World /\ UNCHANGED <<req, poison>>

\* The flag as a read of the tool takes it: an outage of the settings counts as opted in.
_skills_factory_enabled(outage) == outage \/ scene.enabled

\* Mutant: what an operator has not refused is shown.
HiddenOnceRefused(doc, optedIn) == doc.status \in {"rejected", "quarantined"} /\ optedIn

_skill_hidden_from_agent(doc, optedIn) == doc.status # "active" /\ optedIn

Shows(rows) ==
    /\ "read" \in scene.ops
    /\ shown' = shown \cup {<<s, get_document(s).body>> : s \in rows} /\ shown' # shown
    /\ Stored /\ UNCHANGED <<poison, replica, clock, req, tick, scene>>

McpReads(s, outage) ==
    /\ Exists(get_document(s))
    /\ ~_skill_hidden_from_agent(get_document(s), _skills_factory_enabled(outage))
    /\ Shows({s})

\* To ask for another status than active is refused to a tenant that opted in, and while
\* the settings cannot be read; asking for none means active.
McpQueries(asked, outage) ==
    LET optedIn == _skills_factory_enabled(outage)
        where == IF asked \in {Unset, "active"} /\ optedIn THEN "active" ELSE asked
    IN  /\ asked \in {Unset, "active"} \/ (~outage /\ ~scene.enabled)
        /\ Shows({s \in Slugs : /\ Exists(get_document(s))
                                /\ where # Unset => get_document(s).status = where})

\* A search of the collection filters in the statement; one of every collection, afterwards.
McpSearches(s, scoped, outage) ==
    LET optedIn == _skills_factory_enabled(outage)
    IN  /\ Exists(get_document(s))
        /\ scoped /\ optedIn => get_document(s).status = "active"
        /\ ~_skill_hidden_from_agent(get_document(s), optedIn)
        /\ Shows({s})

-----------------------------------------------------------------------------
(* The Forge tick: mine, write candidates, then promote.                   *)

Tick(fields) == tick' = fields
Outside == UNCHANGED <<poison, replica, clock, req, shown>>

Window == [from |-> IF clock > FreshnessWindow THEN clock - FreshnessWindow ELSE 0, to |-> clock]

\* A cluster as the rest of the tick needs it.
Mined(clusters) ==
    [i \in DOMAIN clusters |-> [size |-> Cardinality(clusters[i].traces),
                                agents |-> Cardinality(Agents(clusters[i])),
                                ents |-> clusters[i].ents]]

run_forge_distill(raised) ==
    LET traces == build_session_traces(Lake, Window, raised)
        clusters == _cluster_by_entity_overlap(Labelled(traces))
    IN  First(Mined(_gate_clusters(clusters)), MaxWrites)

run_forge_cron_tick(raised) ==
    /\ tick.pc = "idle" /\ scene.ticks > 0 /\ scene.enabled
    /\ scene' = [scene EXCEPT !.ticks = @ - 1]
    /\ Tick([IdleTick EXCEPT !.pc = "distill", !.todo = run_forge_distill(raised), !.began = clock,
                             !.known = poison])
    /\ Stored /\ Outside

\* The next cluster.  It is skipped when the model's answer does not parse or is not a
\* create, when its fingerprint is poisoned, when the check raises, on a fatal finding.
_distill_cluster(answer, raises) ==
    /\ tick.pc = "distill" /\ tick.todo # <<>> /\ UNCHANGED scene
    /\ LET cluster == Head(tick.todo)
           fp == compute_fingerprint(answer, cluster.ents)
           scan == scan_skill_doc(answer.body, Bodies[answer.body])
           doc == [status |-> IF scan.state = "quarantined" THEN "quarantined" ELSE "candidate",
                   body |-> answer.body, hash |-> Bodies[answer.body].content, scan |-> scan,
                   source |-> "forge", kind |-> answer.kind, bound |-> Nil,
                   target |-> answer.slug, fp |-> fp, fleet |-> scene.fleet,
                   size |-> cluster.size, agents |-> cluster.agents,
                   windowEnd |-> tick.began, deferred |-> FALSE]
       IN  IF /\ parse_distill_response(answer) /\ answer.kind = "create" /\ ~raises
              /\ ~is_fingerprint_poisoned(fp, scene.fleet) /\ ~any_fatal(scan)
           THEN Tick([tick EXCEPT !.pc = "status", !.slug = answer.slug, !.cand = doc])
           ELSE Tick([tick EXCEPT !.todo = Tail(@)])
    /\ Stored /\ Outside

NextOf(pc) == [tick EXCEPT !.pc = pc, !.slug = "none", !.cand = NoDoc]

\* A document past candidate is an operator's: leave it.
StatusChecks(raises) ==
    /\ tick.pc = "status" /\ UNCHANGED scene
    /\ Tick(IF raises \/ get_document(tick.slug).status \notin {"none", "candidate"}
            THEN [NextOf("distill") EXCEPT !.todo = Tail(@)]
            ELSE [tick EXCEPT !.pc = "write"])
    /\ Stored /\ Outside

CandidateWrites(raises) ==
    /\ tick.pc = "write" /\ UNCHANGED scene
    /\ IF raises THEN Stored ELSE document_upsert(tick.slug, tick.cand)
    /\ Tick([NextOf("distill") EXCEPT !.todo = Tail(@)])
    /\ Outside

\* The promoter's query: candidates of Forge, in the tick's fleet if it has one.
PromoterQueries ==
    /\ tick.pc = "distill" /\ tick.todo = <<>> /\ UNCHANGED scene
    /\ Tick([tick EXCEPT !.pc = "gates",
               !.rows = {<<s, get_document(s)>> : s \in {t \in Slugs :
                            /\ get_document(t).status = "candidate" /\ get_document(t).source = "forge"
                            /\ scene.fleet \in {Nil, get_document(t).fleet}}}])
    /\ Stored /\ Outside

\* The poison check is for the row's own fleet; the day is the tick's.
PromoterGates(row, raises) ==
    /\ tick.pc = "gates" /\ row \in tick.rows /\ UNCHANGED scene
    /\ LET doc == row[2]
           poisoned == IF raises THEN "error"
                       ELSE IF is_fingerprint_poisoned(doc.fp, doc.fleet) THEN "yes" ELSE "no"
       IN  Tick(IF evaluate_auto_gates(doc, tick.began, poisoned, LiveHash(doc.target))
                THEN [tick EXCEPT !.pc = "flip", !.slug = row[1], !.cand = doc]
                ELSE [tick EXCEPT !.rows = @ \ {row}])
    /\ Stored /\ Outside

PromoterFlips(raises) ==
    /\ tick.pc = "flip" /\ UNCHANGED scene
    /\ IF raises THEN Stored
       ELSE document_update_status(tick.slug,
              IF scene.auto /\ _scan_is_clean(tick.cand) THEN "active" ELSE "staged", "candidate")
    /\ Tick([NextOf("gates") EXCEPT !.rows = @ \ {<<tick.slug, tick.cand>>}])
    /\ Outside

\* The tick ends, or its process dies at any point of it.
TickEnds ==
    /\ \/ tick.pc = "gates" /\ tick.rows = {} /\ UNCHANGED scene
       \/ tick.pc # "idle" /\ scene.faults > 0 /\ scene' = [scene EXCEPT !.faults = @ - 1]
    /\ Tick(IdleTick) /\ Stored /\ Outside

-----------------------------------------------------------------------------

Raising == IF scene.faults > 0 THEN BOOLEAN ELSE {FALSE}

InboxStep(r) ==
    \/ ApproveScans(r) \/ approve(r)
    \/ RejectReloads(r) \/ RejectPoisons(r) \/ reject(r)
    \/ quarantine(r) \/ defer(r)
    \/ \E b \in DOMAIN Bodies : EditValidates(r, b)
    \/ EditReloads(r) \/ edit(r)
    \/ upsert_document(r) \/ McpWrites(r)

TickStep ==
    \/ \E a \in Answers, x \in Raising : _distill_cluster(a, x)
    \/ \E x \in Raising : StatusChecks(x) \/ CandidateWrites(x) \/ PromoterFlips(x)
    \/ PromoterQueries
    \/ \E row \in tick.rows, x \in Raising : PromoterGates(row, x)
    \/ TickEnds

Arrives ==
    \/ \E r \in Reqs, s \in Slugs :
         \/ ApproveLoads(r, s) \/ RejectLoads(r, s) \/ QuarantineLoads(r, s)
         \/ DeferLoads(r, s) \/ EditLoads(r, s)
         \/ \E data \in scene.data : \/ \E admin \in BOOLEAN : UpsertValidates(r, s, data, admin)
                                    \/ McpWriteValidates(r, s, data)
         \/ delete_document(r, s) \/ McpDeletes(r, s)
    \/ \E s \in Slugs, outage \in BOOLEAN :
         McpReads(s, outage) \/ \E scoped \in BOOLEAN : McpSearches(s, scoped, outage)
    \/ \E asked \in {Unset, "active", "staged"}, outage \in BOOLEAN : McpQueries(asked, outage)
    \/ \E raised \in scene.raised : run_forge_cron_tick(raised)

SkillsNext ==
    \/ Arrives \/ TickStep \/ CatchUp \/ DayPasses
    \/ \E r \in Reqs : InboxStep(r) \/ Raises(r)

SkillsSpec == SkillsInit /\ [][SkillsNext]_skillVars

-----------------------------------------------------------------------------
(* What the inbox, the tool and Forge promise.                             *)

\* The documents of a tenant that has opted in keep their shape: a status of the lifecycle,
\* a body and its content hash.
SkillsTypeOK ==
    /\ clock \in Nat /\ blessed \cup shown \subseteq Slugs \X DOMAIN Bodies
    /\ scene.enabled => \A s \in Slugs : Exists(docs[s]) =>
          /\ docs[s].status \in {"staged", "candidate", "active", "quarantined", "rejected"}
          /\ docs[s].body \in DOMAIN Bodies /\ docs[s].hash = Bodies[docs[s].body].content

\* Of a tenant that has opted in, an active skill carries a clean scan, and it is the scan
\* of the very text the document holds: whatever edits, approvals, promotions and writes
\* overlap, no verdict is stamped on text it was not reached on
\* (skills_inbox.py, "the data.scan payload we persist is computed against the bytes we're
\* about to crystallize").
ActiveScanned ==
    /\ SkillsTypeOK
    /\ scene.enabled => \A s \in Slugs : docs[s].status = "active" => Whole(docs[s])

\* A rejected document is never without its poison row: the row is written first, for the
\* document's fleet, and names a fingerprint this document has carried.  A reject that
\* fails half way leaves the row, never the status alone.
RejectedPoisoned ==
    scene.enabled => \A s \in Slugs : docs[s].status = "rejected" =>
        \E row \in poison : row.fleet = docs[s].fleet /\ row.fp \in carried[s]

TickHonours ==
    /\ tick.pc \in {"write", "flip"} /\ docs'[tick.slug] # docs[tick.slug]
    /\ tick' # tick /\ tick'.pc # "idle"
    /\ tick.pc = "flip" => docs[tick.slug] = tick.cand
    => ~\E row \in tick.known : Covers(row, tick.cand.fp, tick.cand.fleet)

\* A rejection that was in the table when a tick began holds during the tick: while it is
\* in force, the tick neither writes a candidate of that fingerprint nor promotes the one
\* it queried (poison.py, evaluate_auto_gates G4).  One storage service: no replica.
RejectionHonoured == [][~scene.split => TickHonours]_skillVars

\* A rejection is on record before the document says so, and Forge keeps to it.
RejectionHolds == []RejectedPoisoned /\ RejectionHonoured

\* What an agent is shown, and what a node installs, has been an approved text: a document
\* of the collection that was active with a clean scan of that text.
ShownBlessed == scene.enabled => shown \subseteq blessed
=============================================================================
