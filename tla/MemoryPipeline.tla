--------------------------- MODULE MemoryPipeline ---------------------------
(***************************************************************************)
(* The deferred write path of one memory: core-api stores the row and       *)
(* publishes EMBED_REQUESTED and ENRICH_REQUESTED, core-worker computes the *)
(* embedding and the enrichment and PATCHes them onto the row, and the      *)
(* EMBEDDED / ENRICHED back-channel brings core-api back for governance and *)
(* for contradiction detection (Path A).  Meanwhile a user may edit or      *)
(* delete the row, and the bus delivers every message at least once.        *)
(*                                                                          *)
(* A request is delivered in up to Copies concurrent copies (a delivery     *)
(* whose ack is late or lost is delivered again while the first one may     *)
(* still be running) and each copy is retried before it goes to *)
(* the dead-letter topic.  Copy c of a request publishes back-channel       *)
(* message c.  Handlers touch only their own memory, so one row suffices.   *)
(***************************************************************************)
EXTENDS Naturals, FiniteSets

CONSTANTS Copies,   \* deliveries of one request that may overlap, at most
          Envs      \* what users, the bus and Redis may do in a run

\* copies: concurrent deliveries of one request; repeated: the requests that
\* may be delivered more than once; tries: failed attempts of one delivery
\* before the DLQ; losses: how many messages or detections may be lost;
\* contents: how many versions of the content users write; policies, modes:
\* what the tenant's settings and the request may say; redisFails: may the
\* idempotency lock fail open?; lockExpires: does the run outlast its TTL?
ASSUME BoundsAssumption ==
  /\ Copies \in Nat \ {0}
  /\ \A e \in Envs :
       /\ e.copies \in 1..Copies /\ e.repeated \subseteq {"embed", "enrich"}
       /\ e.tries \in Nat /\ e.losses \in Nat /\ e.contents \in Nat \ {0}
       /\ e.policies \subseteq {"off", "drop", "flag", "private"}
       /\ e.modes \subseteq {"fast", "strong"}
       /\ e.redisFails \in BOOLEAN /\ e.lockExpires \in BOOLEAN

VARIABLES row,       \* the memories row
          job,       \* job[topic][copy]: one delivery and its handler's progress
          config,    \* what the request and the tenant's settings fixed
          locked,    \* the Redis key contradiction:path_a:<id>
          ghost      \* what happened, for the properties
vars == <<row, job, config, locked, ghost>>

Requests == {"embed", "enrich"}          \* Topics.Memory.*_REQUESTED
BackChannel == {"embedded", "enriched"}  \* Topics.Memory.EMBEDDED, ENRICHED
Topics == Requests \cup BackChannel \cup {"direct"}  \* direct: an in-process task
Slots == 1..Copies
InUse == 1..config.env.copies

NoVector == 0
Versions == UNION {1..e.contents : e \in Envs}
Signals == {"unset", "yes", "no"}
Rows == [live : BOOLEAN, content : Versions, emb : Versions \cup {NoVector},
         embPending : BOOLEAN, enrPending : BOOLEAN,
         col : {"default", "agent", "llm", "heur", "user"},
         pii : Signals, dated : BOOLEAN, private : BOOLEAN]

\* EnrichmentResult: what the LLM said, or the keyword heuristic (llm_ms = 0).
Results == [kind : {"llm"}, pii : {"yes", "no"}, dated : BOOLEAN]
             \cup {[kind |-> "heur", pii |-> "no", dated |-> FALSE]}

Stages == {"none", "queued", "computed", "patched", "loaded", "audited",
           "cleared", "done", "dead"}
\* snap: what a back-channel handler keeps of the row it loaded, while it works.
Snaps == [live : BOOLEAN, content : Versions, emb : Versions \cup {NoVector}, pii : Signals]
Seen(r) == [live |-> r.live, content |-> r.content, emb |-> r.emb, pii |-> r.pii]
Job(st, ver) == [st |-> st, ver |-> ver, tries |-> 0, snap |-> {}]
NoJob == Job("none", NoVector)
Busy(t, c) == job[t][c].st \notin {"none", "done", "dead"}
Quiet == \A t \in Topics, c \in Slots : ~Busy(t, c)

Snap(t, c) == CHOOSE r \in job[t][c].snap : TRUE

Stage(t, c, st) == job' = [job EXCEPT ![t][c].st = st]
Finish(t, c) == job' = [job EXCEPT ![t][c].st = "done", ![t][c].snap = {}]
Lost(what) ==
  /\ Cardinality(ghost.lost \cup {what}) <= config.env.losses
  /\ ghost' = [ghost EXCEPT !.lost = @ \cup {what}]

-----------------------------------------------------------------------------
(* The write: WriteMemoryRow and ScheduleBackgroundTasks.                    *)

\* The column an agent may set and the enricher would otherwise fill
\* (memory_type, weight, status): MergeEnrichmentFields.
FirstColumn(cfg, res) ==
  IF cfg.agentSet THEN "agent" ELSE IF cfg.mode = "strong" THEN res.kind ELSE "default"

\* ParallelEmbedEnrich: strong mode embeds and enriches inline (the embedding
\* may come back None), fast mode in this deployment defers both.
FirstRow(cfg, res, emb) ==
  [live |-> TRUE, content |-> 1, emb |-> emb, embPending |-> emb = NoVector,
   enrPending |-> cfg.mode = "fast", col |-> FirstColumn(cfg, res),
   pii |-> IF res.pii = "yes" THEN "yes" ELSE "unset", dated |-> res.dated,
   private |-> res.pii = "yes" /\ cfg.policy = "private"]

\* GovernanceDecision (strong mode only): a row the tenant's policy drops is
\* refused before it is stored.
Refused(cfg, res) == res.pii = "yes" /\ cfg.policy = "drop"

\* Which background tasks the write schedules: enrichment in fast mode when the
\* tenant enables it, the embed request when there is no vector, Path A when
\* there is one.
Scheduled(cfg, emb) ==
  [t \in Topics |-> [c \in Slots |->
     IF c = 1 /\ \/ t = "enrich" /\ cfg.mode = "fast" /\ cfg.enrichEnabled
                 \/ t = "embed" /\ emb = NoVector
                 \/ t = "direct" /\ emb # NoVector
       THEN Job("queued", 1) ELSE NoJob]]

Configs == UNION {[mode : e.modes, agentSet : BOOLEAN, enrichEnabled : BOOLEAN,
                   policy : e.policies, env : {e}] : e \in Envs}

Init ==
  /\ config \in Configs
  /\ \E res \in Results,
        emb \in IF config.mode = "strong" THEN {NoVector, 1} ELSE {NoVector} :
       /\ config.mode = "fast" => res.kind = "heur"
       /\ ~Refused(config, res)
       /\ row = FirstRow(config, res, emb)
       /\ job = Scheduled(config, emb)
       /\ ghost = [verdict |-> [pii |-> row.pii, dated |-> row.dated],
                   audited |-> res.pii = "yes" /\ config.policy # "off",
                   dropped |-> FALSE, lost |-> {},
                   checked |-> {}, blind |-> FALSE, runs |-> 0]
  /\ locked = FALSE

-----------------------------------------------------------------------------
(* The bus: at-least-once delivery.                                          *)

\* A publish that fails in the background task of the write: tracked_task logs
\* it and the request is never sent.
PublishLost(t) ==
  /\ job[t][1].st = "queued" /\ job[t][1].tries = 0
  /\ Stage(t, 1, "dead") /\ Lost(t)
  /\ UNCHANGED <<row, config, locked>>

\* The first delivery is not acknowledged in time: the bus delivers another
\* copy, whether or not the first handler is still running.
Redeliver(t, c) ==
  /\ t \in config.env.repeated /\ c + 1 \in InUse
  /\ job[t][c].st \notin {"none", "queued", "dead"}
  /\ job[t][c + 1].st = "none"
  /\ job' = [job EXCEPT ![t][c + 1] = Job("queued", job[t][c].ver)]
  /\ UNCHANGED <<row, config, locked, ghost>>

\* A handler raises (storage 5xx, provider error) or its process dies: the
\* delivery goes back to the queue, or to the dead-letter topic.
NackEffect(t, c) ==
  IF job[t][c].tries < config.env.tries
    THEN /\ job' = [job EXCEPT ![t][c].st = "queued", ![t][c].snap = {},
                               ![t][c].tries = @ + 1]
         /\ UNCHANGED ghost
    ELSE Stage(t, c, "dead") /\ Lost(t)

Nack(t, c) ==
  /\ Busy(t, c)
  /\ NackEffect(t, c)
  /\ UNCHANGED <<row, config, locked>>

-----------------------------------------------------------------------------
(* The storage service: PATCH /memories/{id} under SELECT ... FOR UPDATE.    *)

\* A patch lands on a live row only; a soft-deleted row answers 404.
MemoryUpdateAnyRow(new) == row' = new
MemoryUpdate(new) == row' = IF row.live THEN new ELSE row

\* Mutant: the heuristic's dates and signals are written too.
BuildPatchTrustsHeuristic(res) ==
  [row EXCEPT !.col = IF config.agentSet THEN @ ELSE res.kind,
              !.enrPending = FALSE, !.pii = res.pii, !.dated = res.dated]

\* What the worker's enrichment PATCH sets: agent-provided columns are skipped,
\* dates and signals are written only when a real LLM answered, and
\* enrichment_pending is always cleared.
BuildPatch(res) ==
  [row EXCEPT !.col = IF config.agentSet THEN @ ELSE res.kind,
              !.enrPending = FALSE,
              !.pii = IF res.kind = "llm" THEN res.pii ELSE @,
              !.dated = IF res.kind = "llm" THEN res.dated ELSE @]

-----------------------------------------------------------------------------
(* core-worker: handle_embed_request and handle_enrich_request.              *)

\* No platform provider configured: the request is acknowledged and dropped.
EmbedDropped(c) ==
  /\ job["embed"][c].st = "queued"
  /\ Stage("embed", c, "done") /\ Lost("embed")
  /\ UNCHANGED <<row, config, locked>>

\* Content-hash cache hit or provider call: a vector of the event's content.
EmbedCompute(c) ==
  /\ job["embed"][c].st = "queued"
  /\ Stage("embed", c, "computed")
  /\ UNCHANGED <<row, config, locked, ghost>>

\* The PATCH of the vector, which also clears embedding_pending.  A 404 is
\* swallowed, so the handler goes on to publish either way.
EmbedPatchKeepsFlag(c) ==
  /\ job["embed"][c].st = "computed"
  /\ MemoryUpdate([row EXCEPT !.emb = job["embed"][c].ver])
  /\ Stage("embed", c, "patched")
  /\ UNCHANGED <<config, locked, ghost>>
EmbedPatch(c) ==
  /\ job["embed"][c].st = "computed"
  /\ MemoryUpdate([row EXCEPT !.emb = job["embed"][c].ver, !.embPending = FALSE])
  /\ Stage("embed", c, "patched")
  /\ UNCHANGED <<config, locked, ghost>>

EnrichCompute(c) ==
  /\ job["enrich"][c].st = "queued"
  /\ Stage("enrich", c, "computed")
  /\ UNCHANGED <<row, config, locked, ghost>>

\* enrich_memory never raises: it answers with the LLM's result or, when every
\* provider fails, with the heuristic's.
EnrichPatch(c, res) ==
  /\ job["enrich"][c].st = "computed"
  /\ MemoryUpdate(BuildPatch(res))
  /\ ghost' = IF row.live /\ res.kind = "llm"
                THEN [ghost EXCEPT !.verdict = [pii |-> res.pii, dated |-> res.dated]]
                ELSE ghost
  /\ Stage("enrich", c, "patched")
  /\ UNCHANGED <<config, locked>>

\* The back-channel announcement after the PATCH; a failed publish is
\* swallowed and the request is acknowledged all the same.
AnnounceEnrichedOnly(t, back, c) ==
  /\ job[t][c].st = "patched"
  /\ job[back][c].st \in {"none", "done", "dead"}
  /\ job' = [job EXCEPT ![t][c].st = "done",
                        ![back][c] = IF t = "embed" THEN @ ELSE Job("queued", job[t][c].ver)]
  /\ UNCHANGED <<row, config, locked, ghost>>
Announce(t, back, c) ==
  /\ job[t][c].st = "patched"
  /\ job[back][c].st \in {"none", "done", "dead"}
  /\ \/ job' = [job EXCEPT ![t][c].st = "done", ![back][c] = Job("queued", job[t][c].ver)]
        /\ UNCHANGED ghost
     \/ Stage(t, c, "done") /\ Lost(back)
  /\ UNCHANGED <<row, config, locked>>

\* run_embedding_backfill: an operator republishes rows whose vector is NULL.
Backfill(c) ==
  /\ row.live /\ row.emb = NoVector
  /\ \A d \in Slots : ~Busy("embed", d)
  /\ job["embed"][c].st = "none"
  /\ \A d \in 1..(c - 1) : job["embed"][d].st # "none"
  /\ job' = [job EXCEPT !["embed"][c] = Job("queued", row.content)]
  /\ UNCHANGED <<row, config, locked, ghost>>

-----------------------------------------------------------------------------
(* core-api: the back-channel consumers, governance and Path A.              *)

\* get_memory: a by-id read that also returns soft-deleted rows.
Load(t, c) ==
  /\ t \in BackChannel
  /\ job[t][c].st = "queued"
  /\ IF t = "embedded" /\ row.emb = NoVector
       THEN Finish(t, c)
       ELSE job' = [job EXCEPT ![t][c].st = IF t = "enriched" THEN "loaded" ELSE "cleared",
                               ![t][c].snap = {Seen(row)}]
  /\ UNCHANGED <<row, config, locked, ghost>>

Flagged(c) == config.policy # "off" /\ Snap("enriched", c).pii = "yes"
\* After governance: no vector yet means Path A is left to the EMBEDDED event.
Governed(c) ==
  IF Snap("enriched", c).emb = NoVector
    THEN Finish("enriched", c) ELSE Stage("enriched", c, "cleared")

\* remediate_after_enrichment, clean row.
RemediateNothing(c) ==
  /\ job["enriched"][c].st = "loaded"
  /\ ~Flagged(c)
  /\ Governed(c)
  /\ UNCHANGED <<row, config, locked, ghost>>

\* Flagging only writes an audit event.
RemediateFlag(c) ==
  /\ job["enriched"][c].st = "loaded"
  /\ Flagged(c) /\ config.policy = "flag"
  /\ ghost' = [ghost EXCEPT !.audited = TRUE]
  /\ Governed(c)
  /\ UNCHANGED <<row, config, locked>>

\* keep_private narrows the visibility first and audits after.
RemediatePrivate(c) ==
  /\ job["enriched"][c].st = "loaded"
  /\ Flagged(c) /\ config.policy = "private"
  /\ MemoryUpdate([row EXCEPT !.private = TRUE])
  /\ Stage("enriched", c, "audited")
  /\ UNCHANGED <<config, locked, ghost>>
RemediatePrivateAudit(c) ==
  /\ job["enriched"][c].st = "audited" /\ config.policy = "private"
  /\ ghost' = [ghost EXCEPT !.audited = TRUE]
  /\ Governed(c)
  /\ UNCHANGED <<row, config, locked>>

\* drop: the critical audit event first, then the soft delete.
RemediateDropAuditLate(c) ==
  /\ job["enriched"][c].st = "loaded"
  /\ Flagged(c) /\ config.policy = "drop"
  /\ Stage("enriched", c, "audited")
  /\ UNCHANGED <<row, config, locked, ghost>>
RemediateDropAudit(c) ==
  /\ job["enriched"][c].st = "loaded"
  /\ Flagged(c) /\ config.policy = "drop"
  /\ ghost' = [ghost EXCEPT !.audited = TRUE]
  /\ Stage("enriched", c, "audited")
  /\ UNCHANGED <<row, config, locked>>
RemediateDropDelete(c) ==
  /\ job["enriched"][c].st = "audited" /\ config.policy = "drop"
  /\ row' = [row EXCEPT !.live = FALSE]
  /\ ghost' = [ghost EXCEPT !.dropped = TRUE]
  /\ Finish("enriched", c)
  /\ UNCHANGED <<config, locked>>

\* _detect: the row is compared with its neighbours; an edit whose embedding
\* failed hands over no vector, finds no neighbour and compares with nothing.
Compared(seen, emb) ==
  IF emb = NoVector THEN [ghost EXCEPT !.blind = TRUE, !.runs = @ + 1]
  ELSE [ghost EXCEPT !.checked = @ \cup {seen.content}, !.runs = @ + 1]

\* detect_contradictions_async: take the per-memory lock (first caller wins,
\* open when Redis is down), give up on a deleted row, else compare the row
\* with its neighbours.  seen is the row the function looks at, emb the vector
\* it was handed.
DetectUnlocked(seen, emb) ==
  /\ locked' = TRUE
  /\ \/ seen.live /\ ghost' = Compared(seen, emb)
     \/ seen.live /\ Lost("detect")
     \/ ~seen.live /\ UNCHANGED ghost
Detect(seen, emb) ==
  \/ /\ locked /\ UNCHANGED <<locked, ghost>>
  \/ /\ ~locked \/ config.env.redisFails
     /\ locked' = TRUE
     /\ \/ seen.live /\ ghost' = Compared(seen, emb)
        \/ seen.live /\ Lost("detect")   \* judge or storage failed: logged only
        \/ ~seen.live /\ UNCHANGED ghost

\* The consumers hand over the row they loaded; a task of the write path or of
\* update_memory reads it afresh.
DetectLoaded(t, c) ==
  /\ t \in BackChannel /\ job[t][c].st = "cleared"
  /\ Detect(Snap(t, c), Snap(t, c).emb)
  /\ Finish(t, c)
  /\ UNCHANGED <<row, config>>
DetectDirect(c) ==
  /\ job["direct"][c].st = "queued"
  /\ Detect(row, job["direct"][c].ver)
  /\ Stage("direct", c, "done")
  /\ UNCHANGED <<row, config>>

LockExpires ==
  /\ config.env.lockExpires /\ locked
  /\ locked' = FALSE
  /\ UNCHANGED <<row, job, config, ghost>>

-----------------------------------------------------------------------------
(* The user: DELETE and PATCH /memories/{id}.                                *)

SoftDelete ==
  /\ row.live
  /\ row' = [row EXCEPT !.live = FALSE]
  /\ UNCHANGED <<job, config, locked, ghost>>

\* update_memory with new content: the handler embeds it itself (the provider
\* may answer None, then the old vector stays) and schedules Path A.
UpdateContent(c, embedded) ==
  /\ row.live /\ row.content + 1 <= config.env.contents
  /\ job["direct"][c].st \in {"none", "done", "dead"}
  /\ \A d \in Slots : d < c => Busy("direct", d)
  /\ row' = [row EXCEPT !.content = @ + 1,
                        !.emb = IF embedded THEN row.content + 1 ELSE @]
  /\ job' = [job EXCEPT !["direct"][c] =
                Job("queued", IF embedded THEN row.content + 1 ELSE NoVector)]
  /\ UNCHANGED <<config, locked, ghost>>

\* update_memory of a column the enricher also writes.
UpdateColumn ==
  /\ row.live
  /\ row' = [row EXCEPT !.col = "user"]
  /\ UNCHANGED <<job, config, locked, ghost>>

-----------------------------------------------------------------------------
Worker(c) ==
  \/ EmbedCompute(c) \/ EmbedPatch(c) \/ Announce("embed", "embedded", c)
  \/ EnrichCompute(c) \/ (\E res \in Results : EnrichPatch(c, res))
  \/ Announce("enrich", "enriched", c)

Consumer(c) ==
  \/ \E t \in BackChannel : Load(t, c) \/ DetectLoaded(t, c)
  \/ RemediateNothing(c) \/ RemediateFlag(c)
  \/ RemediatePrivate(c) \/ RemediatePrivateAudit(c)
  \/ RemediateDropAudit(c) \/ RemediateDropDelete(c)
  \/ DetectDirect(c)

User == SoftDelete \/ UpdateColumn
          \/ \E c \in InUse, embedded \in BOOLEAN : UpdateContent(c, embedded)

Faults ==
  \/ \E t \in Requests \cup {"direct"} : PublishLost(t)
  \/ \E c \in InUse : (\E t \in Requests : Redeliver(t, c)) \/ EmbedDropped(c) \/ Backfill(c)
  \/ \E c \in InUse, t \in Requests \cup BackChannel : Nack(t, c)
  \/ LockExpires

Next == User \/ Faults \/ \E c \in InUse : Worker(c) \/ Consumer(c)

Spec == Init /\ [][Next]_vars

\* A delivery under way goes on; deliveries and their retries are bounded, so these steps run dry.
Handling == \E c \in InUse : Worker(c) \/ Consumer(c)

\* The bus keeps delivering and the handlers keep running.
FairSpec == Spec /\ WF_vars(Handling)

-----------------------------------------------------------------------------
(* Properties                                                                *)

\* Every variable keeps its shape, and no delivery is tried more often than
\* the subscription allows.
TypeOK ==
  /\ row \in Rows /\ config \in Configs /\ locked \in BOOLEAN
  /\ \A t \in Topics, c \in Slots :
       /\ job[t][c].st \in Stages /\ job[t][c].tries \in 0..config.env.tries
       /\ job[t][c].ver \in Versions \cup {NoVector} 
       /\ job[t][c].snap \subseteq Snaps
  /\ ghost.lost \subseteq Topics \cup {"detect"} /\ ghost.checked \subseteq Versions

\* What was decided survives late and repeated enrichments: a column the agent
\* set explicitly at write time is never overwritten (_build_patch's skip list;
\* only a later user edit may change it), and the dates and signals on the row
\* are those of the last LLM answer that was stored, which a redelivery that
\* falls back to the heuristic never wipes.  (The type invariant rides along.)
FieldsSurvive ==
  /\ TypeOK
  /\ config.agentSet => row.col \in {"agent", "user"}
  /\ row.pii = ghost.verdict.pii /\ row.dated = ghost.verdict.dated

\* A soft-deleted row is frozen: no late PATCH of the worker or of governance
\* changes or resurrects it (memory_update answers 404).
DeletedRowFrozen == [][~row.live => row' = row]_vars

\* Path A runs exactly once: both back-channel events of a memory trigger it,
\* yet only one detection runs as long as the lock holds; and once everything
\* has been delivered and nothing was lost, a live memory that got its vector
\* has been through it, in whichever order embedding and enrichment landed
\* (unless an edit whose embedding failed took the lock with nothing to compare).
PathAExactlyOnce ==
  /\ config.env.redisFails \/ config.env.lockExpires \/ ghost.runs <= 1
  /\ Quiet /\ row.live /\ row.emb # NoVector /\ ghost.lost = {} => ghost.checked # {} \/ ghost.blind

\* Once everything has been delivered and nothing was lost, a row the LLM
\* flagged is gone under a drop policy and private under keep_private; a memory
\* the policy removes has its audit event written before the row goes, whatever
\* fails in between.
PolicyApplied ==
  /\ Quiet /\ row.live /\ row.pii = "yes" /\ ghost.lost = {} =>
       /\ config.policy # "drop"
       /\ config.policy = "private" => row.private
  /\ ghost.dropped => ghost.audited

\* A row is what was decided about it, in whatever order, however often and however late embedding and enrichment
\* arrive: no decision is overwritten (FieldsSurvive), the contradiction check runs exactly once (PathAExactlyOnce) and
\* the policy has been applied once everything is quiet (PolicyApplied).
RowDecided == FieldsSurvive /\ PathAExactlyOnce /\ PolicyApplied

\* embedding_pending ends: the vector lands, the row is deleted, or the request
\* was lost for good.
EmbeddingSettles ==
  row.embPending ~> (~row.embPending \/ ~row.live \/ "embed" \in ghost.lost)
=============================================================================
