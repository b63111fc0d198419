------------------------------ MODULE WritePath ------------------------------
(***************************************************************************)
(* How memories get into the table: the single write (fast and strong),    *)
(* the auto-chunked write, the bulk write with its X-Bulk-Attempt-Id, and  *)
(* the commit of an ingest run, racing one another, deletions, request     *)
(* timeouts and lost storage answers.  Contents stand for their hashes: a  *)
(* content hash is computed from the content alone within one tenant and   *)
(* fleet, which is the scope of the whole module.                          *)
(***************************************************************************)
EXTENDS Naturals, Sequences, FiniteSets

CONSTANTS
  Writes,      \* HTTP requests that may arrive, each of them once
  Contents,    \* memory contents
  Short,       \* contents below CRYSTALLIZER_SHORT_CONTENT_CHARS
  Sensitive,   \* contents in which the deterministic scan finds PII
  Masked,      \* what mask() makes of a sensitive content
  StorageCap,  \* per_tenant_storage_write_concurrency
  Worlds       \* the situations explored, see WorldOK

VARIABLES
  rows,    \* the memories table in insertion order; a row's id is its index
  job,     \* what core-api is doing for each request
  docs,    \* runs that have a parent document in ingest-sources
  undoing, \* undo calls between deleting the rows and deleting the document
  faults,  \* timeouts and storage failures so far
  deletes, \* deletions so far
  world    \* the requests, the tenant's policy and the bounds of this run

writeVars == <<rows, job, docs, undoing, faults, deletes, world>>

WriteKinds == {"single", "chunk", "bulk", "ingest"}

(* A request: its kind, its write mode, the writing agent, the contents it *)
(* carries, its attempt id (for ingest the run_id; <<>>-less kinds use     *)
(* their own name for the fresh ids of chunk children) and, for a chunked  *)
(* write, the facts the chunking model returns.                            *)
PlanOK(p) ==
  /\ p.kind \in WriteKinds
  /\ p.mode \in {"fast", "strong"}
  /\ \A c \in {p.items[i] : i \in DOMAIN p.items} : c \in Contents
  /\ p.kind \in {"single", "chunk"} => Len(p.items) = 1
  /\ p.facts \in Seq(Contents)

(* reqs maps the requests that arrive to their plans; policy is the PII    *)
(* action of the tenant; gate says whether a business/personal policy can  *)
(* refuse a write.                                                         *)
WorldOK(w) ==
  /\ DOMAIN w.reqs \subseteq Writes
  /\ \A r \in DOMAIN w.reqs : PlanOK(w.reqs[r])
  /\ w.policy \in {"off", "drop", "mask", "flag"}
  /\ w.gate \in BOOLEAN
  /\ w.faults \in Nat /\ w.deletes \in Nat

ASSUME WritePathAssumption ==
  /\ Short \subseteq Contents /\ Sensitive \subseteq Contents
  /\ Masked \in [Sensitive -> Contents \ (Sensitive \cup Short)]
  /\ StorageCap \in Nat \ {0}
  /\ \A w \in Worlds : WorldOK(w)

----------------------------------------------------------------------------
Ids == DOMAIN rows
NoId == 0
NoKey == <<>>

Plan(r) == world.reqs[r]
Arriving == DOMAIN world.reqs
Open == [status |-> "open", id |-> NoId]

Idle == [pc |-> "idle", items |-> <<>>, slots |-> <<>>, batch |-> <<>>,
         found |-> <<>>, call |-> "none", slotted |-> FALSE, parent |-> NoId,
         review |-> "none", start |-> {}, answer |-> 0]

(* Mutant: the lookup reads a replica that misses the newest row.          *)
ReplicaMatches(a, c) ==
  {k \in Ids : k < Len(rows) /\ rows[k].live /\ rows[k].agent = a /\ rows[k].content = c}

(* The rows the duplicate lookups see: alive, same agent, same hash.       *)
Matches(a, c) ==
  {k \in Ids : rows[k].live /\ rows[k].agent = a /\ rows[k].content = c}

(* The deterministic governance scan: a drop policy refuses the content, a *)
(* mask policy replaces it before the hash is taken.  (Mutant              *)
(* UnmaskedKept: the scan's result is not written back.)                   *)
Dropped(c) == world.policy = "drop" /\ c \in Sensitive
UnmaskedKept(c) == c
Kept(c) == IF world.policy = "mask" /\ c \in Sensitive THEN Masked[c] ELSE c

(* A chunked write whose text splits into several facts; with none or one  *)
(* it falls through to the ordinary persist steps.                         *)
Splits(r) == Plan(r).kind = "chunk" /\ Len(Plan(r).facts) > 1

Bulky(r) == Plan(r).kind \in {"bulk", "ingest"}

At(r, label) == r \in Arriving /\ job[r].pc = label

(* The request is answered; leaving the handler releases its storage slot. *)
Answered(j, code) == [j EXCEPT !.pc = "done", !.answer = code, !.slotted = FALSE]

Reply(r, code) == job' = [job EXCEPT ![r] = Answered(@, code)]

MoveTo(r, label) == job' = [job EXCEPT ![r].pc = label]

Env == UNCHANGED <<docs, undoing, faults, deletes, world>>

WriteInit ==
  /\ rows = <<>> /\ docs = {} /\ undoing = {} /\ faults = 0 /\ deletes = 0
  /\ job = [r \in Writes |-> Idle]
  /\ world \in Worlds

----------------------------------------------------------------------------
(* The steps before anything is read from the table.                       *)

Start(r) ==
  /\ At(r, "idle")
  /\ job' = [job EXCEPT ![r] =
       [@ EXCEPT !.pc = IF Plan(r).kind = "ingest" THEN "prededup" ELSE "admit",
                 !.items = Plan(r).items,
                 !.start = {k \in Ids : rows[k].live}]]
  /\ UNCHANGED rows /\ Env

(* ingest_commit filters the facts that are stored already, and numbers    *)
(* the survivors from scratch; when the lookup fails it filters nothing.   *)
PreDedup(r, sees) ==
  /\ At(r, "prededup")
  /\ LET stored(c) == sees /\ Matches(Plan(r).agent, c) # {}
         survivors == SelectSeq(job[r].items, LAMBDA c : ~stored(c))
     IN job' = [job EXCEPT ![r] =
          IF survivors = <<>> THEN Answered([@ EXCEPT !.items = <<>>], 200)
          ELSE [@ EXCEPT !.pc = "admit", !.items = survivors]]
  /\ sees \/ faults < world.faults
  /\ faults' = IF sees THEN faults ELSE faults + 1
  /\ UNCHANGED <<rows, docs, undoing, deletes, world>>

(* Length check and governance scan refuse with 422; the business/personal *)
(* gate of the single write refuses with 422, or 503 when it fails closed. *)
Refuse(r, code) ==
  /\ At(r, "admit") /\ ~Bulky(r)
  /\ LET c == job[r].items[1]
     IN \/ code = 422 /\ (c \in Short \/ Dropped(c))
        \/ code \in {422, 503} /\ world.gate /\ Plan(r).kind = "single"
  /\ Reply(r, code)
  /\ UNCHANGED rows /\ Env

(* The content passes, masked if the policy says so, and is embedded and   *)
(* enriched.  A text that splits goes straight to the parent insert.       *)
Admit(r) ==
  /\ At(r, "admit") /\ ~Bulky(r)
  /\ LET c == job[r].items[1]
     IN /\ c \notin Short /\ ~Dropped(c)
        /\ job' = [job EXCEPT ![r] =
             [@ EXCEPT !.items = <<Kept(c)>>,
                       !.pc = IF Splits(r) THEN "queue" ELSE "exact",
                       !.batch = <<[content |-> Kept(c), key |-> NoKey]>>]]
  /\ UNCHANGED rows /\ Env

(* The bulk write turns short and dropped items into item errors and masks *)
(* the others in place.                                                    *)
AdmitBulk(r) ==
  /\ At(r, "admit") /\ Bulky(r)
  /\ LET its == job[r].items
         bad(i) == its[i] \in Short \/ Dropped(its[i])
     IN job' = [job EXCEPT ![r] =
          [@ EXCEPT !.pc = "lookup",
                    !.items = [i \in DOMAIN its |-> Kept(its[i])],
                    !.slots = [i \in DOMAIN its |->
                       IF bad(i) THEN [status |-> "error", id |-> NoId] ELSE Open]]]
  /\ UNCHANGED rows /\ Env

(* The batch embedding exceeds its budget: 504 for a bulk write, while an  *)
(* ingest run reports every survivor as errored.                           *)
EmbedTimeout(r) ==
  /\ At(r, "admit") /\ Bulky(r) /\ faults < world.faults
  /\ faults' = faults + 1
  /\ Reply(r, IF Plan(r).kind = "bulk" THEN 504 ELSE 200)
  /\ UNCHANGED <<rows, docs, undoing, deletes, world>>

----------------------------------------------------------------------------
(* The duplicate checks of a single write.                                 *)

(* CheckExactDuplicate: one match answers 409; several make the storage    *)
(* lookup, which expects at most one row, fail, and the step with it.      *)
ExactCheck(r) ==
  /\ At(r, "exact")
  /\ LET n == Cardinality(Matches(Plan(r).agent, job[r].items[1]))
     IN \/ n = 0 /\ MoveTo(r, IF Plan(r).mode = "strong" \/ Plan(r).kind = "chunk"
                            THEN "similar" ELSE "write")
        \/ n = 1 /\ Reply(r, 409)
        \/ n > 1 /\ Reply(r, 500)
  /\ UNCHANGED rows /\ Env

(* CheckSemanticDuplicate: a live row of any agent may be close enough to  *)
(* refuse the write, outright or on the judge's word; a low-confidence     *)
(* verdict only files a review.                                            *)
SimilarCheck(r, band) ==
  /\ At(r, "similar")
  /\ band # "none" => \E k \in Ids : rows[k].live
  /\ LET seen == [job[r] EXCEPT !.review = band]
     IN job' = [job EXCEPT ![r] =
          IF band \in {"auto_reject", "judge_band_reject"} THEN Answered(seen, 409)
          ELSE [seen EXCEPT !.pc = "write"]]
  /\ UNCHANGED rows /\ Env

Bands == {"none", "auto_reject", "judge_band_reject", "judge_low_conf_accept"}

----------------------------------------------------------------------------
(* The hash lookup of a bulk write and what the code decides from it       *)
(* before the next await.  The answer maps a hash to one of its rows.      *)

Key(r, i) == <<Plan(r).attempt, i>>

OpenItems(r) == {i \in DOMAIN job[r].items : job[r].slots[i].status = "open"}

(* seen_hashes: the first open item with this content in the batch.        *)
FirstOf(r, i) ==
  CHOOSE j \in OpenItems(r) :
    /\ job[r].items[j] = job[r].items[i]
    /\ \A h \in OpenItems(r) : job[r].items[h] = job[r].items[i] => j <= h

(* How item i is classified, given the row picked for its content.         *)
Classify(r, i, pick) ==
  LET c == job[r].items[i]
  IN CASE i \notin OpenItems(r) -> job[r].slots[i]
       [] c \in DOMAIN pick /\ i \in OpenItems(r) ->
            [status |-> IF rows[pick[c]].key = Key(r, i)
                        THEN "duplicate_attempt" ELSE "duplicate_content",
             id |-> pick[c]]
       [] OTHER -> IF FirstOf(r, i) = i THEN Open
                   ELSE [status |-> "duplicate_content", id |-> NoId]

Count(slots, statuses) == Cardinality({i \in DOMAIN slots : slots[i].status \in statuses})

(* Mutant: a batch of errors only answers 422.                             *)
StrictStatusCode(r, slots) ==
  CASE Count(slots, {"error"}) = Len(slots) -> 422
    [] Count(slots, {"error"}) = 0 -> 200
    [] OTHER -> 207

(* _bulk_response: 207 when errors are mixed with resolved items; an       *)
(* ingest commit always answers 200.                                       *)
StatusCode(r, slots) ==
  IF \/ Plan(r).kind = "ingest"
     \/ Count(slots, {"error"}) \in {0, Len(slots)}
  THEN 200 ELSE 207

BulkLookup(r) ==
  /\ At(r, "lookup")
  /\ LET a == Plan(r).agent
         hit == {c \in {job[r].items[i] : i \in OpenItems(r)} : Matches(a, c) # {}}
     IN \E pick \in [hit -> Ids] :
          /\ \A c \in hit : pick[c] \in Matches(a, c)
          /\ LET slots == [i \in DOMAIN job[r].items |-> Classify(r, i, pick)]
                 pending == SelectSeq([i \in DOMAIN slots |-> i],
                                      LAMBDA i : slots[i] = Open)
                 batch == [n \in DOMAIN pending |->
                            [content |-> job[r].items[pending[n]],
                             key |-> Key(r, pending[n])]]
                 looked == [job[r] EXCEPT !.slots = slots, !.batch = batch]
             IN job' = [job EXCEPT ![r] =
                  IF pending # <<>> THEN [looked EXCEPT !.pc = "queue"]
                  ELSE Answered(looked, StatusCode(r, slots))]
  /\ UNCHANGED rows /\ Env

----------------------------------------------------------------------------
(* The storage call.  Only the bulk and chunk inserts take a storage slot. *)

Holders == {r \in Writes : job[r].slotted}

WriteRow(r) ==
  /\ At(r, "write")
  /\ job' = [job EXCEPT ![r].pc = "storing", ![r].call = "sent"]
  /\ UNCHANGED rows /\ Env

Acquire(r) ==
  /\ At(r, "queue")
  /\ Cardinality(Holders) < StorageCap
  /\ job' = [job EXCEPT ![r] =
       [@ EXCEPT !.pc = "storing", !.call = "sent", !.slotted = TRUE]]
  /\ UNCHANGED rows /\ Env

Row(r, b) ==
  [agent |-> Plan(r).agent, content |-> b.content, key |-> b.key, by |-> r,
   parent |-> job[r].parent, live |-> TRUE, tasks |-> 0, audits |-> 0]

(* The live row that holds a request key: the partial unique index.        *)
Holding(key) == {k \in Ids : key # NoKey /\ rows[k].live /\ rows[k].key = key}

(* memory_add and memory_add_all: one transaction.  Items whose key is     *)
(* taken are skipped and read back; a row deleted between the insert and   *)
(* the read (one of gone) leaves its item without an id.  The call goes on *)
(* in the storage service even when core-api has stopped waiting for it.   *)
Store(r, gone) ==
  /\ r \in Arriving /\ job[r].call = "sent"
  /\ LET b == job[r].batch
         taken == {n \in DOMAIN b : Holding(b[n].key) # {}}
         fresh == SelectSeq([n \in DOMAIN b |-> n], LAMBDA n : n \notin taken)
         lost == UNION {Holding(b[n].key) : n \in taken \cap gone}
         idOf(n) == CASE n \in gone -> NoId
                      [] n \in taken \ gone -> CHOOSE k \in Holding(b[n].key) : TRUE
                      [] OTHER -> Len(rows) + Cardinality({m \in DOMAIN b \ taken : m <= n})
     IN /\ gone \subseteq taken
        /\ deletes + Cardinality(lost) <= world.deletes
        /\ deletes' = deletes + Cardinality(lost)
        /\ rows' = [k \in Ids |-> [rows[k] EXCEPT !.live = @ /\ k \notin lost]]
                   \o [n \in DOMAIN fresh |-> Row(r, b[fresh[n]])]
        /\ job' = [job EXCEPT ![r].call = "answered",
                              ![r].found = [n \in DOMAIN b |->
                                 [id |-> idOf(n), inserted |-> n \notin taken]]]
  /\ UNCHANGED <<docs, undoing, faults, world>>

----------------------------------------------------------------------------
(* The storage answer arrives.                                             *)

Replied(r) == At(r, "storing") /\ job[r].call = "answered"

Scheduled(ks) ==
  [k \in Ids |-> IF k \in ks THEN [rows[k] EXCEPT !.tasks = @ + 1, !.audits = @ + 1]
                             ELSE rows[k]]

(* Single write: the row exists, its entity links follow one by one.       *)
ReplyOne(r) ==
  /\ Replied(r) /\ ~Bulky(r) /\ ~Splits(r)
  /\ MoveTo(r, "links")
  /\ UNCHANGED rows /\ Env

(* Links written: the audit hook, the background tasks, the answer.        *)
FinishWrite(r) ==
  /\ At(r, "links")
  /\ rows' = Scheduled({job[r].found[1].id})
  /\ Reply(r, 201)
  /\ Env

(* Mutants: the last fact is forgotten; the slot is kept across both calls.*)
ShortReplyParent(r) ==
  /\ Replied(r) /\ Splits(r) /\ job[r].parent = NoId
  /\ LET p == job[r].found[1].id
     IN /\ rows' = [rows EXCEPT ![p].audits = @ + 1]
        /\ job' = [job EXCEPT ![r] =
             [@ EXCEPT !.pc = "queue", !.slotted = FALSE, !.call = "none", !.parent = p,
                       !.batch = [n \in 1..(Len(Plan(r).facts) - 1) |->
                                   [content |-> Plan(r).facts[n], key |-> Key(r, n)]]]]
  /\ Env
GreedyReplyParent(r) ==
  /\ Replied(r) /\ Splits(r) /\ job[r].parent = NoId
  /\ LET p == job[r].found[1].id
     IN /\ rows' = [rows EXCEPT ![p].audits = @ + 1]
        /\ job' = [job EXCEPT ![r] =
             [@ EXCEPT !.pc = "queue", !.call = "none", !.parent = p,
                       !.batch = [n \in DOMAIN Plan(r).facts |->
                                   [content |-> Plan(r).facts[n], key |-> Key(r, n)]]]]
  /\ Env

(* Chunked write: the parent is audited and the children, each with a      *)
(* fresh key, wait for the slot again.                                     *)
ReplyParent(r) ==
  /\ Replied(r) /\ Splits(r) /\ job[r].parent = NoId
  /\ LET p == job[r].found[1].id
     IN /\ rows' = [rows EXCEPT ![p].audits = @ + 1]
        /\ job' = [job EXCEPT ![r] =
             [@ EXCEPT !.pc = "queue", !.slotted = FALSE, !.call = "none", !.parent = p,
                       !.batch = [n \in DOMAIN Plan(r).facts |->
                                   [content |-> Plan(r).facts[n], key |-> Key(r, n)]]]]
  /\ Env

(* Children stored: the parent's entity extraction, then the answer.       *)
ReplyChildren(r) ==
  /\ Replied(r) /\ Splits(r) /\ job[r].parent # NoId
  /\ rows' = [rows EXCEPT ![job[r].parent].tasks = @ + 1]
  /\ Reply(r, 201)
  /\ Env

(* Bulk write: the storage result of each pending item, found by its key.  *)
Resolve(r, i) ==
  LET sr == job[r].found[CHOOSE n \in DOMAIN job[r].batch : job[r].batch[n].key = Key(r, i)]
  IN CASE job[r].slots[i] # Open -> job[r].slots[i]
       [] job[r].slots[i] = Open /\ sr.id = NoId -> [status |-> "error", id |-> NoId]
       [] OTHER -> [status |-> IF sr.inserted THEN "created" ELSE "duplicate_attempt",
                    id |-> sr.id]

(* Mutant: the back-fill is missing.                                       *)
NoBackFill(r, i) == Resolve(r, i)

(* A repeated content inside the batch takes the id of its first item, or  *)
(* becomes an error when that one was not stored.                          *)
BackFill(r, i) ==
  LET own == Resolve(r, i)
      canonical == Resolve(r, FirstOf(r, i))
  IN IF ~(own.status = "duplicate_content" /\ own.id = NoId) THEN own
     ELSE IF canonical.id = NoId THEN [status |-> "error", id |-> NoId]
     ELSE [status |-> "duplicate_content", id |-> canonical.id]

(* Mutant: rows found through their key are scheduled again.               *)
RepeatedFanOut(r) ==
  {job[r].found[n].id : n \in {m \in DOMAIN job[r].found : job[r].found[m].id # NoId}}

(* The rows whose audit and background tasks are scheduled.                *)
FanOut(r) ==
  {job[r].found[n].id : n \in {m \in DOMAIN job[r].found : job[r].found[m].inserted}}

ReplyBulk(r) ==
  /\ Replied(r) /\ Bulky(r)
  /\ LET slots == [i \in DOMAIN job[r].slots |-> BackFill(r, i)]
         filled == [job[r] EXCEPT !.slots = slots, !.slotted = FALSE]
     IN job' = [job EXCEPT ![r] =
          IF Plan(r).kind = "ingest" /\ Count(slots, {"created"}) > 0
          THEN [filled EXCEPT !.pc = "document"]
          ELSE Answered(filled, StatusCode(r, slots))]
  /\ rows' = Scheduled(FanOut(r))
  /\ Env

(* The parent document of an ingest run that created something; a failure  *)
(* to write it is logged only.                                             *)
Document(r, written) ==
  /\ At(r, "document")
  /\ docs' = IF written THEN docs \cup {Plan(r).attempt} ELSE docs
  /\ Reply(r, 200)
  /\ UNCHANGED <<rows, undoing, faults, deletes, world>>

----------------------------------------------------------------------------
(* What goes wrong around the requests.                                    *)

(* A timeout cancels the request wherever it waits (504); a failing        *)
(* storage call ends it with 503 or 504 (bulk) or 500.  A call that was    *)
(* sent may still commit afterwards.                                       *)
Break(r, code) ==
  /\ r \in Arriving /\ job[r].pc \notin {"idle", "done"}
  /\ faults < world.faults
  /\ \/ code = 504
     \/ code = 503 /\ Plan(r).kind = "bulk" /\ job[r].pc \in {"lookup", "storing"}
     \/ code = 500 /\ Plan(r).kind # "bulk" /\ job[r].pc \notin {"document", "prededup"}
  /\ faults' = faults + 1
  /\ Reply(r, code)
  /\ UNCHANGED <<rows, docs, undoing, deletes, world>>

Delete(k) ==
  /\ rows[k].live /\ deletes < world.deletes
  /\ deletes' = deletes + 1
  /\ rows' = [rows EXCEPT ![k].live = FALSE]
  /\ UNCHANGED <<job, docs, undoing, faults, world>>

Runs == {Plan(r).attempt : r \in {q \in Arriving : Plan(q).kind = "ingest"}}

OfRun(run) ==
  {k \in Ids : Plan(rows[k].by).kind = "ingest" /\ Plan(rows[k].by).attempt = run}

(* The undo of an ingest run: its rows first, then its document.           *)
UndoRows(run) ==
  /\ deletes < world.deletes
  /\ deletes' = deletes + 1
  /\ rows' = [k \in Ids |-> [rows[k] EXCEPT !.live = @ /\ k \notin OfRun(run)]]
  /\ undoing' = undoing \cup {run}
  /\ UNCHANGED <<job, docs, faults, world>>

UndoDocument(run, deleted) ==
  /\ run \in undoing
  /\ undoing' = undoing \ {run}
  /\ docs' = IF deleted THEN docs \ {run} ELSE docs
  /\ UNCHANGED <<rows, job, faults, deletes, world>>

----------------------------------------------------------------------------
(* The good steps of a request that has started.                           *)
Advance(r) ==
  \/ PreDedup(r, TRUE) \/ Admit(r) \/ AdmitBulk(r) \/ Refuse(r, 422)
  \/ ExactCheck(r) \/ SimilarCheck(r, "none") \/ BulkLookup(r)
  \/ WriteRow(r) \/ Acquire(r) \/ (job[r].pc = "storing" /\ Store(r, {}))
  \/ ReplyOne(r) \/ FinishWrite(r) \/ ReplyParent(r) \/ ReplyChildren(r)
  \/ ReplyBulk(r) \/ Document(r, TRUE)

Request(r) ==
  \/ Start(r)
  \/ \E sees \in BOOLEAN : PreDedup(r, sees)
  \/ \E code \in {422, 503} : Refuse(r, code)
  \/ Admit(r) \/ AdmitBulk(r) \/ EmbedTimeout(r)
  \/ ExactCheck(r) \/ (\E band \in Bands : SimilarCheck(r, band))
  \/ BulkLookup(r) \/ WriteRow(r) \/ Acquire(r)
  \/ \E gone \in SUBSET DOMAIN job[r].batch : Store(r, gone)
  \/ ReplyOne(r) \/ FinishWrite(r) \/ ReplyParent(r) \/ ReplyChildren(r) \/ ReplyBulk(r)
  \/ \E written \in BOOLEAN : Document(r, written)
  \/ \E code \in {500, 503, 504} : Break(r, code)

(* Every request is answered: only deletions may still come.               *)
Quiet ==
  /\ \A r \in Arriving : job[r].pc = "done" /\ job[r].call # "sent"
  /\ UNCHANGED writeVars

WriteNext ==
  \/ \E r \in Writes : Request(r)
  \/ \E k \in Ids : Delete(k)
  \/ \E run \in Runs : UndoRows(run)
  \/ \E run \in Runs, deleted \in BOOLEAN : UndoDocument(run, deleted)
  \/ Quiet

WriteSpec == WriteInit /\ [][WriteNext]_writeVars

(* While some started request can go on, one of them does: the event loop  *)
(* runs its tasks and the storage service answers calls.                   *)
WriteFairSpec == WriteSpec /\ WF_writeVars(\E r \in Writes : Advance(r))

----------------------------------------------------------------------------
(* Properties.                                                             *)

RowOK(x) ==
  /\ x.agent \in {Plan(r).agent : r \in Arriving} /\ x.content \in Contents
  /\ x.by \in Arriving /\ x.parent \in 0..Len(rows) /\ x.live \in BOOLEAN
  /\ x.tasks \in Nat /\ x.audits \in Nat

SlotOK(x) ==
  /\ x.status \in {"open", "error", "created", "duplicate_attempt", "duplicate_content"}
  /\ x.id \in 0..Len(rows)

(* The shape of the table, of every request's state and of the counters.   *)
WriteTypeOK ==
  /\ world \in Worlds /\ faults \in 0..world.faults /\ deletes \in 0..world.deletes
  /\ docs \subseteq Runs /\ undoing \subseteq Runs
  /\ \A k \in Ids : RowOK(rows[k])
  /\ DOMAIN job = Writes
  /\ \A r \in Writes :
       /\ job[r].call \in {"none", "sent", "answered"}
       /\ r \in Arriving => job[r].answer \in {0, 500, 503, 504}
            \cup (IF Bulky(r) THEN {200, 207} ELSE {201, 409, 422})
       /\ job[r].slotted \in BOOLEAN /\ job[r].review \in Bands
       /\ \A i \in DOMAIN job[r].slots : SlotOK(job[r].slots[i])

(* However often and however concurrently an attempt is sent, each of its  *)
(* items has at most one live row, and at most one answer says "created"   *)
(* for that item unless the row was deleted in between.  (The type         *)
(* invariant rides along.)                                                 *)
ItemStoredOnce ==
  /\ WriteTypeOK
  /\ \A j, k \in Ids :
       rows[j].live /\ rows[k].live /\ rows[j].key = rows[k].key /\ rows[j].key # NoKey
         => j = k
  /\ \A q, r \in Arriving : \A i \in DOMAIN job[q].slots \cap DOMAIN job[r].slots :
       /\ q # r /\ Bulky(q) /\ Bulky(r) /\ Plan(q).attempt = Plan(r).attempt
       /\ job[q].slots[i].status = "created" /\ job[r].slots[i].status = "created"
       => ~(rows[job[q].slots[i].id].live /\ rows[job[r].slots[i].id].live)

(* What a finished write of these kinds tells its caller is true of the    *)
(* table: no item is left open, every item that is not an error names a    *)
(* row of the caller's agent with the item's content, and a "created" or   *)
(* "duplicate_attempt" row carries this attempt's key.                     *)
AnswersMatch(kind) ==
  \A r \in Arriving :
    Plan(r).kind = kind /\ job[r].answer \in {200, 207} =>
      \A i \in DOMAIN job[r].slots :
        LET x == job[r].slots[i]
        IN /\ x.status # "open"
           /\ x.status # "error" =>
                /\ x.id \in Ids
                /\ rows[x.id].agent = Plan(r).agent
                /\ rows[x.id].content = job[r].items[i]
           /\ x.status \in {"created", "duplicate_attempt"} => rows[x.id].key = Key(r, i)

(* Bulk answers: the response of create_memories_bulk describes rows that  *)
(* exist, also for retries, late commits and repeats inside the batch.     *)
BulkAnswersTrue == AnswersMatch("bulk")

(* Ingest answers: a fact reported as a skipped duplicate of this run is   *)
(* really stored.                                                          *)
IngestAnswersTrue == AnswersMatch("ingest")

(* No row is audited or handed to the background tasks twice, whatever is  *)
(* retried, and a row whose writer was told "created" has been handed over.*)
FanOutOnce ==
  /\ \A k \in Ids : rows[k].tasks <= 1 /\ rows[k].audits <= 1
  /\ \A r \in Arriving :
       /\ job[r].answer \in {200, 207} =>
            \A i \in DOMAIN job[r].slots :
              job[r].slots[i].status = "created" => rows[job[r].slots[i].id].tasks = 1
       /\ job[r].answer = 201 /\ ~Splits(r) => rows[job[r].found[1].id].tasks = 1

(* A copy that was stored before a write began, and is still there, keeps  *)
(* the write from storing the content again for the same agent.  (Writes   *)
(* that overlap may both get through; split texts are not checked.)        *)
LaterCopyRefused ==
  \A k \in Ids : LET r == rows[k].by IN
    ~Splits(r) =>
      \A j \in job[r].start :
        ~(/\ rows[j].live /\ rows[j].agent = rows[k].agent
          /\ rows[j].content = rows[k].content)

(* Under a drop or mask policy no path stores a text the scan would flag.  *)
PolicyHolds ==
  world.policy \in {"drop", "mask"} => \A k \in Ids : rows[k].content \notin Sensitive

(* A chunked write answered 201 has its parent and one child per fact, and *)
(* no child row ever exists without a parent row of the same agent.        *)
ChunksComplete ==
  /\ \A r \in Arriving : Splits(r) /\ job[r].answer = 201 =>
       \A n \in DOMAIN Plan(r).facts :
         \E k \in Ids : /\ rows[k].parent = job[r].parent
                        /\ rows[k].content = Plan(r).facts[n] /\ rows[k].by = r
  /\ \A k \in Ids : rows[k].parent # NoId =>
       rows[k].parent < k /\ rows[rows[k].parent].agent = rows[k].agent

(* A request may be sent again, time out, overlap another or be cut short: *)
(* each item is stored once, every answer is true of the table, background *)
(* work is handed over once and a split text is stored whole.              *)
RetriesSafe == ItemStoredOnce /\ BulkAnswersTrue /\ FanOutOnce /\ ChunksComplete

(* What may be stored: no copy of a text that is there, nothing the policy *)
(* forbids.                                                                *)
ContentRules == LaterCopyRefused /\ PolicyHolds

(* Every request that was let in is answered, also without any timeout:    *)
(* nobody waits forever for a storage slot.  (Requests come once, so it is *)
(* enough that the moments without a pending request never end.)           *)
EveryRequestAnswered ==
  []<>(\A r \in Writes : job[r].pc \in {"idle", "done"})

=============================================================================
