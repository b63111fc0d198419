----------------------------- MODULE SkillsProofs -----------------------------
(***************************************************************************)
(* Proofs about the skills collection and a node's copy of it: an active   *)
(* skill carries the clean scan of its own text, a rejection is on record  *)
(* before the document says so and the tick honours it, what agents and    *)
(* nodes are given has been approved, and what other tools installed is    *)
(* left alone.                                                             *)
(*                                                                         *)
(* The pieces of the invariant speak of values, not of variables: on says  *)
(* that the tenant has opted in, had is carried, blest is blessed, rows is *)
(* the poison table.                                                       *)
(***************************************************************************)
EXTENDS SkillsDisk, TLAPS

ReqFields == {"pc", "op", "slug", "snap", "hash", "fp"}
TickFields == {"pc", "todo", "slug", "cand", "rows", "began", "known"}
PullFields == {"pc", "cat", "todo", "slug"}

\* A stored document of slug s, on the primary or on the replica: its fingerprint is one
\* the slug has carried, and an active text is a blessed one.
KeptDoc(s, doc, on, had, blest) ==
    /\ IsDoc(doc)
    /\ Exists(doc) => doc.fp \in had[s] \cup {NoFp}
    /\ on => Vetted(doc) /\ (doc.status = "active" => <<s, doc.body>> \in blest)

StoreOK(store, on, had, blest) ==
    DOMAIN store = Slugs /\ \A s \in Slugs : KeptDoc(s, store[s], on, had, blest)

\* What a handler holds between its reads and its write.
HeldDoc(doc, on) ==
    /\ Exists(doc) /\ IsDoc(doc)
    /\ on => Vetted(doc) /\ doc.status # "rejected"

Recorded(rows, fp, fleet) == \E row \in rows : row.fp = fp /\ row.fleet = fleet

\* Every rejected document has its poison row.
AllRecorded(store, on, had, rows) ==
    on => \A s \in Slugs : store[s].status = "rejected" =>
            \E row \in rows : row.fleet = store[s].fleet /\ row.fp \in had[s]

StorageOK(store, seen, on, had, blest, rows) ==
    /\ DOMAIN had = Slugs /\ blest \subseteq Slugs \X DOMAIN Bodies
    /\ StoreOK(store, on, had, blest) /\ StoreOK(seen, on, had, blest)
    /\ AllRecorded(store, on, had, rows)

\* A request under way: an approval about to be written holds a clean scan, a reject
\* the fingerprint its document has carried, and its row once that is written.
ReqOK(q, on, had, rows) ==
    /\ DOMAIN q = ReqFields
    /\ q.pc # "idle" =>
         /\ q.slug \in Slugs /\ HeldDoc(q.snap, on)
         /\ on /\ q.op = "approve" /\ q.pc = "write" => q.snap.scan.state = "clean"
         /\ q.op = "reject" => q.fp \in had[q.slug]
         /\ q.op = "reject" /\ q.pc = "write" => Recorded(rows, q.fp, q.snap.fleet)

Forbids(row, fp, fleet, now) ==
    row.fp = fp /\ (row.fleet = Nil \/ fleet = Nil \/ row.fleet = fleet) /\ row.until > now

Clear(known, doc, now) == \A row \in known : ~Forbids(row, doc.fp, doc.fleet, now)

\* The tick: past its poison check, nothing it knew of forbids the document in its hands.
TickOK(t, on, split, now, rows) ==
    /\ DOMAIN t = TickFields
    /\ \A row \in t.rows : row[1] \in Slugs
    /\ t.known \subseteq rows
    /\ t.pc \in {"status", "write", "flip"} =>
         t.slug \in Slugs /\ (~split => Clear(t.known, t.cand, now))
    /\ t.pc \in {"status", "write"} => HeldDoc(t.cand, on)

SkillsInv ==
    /\ SceneOK(scene) /\ clock \in Nat
    /\ StorageOK(docs, replica.docs, scene.enabled, carried, blessed, poison)
    /\ \A row \in poison : row.until \in Nat
    /\ shown \subseteq Slugs \X DOMAIN Bodies /\ ShownBlessed
    /\ DOMAIN req = Reqs
    /\ \A r \in Reqs : ReqOK(req[r], scene.enabled, carried, poison)
    /\ TickOK(tick, scene.enabled, scene.split, clock, poison)

\* A pull at work on the directories.
AtWork(p) == pull[p].pc \notin {"idle", "fetched"}

PullOK(p) ==
    /\ DOMAIN pull[p] = PullFields
    /\ DOMAIN pull[p].cat \subseteq Slugs /\ pull[p].todo \subseteq Slugs
    /\ pull[p].pc \in {"mkdir", "mark", "file"} => pull[p].slug \in Slugs
    /\ pull[p].pc = "mark" => shared[pull[p].slug].by = "bare"
    /\ pull[p].pc = "file" => shared[pull[p].slug].by = "memclaw"

DiskInv ==
    /\ DOMAIN shared = Slugs /\ \A s \in Slugs : DOMAIN shared[s] = {"by", "body"}
    /\ DOMAIN pull = Pulls /\ \A p \in Pulls : PullOK(p)
    /\ \A p, q \in Pulls : AtWork(p) /\ AtWork(q) => p = q

-----------------------------------------------------------------------------
(* Documents and the records that hold them.                               *)

\* A verdict names the text it was reached on, and is one of two (sentinel scan_skill_doc).
LEMMA ScanVerdict ==
    ASSUME NEW id, NEW body
    PROVE  /\ scan_skill_doc(id, body).of = id
           /\ scan_skill_doc(id, body).state \in {"quarantined", "clean"}
BY Zenon DEF scan_skill_doc

WithStatus(doc, status) == [doc EXCEPT !.status = status]

\* A status transition changes the status and nothing else (_persist_status_transition).
LEMMA StatusSet ==
    ASSUME NEW doc, DOMAIN doc = DocFields, NEW status
    PROVE  /\ DOMAIN WithStatus(doc, status) = DocFields
           /\ WithStatus(doc, status).status = status
           /\ WithStatus(doc, status).body = doc.body
           /\ WithStatus(doc, status).hash = doc.hash
           /\ WithStatus(doc, status).scan = doc.scan
           /\ WithStatus(doc, status).fp = doc.fp
           /\ WithStatus(doc, status).fleet = doc.fleet
BY DEF WithStatus, DocFields

Moved(q, pc, snap) == [q EXCEPT !.pc = pc, !.snap = snap]

\* A handler that goes on keeps its slug, its operation and its fingerprint.
LEMMA MovedFields ==
    ASSUME NEW q, DOMAIN q = ReqFields, NEW pc, NEW snap
    PROVE  /\ DOMAIN Moved(q, pc, snap) = ReqFields
           /\ Moved(q, pc, snap).pc = pc /\ Moved(q, pc, snap).snap = snap
           /\ Moved(q, pc, snap).slug = q.slug /\ Moved(q, pc, snap).op = q.op
           /\ Moved(q, pc, snap).fp = q.fp /\ Moved(q, pc, snap).hash = q.hash
BY Zenon DEF Moved, ReqFields

\* An idle slot is in order.
LEMMA IdleIsOK == \A on, had, rows : ReqOK(IdleReq, on, had, rows)
BY Zenon DEF ReqOK, IdleReq, ReqFields

\* What is in order stays so as the history and the poison table grow.
LEMMA ReqGrows ==
    ASSUME NEW q, NEW on, NEW had, NEW had2, NEW rows, NEW rows2,
           ReqOK(q, on, had, rows), \A s \in Slugs : had[s] \subseteq had2[s],
           rows \subseteq rows2
    PROVE  ReqOK(q, on, had2, rows2)
BY Zenon DEF ReqOK, Recorded

\* The same of a database, as the history and the blessed texts grow.
LEMMA StoreGrows ==
    ASSUME NEW store, NEW on, NEW had, NEW had2, NEW blest, NEW blest2,
           StoreOK(store, on, had, blest), \A s \in Slugs : had[s] \subseteq had2[s],
           blest \subseteq blest2
    PROVE  StoreOK(store, on, had2, blest2)
BY Zenon DEF StoreOK, KeptDoc

\* The same of the tick, as time passes and the poison table grows.
LEMMA TickGrows ==
    ASSUME NEW t, NEW on, NEW split, NEW now \in Nat, NEW now2 \in Nat, NEW rows, NEW rows2,
           TickOK(t, on, split, now, rows), rows \subseteq rows2, now <= now2,
           \A row \in rows : row.until \in Nat
    PROVE  TickOK(t, on, split, now2, rows2)
<1>1. ASSUME NEW row \in t.known, Forbids(row, t.cand.fp, t.cand.fleet, now2)
      PROVE  Forbids(row, t.cand.fp, t.cand.fleet, now)
  <2>1. row.until \in Nat
    BY Zenon DEF TickOK
  <2> QED
    BY <1>1, <2>1 DEF Forbids
<1> QED
  BY Zenon, <1>1 DEF TickOK, Clear

-----------------------------------------------------------------------------
(* Steps.                                                                  *)

\* The bounds of the scene are used up; what it says of the tenant stays.
SceneKept ==
    SceneOK(scene') /\ scene'.enabled = scene.enabled /\ scene'.split = scene.split

\* What a step of any kind owes for the invariant to hold after it.
LEMMA StepKeeps ==
    ASSUME SkillsInv, SceneKept, clock' \in Nat, clock <= clock',
           StorageOK(docs', replica'.docs, scene.enabled, carried', blessed', poison'),
           \A s \in Slugs : carried[s] \subseteq carried'[s],
           poison \subseteq poison', \A row \in poison' : row.until \in Nat,
           shown' \subseteq Slugs \X DOMAIN Bodies, scene.enabled => shown' \subseteq blessed',
           DOMAIN req' = Reqs,
           \A r \in Reqs : req'[r] = req[r] \/ ReqOK(req'[r], scene.enabled, carried', poison'),
           \/ tick' = tick
           \/ TickOK(tick', scene.enabled, scene.split, clock', poison')
    PROVE  SkillsInv'
<1>1. \A r \in Reqs : ReqOK(req'[r], scene.enabled, carried', poison')
  BY Zenon, ReqGrows DEF SkillsInv
<1>2. TickOK(tick', scene.enabled, scene.split, clock', poison')
  BY Zenon, TickGrows DEF SkillsInv
<1> QED
  BY Zenon, <1>1, <1>2 DEF SkillsInv, SceneKept, ShownBlessed

\* The document is in order and replaces what the slug had.
LEMMA UpsertKeeps ==
    ASSUME SkillsInv, NEW s \in Slugs, NEW doc, Exists(doc), IsDoc(doc),
           scene.enabled => Vetted(doc),
           (scene.enabled /\ doc.status = "rejected") =>
               \E row \in poison : row.fleet = doc.fleet /\ row.fp \in carried[s],
           document_upsert(s, doc)
    PROVE  /\ StorageOK(docs', replica.docs, scene.enabled, carried', blessed', poison)
           /\ \A t \in Slugs : carried[t] \subseteq carried'[t]
           /\ blessed \subseteq blessed'
<1> DEFINE on == scene.enabled
<1>1. /\ DOMAIN carried = Slugs /\ blessed \subseteq Slugs \X DOMAIN Bodies
      /\ StoreOK(docs, on, carried, blessed) /\ StoreOK(replica.docs, on, carried, blessed)
      /\ AllRecorded(docs, on, carried, poison)
  BY Zenon DEF SkillsInv, StorageOK
<1>2. /\ DOMAIN docs' = Slugs /\ docs'[s] = doc
      /\ \A t \in Slugs : t # s => docs'[t] = docs[t]
  BY Zenon, <1>1 DEF document_upsert, StoreOK
<1>3. /\ DOMAIN carried' = Slugs /\ \A t \in Slugs : carried[t] \subseteq carried'[t]
      /\ doc.fp \in carried'[s] \cup {NoFp}
  BY Zenon, <1>1 DEF document_upsert
<1>4. /\ blessed \subseteq blessed'
      /\ Whole(doc) => <<s, doc.body>> \in blessed'
      /\ blessed' \subseteq Slugs \X DOMAIN Bodies
  BY <1>1 DEF document_upsert, IsDoc
<1>5. on /\ doc.status = "active" => Whole(doc)
  BY ScanVerdict DEF Vetted, Whole
<1>6. KeptDoc(s, docs'[s], on, carried', blessed')
  BY Zenon, <1>2, <1>3, <1>4, <1>5 DEF KeptDoc
<1>7. StoreOK(docs, on, carried', blessed') /\ StoreOK(replica.docs, on, carried', blessed')
  BY Zenon, <1>1, <1>3, <1>4, StoreGrows
<1>8. StoreOK(docs', on, carried', blessed')
  BY Zenon, <1>2, <1>6, <1>7 DEF StoreOK
<1>9. AllRecorded(docs', on, carried', poison)
  BY ZenonT(60), <1>1, <1>2, <1>3 DEF AllRecorded
<1> QED
  BY Zenon, <1>3, <1>4, <1>7, <1>8, <1>9 DEF StorageOK

\* A step that leaves the scene alone or uses up one of its bounds.
LEMMA SceneSpent ==
    ASSUME SceneOK(scene),
           \/ UNCHANGED scene
           \/ scene' = [scene EXCEPT !.requests = @ - 1]
           \/ scene' = [scene EXCEPT !.faults = @ - 1]
           \/ scene' = [scene EXCEPT !.ticks = @ - 1]
           \/ scene' = [scene EXCEPT !.foreign = @ - 1]
    PROVE  SceneKept
BY Zenon DEF SceneKept, SceneOK, SceneFields

\* What a handler reads is a stored document, whichever database answers.
LEMMA ReadKept ==
    ASSUME SkillsInv, NEW s \in Slugs
    PROVE  KeptDoc(s, get_document(s), scene.enabled, carried, blessed)
BY Zenon DEF SkillsInv, StorageOK, StoreOK, get_document, Read

\* The clock is a number, and no later than itself.
LEMMA ClockStays ==
    ASSUME SkillsInv
    PROVE  clock \in Nat /\ clock <= clock
<1>1. clock \in Nat
  BY Zenon DEF SkillsInv
<1> QED
  BY <1>1

\* A request moves on without touching the collection.
LEMMA RequestMoves ==
    ASSUME SkillsInv, SceneKept, NEW r \in Reqs, NEW f, Go(r, f),
           ReqOK(f, scene.enabled, carried, poison), Stored, World, UNCHANGED poison
    PROVE  SkillsInv'
<1>1. DOMAIN req' = Reqs /\ \A q \in Reqs : req'[q] = req[q] \/ req'[q] = f
  BY Zenon DEF Go, SkillsInv
<1>2. \A q \in Reqs : req'[q] = req[q] \/ ReqOK(req'[q], scene.enabled, carried, poison)
  BY <1>1
<1>3. /\ docs' = docs /\ carried' = carried /\ blessed' = blessed /\ poison' = poison
      /\ replica' = replica /\ clock' = clock /\ tick' = tick /\ shown' = shown
  BY DEF Stored, World
<1>4. clock \in Nat /\ clock <= clock
  BY Zenon, ClockStays
<1> QED
  BY Zenon, <1>1, <1>2, <1>3, <1>4, StepKeeps DEF SkillsInv, ShownBlessed

\* A request writes the document it holds, and is done.
LEMMA RequestWrites ==
    ASSUME SkillsInv, SceneKept, NEW r \in Reqs, NEW s \in Slugs, NEW doc,
           Exists(doc), IsDoc(doc), scene.enabled => Vetted(doc),
           (scene.enabled /\ doc.status = "rejected") =>
               \E row \in poison : row.fleet = doc.fleet /\ row.fp \in carried[s],
           document_upsert(s, doc), Done(r), World, UNCHANGED poison
    PROVE  SkillsInv'
<1>1. DOMAIN req' = Reqs /\ \A q \in Reqs : req'[q] = req[q] \/ req'[q] = IdleReq
  BY Zenon DEF Done, Go, SkillsInv
<1>2. \A q \in Reqs : req'[q] = req[q] \/ ReqOK(req'[q], scene.enabled, carried', poison)
  BY Zenon, <1>1, IdleIsOK
<1>3. poison' = poison /\ replica' = replica /\ clock' = clock /\ tick' = tick /\ shown' = shown
  BY Zenon DEF World
<1>4. /\ StorageOK(docs', replica.docs, scene.enabled, carried', blessed', poison)
      /\ \A t \in Slugs : carried[t] \subseteq carried'[t]
      /\ blessed \subseteq blessed'
  BY Zenon, UpsertKeeps
<1>5. clock \in Nat /\ clock <= clock
  BY Zenon, ClockStays
<1>6. scene.enabled => shown \subseteq blessed'
  BY Zenon, <1>4 DEF SkillsInv, ShownBlessed
<1> QED
  BY Zenon, <1>1, <1>2, <1>3, <1>4, <1>5, <1>6, StepKeeps DEF SkillsInv

\* An approved status of a validated write, and what it stores (skill_lifecycle.py).
LEMMA Validated ==
    ASSUME NEW data, data.status \in Statuses \cup {Unset}, NEW ctx, ~ctx.forge, NEW live,
           NEW verdict, verdict = validate_and_normalize_skill_write(data, ctx, Bodies, live),
           verdict.code = 200
    PROVE  /\ verdict.hash = Bodies[data.body].content
           /\ verdict.scan = scan_skill_doc(data.body, Bodies[data.body])
           /\ verdict.status \in {"staged", "active", "quarantined"}
           /\ verdict.status = "active" => verdict.scan.state = "clean"
           /\ data.status = Unset => verdict.status # "active"
<1> DEFINE status == StatusOf(data, ctx)
           scan == scan_skill_doc(data.body, Bodies[data.body])
<1>1. scan.state \in {"quarantined", "clean"}
  BY ScanVerdict
<1>2. \A code : Refused(code).code = code
  BY Zenon DEF Refused
<1>3. /\ StatusAllowed(status, ctx)
      /\ verdict = [code |-> 200, scan |-> scan, hash |-> Bodies[data.body].content,
                    status |-> IF scan.state = "quarantined" THEN "quarantined" ELSE status]
  BY <1>2 DEF validate_and_normalize_skill_write
<1>4. status \in {"staged", "active"} /\ (data.status = Unset => status = "staged")
  BY Zenon, <1>3 DEF StatusAllowed, StatusOf, Statuses, Unset
<1> HIDE DEF status, scan
<1> QED
  BY <1>1, <1>3, <1>4 DEF scan

-----------------------------------------------------------------------------
(* The inbox and the document routes.                                      *)

InboxOps == {"approve", "reject", "quarantine", "defer", "edit"}

\* What a reload accepts exists and is not rejected.
LEMMA ReloadHolds ==
    ASSUME SkillsInv, NEW op \in InboxOps, NEW s \in Slugs, _reload_and_assert_status(op, s)
    PROVE  HeldDoc(get_document(s), scene.enabled)
<1>1. get_document(s).status \in {"staged", "candidate", "quarantined"}
  BY DEF _reload_and_assert_status, Allowed, InboxOps
<1>2. KeptDoc(s, get_document(s), scene.enabled, carried, blessed)
  BY Zenon, ReadKept
<1> QED
  BY Zenon, <1>1, <1>2 DEF HeldDoc, KeptDoc, Exists

\* A handler's first reads: the slot holds what it read.
LEMMA LoadsKeep ==
    ASSUME SkillsInv, NEW r \in Reqs, NEW op \in InboxOps, NEW s \in Slugs, Loads(r, op, s),
           op = "reject" => get_document(s).fp # NoFp
    PROVE  SkillsInv'
<1> DEFINE doc == get_document(s)
           f == [pc |-> "loaded", op |-> op, slug |-> s, snap |-> doc, hash |-> doc.hash,
                 fp |-> doc.fp]
<1>1. SceneKept
  BY Zenon, SceneSpent DEF Loads, Opens, SkillsInv
<1>2. HeldDoc(doc, scene.enabled)
  BY Zenon, ReloadHolds DEF Loads
<1>3. op = "reject" => doc.fp \in carried[s]
  BY Zenon, <1>2, ReadKept DEF KeptDoc, HeldDoc
<1>4. /\ DOMAIN f = ReqFields /\ f.pc = "loaded" /\ f.op = op /\ f.slug = s /\ f.snap = doc
      /\ f.fp = doc.fp
  BY Zenon DEF ReqFields
<1>5. Go(r, f) /\ Stored /\ World /\ UNCHANGED poison
  BY Zenon DEF Loads
<1> HIDE DEF f, doc
<1>6. ReqOK(f, scene.enabled, carried, poison)
  BY Zenon, <1>2, <1>3, <1>4 DEF ReqOK
<1> QED
  BY Zenon, <1>1, <1>5, <1>6, RequestMoves

\* A request under way, as a step that takes it on finds it.
LEMMA Underway ==
    ASSUME SkillsInv, NEW r \in Reqs, NEW op, NEW pc, pc # "idle", At(r, op, pc)
    PROVE  /\ SceneKept /\ req[r].op = op /\ req[r].pc = pc /\ DOMAIN req[r] = ReqFields
           /\ req[r].slug \in Slugs /\ HeldDoc(req[r].snap, scene.enabled)
           /\ DOMAIN req[r].snap = DocFields
           /\ scene.enabled /\ op = "approve" /\ pc = "write" => req[r].snap.scan.state = "clean"
           /\ op = "reject" => req[r].fp \in carried[req[r].slug]
           /\ op = "reject" /\ pc = "write" => Recorded(poison, req[r].fp, req[r].snap.fleet)
<1>1. ReqOK(req[r], scene.enabled, carried, poison) /\ SceneOK(scene)
  BY Zenon DEF SkillsInv
<1>2. req[r].op = op /\ req[r].pc = pc /\ UNCHANGED scene
  BY Zenon DEF At
<1>3. SceneKept
  BY Zenon, <1>1, <1>2, SceneSpent
<1> QED
  BY Zenon, <1>1, <1>2, <1>3 DEF ReqOK, HeldDoc, IsDoc

Rehomed(doc, fleet) == [doc EXCEPT !.fleet = fleet]

\* A document with another fleet is the same document for every check.
LEMMA RehomedHeld ==
    ASSUME NEW doc, NEW on, NEW fleet, HeldDoc(doc, on)
    PROVE  HeldDoc(Rehomed(doc, fleet), on)
<1>1. DOMAIN doc = DocFields
  BY Zenon DEF HeldDoc, IsDoc
<1>2. /\ DOMAIN Rehomed(doc, fleet) = DocFields
      /\ Rehomed(doc, fleet).status = doc.status /\ Rehomed(doc, fleet).body = doc.body
      /\ Rehomed(doc, fleet).hash = doc.hash /\ Rehomed(doc, fleet).scan = doc.scan
  BY ZenonT(60), <1>1 DEF Rehomed, DocFields
<1> QED
  BY Zenon, <1>2 DEF HeldDoc, IsDoc, Vetted, Exists

Rescanned(doc, scan) == [doc EXCEPT !.scan = scan, !.deferred = FALSE]

\* approve scans the document of its last reload and keeps it with that scan.
LEMMA ApproveScansKeeps ==
    ASSUME SkillsInv, NEW r \in Reqs, ApproveScans(r)
    PROVE  SkillsInv'
<1> DEFINE doc == get_document(req[r].slug)
           scan == scan_skill_doc(doc.body, Bodies[doc.body])
           snap == Rescanned(doc, scan)
           fresh == _reload_and_assert_status("approve", req[r].slug) /\ doc.hash = req[r].hash
<1>1. At(r, "approve", "loaded") /\ Stored /\ World /\ UNCHANGED poison
  BY Zenon DEF ApproveScans
<1>2. /\ SceneKept /\ req[r].op = "approve" /\ DOMAIN req[r] = ReqFields
      /\ req[r].slug \in Slugs
  BY Zenon, <1>1, Underway
<1>3. \/ Go(r, IdleReq)
      \/ fresh /\ scan.state = "clean" /\ Go(r, Moved(req[r], "write", snap))
  BY Zenon DEF ApproveScans, Done, Moved, Rescanned
<1>4. CASE Go(r, IdleReq)
  BY Zenon, <1>1, <1>2, <1>4, IdleIsOK, RequestMoves
<1>5. CASE fresh /\ scan.state = "clean" /\ Go(r, Moved(req[r], "write", snap))
  <2>1. HeldDoc(doc, scene.enabled)
    BY Zenon, <1>2, <1>5, ReloadHolds DEF InboxOps
  <2>2. /\ DOMAIN snap = DocFields /\ snap.status = doc.status /\ snap.body = doc.body
        /\ snap.hash = doc.hash /\ snap.scan = scan
    BY Zenon, <2>1 DEF Rescanned, DocFields, HeldDoc, IsDoc
  <2> HIDE DEF snap, doc
  <2>3. HeldDoc(snap, scene.enabled)
    BY ZenonT(60), <1>5, <2>1, <2>2 DEF HeldDoc, IsDoc, Vetted, Exists
  <2>4. ReqOK(Moved(req[r], "write", snap), scene.enabled, carried, poison)
    BY <1>2, <1>5, <2>2, <2>3, MovedFields DEF ReqOK
  <2> QED
    BY Zenon, <1>1, <1>2, <1>5, <2>4, RequestMoves
<1> QED
  BY Zenon, <1>3, <1>4, <1>5

\* The second reload of a reject keeps the fingerprint of the first.
LEMMA RejectReloadsKeeps ==
    ASSUME SkillsInv, NEW r \in Reqs, RejectReloads(r)
    PROVE  SkillsInv'
<1> DEFINE doc == get_document(req[r].slug)
<1>1. At(r, "reject", "loaded") /\ Stored /\ World /\ UNCHANGED poison
  BY Zenon DEF RejectReloads
<1>2. /\ SceneKept /\ req[r].op = "reject" /\ DOMAIN req[r] = ReqFields
      /\ req[r].slug \in Slugs /\ req[r].fp \in carried[req[r].slug]
  BY Zenon, <1>1, Underway
<1>3. \/ Go(r, IdleReq)
      \/ /\ _reload_and_assert_status("reject", req[r].slug)
         /\ Go(r, Moved(req[r], "poison", doc))
  BY Zenon DEF RejectReloads, Done, Moved
<1>4. CASE Go(r, IdleReq)
  BY Zenon, <1>1, <1>2, <1>4, IdleIsOK, RequestMoves
<1>5. CASE /\ _reload_and_assert_status("reject", req[r].slug)
           /\ Go(r, Moved(req[r], "poison", doc))
  <2>1. HeldDoc(doc, scene.enabled)
    BY Zenon, <1>2, <1>5, ReloadHolds DEF InboxOps
  <2> HIDE DEF doc
  <2>2. ReqOK(Moved(req[r], "poison", doc), scene.enabled, carried, poison)
    <3> DEFINE q == Moved(req[r], "poison", doc)
    <3>1. /\ DOMAIN q = ReqFields /\ q.pc = "poison" /\ q.snap = doc
          /\ q.slug = req[r].slug /\ q.op = req[r].op /\ q.fp = req[r].fp
      BY <1>2, MovedFields DEF ReqOK
    <3> HIDE DEF q
    <3>2. ReqOK(q, scene.enabled, carried, poison)
      BY Zenon, <1>2, <2>1, <3>1 DEF ReqOK
    <3> QED
      BY Zenon, <3>2 DEF q
  <2> QED
    BY Zenon, <1>1, <1>2, <1>5, <2>2, RequestMoves
<1> QED
  BY Zenon, <1>3, <1>4, <1>5

\* The poison row is written for the fingerprint and the fleet the reject holds.
LEMMA RejectPoisonsKeeps ==
    ASSUME SkillsInv, NEW r \in Reqs, RejectPoisons(r)
    PROVE  SkillsInv'
<1> DEFINE row == [fp |-> req[r].fp, fleet |-> req[r].snap.fleet, until |-> clock + Cooloff]
           f == [req[r] EXCEPT !.pc = "write"]
<1>1. At(r, "reject", "poison") /\ Stored /\ World /\ Go(r, f)
  BY Zenon DEF RejectPoisons
<1>2. poison' = poison \cup {row}
  BY Zenon DEF RejectPoisons, write_rejected_fingerprint, forge_write_rejected_fingerprint
<1>3. /\ SceneKept /\ req[r].op = "reject" /\ DOMAIN req[r] = ReqFields
      /\ req[r].slug \in Slugs /\ req[r].fp \in carried[req[r].slug]
      /\ HeldDoc(req[r].snap, scene.enabled)
  BY Zenon, <1>1, Underway
<1>4. /\ DOMAIN f = ReqFields /\ f.pc = "write" /\ f.op = "reject" /\ f.slug = req[r].slug
      /\ f.snap = req[r].snap /\ f.fp = req[r].fp
  BY Zenon, <1>3 DEF ReqFields
<1>5. row.fp = req[r].fp /\ row.fleet = req[r].snap.fleet /\ row.until \in Nat
  BY SkillsAssumption DEF SkillsInv
<1> HIDE DEF f, row
<1>6. ReqOK(f, scene.enabled, carried, poison')
  BY Zenon, <1>2, <1>3, <1>4, <1>5 DEF ReqOK, Recorded
<1>7. DOMAIN req' = Reqs /\ \A q \in Reqs : req'[q] = req[q] \/ req'[q] = f
  BY Zenon, <1>1 DEF Go, SkillsInv
<1>8. /\ docs' = docs /\ carried' = carried /\ blessed' = blessed
      /\ replica' = replica /\ clock' = clock /\ tick' = tick /\ shown' = shown
  BY Zenon, <1>1 DEF Stored, World
<1>9. /\ clock \in Nat /\ clock <= clock /\ poison \subseteq poison'
      /\ \A x \in poison' : x.until \in Nat
  BY <1>2, <1>5 DEF SkillsInv
<1>10. StorageOK(docs, replica.docs, scene.enabled, carried, blessed, poison')
  BY Zenon, <1>9 DEF SkillsInv, StorageOK, AllRecorded
<1> QED
  BY Zenon, <1>3, <1>6, <1>7, <1>8, <1>9, <1>10, StepKeeps DEF SkillsInv, ShownBlessed

\* approve, reject and quarantine write what they hold with the new status.
LEMMA TransitionKeeps ==
    ASSUME SkillsInv, NEW r \in Reqs, approve(r) \/ reject(r) \/ quarantine(r) \/ edit(r)
    PROVE  SkillsInv'
<1> DEFINE snap == req[r].snap
<1>1. PICK op, pc, status :
         /\ At(r, op, pc) /\ _persist_status_transition(r, status)
         /\ \/ op = "approve" /\ pc = "write" /\ status = "active"
            \/ op = "reject" /\ pc = "write" /\ status = "rejected"
            \/ op = "quarantine" /\ pc = "loaded" /\ status = "quarantined"
            \/ op = "edit" /\ pc = "write" /\ status = snap.status
  BY Zenon DEF approve, reject, quarantine, edit
<1> DEFINE doc == WithStatus(snap, status)
<1>2. pc # "idle"
  BY Zenon, <1>1
<1>3. /\ SceneKept /\ req[r].slug \in Slugs /\ HeldDoc(snap, scene.enabled)
      /\ DOMAIN snap = DocFields
      /\ scene.enabled /\ op = "approve" => snap.scan.state = "clean"
      /\ op = "reject" => req[r].fp \in carried[req[r].slug]
      /\ op = "reject" => Recorded(poison, req[r].fp, snap.fleet)
  BY ZenonT(60), <1>1, <1>2, Underway
<1>4. /\ document_upsert(req[r].slug, doc) /\ Done(r) /\ World /\ UNCHANGED poison
  BY Zenon, <1>1 DEF _persist_status_transition, WithStatus
<1>5. /\ DOMAIN doc = DocFields /\ doc.status = status /\ doc.body = snap.body
      /\ doc.hash = snap.hash /\ doc.scan = snap.scan /\ doc.fleet = snap.fleet
  <2> HIDE DEF snap
  <2> QED
    BY <1>3, StatusSet
<1> HIDE DEF snap, doc
<1>6. Exists(doc) /\ IsDoc(doc) /\ (scene.enabled => Vetted(doc))
  BY Zenon, <1>1, <1>3, <1>5 DEF HeldDoc, IsDoc, Vetted, Exists
<1>7. (scene.enabled /\ doc.status = "rejected") =>
          \E row \in poison : row.fleet = doc.fleet /\ row.fp \in carried[req[r].slug]
  BY ZenonT(60), <1>1, <1>3, <1>5 DEF Recorded, HeldDoc
<1> QED
  BY Zenon, <1>3, <1>4, <1>6, <1>7, RequestWrites

\* defer writes back what it read, with a note.
LEMMA DeferKeeps ==
    ASSUME SkillsInv, NEW r \in Reqs, defer(r)
    PROVE  SkillsInv'
<1> DEFINE snap == req[r].snap
           doc == [snap EXCEPT !.deferred = TRUE]
<1>1. At(r, "defer", "loaded") /\ World /\ UNCHANGED poison
      /\ document_upsert(req[r].slug, doc) /\ Done(r)
  BY Zenon DEF defer
<1>2. /\ SceneKept /\ req[r].slug \in Slugs /\ HeldDoc(snap, scene.enabled)
      /\ DOMAIN snap = DocFields
  BY Zenon, <1>1, Underway
<1>3. /\ DOMAIN doc = DocFields /\ doc.status = snap.status /\ doc.body = snap.body
      /\ doc.hash = snap.hash /\ doc.scan = snap.scan
  BY Zenon, <1>2 DEF DocFields
<1> HIDE DEF snap, doc
<1>4. /\ Exists(doc) /\ IsDoc(doc)
      /\ scene.enabled => Vetted(doc) /\ doc.status # "rejected"
  BY Zenon, <1>2, <1>3 DEF HeldDoc, IsDoc, Vetted, Exists
<1> QED
  BY Zenon, <1>1, <1>2, <1>4, RequestWrites

Edited(doc, body, verdict) ==
    [doc EXCEPT !.body = body, !.hash = verdict.hash, !.scan = verdict.scan,
                !.status = verdict.status, !.deferred = FALSE]

\* edit holds the new text with the hash, the scan and the status the validator gave it.
LEMMA EditValidatesKeeps ==
    ASSUME SkillsInv, NEW r \in Reqs, NEW body \in DOMAIN Bodies, EditValidates(r, body)
    PROVE  SkillsInv'
<1> DEFINE old == req[r].snap
           data == [status |-> Unset, source |-> old.source, kind |-> old.kind,
                    bound |-> old.bound, body |-> body]
           ctx == [admin |-> TRUE, forge |-> FALSE, edit |-> TRUE]
           verdict == validate_and_normalize_skill_write(data, ctx, Bodies, LiveHash(old.target))
           snap == Edited(old, body, verdict)
<1>1. At(r, "edit", "loaded") /\ Stored /\ World /\ UNCHANGED poison
  BY Zenon DEF EditValidates
<1>2. /\ SceneKept /\ req[r].op = "edit" /\ DOMAIN req[r] = ReqFields
      /\ req[r].slug \in Slugs /\ DOMAIN old = DocFields
  BY Zenon, <1>1, Underway
<1>3. \/ Go(r, IdleReq)
      \/ verdict.code = 200 /\ Go(r, Moved(req[r], "checked", snap))
  BY Zenon DEF EditValidates, Done, Moved, Edited
<1>4. CASE Go(r, IdleReq)
  BY Zenon, <1>1, <1>2, <1>4, IdleIsOK, RequestMoves
<1>5. CASE verdict.code = 200 /\ Go(r, Moved(req[r], "checked", snap))
  <2>1. /\ data.status = Unset /\ data.body = body /\ ~ctx.forge
        /\ data.status \in Statuses \cup {Unset}
        /\ verdict = validate_and_normalize_skill_write(data, ctx, Bodies, LiveHash(old.target))
    BY ZenonT(60)
  <2> HIDE DEF data, ctx, verdict
  <2>2. /\ verdict.hash = Bodies[body].content
        /\ verdict.scan = scan_skill_doc(body, Bodies[body])
        /\ verdict.status \in {"staged", "quarantined"}
    BY <1>5, <2>1, Validated
  <2> HIDE DEF old
  <2>3. /\ DOMAIN snap = DocFields /\ snap.status = verdict.status /\ snap.body = body
        /\ snap.hash = verdict.hash /\ snap.scan = verdict.scan
    BY Zenon, <1>2 DEF Edited, DocFields
  <2> HIDE DEF snap
  <2>4. HeldDoc(snap, scene.enabled)
    BY ZenonT(60), <2>2, <2>3 DEF HeldDoc, IsDoc, Vetted, Exists
  <2>5. ReqOK(Moved(req[r], "checked", snap), scene.enabled, carried, poison)
    BY <1>2, <2>4, MovedFields DEF ReqOK
  <2> QED
    BY Zenon, <1>1, <1>2, <1>5, <2>5, RequestMoves
<1> QED
  BY Zenon, <1>3, <1>4, <1>5

\* The last reload of an edit gives the fleet, and only that.
LEMMA EditReloadsKeeps ==
    ASSUME SkillsInv, NEW r \in Reqs, EditReloads(r)
    PROVE  SkillsInv'
<1> DEFINE snap == Rehomed(req[r].snap, get_document(req[r].slug).fleet)
<1>1. At(r, "edit", "checked") /\ Stored /\ World /\ UNCHANGED poison
  BY Zenon DEF EditReloads
<1>2. /\ SceneKept /\ req[r].op = "edit" /\ DOMAIN req[r] = ReqFields
      /\ req[r].slug \in Slugs /\ HeldDoc(req[r].snap, scene.enabled)
  BY Zenon, <1>1, Underway
<1>3. Go(r, IdleReq) \/ Go(r, Moved(req[r], "write", snap))
  <2>1. [req[r] EXCEPT !.pc = "write", !.snap.fleet = get_document(req[r].slug).fleet]
          = Moved(req[r], "write", snap)
    BY Zenon, <1>2 DEF Moved, Rehomed, ReqFields
  <2> QED
    BY Zenon, <2>1 DEF EditReloads, Done
<1>4. CASE Go(r, IdleReq)
  BY Zenon, <1>1, <1>2, <1>4, IdleIsOK, RequestMoves
<1>5. CASE Go(r, Moved(req[r], "write", snap))
  <2>1. HeldDoc(snap, scene.enabled)
    BY Zenon, <1>2, RehomedHeld
  <2> HIDE DEF snap
  <2>2. ReqOK(Moved(req[r], "write", snap), scene.enabled, carried, poison)
    <3> DEFINE q == Moved(req[r], "write", snap)
    <3>1. /\ DOMAIN q = ReqFields /\ q.pc = "write" /\ q.snap = snap
          /\ q.slug = req[r].slug /\ q.op = req[r].op /\ q.fp = req[r].fp
      BY <1>2, MovedFields DEF ReqOK
    <3> HIDE DEF q
    <3>2. ReqOK(q, scene.enabled, carried, poison)
      BY Zenon, <1>2, <2>1, <3>1 DEF ReqOK
    <3> QED
      BY Zenon, <3>2 DEF q
  <2> QED
    BY Zenon, <1>1, <1>2, <1>5, <2>2, RequestMoves
<1> QED
  BY Zenon, <1>3, <1>4, <1>5

\* A handler that raises leaves everything as it is.
LEMMA RaisesKeeps ==
    ASSUME SkillsInv, NEW r \in Reqs, Raises(r)
    PROVE  SkillsInv'
<1>1. SceneKept
  BY Zenon, SceneSpent DEF Raises, SkillsInv
<1> QED
  BY <1>1, IdleIsOK, RequestMoves DEF Raises, Done

\* What a write of a caller becomes: of a tenant that has opted in, vetted.
LEMMA CheckedHeld ==
    ASSUME SkillsInv, NEW s \in Slugs, NEW data \in scene.data, NEW admin, NEW fleet,
           NEW doc \in Checked(s, data, admin, fleet)
    PROVE  HeldDoc(doc, scene.enabled)
<1> DEFINE ctx == [admin |-> admin, forge |-> FALSE, edit |-> FALSE]
           verdict == validate_and_normalize_skill_write(data, ctx, Bodies, LiveHash(s))
<1>1. data.body \in DOMAIN Bodies /\ data.status \in Statuses \cup {Unset}
  BY Zenon DEF SkillsInv, SceneOK
<1>2. /\ ~ctx.forge
      /\ verdict = validate_and_normalize_skill_write(data, ctx, Bodies, LiveHash(s))
  BY Zenon
<1>3. \/ ~scene.enabled /\ doc = Fresh(data, fleet, data.status, Nil, NoScan)
      \/ /\ verdict.code = 200
         /\ doc = Fresh(data, fleet, verdict.status, verdict.hash, verdict.scan)
  BY Zenon DEF Checked
<1>4. \A status, hash, scan :
         LET d == Fresh(data, fleet, status, hash, scan)
         IN  /\ DOMAIN d = DocFields /\ d.status = status /\ d.body = data.body
             /\ d.hash = hash /\ d.scan = scan
  BY ZenonT(60) DEF Fresh, DocFields
<1> HIDE DEF ctx, verdict
<1>5. CASE ~scene.enabled /\ doc = Fresh(data, fleet, data.status, Nil, NoScan)
  <2>1. DOMAIN doc = DocFields /\ doc.status = data.status /\ doc.body = data.body
    BY <1>4, <1>5
  <2>2. data.status # "none"
    BY <1>1 DEF Statuses, Unset
  <2> QED
    BY Zenon, <1>1, <1>5, <2>1, <2>2 DEF HeldDoc, IsDoc, Exists
<1>6. CASE /\ verdict.code = 200
           /\ doc = Fresh(data, fleet, verdict.status, verdict.hash, verdict.scan)
  <2>1. /\ verdict.hash = Bodies[data.body].content
        /\ verdict.scan = scan_skill_doc(data.body, Bodies[data.body])
        /\ verdict.status \in {"staged", "active", "quarantined"}
        /\ verdict.status = "active" => verdict.scan.state = "clean"
    BY <1>1, <1>2, <1>6, Validated
  <2>2. /\ DOMAIN doc = DocFields /\ doc.status = verdict.status /\ doc.body = data.body
        /\ doc.hash = verdict.hash /\ doc.scan = verdict.scan
    BY <1>4, <1>6
  <2> QED
    BY ZenonT(60), <1>1, <2>1, <2>2 DEF HeldDoc, IsDoc, Vetted, Exists
<1> QED
  BY Zenon, <1>3, <1>5, <1>6

\* The write is under way with what it will store.
LEMMA EmbedsKeep ==
    ASSUME SkillsInv, SceneKept, NEW r \in Reqs, NEW s \in Slugs, NEW doc,
           HeldDoc(doc, scene.enabled), NEW op \in {"admin_write", "agent_write", "mcp_write"},
           Embeds(r, op, s, doc)
    PROVE  SkillsInv'
<1> DEFINE f == [pc |-> "embed", op |-> op, slug |-> s, snap |-> doc, hash |-> Nil, fp |-> NoFp]
<1>1. Go(r, f) /\ Stored /\ World /\ UNCHANGED poison
  BY Zenon DEF Embeds
<1>2. DOMAIN f = ReqFields /\ f.op = op /\ f.slug = s /\ f.snap = doc
  BY Zenon DEF ReqFields
<1> HIDE DEF f
<1>3. ReqOK(f, scene.enabled, carried, poison)
  BY Zenon, <1>2 DEF ReqOK
<1> QED
  BY Zenon, <1>1, <1>3, RequestMoves

\* A write of a caller, validated.
LEMMA ValidatesKeep ==
    ASSUME SkillsInv, NEW r \in Reqs, NEW s \in Slugs, NEW data \in scene.data,
           \/ \E admin \in BOOLEAN : UpsertValidates(r, s, data, admin)
           \/ McpWriteValidates(r, s, data)
    PROVE  SkillsInv'
<1>1. ASSUME NEW admin, NEW op \in {"admin_write", "agent_write", "mcp_write"},
             NEW doc \in Checked(s, data, admin, Nil), Opens(r, op), Embeds(r, op, s, doc)
      PROVE  SkillsInv'
  <2>1. SceneKept
    BY Zenon, <1>1, SceneSpent DEF Opens, SkillsInv
  <2>2. HeldDoc(doc, scene.enabled)
    BY Zenon, <1>1, CheckedHeld
  <2> QED
    BY Zenon, <1>1, <2>1, <2>2, EmbedsKeep
<1>2. CASE McpWriteValidates(r, s, data)
  BY Zenon, <1>1, <1>2 DEF McpWriteValidates
<1>3. ASSUME NEW admin \in BOOLEAN, UpsertValidates(r, s, data, admin)
      PROVE  SkillsInv'
  <2>1. CASE admin
    BY Zenon, <1>1, <1>3, <2>1 DEF UpsertValidates
  <2>2. CASE ~admin
    BY Zenon, <1>1, <1>3, <2>2 DEF UpsertValidates
  <2> QED
    BY Zenon, <2>1, <2>2
<1> QED
  BY Zenon, <1>2, <1>3

\* The write of a caller, embedded and stored.
LEMMA CallerWritesKeep ==
    ASSUME SkillsInv, NEW r \in Reqs, upsert_document(r) \/ McpWrites(r)
    PROVE  SkillsInv'
<1>1. PICK op, doc :
         /\ op \in {"admin_write", "agent_write", "mcp_write"} /\ At(r, op, "embed")
         /\ doc = req[r].snap \/ \E fleet : doc = Rehomed(req[r].snap, fleet)
         /\ document_upsert(req[r].slug, doc) /\ Done(r) /\ World /\ UNCHANGED poison
  BY Zenon DEF upsert_document, McpWrites, Rehomed
<1>2. SceneKept /\ req[r].slug \in Slugs /\ HeldDoc(req[r].snap, scene.enabled)
  BY Zenon, <1>1, Underway
<1>3. HeldDoc(doc, scene.enabled)
  BY Zenon, <1>1, <1>2, RehomedHeld
<1> QED
  BY Zenon, <1>1, <1>2, <1>3, RequestWrites DEF HeldDoc

\* A delete takes the document and leaves the rest.
LEMMA DeletesKeep ==
    ASSUME SkillsInv, NEW r \in Reqs, NEW s \in Slugs, delete_document(r, s) \/ McpDeletes(r, s)
    PROVE  SkillsInv'
<1>1. PICK op, status :
         /\ Opens(r, op) /\ document_delete_by_doc_id(s, status)
         /\ World /\ UNCHANGED <<req, poison>>
  BY Zenon DEF delete_document, McpDeletes
<1>2. SceneKept
  BY Zenon, <1>1, SceneSpent DEF Opens, SkillsInv
<1>3. /\ docs' = [docs EXCEPT ![s] = NoDoc] /\ carried' = carried /\ blessed' = blessed
      /\ poison' = poison /\ req' = req
      /\ replica' = replica /\ clock' = clock /\ tick' = tick /\ shown' = shown
  BY Zenon, <1>1 DEF World, document_delete_by_doc_id
<1>4. KeptDoc(s, NoDoc, scene.enabled, carried, blessed)
  BY Zenon DEF KeptDoc, NoDoc, IsDoc, Vetted, Exists
<1>5. /\ DOMAIN docs = Slugs /\ DOMAIN docs' = Slugs /\ docs'[s] = NoDoc
      /\ \A t \in Slugs : t # s => docs'[t] = docs[t]
  BY Zenon, <1>3 DEF SkillsInv, StorageOK, StoreOK
<1>6. StoreOK(docs', scene.enabled, carried, blessed)
  BY Zenon, <1>4, <1>5 DEF SkillsInv, StorageOK, StoreOK
<1>7. AllRecorded(docs', scene.enabled, carried, poison)
  <2>1. AllRecorded(docs, scene.enabled, carried, poison)
    BY Zenon DEF SkillsInv, StorageOK
  <2>2. docs'[s].status # "rejected"
    BY <1>5 DEF NoDoc
  <2>3. ASSUME NEW t \in Slugs, docs'[t].status = "rejected"
        PROVE  docs'[t] = docs[t]
    BY Zenon, <1>5, <2>2, <2>3
  <2> QED
    BY Zenon, <2>1, <2>3 DEF AllRecorded
<1>8. clock \in Nat /\ clock <= clock
  BY Zenon, ClockStays
<1>9. StorageOK(docs', replica.docs, scene.enabled, carried, blessed, poison)
  BY Zenon, <1>6, <1>7 DEF SkillsInv, StorageOK
<1> QED
  BY ZenonT(60), <1>2, <1>3, <1>8, <1>9, StepKeeps DEF SkillsInv, ShownBlessed

-----------------------------------------------------------------------------
(* What agents and nodes are given.                                        *)

Given(rows) == {<<s, get_document(s).body>> : s \in rows}

\* A reader that is given only active documents is given only blessed texts.
LEMMA GivesKeep ==
    ASSUME SkillsInv, NEW rows, rows \subseteq Slugs,
           \A s \in rows : /\ Exists(get_document(s))
                           /\ scene.enabled => get_document(s).status = "active",
           shown' = shown \cup Given(rows),
           UNCHANGED <<docs, poison, replica, clock, req, tick, carried, blessed, scene>>
    PROVE  SkillsInv'
<1>1. \A s \in rows : KeptDoc(s, get_document(s), scene.enabled, carried, blessed)
  BY ReadKept
<1>2. Given(rows) \subseteq Slugs \X DOMAIN Bodies
  BY <1>1 DEF Given, KeptDoc, IsDoc
<1>3. scene.enabled => Given(rows) \subseteq blessed
  BY Zenon, <1>1 DEF Given, KeptDoc
<1>4. SceneOK(scene)
  BY Zenon DEF SkillsInv
<1>5. SceneKept /\ clock \in Nat /\ clock <= clock
  BY Zenon, <1>4, SceneSpent, ClockStays
<1> QED
  BY ZenonT(60), <1>2, <1>3, <1>5, StepKeeps DEF SkillsInv, ShownBlessed

\* A step that only uses up a bound of the scene.
LEMMA SpendKeeps ==
    ASSUME SkillsInv, SceneKept,
           UNCHANGED <<docs, poison, replica, clock, req, tick, carried, blessed, shown>>
    PROVE  SkillsInv'
<1>1. clock \in Nat /\ clock <= clock
  BY Zenon, ClockStays
<1> QED
  BY Zenon, <1>1, StepKeeps DEF SkillsInv, ShownBlessed

\* The tool's reads, queries and searches.
LEMMA McpShowsKeep ==
    ASSUME SkillsInv,
           \/ \E s \in Slugs, outage \in BOOLEAN : \/ McpReads(s, outage)
                                                   \/ \E scoped \in BOOLEAN : McpSearches(s, scoped, outage)
           \/ \E asked \in {Unset, "active", "staged"}, outage \in BOOLEAN : McpQueries(asked, outage)
    PROVE  SkillsInv'
<1>1. ASSUME NEW rows, rows \subseteq Slugs, Shows(rows),
             \A s \in rows : /\ Exists(get_document(s))
                             /\ scene.enabled => get_document(s).status = "active"
      PROVE  SkillsInv'
  BY Zenon, <1>1, GivesKeep DEF Shows, Stored, Given
<1>2. ASSUME NEW s \in Slugs, NEW outage \in BOOLEAN, McpReads(s, outage)
      PROVE  SkillsInv'
  BY Zenon, <1>1, <1>2 DEF McpReads, _skill_hidden_from_agent, _skills_factory_enabled
<1>3. ASSUME NEW s \in Slugs, NEW outage \in BOOLEAN, NEW scoped, McpSearches(s, scoped, outage)
      PROVE  SkillsInv'
  BY Zenon, <1>1, <1>3 DEF McpSearches, _skill_hidden_from_agent, _skills_factory_enabled
<1>4. ASSUME NEW asked, NEW outage \in BOOLEAN, McpQueries(asked, outage)
      PROVE  SkillsInv'
  <2> DEFINE where == IF asked \in {Unset, "active"} /\ _skills_factory_enabled(outage)
                      THEN "active" ELSE asked
             rows == {s \in Slugs : /\ Exists(get_document(s))
                                    /\ where # Unset => get_document(s).status = where}
  <2>1. Shows(rows)
    BY <1>4 DEF McpQueries
  <2>2. scene.enabled => where = "active"
    BY Zenon, <1>4 DEF McpQueries, _skills_factory_enabled
  <2>3. \A s \in rows : Exists(get_document(s)) /\ (where = "active" => get_document(s).status = "active")
    BY Zenon DEF Unset
  <2>4. rows \subseteq Slugs
    BY Zenon
  <2> HIDE DEF where, rows
  <2> QED
    BY ZenonT(60), <1>1, <2>1, <2>2, <2>3, <2>4
<1> QED
  BY Zenon, <1>2, <1>3, <1>4

-----------------------------------------------------------------------------
(* The Forge tick, the replica and the clock.                              *)

\* The tick moves on without touching the collection.
LEMMA TickMoves ==
    ASSUME SkillsInv, SceneKept, NEW f, Tick(f), Stored, Outside,
           TickOK(f, scene.enabled, scene.split, clock, poison)
    PROVE  SkillsInv'
<1>1. clock \in Nat /\ clock <= clock
  BY Zenon, ClockStays
<1>2. /\ docs' = docs /\ carried' = carried /\ blessed' = blessed /\ poison' = poison
      /\ replica' = replica /\ clock' = clock /\ req' = req /\ shown' = shown /\ tick' = f
  BY Zenon DEF Stored, Outside, Tick
<1> QED
  BY ZenonT(60), <1>1, <1>2, StepKeeps DEF SkillsInv, ShownBlessed

\* The tick writes a document, and moves on.
LEMMA TickWrites ==
    ASSUME SkillsInv, SceneKept, NEW f, Tick(f), Outside,
           TickOK(f, scene.enabled, scene.split, clock, poison),
           NEW s \in Slugs, NEW doc, HeldDoc(doc, scene.enabled), document_upsert(s, doc)
    PROVE  SkillsInv'
<1>1. clock \in Nat /\ clock <= clock
  BY Zenon, ClockStays
<1>2. /\ StorageOK(docs', replica.docs, scene.enabled, carried', blessed', poison)
      /\ \A t \in Slugs : carried[t] \subseteq carried'[t]
      /\ blessed \subseteq blessed'
  BY Zenon, UpsertKeeps DEF HeldDoc
<1>3. /\ poison' = poison /\ replica' = replica /\ clock' = clock /\ req' = req
      /\ shown' = shown /\ tick' = f
  BY Zenon DEF Outside, Tick
<1>4. scene.enabled => shown \subseteq blessed'
  BY Zenon, <1>2 DEF SkillsInv, ShownBlessed
<1> QED
  BY ZenonT(60), <1>1, <1>2, <1>3, <1>4, StepKeeps DEF SkillsInv

\* Between two documents the tick holds nothing.
LEMMA TickRests ==
    ASSUME SkillsInv, NEW f, DOMAIN f = TickFields, f.pc \notin {"status", "write", "flip"},
           f.rows \subseteq tick.rows, f.known = tick.known
    PROVE  TickOK(f, scene.enabled, scene.split, clock, poison)
BY Zenon DEF SkillsInv, TickOK

\* A tick begins with the poison table as it is.
LEMMA TickBeginsKeeps ==
    ASSUME SkillsInv, NEW raised, run_forge_cron_tick(raised)
    PROVE  SkillsInv'
<1> DEFINE f == [IdleTick EXCEPT !.pc = "distill", !.todo = run_forge_distill(raised),
                                 !.began = clock, !.known = poison]
<1>1. SceneKept
  BY Zenon, SceneSpent DEF run_forge_cron_tick, SkillsInv
<1>2. Tick(f) /\ Stored /\ Outside
  BY DEF run_forge_cron_tick
<1>3. DOMAIN f = TickFields /\ f.pc = "distill" /\ f.rows = {} /\ f.known = poison
  BY Zenon DEF IdleTick, TickFields
<1> HIDE DEF f
<1>4. TickOK(f, scene.enabled, scene.split, clock, poison)
  BY Zenon, <1>3 DEF TickOK
<1> QED
  BY ZenonT(60), <1>1, <1>2, <1>4, TickMoves

\* A fingerprint the poison check lets pass is not forbidden by what the tick knew.
LEMMA CheckedClear ==
    ASSUME SkillsInv, ~scene.split, NEW doc, ~is_fingerprint_poisoned(doc.fp, doc.fleet)
    PROVE  Clear(tick.known, doc, clock)
<1>1. Read.poison = poison /\ tick.known \subseteq poison
  BY Zenon DEF Read, SkillsInv, TickOK
<1> QED
  BY Zenon, <1>1 DEF Clear, Forbids, Covers, is_fingerprint_poisoned, forge_is_fingerprint_poisoned

\* A cluster is skipped, or becomes a document that is vetted and not poisoned.
LEMMA DistillKeeps ==
    ASSUME SkillsInv, NEW answer \in Answers, NEW raises, _distill_cluster(answer, raises)
    PROVE  SkillsInv'
<1> DEFINE cluster == Head(tick.todo)
           fp == compute_fingerprint(answer, cluster.ents)
           scan == scan_skill_doc(answer.body, Bodies[answer.body])
           doc == [status |-> IF scan.state = "quarantined" THEN "quarantined" ELSE "candidate",
                   body |-> answer.body, hash |-> Bodies[answer.body].content, scan |-> scan,
                   source |-> "forge", kind |-> answer.kind, bound |-> Nil,
                   target |-> answer.slug, fp |-> fp, fleet |-> scene.fleet,
                   size |-> cluster.size, agents |-> cluster.agents,
                   windowEnd |-> tick.began, deferred |-> FALSE]
           held == [tick EXCEPT !.pc = "status", !.slug = answer.slug, !.cand = doc]
           skipped == [tick EXCEPT !.todo = Tail(@)]
<1>1. tick.pc = "distill" /\ SceneKept /\ Stored /\ Outside /\ DOMAIN tick = TickFields
  BY Zenon, SceneSpent DEF _distill_cluster, SkillsInv, TickOK
<1>2. \/ ~is_fingerprint_poisoned(fp, scene.fleet) /\ Tick(held)
      \/ Tick(skipped)
  BY Zenon DEF _distill_cluster
<1>3. CASE Tick(skipped)
  <2>1. /\ DOMAIN skipped = TickFields /\ skipped.pc = "distill" /\ skipped.rows = tick.rows
        /\ skipped.known = tick.known
    BY <1>1 DEF TickFields
  <2> HIDE DEF skipped
  <2>2. TickOK(skipped, scene.enabled, scene.split, clock, poison)
    BY Zenon, <2>1, TickRests
  <2> QED
    BY Zenon, <1>1, <1>3, <2>2, TickMoves
<1>4. CASE ~is_fingerprint_poisoned(fp, scene.fleet) /\ Tick(held)
  <2>1. /\ DOMAIN doc = DocFields /\ doc.body = answer.body /\ doc.fp = fp
        /\ doc.hash = Bodies[answer.body].content /\ doc.scan = scan /\ doc.fleet = scene.fleet
        /\ doc.status = IF scan.state = "quarantined" THEN "quarantined" ELSE "candidate"
    BY Zenon DEF DocFields
  <2>2. /\ scan.state \in {"quarantined", "clean"}
        /\ answer.slug \in Slugs /\ answer.body \in DOMAIN Bodies
    BY Zenon, ScanVerdict, SkillsAssumption
  <2> HIDE DEF doc, fp
  <2>3. HeldDoc(doc, scene.enabled)
    BY Zenon, <2>1, <2>2 DEF HeldDoc, IsDoc, Vetted, Exists
  <2>4. ~scene.split => Clear(tick.known, doc, clock)
    BY Zenon, <1>4, <2>1, CheckedClear
  <2>5. /\ DOMAIN held = TickFields /\ held.pc = "status" /\ held.slug = answer.slug
        /\ held.cand = doc /\ held.rows = tick.rows /\ held.known = tick.known
    BY Zenon, <1>1 DEF TickFields
  <2> HIDE DEF held
  <2>6. TickOK(held, scene.enabled, scene.split, clock, poison)
    BY ZenonT(60), <2>2, <2>3, <2>4, <2>5 DEF TickOK, SkillsInv
  <2> QED
    BY ZenonT(60), <1>1, <1>4, <2>6, TickMoves
<1> QED
  BY Zenon, <1>2, <1>3, <1>4

Passed == [NextOf("distill") EXCEPT !.todo = Tail(@)]

\* Once a cluster is dealt with, the tick goes to the next with empty hands.
LEMMA PassedRests ==
    ASSUME SkillsInv
    PROVE  TickOK(Passed, scene.enabled, scene.split, clock, poison)
<1>1. DOMAIN tick = TickFields
  BY Zenon DEF SkillsInv, TickOK
<1>2. /\ DOMAIN Passed = TickFields /\ Passed.pc = "distill" /\ Passed.rows = tick.rows
      /\ Passed.known = tick.known
  BY Zenon, <1>1 DEF Passed, NextOf, TickFields
<1> QED
  BY Zenon, <1>2, TickRests

\* The status check keeps the candidate, or passes on.
LEMMA StatusChecksKeeps ==
    ASSUME SkillsInv, NEW raises, StatusChecks(raises)
    PROVE  SkillsInv'
<1> DEFINE f == [tick EXCEPT !.pc = "write"]
<1>1. tick.pc = "status" /\ SceneKept /\ Stored /\ Outside
  BY Zenon, SceneSpent DEF StatusChecks, SkillsInv
<1>2. Tick(Passed) \/ Tick(f)
  BY DEF StatusChecks, Passed
<1>3. TickOK(tick, scene.enabled, scene.split, clock, poison)
  BY Zenon DEF SkillsInv
<1>4. /\ DOMAIN f = TickFields /\ f.pc = "write" /\ f.slug = tick.slug /\ f.cand = tick.cand
      /\ f.rows = tick.rows /\ f.known = tick.known
  BY Zenon, <1>3 DEF TickOK, TickFields
<1> HIDE DEF f
<1>5. TickOK(f, scene.enabled, scene.split, clock, poison)
  BY Zenon, <1>1, <1>3, <1>4 DEF TickOK
<1> QED
  BY ZenonT(60), <1>1, <1>2, <1>5, PassedRests, TickMoves

\* The candidate is written whole.
LEMMA CandidateWritesKeeps ==
    ASSUME SkillsInv, NEW raises, CandidateWrites(raises)
    PROVE  SkillsInv'
<1>1. tick.pc = "write" /\ SceneKept /\ Outside /\ Tick(Passed)
  BY Zenon, SceneSpent DEF CandidateWrites, SkillsInv, Passed
<1>2. tick.slug \in Slugs /\ HeldDoc(tick.cand, scene.enabled)
  BY Zenon, <1>1 DEF SkillsInv, TickOK
<1>3. Stored \/ document_upsert(tick.slug, tick.cand)
  BY Zenon DEF CandidateWrites
<1> QED
  BY ZenonT(60), <1>1, <1>2, <1>3, PassedRests, TickMoves, TickWrites

\* The promoter takes up the candidates it read.
LEMMA PromoterQueriesKeeps ==
    ASSUME SkillsInv, PromoterQueries
    PROVE  SkillsInv'
<1> DEFINE rows == {<<s, get_document(s)>> : s \in {t \in Slugs :
                      /\ get_document(t).status = "candidate" /\ get_document(t).source = "forge"
                      /\ scene.fleet \in {Nil, get_document(t).fleet}}}
           f == [tick EXCEPT !.pc = "gates", !.rows = rows]
<1>1. SceneKept /\ Stored /\ Outside /\ Tick(f)
  BY Zenon, SceneSpent DEF PromoterQueries, SkillsInv
<1>2. \A row \in rows : row[1] \in Slugs
  OBVIOUS
<1> HIDE DEF rows
<1>3. TickOK(tick, scene.enabled, scene.split, clock, poison)
  BY Zenon DEF SkillsInv
<1>4. DOMAIN f = TickFields /\ f.pc = "gates" /\ f.rows = rows /\ f.known = tick.known
  BY Zenon, <1>3 DEF TickOK, TickFields
<1> HIDE DEF f
<1>5. TickOK(f, scene.enabled, scene.split, clock, poison)
  BY ZenonT(60), <1>2, <1>3, <1>4 DEF TickOK
<1> QED
  BY ZenonT(60), <1>1, <1>5, TickMoves

\* A row that passes the gates is not poisoned, for its own fleet.
LEMMA PromoterGatesKeeps ==
    ASSUME SkillsInv, NEW row, NEW raises \in BOOLEAN, PromoterGates(row, raises)
    PROVE  SkillsInv'
<1> DEFINE doc == row[2]
           poisoned == IF raises THEN "error"
                       ELSE IF is_fingerprint_poisoned(doc.fp, doc.fleet) THEN "yes" ELSE "no"
           held == [tick EXCEPT !.pc = "flip", !.slug = row[1], !.cand = doc]
           dropped == [tick EXCEPT !.rows = @ \ {row}]
<1>1. tick.pc = "gates" /\ row \in tick.rows /\ SceneKept /\ Stored /\ Outside
  BY Zenon, SceneSpent DEF PromoterGates, SkillsInv
<1>2. TickOK(tick, scene.enabled, scene.split, clock, poison)
  BY Zenon DEF SkillsInv
<1>3. DOMAIN tick = TickFields /\ row[1] \in Slugs
  BY Zenon, <1>1, <1>2 DEF TickOK
<1>4. Tick(dropped) \/ (poisoned = "no" /\ Tick(held))
  BY Zenon DEF PromoterGates, evaluate_auto_gates
<1>5. CASE Tick(dropped)
  <2>1. /\ DOMAIN dropped = TickFields /\ dropped.pc = "gates" /\ dropped.rows \subseteq tick.rows
        /\ dropped.known = tick.known
    BY Zenon, <1>1, <1>3 DEF TickFields
  <2> HIDE DEF dropped
  <2>2. TickOK(dropped, scene.enabled, scene.split, clock, poison)
    BY Zenon, <2>1, TickRests
  <2> QED
    BY Zenon, <1>1, <1>5, <2>2, TickMoves
<1>6. CASE poisoned = "no" /\ Tick(held)
  <2>1. ~is_fingerprint_poisoned(doc.fp, doc.fleet)
    BY Zenon, <1>6
  <2> HIDE DEF doc
  <2>2. ~scene.split => Clear(tick.known, doc, clock)
    BY Zenon, <2>1, CheckedClear
  <2>3. /\ DOMAIN held = TickFields /\ held.pc = "flip" /\ held.slug = row[1]
        /\ held.cand = doc /\ held.rows = tick.rows /\ held.known = tick.known
    BY Zenon, <1>3 DEF TickFields
  <2> HIDE DEF held
  <2>4. TickOK(held, scene.enabled, scene.split, clock, poison)
    BY ZenonT(60), <1>2, <1>3, <2>2, <2>3 DEF TickOK
  <2> QED
    BY ZenonT(60), <1>1, <1>6, <2>4, TickMoves
<1> QED
  BY Zenon, <1>4, <1>5, <1>6

\* The flip is conditional on the stored document being a candidate still, so what becomes
\* active is vetted as a candidate (document_update_status).
LEMMA PromoterFlipsKeeps ==
    ASSUME SkillsInv, NEW raises, PromoterFlips(raises)
    PROVE  SkillsInv'
<1> DEFINE f == [NextOf("gates") EXCEPT !.rows = @ \ {<<tick.slug, tick.cand>>}]
           new == IF scene.auto /\ _scan_is_clean(tick.cand) THEN "active" ELSE "staged"
           old == docs[tick.slug]
           doc == WithStatus(old, new)
<1>1. tick.pc = "flip" /\ SceneKept /\ Outside /\ Tick(f)
  BY Zenon, SceneSpent DEF PromoterFlips, SkillsInv
<1>2. tick.slug \in Slugs /\ DOMAIN tick = TickFields
  BY Zenon, <1>1 DEF SkillsInv, TickOK
<1>3. Stored \/ (old.status = "candidate" /\ document_upsert(tick.slug, doc))
  BY Zenon DEF PromoterFlips, document_update_status, Stored, WithStatus
<1>4. /\ DOMAIN f = TickFields /\ f.pc = "gates" /\ f.rows \subseteq tick.rows
      /\ f.known = tick.known
  BY <1>2 DEF NextOf, TickFields
<1>5. new \in {"active", "staged"}
  OBVIOUS
<1> HIDE DEF f, new
<1>6. TickOK(f, scene.enabled, scene.split, clock, poison)
  BY Zenon, <1>4, TickRests
<1>7. CASE Stored
  BY <1>1, <1>6, <1>7, TickMoves
<1>8. CASE old.status = "candidate" /\ document_upsert(tick.slug, doc)
  <2>1. KeptDoc(tick.slug, old, scene.enabled, carried, blessed)
    BY Zenon, <1>2 DEF SkillsInv, StorageOK, StoreOK
  <2> HIDE DEF old
  <2>2. DOMAIN old = DocFields
    BY Zenon, <1>8, <2>1 DEF KeptDoc, IsDoc, Exists
  <2>3. /\ DOMAIN doc = DocFields /\ doc.status = new /\ doc.body = old.body
        /\ doc.hash = old.hash /\ doc.scan = old.scan
    BY <2>2, StatusSet
  <2> HIDE DEF doc
  <2>4. HeldDoc(doc, scene.enabled)
    BY ZenonT(60), <1>5, <1>8, <2>1, <2>3 DEF HeldDoc, KeptDoc, IsDoc, Vetted, Exists
  <2> QED
    BY ZenonT(60), <1>1, <1>2, <1>6, <1>8, <2>4, TickWrites
<1> QED
  BY Zenon, <1>3, <1>7, <1>8

\* The tick ends, or dies.
LEMMA TickEndsKeeps ==
    ASSUME SkillsInv, TickEnds
    PROVE  SkillsInv'
<1>1. SceneKept /\ Tick(IdleTick) /\ Stored /\ Outside
  BY Zenon, SceneSpent DEF TickEnds, SkillsInv
<1>2. TickOK(IdleTick, scene.enabled, scene.split, clock, poison)
  BY Zenon DEF TickOK, IdleTick, TickFields
<1> QED
  BY Zenon, <1>1, <1>2, TickMoves

\* The replica catches up with the primary, and a day passes.
LEMMA TimeKeeps ==
    ASSUME SkillsInv, CatchUp \/ DayPasses
    PROVE  SkillsInv'
<1>1. SceneKept
  BY Zenon, SceneSpent DEF CatchUp, DayPasses, SkillsInv
<1>2. clock' \in Nat /\ clock <= clock'
  BY DEF CatchUp, DayPasses, SkillsInv
<1>3. replica'.docs = replica.docs \/ replica'.docs = docs
  BY DEF CatchUp, DayPasses
<1>4. UNCHANGED <<docs, poison, req, tick, carried, blessed, shown>>
  BY Zenon DEF CatchUp, DayPasses
<1>5. StorageOK(docs, replica'.docs, scene.enabled, carried, blessed, poison)
  BY Zenon, <1>3 DEF SkillsInv, StorageOK
<1> QED
  BY ZenonT(60), <1>1, <1>2, <1>4, <1>5, StepKeeps DEF SkillsInv, ShownBlessed

\* Every step of the collection keeps the invariant.
LEMMA SkillsNextKeeps ==
    ASSUME SkillsInv, SkillsNext
    PROVE  SkillsInv'
<1>1. CASE Arrives
  <2>1. ASSUME NEW r \in Reqs, NEW s \in Slugs,
               \/ ApproveLoads(r, s) \/ RejectLoads(r, s) \/ QuarantineLoads(r, s)
               \/ DeferLoads(r, s) \/ EditLoads(r, s)
        PROVE  SkillsInv'
    BY Zenon, <2>1, LoadsKeep
       DEF ApproveLoads, RejectLoads, QuarantineLoads, DeferLoads, EditLoads, InboxOps
  <2> QED
    BY Zenon, <1>1, <2>1, ValidatesKeep, DeletesKeep, McpShowsKeep, TickBeginsKeeps DEF Arrives
<1>2. CASE TickStep
  <2>1. Raising \subseteq BOOLEAN
    BY Zenon DEF Raising
  <2> QED
    BY ZenonT(60), <1>2, <2>1, DistillKeeps, StatusChecksKeeps, CandidateWritesKeeps, PromoterFlipsKeeps,
       PromoterQueriesKeeps, PromoterGatesKeeps, TickEndsKeeps DEF TickStep
<1>3. ASSUME NEW r \in Reqs, InboxStep(r)
      PROVE  SkillsInv'
  BY ZenonT(60), <1>3, ApproveScansKeeps, TransitionKeeps, RejectReloadsKeeps, RejectPoisonsKeeps,
     DeferKeeps, EditValidatesKeeps, EditReloadsKeeps, CallerWritesKeep DEF InboxStep
<1> QED
  BY Zenon, <1>1, <1>2, <1>3, RaisesKeeps, TimeKeeps DEF SkillsNext

\* A step that changes nothing of the collection keeps it too.
LEMMA SkillsIdle ==
    ASSUME SkillsInv, UNCHANGED skillVars
    PROVE  SkillsInv'
BY Zenon, SceneSpent, SpendKeeps DEF skillVars, SkillsInv

\* A pull is given the installable skills, and a node or another tool uses up a bound.
LEMMA NodeKeeps ==
    ASSUME SkillsInv,
           PullStep \/ NodeDies \/ \E s \in Slugs : ForeignInstalls(s)
    PROVE  SkillsInv'
<1>1. ASSUME NEW p \in Pulls, reconcileSkills(p)
      PROVE  SkillsInv'
  <2>1. PICK rows \in installable_skills :
            shown' = shown \cup {<<s, Read.docs[s].body>> : s \in rows}
    BY Zenon, <1>1 DEF reconcileSkills
  <2>2. /\ rows \subseteq Slugs
        /\ \A s \in rows : Exists(Read.docs[s]) /\ (scene.enabled => Read.docs[s].status = "active")
    BY Zenon DEF installable_skills
  <2>3. shown' = shown \cup Given(rows)
    BY Zenon, <2>1 DEF Given, get_document
  <2>4. UNCHANGED <<docs, poison, replica, clock, req, tick, carried, blessed, scene>>
    BY Zenon, <1>1 DEF reconcileSkills
  <2> QED
    BY Zenon, <2>2, <2>3, <2>4, GivesKeep DEF get_document
<1>2. CASE PullStep
  <2>1. \/ UNCHANGED skillVars
        \/ \E p \in Pulls : reconcileSkills(p)
    BY Zenon, <1>2 DEF PullStep, reconcileOwnedDir, AdditivePrunes, AdditiveStats, AdditiveMkdir,
                AdditiveMarks, AdditiveWrites, PullEnds, Turn
  <2> QED
    BY Zenon, <1>1, <2>1, SkillsIdle
<1>3. CASE NodeDies \/ \E s \in Slugs : ForeignInstalls(s)
  <2>1. SceneKept
    BY Zenon, <1>3, SceneSpent DEF NodeDies, ForeignInstalls, SkillsInv
  <2>2. UNCHANGED <<docs, poison, replica, clock, req, tick, carried, blessed, shown>>
    BY Zenon, <1>3 DEF NodeDies, ForeignInstalls
  <2> QED
    BY <2>1, <2>2, SpendKeeps
<1> QED
  BY <1>2, <1>3

\* The collection begins in order.
LEMMA SkillsBegin ==
    ASSUME SkillsInit
    PROVE  SkillsInv
<1> DEFINE on == scene.enabled
<1>1. /\ scene \in Scenes /\ docs = scene.docs /\ poison = {} /\ clock = 1 /\ shown = {}
      /\ replica.docs = docs /\ req = [r \in Reqs |-> IdleReq] /\ tick = IdleTick
  BY Zenon DEF SkillsInit
<1>2. /\ SceneOK(scene) /\ DOMAIN docs = Slugs
      /\ \A s \in Slugs : /\ IsDoc(docs[s]) /\ docs[s].status # "rejected"
                          /\ on => Vetted(docs[s])
  BY Zenon, <1>1, SkillsAssumption
<1>3. /\ DOMAIN carried = Slugs
      /\ \A s \in Slugs : Exists(docs[s]) => docs[s].fp \in carried[s] \cup {NoFp}
  BY Zenon DEF SkillsInit
<1>4. blessed = {<<s, docs[s].body>> : s \in {t \in Slugs : Whole(docs[t])}}
  BY Zenon DEF SkillsInit
<1>5. blessed \subseteq Slugs \X DOMAIN Bodies
  BY <1>2, <1>4 DEF Whole, IsDoc
<1>6. \A s \in Slugs : on /\ docs[s].status = "active" => <<s, docs[s].body>> \in blessed
  <2> SUFFICES ASSUME NEW s \in Slugs, on, docs[s].status = "active"
               PROVE  <<s, docs[s].body>> \in blessed
    BY Zenon
  <2>1. docs[s].scan = scan_skill_doc(docs[s].body, Bodies[docs[s].body])
        /\ docs[s].scan.state = "clean" /\ Exists(docs[s])
    BY Zenon, <1>2 DEF Vetted, Exists
  <2>2. docs[s].scan.of = docs[s].body
    BY <2>1, ScanVerdict
  <2> QED
    BY Zenon, <1>4, <2>1, <2>2 DEF Whole
<1>7. StoreOK(docs, on, carried, blessed)
  BY Zenon, <1>2, <1>3, <1>6 DEF StoreOK, KeptDoc
<1>8. StorageOK(docs, replica.docs, on, carried, blessed, poison)
  BY ZenonT(60), <1>1, <1>2, <1>3, <1>5, <1>7 DEF StorageOK, AllRecorded
<1>9. TickOK(tick, on, scene.split, clock, poison)
  BY Zenon, <1>1 DEF TickOK, IdleTick, TickFields
<1>10. DOMAIN req = Reqs /\ \A r \in Reqs : ReqOK(req[r], on, carried, poison)
  BY Zenon, <1>1, IdleIsOK
<1> QED
  BY Zenon, <1>1, <1>2, <1>8, <1>9, <1>10 DEF SkillsInv, ShownBlessed

\* The inductive invariant of the collection, a node's directories beside it.
THEOREM SkillsInductive == DiskSpec => []SkillsInv
<1>1. DiskInit => SkillsInv
  BY SkillsBegin DEF DiskInit
<1>2. SkillsInv /\ [DiskNext]_diskAll => SkillsInv'
  BY Zenon, SkillsNextKeeps, SkillsIdle, NodeKeeps DEF DiskNext, diskAll
<1> QED
  BY <1>1, <1>2, PTL DEF DiskSpec

-----------------------------------------------------------------------------
(* A node's directories.                                                   *)

\* A pull that is not under way holds no catalogue.
LEMMA IdlePullFields ==
    /\ DOMAIN IdlePull = PullFields /\ IdlePull.pc = "idle" /\ DOMAIN IdlePull.cat = {}
    /\ IdlePull.todo = {}
<1>1. DOMAIN <<>> = {}
  OBVIOUS
<1> QED
  BY Zenon, <1>1 DEF IdlePull, PullFields

SharedShape == DOMAIN shared = Slugs /\ \A s \in Slugs : DOMAIN shared[s] = {"by", "body"}

\* A pull moves on.  Only the one at work touches the shared directory, and a pull begins
\* to work when no other does.
LEMMA PullMoves ==
    ASSUME DiskInv, NEW p \in Pulls, NEW f, Pull(p, f), SharedShape',
           shared' = shared \/ AtWork(p),
           f.pc \in {"idle", "fetched"} \/ AtWork(p) \/ ~Syncing,
           DOMAIN f = PullFields, DOMAIN f.cat \subseteq Slugs, f.todo \subseteq Slugs,
           f.pc \in {"mkdir", "mark", "file"} => f.slug \in Slugs,
           f.pc = "mark" => shared'[f.slug].by = "bare",
           f.pc = "file" => shared'[f.slug].by = "memclaw"
    PROVE  DiskInv'
<1>1. DOMAIN pull' = Pulls /\ pull'[p] = f /\ \A q \in Pulls : q # p => pull'[q] = pull[q]
  BY Zenon DEF DiskInv, Pull
<1>2. \A q \in Pulls : AtWork(p) /\ AtWork(q) => q = p
  BY Zenon DEF DiskInv
<1>3. \A q \in Pulls : ~Syncing => ~AtWork(q)
  BY Zenon DEF Syncing, AtWork
<1>4. ASSUME NEW q \in Pulls PROVE PullOK(q)'
  <2>1. CASE q = p
    BY Zenon, <1>1, <2>1 DEF PullOK
  <2>2. CASE q # p
    <3>1. PullOK(q) /\ pull'[q] = pull[q]
      BY Zenon, <1>1, <2>2 DEF DiskInv
    <3>2. CASE shared' = shared
      BY Zenon, <3>1, <3>2 DEF PullOK
    <3>3. CASE AtWork(p)
      <4>1. pull[q].pc \in {"idle", "fetched"}
        BY Zenon, <1>2, <2>2, <3>3 DEF AtWork
      <4> QED
        BY Zenon, <3>1, <4>1 DEF PullOK
    <3> QED
      BY Zenon, <3>2, <3>3
  <2> QED
    BY Zenon, <2>1, <2>2
<1>5. ASSUME NEW q \in Pulls, NEW o \in Pulls, AtWork(q)', AtWork(o)'
      PROVE  q = o
  BY Zenon, <1>1, <1>2, <1>3, <1>5 DEF AtWork, DiskInv
<1> QED
  BY Zenon, <1>1, <1>4, <1>5 DEF DiskInv, SharedShape

\* What a pull does to the shared directory leaves the skills of other tools alone.
OthersKept == \A s \in Slugs : shared[s].by = "foreign" => shared'[s] = shared[s]

\* The look at the catalogue, and the two directories' steps that write nothing shared.
LEMMA PullLooks ==
    ASSUME DiskInv, NEW p \in Pulls,
           \/ reconcileSkills(p) \/ reconcileOwnedDir(p) \/ PullEnds(p)
           \/ \E s \in Slugs : AdditiveStats(p, s)
    PROVE  DiskInv' /\ OthersKept
<1>1. shared' = shared
  BY Zenon DEF reconcileSkills, reconcileOwnedDir, PullEnds, AdditiveStats
<1>2. SharedShape' /\ OthersKept /\ PullOK(p) /\ DOMAIN pull[p] = PullFields
  BY Zenon, <1>1 DEF DiskInv, SharedShape, OthersKept, PullOK
<1>3. CASE reconcileSkills(p)
  <2>1. PICK rows \in installable_skills :
          Pull(p, [IdlePull EXCEPT !.pc = "fetched",
                     !.cat = [s \in {t \in rows : isSafeSlug(t)} |-> Read.docs[s].body]])
    BY Zenon, <1>3 DEF reconcileSkills
  <2>2. rows \subseteq Slugs
    BY Zenon DEF installable_skills
  <2> DEFINE cat == [s \in {t \in rows : isSafeSlug(t)} |-> Read.docs[s].body]
             f == [IdlePull EXCEPT !.pc = "fetched", !.cat = cat]
  <2>3. DOMAIN cat \subseteq Slugs
    BY Zenon, <2>2
  <2>4. Pull(p, f)
    BY <2>1
  <2> HIDE DEF cat
  <2>5. DOMAIN f = PullFields /\ f.pc = "fetched" /\ f.cat = cat /\ f.todo = {}
    BY Zenon DEF IdlePull, PullFields
  <2> HIDE DEF f
  <2> QED
    BY Zenon, <1>1, <1>2, <2>3, <2>4, <2>5, PullMoves
<1>4. CASE reconcileOwnedDir(p)
  <2> DEFINE f == [pull[p] EXCEPT !.pc = "prune"]
  <2>1. Pull(p, f) /\ ~Syncing
    BY <1>4 DEF reconcileOwnedDir
  <2>2. /\ DOMAIN f = PullFields /\ f.pc = "prune" /\ f.cat = pull[p].cat
        /\ f.todo = pull[p].todo
    BY Zenon, <1>2 DEF PullFields
  <2> HIDE DEF f
  <2> QED
    BY ZenonT(60), <1>1, <1>2, <2>1, <2>2, PullMoves DEF PullOK
<1>5. CASE PullEnds(p)
  <2>1. Pull(p, IdlePull)
    BY Zenon, <1>5 DEF PullEnds
  <2>2. /\ DOMAIN IdlePull = PullFields /\ IdlePull.pc = "idle" /\ DOMAIN IdlePull.cat = {}
        /\ IdlePull.todo = {}
    BY Zenon, IdlePullFields
  <2> QED
    BY Zenon, <1>1, <1>2, <2>1, <2>2, PullMoves
<1>6. ASSUME NEW s \in Slugs, AdditiveStats(p, s)
      PROVE  DiskInv' /\ OthersKept
  <2> DEFINE f == [pull[p] EXCEPT !.pc = "mkdir", !.slug = s]
  <2>1. AtWork(p) /\ (Pull(p, Skip(p, s)) \/ Pull(p, f))
    BY Zenon, <1>6 DEF AdditiveStats, Turn, AtWork
  <2>2. /\ DOMAIN f = PullFields /\ f.pc = "mkdir" /\ f.cat = pull[p].cat
        /\ f.todo = pull[p].todo /\ f.slug = s
    BY <1>2 DEF PullFields
  <2>3. /\ DOMAIN Skip(p, s) = PullFields /\ Skip(p, s).pc = "stat"
        /\ Skip(p, s).cat = pull[p].cat /\ Skip(p, s).todo \subseteq pull[p].todo
    BY ZenonT(60), <1>2 DEF Skip, PullFields
  <2> HIDE DEF f
  <2>4. CASE Pull(p, f)
    BY ZenonT(60), <1>1, <1>2, <2>1, <2>2, <2>4, PullMoves DEF PullOK
  <2>5. CASE Pull(p, Skip(p, s))
    BY Zenon, <1>1, <1>2, <2>1, <2>3, <2>5, PullMoves DEF PullOK
  <2> QED
    BY Zenon, <2>1, <2>4, <2>5
<1> QED
  BY ZenonT(60), <1>3, <1>4, <1>5, <1>6

\* The steps that change the shared directory: each touches only what carries the marker,
\* what this pull made, or what was not there.
LEMMA PullInstalls ==
    ASSUME DiskInv, NEW p \in Pulls,
           AdditivePrunes(p) \/ AdditiveMkdir(p) \/ AdditiveMarks(p) \/ AdditiveWrites(p)
    PROVE  DiskInv' /\ OthersKept
<1> DEFINE slug == pull[p].slug
<1>1. AtWork(p)
  BY Zenon DEF AdditivePrunes, AdditiveMkdir, AdditiveMarks, AdditiveWrites, Turn, AtWork
<1>2. /\ PullOK(p) /\ DOMAIN pull[p] = PullFields /\ DOMAIN pull[p].cat \subseteq Slugs
      /\ pull[p].todo \subseteq Slugs /\ SharedShape
  BY Zenon DEF DiskInv, PullOK, SharedShape
<1>3. CASE AdditivePrunes(p)
  <2> DEFINE f == [pull[p] EXCEPT !.pc = "stat", !.todo = DOMAIN pull[p].cat]
  <2>1. Pull(p, f)
    BY Zenon, <1>3 DEF AdditivePrunes
  <2>2. /\ DOMAIN f = PullFields /\ f.pc = "stat" /\ f.cat = pull[p].cat
        /\ f.todo = DOMAIN pull[p].cat
    BY Zenon, <1>2 DEF PullFields
  <2>3. /\ DOMAIN shared' = Slugs
        /\ \A s \in Slugs : shared'[s] = shared[s] \/ (shared[s].by = "memclaw" /\ shared'[s] = Empty)
    BY Zenon, <1>3 DEF AdditivePrunes, isMemclawOwned
  <2>4. SharedShape' /\ OthersKept
    BY Zenon, <1>2, <2>3 DEF SharedShape, OthersKept, Empty
  <2> HIDE DEF f
  <2> QED
    BY Zenon, <1>1, <1>2, <2>1, <2>2, <2>4, PullMoves
<1>4. CASE AdditiveMkdir(p)
  <2> DEFINE marks == [pull[p] EXCEPT !.pc = "mark"]
             files == [pull[p] EXCEPT !.pc = "file"]
             bare == [by |-> "bare", body |-> Nil]
  <2>1. slug \in Slugs
    BY Zenon, <1>2, <1>4 DEF AdditiveMkdir, Turn, PullOK
  <2>2. \/ /\ shared[slug].by = "none" /\ shared' = [shared EXCEPT ![slug] = bare]
           /\ Pull(p, marks)
        \/ shared[slug].by = "memclaw" /\ shared' = shared /\ Pull(p, files)
        \/ shared' = shared /\ Pull(p, Skip(p, slug))
    BY Zenon, <1>4 DEF AdditiveMkdir, isMemclawOwned
  <2>3. /\ DOMAIN marks = PullFields /\ marks.pc = "mark" /\ marks.cat = pull[p].cat
        /\ marks.todo = pull[p].todo /\ marks.slug = slug
        /\ DOMAIN files = PullFields /\ files.pc = "file" /\ files.cat = pull[p].cat
        /\ files.todo = pull[p].todo /\ files.slug = slug
    BY <1>2 DEF PullFields
  <2>4. /\ DOMAIN Skip(p, slug) = PullFields /\ Skip(p, slug).pc = "stat"
        /\ Skip(p, slug).cat = pull[p].cat /\ Skip(p, slug).todo \subseteq pull[p].todo
    BY Zenon, <1>2 DEF Skip, PullFields
  <2>5. DOMAIN bare = {"by", "body"} /\ bare.by = "bare"
    BY ZenonT(60)
  <2> HIDE DEF marks, files, bare, slug
  <2>6. CASE /\ shared[slug].by = "none" /\ shared' = [shared EXCEPT ![slug] = bare]
             /\ Pull(p, marks)
    <3>1. /\ DOMAIN shared' = Slugs /\ shared'[slug] = bare
          /\ \A s \in Slugs : s # slug => shared'[s] = shared[s]
      BY Zenon, <1>2, <2>1, <2>6 DEF SharedShape
    <3>2. SharedShape' /\ OthersKept
      BY ZenonT(60), <1>2, <2>5, <2>6, <3>1 DEF SharedShape, OthersKept
    <3> QED
      BY ZenonT(60), <1>1, <1>2, <2>1, <2>3, <2>5, <2>6, <3>1, <3>2, PullMoves
  <2>7. CASE shared[slug].by = "memclaw" /\ shared' = shared /\ Pull(p, files)
    <3>1. SharedShape' /\ OthersKept
      BY Zenon, <1>2, <2>7 DEF SharedShape, OthersKept
    <3> QED
      BY Zenon, <1>1, <1>2, <2>1, <2>3, <2>7, <3>1, PullMoves
  <2>8. CASE shared' = shared /\ Pull(p, Skip(p, slug))
    <3>1. SharedShape' /\ OthersKept
      BY Zenon, <1>2, <2>8 DEF SharedShape, OthersKept
    <3> QED
      BY Zenon, <1>1, <1>2, <2>4, <2>8, <3>1, PullMoves
  <2> QED
    BY Zenon, <2>2, <2>6, <2>7, <2>8
<1>5. CASE AdditiveMarks(p)
  <2> DEFINE f == [pull[p] EXCEPT !.pc = "file"]
  <2>1. slug \in Slugs /\ shared[slug].by = "bare"
    BY Zenon, <1>2, <1>5 DEF AdditiveMarks, Turn, PullOK
  <2>2. Pull(p, f) /\ shared' = [shared EXCEPT ![slug].by = "memclaw"]
    BY Zenon, <1>5 DEF AdditiveMarks
  <2>3. /\ DOMAIN f = PullFields /\ f.pc = "file" /\ f.cat = pull[p].cat
        /\ f.todo = pull[p].todo /\ f.slug = slug
    BY Zenon, <1>2 DEF PullFields
  <2> HIDE DEF f, slug
  <2>4. /\ DOMAIN shared' = Slugs /\ \A s \in Slugs : s # slug => shared'[s] = shared[s]
        /\ shared'[slug].by = "memclaw" /\ DOMAIN shared'[slug] = {"by", "body"}
    BY ZenonT(60), <1>2, <2>1, <2>2 DEF SharedShape
  <2>5. SharedShape' /\ OthersKept
    BY Zenon, <1>2, <2>1, <2>4 DEF SharedShape, OthersKept
  <2> QED
    BY Zenon, <1>1, <1>2, <2>1, <2>2, <2>3, <2>4, <2>5, PullMoves
<1>6. CASE AdditiveWrites(p)
  <2>1. slug \in Slugs /\ shared[slug].by = "memclaw"
    BY Zenon, <1>2, <1>6 DEF AdditiveWrites, Turn, PullOK
  <2>2. /\ Pull(p, Skip(p, slug))
        /\ shared' = [shared EXCEPT ![slug].body = pull[p].cat[slug]]
    BY Zenon, <1>6 DEF AdditiveWrites
  <2>3. /\ DOMAIN Skip(p, slug) = PullFields /\ Skip(p, slug).pc = "stat"
        /\ Skip(p, slug).cat = pull[p].cat /\ Skip(p, slug).todo \subseteq pull[p].todo
    BY Zenon, <1>2 DEF Skip, PullFields
  <2> HIDE DEF slug
  <2>4. /\ DOMAIN shared' = Slugs /\ \A s \in Slugs : s # slug => shared'[s] = shared[s]
        /\ DOMAIN shared'[slug] = {"by", "body"}
    BY Zenon, <1>2, <2>1, <2>2 DEF SharedShape
  <2>5. SharedShape' /\ OthersKept
    BY Zenon, <1>2, <2>1, <2>4 DEF SharedShape, OthersKept
  <2> QED
    BY ZenonT(60), <1>1, <1>2, <2>2, <2>3, <2>5, PullMoves
<1> QED
  BY Zenon, <1>3, <1>4, <1>5, <1>6

\* A crash of the node loses every pull; another tool installs where nothing is.
LEMMA OthersKeep ==
    ASSUME DiskInv, NodeDies \/ \E s \in Slugs : ForeignInstalls(s)
    PROVE  DiskInv' /\ OthersKept
<1>1. CASE NodeDies
  <2>1. shared' = shared /\ pull' = [p \in Pulls |-> IdlePull]
    BY Zenon, <1>1 DEF NodeDies
  <2>2. /\ DOMAIN IdlePull = PullFields /\ IdlePull.pc = "idle" /\ DOMAIN IdlePull.cat = {}
        /\ IdlePull.todo = {}
    BY Zenon, IdlePullFields
  <2>3. \A p \in Pulls : PullOK(p)' /\ ~AtWork(p)'
    BY Zenon, <2>1, <2>2 DEF PullOK, AtWork
  <2> QED
    BY Zenon, <2>1, <2>3 DEF DiskInv, OthersKept
<1>2. ASSUME NEW s \in Slugs, ForeignInstalls(s)
      PROVE  DiskInv' /\ OthersKept
  <2> DEFINE theirs == [by |-> "foreign", body |-> Foreign]
  <2>1. shared[s].by = "none" /\ pull' = pull /\ shared' = [shared EXCEPT ![s] = theirs]
    BY Zenon, <1>2 DEF ForeignInstalls
  <2>2. DOMAIN theirs = {"by", "body"}
    OBVIOUS
  <2> HIDE DEF theirs
  <2>3. /\ DOMAIN shared' = Slugs /\ shared'[s] = theirs
        /\ \A t \in Slugs : t # s => shared'[t] = shared[t]
    BY Zenon, <2>1 DEF DiskInv
  <2>4. \A p \in Pulls : PullOK(p)'
    BY ZenonT(60), <2>1, <2>3 DEF DiskInv, PullOK
  <2>5. \A p, q \in Pulls : AtWork(p)' /\ AtWork(q)' => p = q
    BY <2>1 DEF DiskInv, AtWork
  <2> QED
    BY Zenon, <2>1, <2>2, <2>3, <2>4, <2>5 DEF DiskInv, OthersKept
<1> QED
  BY Zenon, <1>1, <1>2

\* Every step keeps the directories in order and other tools' skills as they are.
LEMMA DiskStep ==
    ASSUME DiskInv, [DiskNext]_diskAll
    PROVE  DiskInv' /\ OthersKept
<1>1. CASE UNCHANGED diskVars
  <2>1. shared' = shared /\ pull' = pull
    BY <1>1 DEF diskVars
  <2> QED
    BY Zenon, <2>1 DEF DiskInv, OthersKept, PullOK, AtWork
<1>2. CASE PullStep
  BY <1>2, PullLooks, PullInstalls DEF PullStep
<1> QED
  BY Zenon, <1>1, <1>2, OthersKeep DEF DiskNext, diskAll, diskVars

-----------------------------------------------------------------------------
(* What the inbox, Forge and the plugin promise.                           *)

\* An active skill of a tenant that opted in carries the clean scan of the very text it
\* holds: approve scans the document of its last reload (skills_inbox.py), an edit and a
\* write carry the validator's scan, and the promoter flips only a candidate.
THEOREM ActiveIsScanned == DiskSpec => []ActiveScanned
<1>1. SkillsInv => ActiveScanned
  <2> SUFFICES ASSUME SkillsInv PROVE ActiveScanned
    BY Zenon
  <2>1. /\ clock \in Nat /\ blessed \cup shown \subseteq Slugs \X DOMAIN Bodies
        /\ \A s \in Slugs : KeptDoc(s, docs[s], scene.enabled, carried, blessed)
    BY Zenon DEF SkillsInv, StorageOK, StoreOK
  <2>2. SkillsTypeOK
    BY Zenon, <2>1 DEF SkillsTypeOK, KeptDoc, IsDoc, Vetted
  <2>3. ASSUME scene.enabled, NEW s \in Slugs, docs[s].status = "active"
        PROVE  Whole(docs[s])
    <3>1. /\ Exists(docs[s]) /\ docs[s].scan.state = "clean"
          /\ docs[s].scan = scan_skill_doc(docs[s].body, Bodies[docs[s].body])
      BY Zenon, <2>1, <2>3 DEF KeptDoc, Vetted, Exists
    <3> QED
      BY <2>3, <3>1, ScanVerdict DEF Whole
  <2> QED
    BY Zenon, <2>2, <2>3 DEF ActiveScanned
<1> QED
  BY <1>1, SkillsInductive, PTL

\* A rejected document has its poison row, written before the status, and a tick neither
\* writes nor promotes what a rejection it knew of forbids (skills_inbox.py reject,
\* poison.py, the promoter's gate G4).
THEOREM RejectionIsHeld == DiskSpec => RejectionHolds
<1>1. SkillsInv => RejectedPoisoned
  BY Zenon DEF SkillsInv, StorageOK, AllRecorded, RejectedPoisoned
<1>2. SkillsInv /\ [DiskNext]_diskAll => [~scene.split => TickHonours]_skillVars
  <2> SUFFICES ASSUME SkillsInv, ~scene.split, tick.pc \in {"write", "flip"},
                      NEW row \in tick.known, Covers(row, tick.cand.fp, tick.cand.fleet)
               PROVE  FALSE
    BY ZenonT(60) DEF TickHonours
  <2>1. Clear(tick.known, tick.cand, clock)
    BY Zenon DEF SkillsInv, TickOK
  <2> QED
    BY Zenon, <2>1 DEF Clear, Forbids, Covers
<1> QED
  BY <1>1, <1>2, SkillsInductive, PTL DEF DiskSpec, RejectionHolds, RejectionHonoured

\* Agents and nodes are given only texts that were active with a clean scan, and the pulls
\* never touch a skill another tool installed (reconcile-skills.ts).
THEOREM DiskIsSound == DiskSpec => DiskSound
<1>1. DiskInit => DiskInv
  <2> SUFFICES ASSUME DiskInit PROVE DiskInv
    OBVIOUS
  <2>1. shared = [s \in Slugs |-> Empty] /\ pull = [p \in Pulls |-> IdlePull]
    BY Zenon DEF DiskInit
  <2>2. /\ DOMAIN IdlePull = PullFields /\ IdlePull.pc = "idle" /\ DOMAIN IdlePull.cat = {}
        /\ IdlePull.todo = {} /\ DOMAIN Empty = {"by", "body"}
    BY Zenon, IdlePullFields DEF Empty
  <2>3. \A p \in Pulls : PullOK(p) /\ ~AtWork(p)
    BY Zenon, <2>1, <2>2 DEF PullOK, AtWork
  <2> QED
    BY Zenon, <2>1, <2>2, <2>3 DEF DiskInv
<1>2. DiskInv /\ [DiskNext]_diskAll => DiskInv'
  BY DiskStep
<1>3. DiskInv /\ [DiskNext]_diskAll =>
        [\A s \in Slugs : shared[s].by = "foreign" => shared'[s] = shared[s]]_diskAll
  BY Zenon, DiskStep DEF OthersKept
<1>4. SkillsInv => ShownBlessed
  BY Zenon DEF SkillsInv
<1> QED
  BY <1>1, <1>2, <1>3, <1>4, SkillsInductive, PTL DEF DiskSpec, DiskSound, ForeignKept

=============================================================================
