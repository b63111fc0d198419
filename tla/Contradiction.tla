---------------------------- MODULE Contradiction ----------------------------
(***************************************************************************)
(* The contradiction detector and the supersession chain it keeps in the    *)
(* memories table: status and supersedes_id.  A job <<"A", m>> is Path A of *)
(* memory m (RDF triples, then semantic neighbours), a job <<"C", m>> is    *)
(* Path C (re-judge Path A's verdict, then memories that share entities).   *)
(* Jobs of different memories run concurrently with each other, with user   *)
(* edits and with the lifecycle sweeps; every call of the storage service   *)
(* is a step of its own and a batch commits row by row.                     *)
(*                                                                          *)
(* Memories are numbered by age: created_at, then id, is a total order      *)
(* (_pick_older).  "active" stands for active, confirmed and pending, the   *)
(* three states in which a row is a candidate.                              *)
(***************************************************************************)
EXTENDS Naturals

CONSTANTS N,        \* memories 1..N, in the order they were created
          Jobs,     \* the detection jobs <<path, memory>> there may be
          MaxRuns,  \* how often one job runs
          Worlds    \* what users, sweeps and the write path do in a run: the
                    \* jobs they start, the memories they edit, the statuses they
                    \* set by hand, the memories they remove

Mem == 1..N
Paths == {"A", "C"}
Statuses == {"active", "conflicted", "outdated", "archived"}
None == 0                \* supersedes_id IS NULL

ASSUME ChainAssumption ==
  /\ N \in Nat /\ MaxRuns \in Nat
  /\ Jobs \subseteq Paths \X Mem
  /\ \A w \in Worlds : /\ w.jobs \subseteq Jobs /\ w.statuses \subseteq Statuses
                       /\ w.edited \subseteq Mem /\ w.removed \subseteq Mem

VARIABLES row,    \* row[m]: the stored row
          job,    \* job[j]: progress of a detection job
          edit,   \* edit[m]: an update_memory call in progress, with what it read
          ghost,  \* pairs judged to conflict, rows marked by hand
          world   \* the element of Worlds this run is in
vars == <<row, job, edit, ghost, world>>

Lives == {"live", "deleted", "gone"}
Rows == [life : Lives, status : Statuses, sup : Mem \cup {None}]
\* One row of a batch_update_status payload, with its place in the batch;
\* sup = None leaves the edge alone.
Writes == [id : Mem, status : Statuses, sup : Mem \cup {None}, at : Nat]
Seen == [status : Statuses, sup : Mem \cup {None}]
See(m) == [status |-> row[m].status, sup |-> row[m].sup]

Pcs == {"idle", "rdf", "semantic", "judge", "revert", "clear", "refetch",
        "overlap", "writing"}
JobStates == [pc : Pcs, snap : Seen, writes : SUBSET Writes, runs : 0..MaxRuns]
Blank == [status |-> "active", sup |-> None]

Init ==
  /\ row = [m \in Mem |-> [life |-> "live", status |-> "active", sup |-> None]]
  /\ job = [j \in Jobs |-> [pc |-> "idle", snap |-> Blank, writes |-> {}, runs |-> 0]]
  /\ edit = [m \in Mem |-> {}]
  /\ ghost = [hits |-> {}, manual |-> {}]
  /\ world \in Worlds

At(j, pc) == job[j].pc = pc
Goto(j, pc) == job' = [job EXCEPT ![j].pc = pc]

-----------------------------------------------------------------------------
(* What a loop over the confirmed conflicts hs of memory m, in the order the *)
(* query returned them, accumulates: one merged write per row, in the order  *)
(* the rows were first touched (_merge_status_update).  label is "outdated"  *)
(* for RDF conflicts and "conflicted" for judged ones.                       *)

\* _pick_older names the candidate (canonical) or m itself (flipped).
Canonical(m, hs) == {i \in DOMAIN hs : hs[i] < m}
Flipped(m, hs) == {i \in DOMAIN hs : hs[i] > m}
First(S) == CHOOSE i \in S : \A k \in S : i <= k

\* The older row of every pair carries the label.
MarkWritesByFraming(m, hs, label) ==
  {[id |-> hs[i], status |-> label, sup |-> None, at |-> 3 * i + 1] : i \in DOMAIN hs}
MarkWrites(m, hs, label) ==
  {[id |-> hs[i], status |-> label, sup |-> None, at |-> 3 * i + 1] : i \in Canonical(m, hs)}

\* The row of m itself: the label when some conflicting row is newer, and an
\* edge to the older row hs[i] when the loop wires one (i \in wired).
OwnWrite(m, snap, hs, label, wired) ==
  IF wired \cup Flipped(m, hs) = {} THEN {}
  ELSE {[id |-> m,
         status |-> IF Flipped(m, hs) # {} THEN label ELSE snap.status,
         sup |-> IF wired = {} THEN None ELSE hs[First(wired)],
         at |-> First({3 * i + 2 : i \in wired} \cup {3 * i : i \in Flipped(m, hs)})]}

\* A newer row keeps its status and gets an edge to m, unless it has one.
FlipWritesBackwards(m, hs, S) ==
  {[id |-> m, status |-> row[hs[i]].status, sup |-> hs[i], at |-> 3 * i + 1] :
     i \in {k \in S : row[hs[k]].sup = None}}
FlipWrites(m, hs, S) ==
  {[id |-> hs[i], status |-> row[hs[i]].status, sup |-> m, at |-> 3 * i + 1] :
     i \in {k \in S : row[hs[k]].sup = None}}

\* Path A: the first older conflict becomes the edge unless the job saw one.
WiredA(m, snap, hs) ==
  IF snap.sup = None /\ Canonical(m, hs) # {} THEN {First(Canonical(m, hs))} ELSE {}
WritesA(m, snap, hs, label) ==
  MarkWrites(m, hs, label) \cup FlipWrites(m, hs, Flipped(m, hs))
    \cup OwnWrite(m, snap, hs, label, WiredA(m, snap, hs))

\* Path C: only the very first conflict wires an edge, and in the canonical
\* direction without a look at the edge m may already have.
WritesC(m, snap, hs, label) ==
  MarkWrites(m, hs, label) \cup FlipWrites(m, hs, {1} \cap Flipped(m, hs))
    \cup OwnWrite(m, snap, hs, label, {1} \cap Canonical(m, hs))

\* The queries for candidates return live rows in an active state.
Candidates(m) == {c \in Mem \ {m} : row[c].life = "live" /\ row[c].status = "active"}

\* The conflicts among them, in the order of the query's ranking.
Conflicts(m) ==
  UNION {{hs \in [1..k -> Candidates(m)] : \A i, l \in 1..k : hs[i] = hs[l] => i = l} :
           k \in 0..N}

Recorded(m, hs) ==
  {<<hs[i], m>> : i \in Canonical(m, hs)} \cup {<<m, hs[i]>> : i \in Flipped(m, hs)}
Record(m, hs) == ghost' = [ghost EXCEPT !.hits = @ \cup Recorded(m, hs)]

-----------------------------------------------------------------------------
(* Path A: detect_contradictions_async, _detect                              *)

\* Take the lock and read the row (or be handed it); a deleted row ends it.
Start(j) ==
  /\ j \in world.jobs /\ At(j, "idle") /\ job[j].runs < MaxRuns
  /\ row[j[2]].life = "live"
  /\ job' = [job EXCEPT ![j].pc = IF j[1] = "A" THEN "rdf" ELSE "judge",
                        ![j].snap = See(j[2]), ![j].runs = @ + 1]
  /\ UNCHANGED <<row, edit, ghost>>

\* RDF conflicts of a single-value predicate; none, or none found, goes on to
\* the semantic path.
RdfQuery(j, hs) ==
  /\ At(j, "rdf")
  /\ job' = IF hs = <<>> THEN [job EXCEPT ![j].pc = "semantic"]
            ELSE [job EXCEPT ![j].pc = "writing",
                    ![j].writes = WritesA(j[2], job[j].snap, hs, "outdated")]
  /\ Record(j[2], hs)
  /\ UNCHANGED <<row, edit>>

SemanticQuery(j, hs) ==
  /\ At(j, "semantic")
  /\ job' = IF hs = <<>> THEN [job EXCEPT ![j].pc = "idle"]
            ELSE [job EXCEPT ![j].pc = "writing",
                    ![j].writes = WritesA(j[2], job[j].snap, hs, "conflicted")]
  /\ Record(j[2], hs)
  /\ UNCHANGED <<row, edit>>

-----------------------------------------------------------------------------
(* Path C: detect_contradictions_by_entities_async                           *)

\* The judge's answer: the two gates of _parse_contradiction_response and the
\* confidence of _judge_contradiction, in percent.
Answers == [same : BOOLEAN, contradicts : BOOLEAN, shape : {"none", "named"}]
             \cup {[same |-> FALSE, contradicts |-> FALSE, shape |-> "malformed"]}
Verdict(a) == a.contradicts /\ a.same /\ a.shape = "none"
Confidence(a) ==
  CASE a.shape = "malformed" -> 50
    [] a.contradicts /\ ~a.same -> 60
    [] a.contradicts /\ a.same /\ a.shape = "named" -> 85
    [] OTHER -> 90
RETRACTION_CONFIDENCE_THRESHOLD == 90

\* Whatever makes _attempt_path_c_retraction return False: switched off, no
\* edge, target gone or no longer conflicted, no context, judge unavailable or
\* not sure.
KeepVerdict(j) ==
  /\ At(j, "judge")
  /\ Goto(j, "overlap")
  /\ UNCHANGED <<row, edit, ghost>>

Target(j) == job[j].snap.sup
Retract(j, a) ==
  /\ At(j, "judge") /\ Target(j) # None
  /\ row[Target(j)].life = "live" /\ row[Target(j)].status = "conflicted"
  /\ ~Verdict(a) /\ Confidence(a) >= RETRACTION_CONFIDENCE_THRESHOLD
  /\ Goto(j, "revert")
  /\ UNCHANGED <<row, edit, ghost>>

\* Two calls: first the candidate back to active ...
RevertCandidate(j) ==
  /\ At(j, "revert")
  /\ row' = [row EXCEPT ![Target(j)].status =
                IF row[Target(j)].life = "gone" THEN @ ELSE "active"]
  /\ Goto(j, IF row[Target(j)].life = "gone" THEN "idle" ELSE "clear")
  /\ UNCHANGED <<edit, ghost>>

\* ... then the edge, compare-and-swap; a 409 is logged and swallowed.
ClearEdgeUnguarded(j) ==
  /\ At(j, "clear")
  /\ row' = [row EXCEPT ![j[2]].sup = None, ![j[2]].status = job[j].snap.status]
  /\ Goto(j, "refetch")
  /\ UNCHANGED <<edit, ghost>>
ClearEdge(j) ==
  /\ At(j, "clear")
  /\ row' = IF row[j[2]].life # "gone" /\ row[j[2]].sup \in {Target(j), None}
              THEN [row EXCEPT ![j[2]].sup = None, ![j[2]].status = job[j].snap.status]
              ELSE row
  /\ Goto(j, "refetch")
  /\ UNCHANGED <<edit, ghost>>

\* The row is read again; if it was deleted meanwhile the old view is kept.
Refetch(j) ==
  /\ At(j, "refetch")
  /\ job' = [job EXCEPT ![j].pc = "overlap",
                        ![j].snap = IF row[j[2]].life = "live" THEN See(j[2]) ELSE @]
  /\ UNCHANGED <<row, edit, ghost>>

\* Entity-overlap candidates that pass the subject preflights and the judge.
OverlapQuery(j, hs) ==
  /\ At(j, "overlap")
  /\ job' = IF hs = <<>> THEN [job EXCEPT ![j].pc = "idle"]
            ELSE [job EXCEPT ![j].pc = "writing",
                    ![j].writes = WritesC(j[2], job[j].snap, hs, "conflicted")]
  /\ Record(j[2], hs)
  /\ UNCHANGED <<row, edit>>

-----------------------------------------------------------------------------
(* batch_update_status: every row is its own transaction.                    *)

Applied(w) ==
  IF row[w.id].life = "gone" THEN row
  ELSE [row EXCEPT ![w.id].status = w.status,
                   ![w.id].sup = IF w.sup = None THEN @ ELSE w.sup]
Dangling(w) == w.sup # None /\ row[w.sup].life = "gone" /\ row[w.id].life # "gone"
IsNext(j, w) == w \in job[j].writes /\ \A v \in job[j].writes : w.at <= v.at
WriteOne(j, w) ==
  /\ At(j, "writing") /\ IsNext(j, w) /\ ~Dangling(w)
  /\ row' = Applied(w)
  /\ job' = [job EXCEPT ![j].writes = @ \ {w}]
  /\ UNCHANGED <<edit, ghost>>

\* The foreign key refuses an edge to a purged row: the request fails there
\* and the rest of the batch is not applied.
WriteRefused(j, w) ==
  /\ At(j, "writing") /\ IsNext(j, w) /\ Dangling(w)
  /\ job' = [job EXCEPT ![j].pc = "idle", ![j].writes = {}]
  /\ UNCHANGED <<row, edit, ghost>>

EndJob(j) ==
  /\ At(j, "writing") /\ job[j].writes = {}
  /\ Goto(j, "idle")
  /\ UNCHANGED <<row, edit, ghost>>

\* An exception or the end of the process: what was not written stays undone.
Abort(j) ==
  /\ ~At(j, "idle")
  /\ job' = [job EXCEPT ![j].pc = "idle", ![j].writes = {}]
  /\ UNCHANGED <<row, edit, ghost>>

-----------------------------------------------------------------------------
(* Users and lifecycle sweeps.                                               *)

\* update_memory reads the row, embeds the new content, then patches: an edge
\* and a mark that it read are cleared.
EditRead(m) ==
  /\ m \in world.edited /\ edit[m] = {} /\ row[m].life = "live"
  /\ edit' = [edit EXCEPT ![m] = {See(m)}]
  /\ UNCHANGED <<row, job, ghost>>
EditPatch(m) ==
  /\ \E r \in edit[m] :
       row' = IF row[m].life # "live" THEN row
              ELSE [row EXCEPT ![m].sup = IF r.sup = None THEN @ ELSE None,
                               ![m].status = IF r.status \in {"conflicted", "outdated"}
                                               THEN "active" ELSE @]
  /\ edit' = [edit EXCEPT ![m] = {}]
  /\ UNCHANGED <<job, ghost>>

SetStatus(m, s) ==
  /\ s \in world.statuses /\ row[m].life = "live"
  /\ row' = [row EXCEPT ![m].status = s]
  /\ ghost' = [ghost EXCEPT !.manual = @ \cup {m}]
  /\ UNCHANGED <<job, edit>>

\* memory_archive_expired and memory_archive_stale.
Archive(m, s) ==
  /\ m \in world.removed /\ s \in {"outdated", "archived"}
  /\ row[m].life = "live" /\ row[m].status = "active"
  /\ row' = [row EXCEPT ![m].status = s]
  /\ UNCHANGED <<job, edit, ghost>>

Delete(m) ==
  /\ m \in world.removed /\ row[m].life = "live"
  /\ row' = [row EXCEPT ![m].life = "deleted"]
  /\ UNCHANGED <<job, edit, ghost>>

\* memory_purge_soft_deleted; the foreign key is ON DELETE SET NULL.
PurgeKeepsEdges(m) ==
  /\ row[m].life = "deleted"
  /\ row' = [row EXCEPT ![m] = [life |-> "gone", status |-> "archived", sup |-> None]]
  /\ UNCHANGED <<job, edit, ghost>>
Purge(m) ==
  /\ row[m].life = "deleted"
  /\ row' = [c \in Mem |->
               IF c = m THEN [life |-> "gone", status |-> "archived", sup |-> None]
               ELSE IF row[c].sup = m THEN [row[c] EXCEPT !.sup = None] ELSE row[c]]
  /\ UNCHANGED <<job, edit, ghost>>

-----------------------------------------------------------------------------
JobStep(j) ==
  \/ Start(j) \/ KeepVerdict(j) \/ RevertCandidate(j) \/ ClearEdge(j) \/ Refetch(j)
  \/ EndJob(j) \/ Abort(j)
  \/ \E a \in Answers : Retract(j, a)
  \/ \E hs \in Conflicts(j[2]) : RdfQuery(j, hs) \/ SemanticQuery(j, hs) \/ OverlapQuery(j, hs)
  \/ \E w \in job[j].writes : WriteOne(j, w) \/ WriteRefused(j, w)

RowStep(m) ==
  \/ EditRead(m) \/ EditPatch(m) \/ Delete(m) \/ Purge(m)
  \/ \E s \in Statuses : SetStatus(m, s) \/ Archive(m, s)

Next == /\ (\E j \in Jobs : JobStep(j)) \/ (\E m \in Mem : RowStep(m))
        /\ UNCHANGED world
Spec == Init /\ [][Next]_vars

-----------------------------------------------------------------------------
(* Properties                                                                *)

\* Every variable keeps its shape.
TypeOK ==
  /\ row \in [Mem -> Rows]
  /\ job \in [Jobs -> JobStates]
  /\ edit \in [Mem -> SUBSET Seen]
  /\ ghost \in [hits : SUBSET (Mem \X Mem), manual : SUBSET Mem]

\* A supersession edge always points from the newer row to a strictly older
\* one, whichever of the two was being checked and however many checks
\* overlap (_pick_older): so no chain of edges ever closes a cycle.
SupersedesOlder == \A m \in Mem : row[m].sup # None => row[m].sup < m

\* Only a loser is marked: a row is "conflicted" only if some newer row was
\* judged to contradict it, or a user set that status by hand.
OnlyLosersMarked ==
  \A m \in Mem : row[m].status = "conflicted" =>
    m \in ghost.manual \/ \E n \in Mem : <<m, n>> \in ghost.hits

\* No edge dangles: supersedes_id names a row that still exists.
NoDanglingEdge == \A m \in Mem : row[m].sup # None => row[row[m].sup].life # "gone"

\* The marks of detection in one invariant: only losers are conflicted, no edge
\* dangles, and every variable keeps its shape.
MarksSound == TypeOK /\ OnlyLosersMarked /\ NoDanglingEdge

\* An edge disappears only with its target, with an edit of the row that
\* carries it, or by the retraction of exactly this edge: a retraction never
\* clears an edge that another detection set after the retraction looked.
EdgesEndForCause ==
  [][\A m \in Mem : row[m].sup # None /\ row'[m].sup = None =>
       \/ row'[row[m].sup].life = "gone" \/ row'[m].life = "gone"
       \/ edit[m] # {} /\ edit'[m] = {}
       \/ /\ <<"C", m>> \in Jobs
          /\ At(<<"C", m>>, "clear") /\ Target(<<"C", m>>) = row[m].sup]_vars

\* The first detection to land owns the chain: detection never repoints an
\* edge that is set.
FirstEdgeWins ==
  [][\A m \in Mem : row[m].sup # None /\ row'[m].sup # None => row'[m].sup = row[m].sup]_vars
=============================================================================
