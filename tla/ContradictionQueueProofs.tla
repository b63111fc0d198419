---------------------- MODULE ContradictionQueueProofs ----------------------
(***************************************************************************)
(* The supersession chain, for any number of memories and jobs, and the      *)
(* queue of audit events, for any events, tenants and sizes.                 *)
(***************************************************************************)
EXTENDS Contradiction, AuditQueue, WellFoundedInduction, FiniteSetTheorems, TLAPS

-----------------------------------------------------------------------------
(* The supersession chain.                                                   *)

\* A nonempty set of naturals has a first element, so the place at which a
\* loop touches a row is well defined.
LEMMA FirstMember ==
  ASSUME NEW S, S \subseteq Nat, S # {}
  PROVE  First(S) \in S
<1> DEFINE R == OpToRel(<, Nat)
<1>1. IsWellFoundedOn(R, Nat)
  BY Zenon, NatLessThanWellFounded
<1>2. \A x, y \in Nat : y < x => <<y, x>> \in R
  BY DEF OpToRel
<1> HIDE DEF R
<1>3. PICK x \in S : \A y \in S : ~ (<<y, x>> \in R)
  BY Zenon, <1>1, WFMin
<1>4. ASSUME NEW y \in S PROVE x <= y
  <2>1. x \in Nat /\ y \in Nat
    OBVIOUS
  <2>2. ~(y < x)
    BY Zenon, <1>2, <1>3, <2>1
  <2> QED BY <2>1, <2>2
<1> QED BY Zenon, <1>4 DEF First

-----------------------------------------------------------------------------
(* The inductive invariant: what the rows promise, carried by the writes and *)
(* the snapshots of the jobs that are still on their way to the table.       *)

Marked(g, m) == m \in g.manual \/ \E n \in Mem : <<m, n>> \in g.hits

RowGood(g, r, m) ==
  /\ r.sup # None => r.sup < m
  /\ r.status = "conflicted" => Marked(g, m)
WriteGood(g, w) ==
  /\ w.sup # None => w.sup < w.id
  /\ w.status = "conflicted" => Marked(g, w.id)
JobGood(g, b, j) ==
  /\ \A w \in b.writes : WriteGood(g, w)
  /\ b.snap.status = "conflicted" => Marked(g, j[2])
  /\ b.pc \in {"revert", "clear"} => b.snap.sup # None

IInv ==
  /\ TypeOK
  /\ \A m \in Mem : RowGood(ghost, row[m], m)
  /\ \A j \in Jobs : JobGood(ghost, job[j], j)
  /\ NoDanglingEdge

\* Nothing that justified a mark is ever forgotten.
LEMMA MarkedGrows ==
  ASSUME NEW g, NEW h, g.manual \subseteq h.manual, g.hits \subseteq h.hits
  PROVE  /\ \A m : Marked(g, m) => Marked(h, m)
         /\ \A w : WriteGood(g, w) => WriteGood(h, w)
         /\ \A b, j : JobGood(g, b, j) => JobGood(h, b, j)
         /\ \A r, m : RowGood(g, r, m) => RowGood(h, r, m)
<1>1. \A m : Marked(g, m) => Marked(h, m)
  BY Zenon DEF Marked
<1> QED BY Zenon, <1>1 DEF WriteGood, JobGood, RowGood

-----------------------------------------------------------------------------
(* What a batch of writes contains.                                          *)

\* What the conflict search returns: other memories, active when it ran.
LEMMA ConflictsAreActive ==
  ASSUME NEW m \in Mem, NEW hs \in Conflicts(m), NEW i \in DOMAIN hs
  PROVE  /\ i \in Nat /\ hs[i] \in Mem /\ hs[i] # m
         /\ row[hs[i]].status = "active"
<1>1. PICK k \in 0..N : hs \in [1..k -> Candidates(m)]
  BY DEF Conflicts
<1> QED BY <1>1, ChainAssumption DEF Candidates

\* Marks go to older rows only.
LEMMA MarkWritesGood ==
  ASSUME NEW m \in Mem, NEW hs \in Conflicts(m), NEW label \in {"outdated", "conflicted"},
         NEW g, Recorded(m, hs) \subseteq g.hits,
         NEW w \in MarkWrites(m, hs, label)
  PROVE  w \in Writes /\ WriteGood(g, w)
<1>1. PICK i \in Canonical(m, hs) : w = [id |-> hs[i], status |-> label, sup |-> None, at |-> 3 * i + 1]
  BY DEF MarkWrites
<1>2. i \in Nat /\ hs[i] \in Mem
  BY <1>1, ConflictsAreActive DEF Canonical
<1>3. w \in Writes
  BY <1>1, <1>2 DEF Writes, Statuses
<1>4. <<hs[i], m>> \in g.hits
  BY Zenon, <1>1 DEF Recorded
<1>5. WriteGood(g, w)
  BY Zenon, <1>1, <1>4 DEF WriteGood, Marked
<1> QED BY Zenon, <1>3, <1>5

\* Flipped edges go from a newer row to m and keep an active status.
LEMMA FlipWritesGood ==
  ASSUME NEW m \in Mem, NEW hs \in Conflicts(m), NEW S \in SUBSET Flipped(m, hs), NEW g,
         NEW w \in FlipWrites(m, hs, S)
  PROVE  w \in Writes /\ WriteGood(g, w)
<1>1. PICK i \in S : w = [id |-> hs[i], status |-> row[hs[i]].status, sup |-> m, at |-> 3 * i + 1]
  BY Zenon DEF FlipWrites
<1>2. i \in DOMAIN hs /\ m < hs[i]
  BY Zenon, <1>1 DEF Flipped
<1>3. i \in Nat /\ hs[i] \in Mem /\ row[hs[i]].status = "active"
  BY <1>2, ConflictsAreActive
<1>4. w \in Writes
  BY <1>1, <1>3 DEF Writes, Statuses
<1> QED BY Zenon, <1>1, <1>2, <1>3, <1>4 DEF WriteGood

\* The row of m itself is marked only when a newer row won, and its edge goes
\* to a canonical, that is older, conflict.
LEMMA OwnWriteGood ==
  ASSUME NEW m \in Mem, NEW hs \in Conflicts(m), NEW label \in {"outdated", "conflicted"},
         NEW snap \in Seen, NEW wired \in SUBSET Canonical(m, hs),
         NEW g, Recorded(m, hs) \subseteq g.hits, snap.status = "conflicted" => Marked(g, m),
         NEW w \in OwnWrite(m, snap, hs, label, wired)
  PROVE  w \in Writes /\ WriteGood(g, w)
<1> DEFINE P == {3 * i + 2 : i \in wired} \cup {3 * i : i \in Flipped(m, hs)}
           s == IF wired = {} THEN None ELSE hs[First(wired)]
           t == IF Flipped(m, hs) # {} THEN label ELSE snap.status
<1>1. wired \cup Flipped(m, hs) # {} /\ w = [id |-> m, status |-> t, sup |-> s, at |-> First(P)]
  BY Zenon DEF OwnWrite
<1>2. \A i \in DOMAIN hs : i \in Nat /\ hs[i] \in Mem
  BY Zenon, ConflictsAreActive
<1>3. First(P) \in Nat
  <2>1. \A i \in wired \cup Flipped(m, hs) : i \in Nat
    BY <1>2 DEF Canonical, Flipped
  <2>2. P \subseteq Nat
    BY <2>1
  <2>3. P # {}
    BY <1>1, Zenon
  <2> QED BY Zenon, <2>2, <2>3, FirstMember
<1>4. s \in Mem \cup {None} /\ (s # None => s < m)
  <2>1. CASE wired = {}
    BY Zenon, <2>1
  <2>2. CASE wired # {}
    <3>1. First(wired) \in wired
      BY Zenon, <1>2, <2>2, FirstMember DEF Canonical
    <3> QED BY Zenon, <1>2, <2>2, <3>1 DEF Canonical
  <2> QED BY Zenon, <2>1, <2>2
<1>5. t \in Statuses /\ (t = "conflicted" => Marked(g, m))
  <2>1. CASE Flipped(m, hs) = {}
    BY Zenon, <2>1 DEF Seen
  <2>2. CASE Flipped(m, hs) # {}
    <3>1. PICK i \in Flipped(m, hs) : TRUE
      BY <2>2
    <3>2. <<m, hs[i]>> \in g.hits /\ hs[i] \in Mem
      BY <1>2, <3>1 DEF Recorded, Flipped
    <3> QED BY Zenon, <2>2, <3>2 DEF Marked, Statuses
  <2> QED BY Zenon, <2>1, <2>2
<1> HIDE DEF P, s, t
<1>6. w \in Writes
  BY Zenon, <1>1, <1>3, <1>4, <1>5 DEF Writes
<1> QED BY Zenon, <1>1, <1>4, <1>5, <1>6 DEF WriteGood

\* Whatever a detection loop accumulates points to older rows and marks only
\* losers, on both paths.
LEMMA BatchesGood ==
  ASSUME NEW m \in Mem, NEW hs \in Conflicts(m), NEW label \in {"outdated", "conflicted"},
         NEW snap \in Seen, NEW g, Recorded(m, hs) \subseteq g.hits,
         snap.status = "conflicted" => Marked(g, m)
  PROVE  /\ WritesA(m, snap, hs, label) \in SUBSET Writes
         /\ WritesC(m, snap, hs, label) \in SUBSET Writes
         /\ \A w \in WritesA(m, snap, hs, label) : WriteGood(g, w)
         /\ \A w \in WritesC(m, snap, hs, label) : WriteGood(g, w)
<1>1. WiredA(m, snap, hs) \in SUBSET Canonical(m, hs)
  <2>1. Canonical(m, hs) \subseteq Nat
    BY Zenon, ConflictsAreActive DEF Canonical
  <2> QED BY Zenon, <2>1, FirstMember DEF WiredA
<1>2. \A w \in WritesA(m, snap, hs, label) : w \in Writes /\ WriteGood(g, w)
  BY Zenon, <1>1, MarkWritesGood, FlipWritesGood, OwnWriteGood DEF WritesA
<1>3. \A w \in WritesC(m, snap, hs, label) : w \in Writes /\ WriteGood(g, w)
  BY Zenon, MarkWritesGood, FlipWritesGood, OwnWriteGood DEF WritesC
<1> QED BY Zenon, <1>2, <1>3

-----------------------------------------------------------------------------
(* The initial state and the steps.                                          *)

\* No detection under way, no row marked.
LEMMA InitIInv == Init => IInv
<1> SUFFICES ASSUME Init PROVE IInv
  OBVIOUS
<1>1. TypeOK
  BY ChainAssumption DEF Init, TypeOK, Rows, Lives, Statuses, JobStates, Pcs, Seen, Blank
<1>2. \A m \in Mem : RowGood(ghost, row[m], m)
  BY Zenon DEF Init, RowGood
<1>3. \A j \in Jobs : JobGood(ghost, job[j], j)
  BY Zenon DEF Init, JobGood, Blank
<1>4. NoDanglingEdge
  BY Zenon DEF Init, NoDanglingEdge
<1> QED BY <1>1, <1>2, <1>3, <1>4 DEF IInv

\* What a job finds in a row is typed, and a mark it finds is justified.
LEMMA SeeGood ==
  ASSUME IInv, NEW m \in Mem
  PROVE  See(m) \in Seen /\ (See(m).status = "conflicted" => Marked(ghost, m))
<1>1. row[m] \in Rows /\ RowGood(ghost, row[m], m)
  BY Zenon DEF IInv, TypeOK
<1> QED BY Zenon, <1>1 DEF See, Seen, Rows, RowGood

\* A step of one job that leaves the table alone.
LEMMA JobOnly ==
  ASSUME IInv, UNCHANGED <<row, edit>>,
         ghost' \in [hits : SUBSET (Mem \X Mem), manual : SUBSET Mem],
         ghost.hits \subseteq ghost'.hits, ghost.manual \subseteq ghost'.manual,
         NEW j \in Jobs, NEW b \in JobStates, JobGood(ghost', b, j),
         job' = [job EXCEPT ![j] = b]
  PROVE  IInv'
<1>1. TypeOK'
  BY Zenon DEF IInv, TypeOK
<1>2. \A m \in Mem : RowGood(ghost', row'[m], m)
  BY Zenon, MarkedGrows DEF IInv
<1>3. \A i \in Jobs : JobGood(ghost', job'[i], i)
  BY Zenon, MarkedGrows DEF IInv, TypeOK
<1>4. NoDanglingEdge'
  BY Zenon DEF IInv, NoDanglingEdge
<1> QED BY Zenon, <1>1, <1>2, <1>3, <1>4 DEF IInv

\* One row is rewritten and keeps its life; one job moves on.
LEMMA RowRewritten ==
  ASSUME IInv, NEW m \in Mem, NEW r \in Rows,
         row' = [row EXCEPT ![m] = r], RowGood(ghost', r, m),
         r.life = "gone" <=> row[m].life = "gone",
         r.sup # None => r.sup = row[m].sup \/ row[r.sup].life # "gone",
         edit' \in [Mem -> SUBSET Seen],
         ghost' \in [hits : SUBSET (Mem \X Mem), manual : SUBSET Mem],
         ghost.hits \subseteq ghost'.hits, ghost.manual \subseteq ghost'.manual,
         job' \in [Jobs -> JobStates], \A j \in Jobs : JobGood(ghost', job'[j], j)
  PROVE  IInv'
<1>1. TypeOK'
  BY Zenon DEF IInv, TypeOK
<1>2. \A n \in Mem : RowGood(ghost', row'[n], n)
  BY Zenon, MarkedGrows DEF IInv, TypeOK
<1>3. NoDanglingEdge'
  <2> SUFFICES ASSUME NEW n \in Mem, row'[n].sup # None
               PROVE  row'[row'[n].sup].life # "gone"
    BY Zenon DEF NoDanglingEdge
  <2>1. row'[n] \in Rows /\ row'[n].sup \in Mem
    BY Zenon, <1>1 DEF TypeOK, Rows
  <2>2. row[row'[n].sup].life # "gone"
    BY Zenon, <2>1 DEF IInv, TypeOK, NoDanglingEdge
  <2> QED BY Zenon, <2>1, <2>2 DEF IInv, TypeOK
<1> QED BY Zenon, <1>1, <1>2, <1>3 DEF IInv

\* A query step: the batch it prepares is good, and its hits are recorded.
LEMMA QueryStep ==
  ASSUME IInv, NEW j \in Jobs, NEW hs \in Conflicts(j[2]),
         NEW label \in {"outdated", "conflicted"}, NEW pc \in {"idle", "semantic"},
         NEW ws, ws \in {WritesA(j[2], job[j].snap, hs, label),
                         WritesC(j[2], job[j].snap, hs, label)},
         job' = IF hs = <<>> THEN [job EXCEPT ![j].pc = pc]
                ELSE [job EXCEPT ![j].pc = "writing", ![j].writes = ws],
         Record(j[2], hs), UNCHANGED <<row, edit>>
  PROVE  IInv'
<1>1. j[2] \in Mem
  BY Zenon, ChainAssumption
<1>2. Recorded(j[2], hs) \subseteq Mem \X Mem
  BY <1>1, ConflictsAreActive DEF Recorded, Canonical, Flipped
<1>3. /\ ghost' \in [hits : SUBSET (Mem \X Mem), manual : SUBSET Mem]
      /\ ghost.hits \subseteq ghost'.hits /\ ghost.manual \subseteq ghost'.manual
      /\ Recorded(j[2], hs) \subseteq ghost'.hits
  BY <1>2 DEF IInv, TypeOK, Record
<1>4. job[j] \in JobStates /\ JobGood(ghost', job[j], j)
  BY Zenon, <1>3, MarkedGrows DEF IInv, TypeOK
<1>5. job[j].snap \in Seen /\ (job[j].snap.status = "conflicted" => Marked(ghost', j[2]))
  BY Zenon, <1>4 DEF JobStates, JobGood
<1>6. ws \in SUBSET Writes /\ \A w \in ws : WriteGood(ghost', w)
  BY Zenon, <1>1, <1>3, <1>5, BatchesGood
<1>7. CASE hs = <<>>
  <2> DEFINE b == [job[j] EXCEPT !.pc = pc]
  <2>1. b \in JobStates /\ job' = [job EXCEPT ![j] = b]
    BY Zenon, <1>4, <1>7 DEF JobStates, Pcs
  <2>2. JobGood(ghost', b, j)
    BY Zenon, <1>4 DEF JobGood, JobStates
  <2> QED BY Zenon, <1>3, <2>1, <2>2, JobOnly
<1>8. CASE hs # <<>>
  <2> DEFINE b == [job[j] EXCEPT !.pc = "writing", !.writes = ws]
  <2>1. b \in JobStates
    BY Zenon, <1>4, <1>6 DEF JobStates, Pcs
  <2>2. job' = [job EXCEPT ![j] = b]
    BY Zenon, <1>8, <1>4 DEF JobStates, IInv, TypeOK
  <2>3. JobGood(ghost', b, j)
    BY Zenon, <1>4, <1>6 DEF JobGood, JobStates
  <2> QED BY Zenon, <1>3, <2>1, <2>2, <2>3, JobOnly
<1> QED BY Zenon, <1>7, <1>8

\* A step that only moves the program counter and drops or keeps the writes.
LEMMA MoveStep ==
  ASSUME IInv, NEW j \in Jobs, NEW b \in JobStates, job' = [job EXCEPT ![j] = b],
         b.writes \subseteq job[j].writes,
         b.snap = job[j].snap \/ (b.snap.status = "conflicted" => Marked(ghost, j[2])),
         b.pc \in {"revert", "clear"} => b.snap.sup # None,
         UNCHANGED <<row, edit, ghost>>
  PROVE  IInv'
<1>1. JobGood(ghost, job[j], j)
  BY DEF IInv
<1>2. JobGood(ghost, b, j)
  BY Zenon, <1>1 DEF JobGood
<1>3. ghost' \in [hits : SUBSET (Mem \X Mem), manual : SUBSET Mem]
  BY DEF IInv, TypeOK
<1> QED BY Zenon, <1>2, <1>3, JobOnly

\* The steps of a detection.
LEMMA JobStepIInv ==
  ASSUME IInv, NEW j \in Jobs, JobStep(j)
  PROVE  IInv'
<1>0. j[2] \in Mem
  BY ChainAssumption
<1>t. /\ row \in [Mem -> Rows] /\ job \in [Jobs -> JobStates] /\ edit \in [Mem -> SUBSET Seen]
      /\ ghost \in [hits : SUBSET (Mem \X Mem), manual : SUBSET Mem]
  BY Zenon DEF IInv, TypeOK
<1>j. job[j] \in JobStates /\ JobGood(ghost, job[j], j)
  BY Zenon, <1>t DEF IInv
<1>a. CASE Start(j)
  <2> DEFINE b == [job[j] EXCEPT !.pc = IF j[1] = "A" THEN "rdf" ELSE "judge",
                                 !.snap = See(j[2]), !.runs = @ + 1]
  <2>1. See(j[2]) \in Seen /\ (See(j[2]).status = "conflicted" => Marked(ghost, j[2]))
    BY <1>0, SeeGood
  <2>2. job[j].runs + 1 \in 0..MaxRuns
    BY <1>a, <1>j, ChainAssumption DEF Start, JobStates
  <2>3. b \in JobStates
    BY Zenon, <1>j, <2>1, <2>2 DEF JobStates, Pcs
  <2>4. job' = [job EXCEPT ![j] = b]
    BY Zenon, <1>a, <1>t, <1>j DEF Start, JobStates
  <2>5. b.writes = job[j].writes /\ b.snap = See(j[2]) /\ b.pc \notin {"revert", "clear"}
    BY <1>j DEF JobStates
  <2>6. UNCHANGED <<row, edit, ghost>>
    BY <1>a DEF Start
  <2> HIDE DEF b
  <2> QED BY Zenon, <2>1, <2>3, <2>4, <2>5, <2>6, MoveStep
<1>b. CASE KeepVerdict(j)
  <2> DEFINE b == [job[j] EXCEPT !.pc = "overlap"]
  <2>1. b \in JobStates /\ job' = [job EXCEPT ![j] = b]
    BY <1>b, <1>t, <1>j DEF KeepVerdict, Goto, JobStates, Pcs
  <2>2. b.writes = job[j].writes /\ b.snap = job[j].snap /\ b.pc = "overlap"
    BY Zenon, <1>j DEF JobStates
  <2> HIDE DEF b
  <2> QED BY Zenon, <1>b, <2>1, <2>2, MoveStep DEF KeepVerdict
<1>c. CASE RevertCandidate(j)
  <2> DEFINE t == Target(j)
             pc == IF row[t].life = "gone" THEN "idle" ELSE "clear"
             r == [row[t] EXCEPT !.status = IF row[t].life = "gone" THEN @ ELSE "active"]
  <2>1. t \in Mem /\ t # None
    BY Zenon, <1>c, <1>j DEF RevertCandidate, At, JobGood, Target, JobStates, Seen
  <2>2. row[t] \in Rows /\ RowGood(ghost, row[t], t)
    BY Zenon, <1>t, <2>1 DEF IInv
  <2>3. r \in Rows /\ RowGood(ghost, r, t) /\ r.life = row[t].life /\ r.sup = row[t].sup
    BY Zenon, <2>2 DEF Rows, RowGood, Statuses
  <2>4. row' = [row EXCEPT ![t] = r] /\ UNCHANGED <<edit, ghost>>
    BY Zenon, <1>c, <1>t, <2>1 DEF RevertCandidate
  <2>5. job' \in [Jobs -> JobStates] /\ \A i \in Jobs : JobGood(ghost, job'[i], i)
    <3>1. job' = [job EXCEPT ![j].pc = pc] /\ t # None
      BY Zenon, <1>c, <2>1 DEF RevertCandidate, Goto
    <3>2. job' \in [Jobs -> JobStates]
      BY Zenon, <1>t, <1>j, <3>1 DEF JobStates, Pcs
    <3>3. JobGood(ghost, job'[j], j)
      BY Zenon, <1>t, <1>j, <3>1 DEF JobGood, Target, JobStates
    <3> QED BY Zenon, <1>t, <3>1, <3>2, <3>3 DEF IInv
  <2> HIDE DEF r, t
  <2> QED BY ZenonT(60), <1>t, <2>1, <2>3, <2>4, <2>5, RowRewritten
<1>d. CASE ClearEdge(j)
  <2> DEFINE r == [row[j[2]] EXCEPT !.sup = None, !.status = job[j].snap.status]
  <2>1. row[j[2]] \in Rows
    BY Zenon, <1>0, <1>t
  <2>2. r \in Rows /\ RowGood(ghost, r, j[2]) /\ r.life = row[j[2]].life /\ r.sup = None
    BY Zenon, <1>j, <2>1 DEF Rows, RowGood, JobGood, JobStates, Seen
  <2>3. job' \in [Jobs -> JobStates] /\ \A i \in Jobs : JobGood(ghost, job'[i], i)
    <3>1. job' = [job EXCEPT ![j].pc = "refetch"]
      BY Zenon, <1>d DEF ClearEdge, Goto
    <3>2. job' \in [Jobs -> JobStates]
      BY Zenon, <1>t, <1>j, <3>1 DEF JobStates, Pcs
    <3>3. JobGood(ghost, job'[j], j)
      BY Zenon, <1>t, <1>j, <3>1 DEF JobGood, JobStates
    <3> QED BY Zenon, <1>t, <3>1, <3>2, <3>3 DEF IInv
  <2>4. CASE row' = row
    <3>1. row' = [row EXCEPT ![j[2]] = row[j[2]]] /\ RowGood(ghost, row[j[2]], j[2])
      BY Zenon, <1>0, <1>t, <2>4 DEF IInv
    <3> QED BY Zenon, <1>0, <1>d, <1>t, <2>1, <2>3, <3>1, RowRewritten DEF ClearEdge
  <2>5. CASE row' # row
    <3>1. row' = [row EXCEPT ![j[2]] = r] /\ UNCHANGED <<edit, ghost>>
      BY Zenon, <1>0, <1>d, <1>t, <2>5 DEF ClearEdge
    <3> HIDE DEF r
    <3> QED BY ZenonT(60), <1>0, <1>t, <2>2, <2>3, <3>1, RowRewritten
  <2> QED BY <2>4, <2>5
<1>e. CASE Refetch(j)
  <2> DEFINE v == IF row[j[2]].life = "live" THEN See(j[2]) ELSE job[j].snap
             b == [job[j] EXCEPT !.pc = "overlap", !.snap = v]
  <2>1. v \in Seen /\ (v = job[j].snap \/ (v.status = "conflicted" => Marked(ghost, j[2])))
    BY Zenon, <1>0, <1>j, SeeGood DEF JobStates
  <2>2. job' = [job EXCEPT ![j] = b]
    BY Zenon, <1>e, <1>t, <1>j DEF Refetch, JobStates
  <2> HIDE DEF v
  <2>3. b \in JobStates /\ b.writes = job[j].writes /\ b.snap = v /\ b.pc = "overlap"
    BY Zenon, <1>j, <2>1 DEF JobStates, Pcs
  <2> HIDE DEF b
  <2> QED BY Zenon, <1>e, <2>1, <2>2, <2>3, MoveStep DEF Refetch
<1>f. CASE EndJob(j)
  <2> DEFINE b == [job[j] EXCEPT !.pc = "idle"]
  <2>1. b \in JobStates /\ job' = [job EXCEPT ![j] = b]
    BY <1>f, <1>t, <1>j DEF EndJob, Goto, JobStates, Pcs
  <2>2. b.writes = job[j].writes /\ b.snap = job[j].snap /\ b.pc = "idle"
    BY <1>j DEF JobStates
  <2> HIDE DEF b
  <2> QED BY Zenon, <1>f, <2>1, <2>2, MoveStep DEF EndJob
<1>g. ASSUME /\ job' = [job EXCEPT ![j].pc = "idle", ![j].writes = {}]
             /\ UNCHANGED <<row, edit, ghost>>
      PROVE  IInv'
  <2> DEFINE b == [job[j] EXCEPT !.pc = "idle", !.writes = {}]
  <2>1. b \in JobStates /\ job' = [job EXCEPT ![j] = b]
    BY Zenon, <1>g, <1>t, <1>j DEF JobStates, Pcs
  <2>2. b.writes = {} /\ b.snap = job[j].snap /\ b.pc = "idle"
    BY Zenon, <1>j DEF JobStates
  <2> HIDE DEF b
  <2> QED BY Zenon, <1>g, <2>1, <2>2, MoveStep
<1>h. ASSUME NEW a \in Answers, Retract(j, a) PROVE IInv'
  <2> DEFINE b == [job[j] EXCEPT !.pc = "revert"]
  <2>1. b \in JobStates /\ job' = [job EXCEPT ![j] = b]
    BY Zenon, <1>h, <1>t, <1>j DEF Retract, Goto, JobStates, Pcs
  <2>2. b.writes = job[j].writes /\ b.snap = job[j].snap /\ b.snap.sup # None
    BY Zenon, <1>h, <1>j DEF JobStates, Retract, Target
  <2> HIDE DEF b
  <2> QED BY ZenonT(60), <1>h, <2>1, <2>2, MoveStep DEF Retract
<1>i. ASSUME NEW hs \in Conflicts(j[2]),
             RdfQuery(j, hs) \/ SemanticQuery(j, hs) \/ OverlapQuery(j, hs)
      PROVE  IInv'
  <2>1. CASE RdfQuery(j, hs)
    BY Zenon, <1>i, <2>1, QueryStep DEF RdfQuery
  <2>2. CASE SemanticQuery(j, hs)
    BY ZenonT(60), <1>i, <2>2, QueryStep DEF SemanticQuery
  <2>3. CASE OverlapQuery(j, hs)
    BY Zenon, <1>i, <2>3, QueryStep DEF OverlapQuery
  <2> QED BY <1>i, <2>1, <2>2, <2>3
<1>k. ASSUME NEW w \in job[j].writes, WriteOne(j, w) PROVE IInv'
  <2> DEFINE r == IF row[w.id].life = "gone" THEN row[w.id]
                  ELSE [row[w.id] EXCEPT !.status = w.status,
                                         !.sup = IF w.sup = None THEN @ ELSE w.sup]
  <2>1. w \in Writes /\ WriteGood(ghost, w)
    BY Zenon, <1>j DEF JobStates, JobGood
  <2>2. w.id \in Mem /\ w.status \in Statuses /\ w.sup \in Mem \cup {None}
    BY <2>1 DEF Writes
  <2>3. row[w.id] \in Rows /\ RowGood(ghost, row[w.id], w.id)
    BY <1>t, <2>2 DEF IInv
  <2>4. r \in Rows /\ r.life = row[w.id].life
    BY Zenon, <2>2, <2>3 DEF Rows
  <2>5. RowGood(ghost, r, w.id)
    BY Zenon, <2>1, <2>2, <2>3 DEF Rows, RowGood, WriteGood
  <2>6. r.sup # None => r.sup = row[w.id].sup \/ row[r.sup].life # "gone"
    BY Zenon, <1>k, <2>2, <2>3 DEF Rows, WriteOne, Dangling
  <2>7. row' = [row EXCEPT ![w.id] = r] /\ UNCHANGED <<edit, ghost>>
    BY Zenon, <1>k, <1>t, <2>2, <2>3 DEF WriteOne, Applied, Rows
  <2>8. job' \in [Jobs -> JobStates] /\ \A i \in Jobs : JobGood(ghost, job'[i], i)
    <3>1. job' = [job EXCEPT ![j].writes = @ \ {w}]
      BY <1>k DEF WriteOne
    <3>2. job' \in [Jobs -> JobStates]
      BY Zenon, <1>t, <1>j, <3>1 DEF JobStates
    <3>3. JobGood(ghost, job'[j], j)
      BY Zenon, <1>t, <1>j, <3>1 DEF JobGood, JobStates
    <3> QED BY Zenon, <1>t, <3>1, <3>2, <3>3 DEF IInv
  <2> HIDE DEF r
  <2> QED BY ZenonT(60), <1>t, <2>2, <2>4, <2>5, <2>6, <2>7, <2>8, RowRewritten
<1> QED BY ZenonT(60), <1>a, <1>b, <1>c, <1>d, <1>e, <1>f, <1>g, <1>h, <1>i, <1>k
        DEF JobStep, Abort, WriteRefused

\* The steps of the row's owner.
LEMMA RowStepIInv ==
  ASSUME IInv, NEW m \in Mem, RowStep(m)
  PROVE  IInv'
<1>t. /\ row \in [Mem -> Rows] /\ job \in [Jobs -> JobStates] /\ edit \in [Mem -> SUBSET Seen]
      /\ ghost \in [hits : SUBSET (Mem \X Mem), manual : SUBSET Mem]
  BY DEF IInv, TypeOK
<1>r. row[m] \in Rows /\ RowGood(ghost, row[m], m)
  BY Zenon, <1>t DEF IInv
<1>j. \A j \in Jobs : JobGood(ghost, job[j], j)
  BY Zenon DEF IInv
<1>a. ASSUME NEW r \in Rows, row' = [row EXCEPT ![m] = r], RowGood(ghost', r, m),
             r.life = "gone" <=> row[m].life = "gone", r.sup \in {None, row[m].sup},
             edit' \in [Mem -> SUBSET Seen], job' = job,
             ghost' \in [hits : SUBSET (Mem \X Mem), manual : SUBSET Mem],
             ghost.hits \subseteq ghost'.hits, ghost.manual \subseteq ghost'.manual
      PROVE  IInv'
  <2>1. \A j \in Jobs : JobGood(ghost', job'[j], j)
    BY Zenon, <1>a, <1>j, MarkedGrows
  <2> QED BY Zenon, <1>a, <1>t, <2>1, RowRewritten
<1>b. CASE EditRead(m)
  <2>1. See(m) \in Seen
    BY SeeGood
  <2>2. /\ row' = [row EXCEPT ![m] = row[m]] /\ UNCHANGED <<job, ghost>>
        /\ edit' \in [Mem -> SUBSET Seen]
    BY Zenon, <1>b, <1>t, <2>1 DEF EditRead
  <2> QED BY Zenon, <1>a, <1>r, <1>t, <2>2
<1>c. CASE EditPatch(m)
  <2>1. edit' \in [Mem -> SUBSET Seen] /\ UNCHANGED <<job, ghost>>
    BY Zenon, <1>c, <1>t DEF EditPatch
  <2>2. CASE row' = row
    <3>1. row' = [row EXCEPT ![m] = row[m]]
      BY <1>t, <2>2
    <3> QED BY Zenon, <1>a, <1>r, <1>t, <2>1, <3>1
  <2>3. CASE row' # row
    <3>1. PICK e \in edit[m] :
            row' = [row EXCEPT ![m].sup = IF e.sup = None THEN @ ELSE None,
                               ![m].status = IF e.status \in {"conflicted", "outdated"}
                                               THEN "active" ELSE @]
      BY Zenon, <1>c, <2>3 DEF EditPatch
    <3> DEFINE r == [row[m] EXCEPT !.sup = IF e.sup = None THEN @ ELSE None,
                                   !.status = IF e.status \in {"conflicted", "outdated"}
                                                THEN "active" ELSE @]
    <3>2. row' = [row EXCEPT ![m] = r]
      BY Zenon, <1>t, <1>r, <3>1 DEF Rows
    <3>3. r \in Rows /\ r.life = row[m].life /\ r.sup \in {None, row[m].sup}
      BY Zenon, <1>r DEF Rows, Statuses
    <3>4. RowGood(ghost, r, m)
      BY <1>r DEF Rows, RowGood
    <3> HIDE DEF r
    <3> QED BY ZenonT(60), <1>a, <1>t, <2>1, <3>2, <3>3, <3>4
  <2> QED BY Zenon, <2>2, <2>3
<1>d. CASE Delete(m)
  <2> DEFINE r == [row[m] EXCEPT !.life = "deleted"]
  <2>1. row' = [row EXCEPT ![m] = r] /\ UNCHANGED <<job, edit, ghost>>
    BY Zenon, <1>d, <1>t DEF Delete
  <2>2. r \in Rows /\ RowGood(ghost, r, m) /\ r.sup = row[m].sup /\ r.life = "deleted"
    BY Zenon, <1>r DEF Rows, Lives, RowGood
  <2>3. row[m].life = "live"
    BY <1>d DEF Delete
  <2> HIDE DEF r
  <2> QED BY Zenon, <1>a, <1>t, <2>1, <2>2, <2>3
<1>e. CASE Purge(m)
  <2> DEFINE Gone == [life |-> "gone", status |-> "archived", sup |-> None]
  <2>1. UNCHANGED <<job, edit, ghost>>
    BY <1>e DEF Purge
  <2>2. /\ row'[m] = Gone
        /\ \A c \in Mem \ {m} : row'[c] = IF row[c].sup = m THEN [row[c] EXCEPT !.sup = None] ELSE row[c]
    BY Zenon, <1>e DEF Purge
  <2>3. row' \in [Mem -> Rows]
    BY <1>e, <1>t DEF Purge, Rows, Lives, Statuses
  <2>4. \A c \in Mem : RowGood(ghost, row'[c], c)
    <3> SUFFICES ASSUME NEW c \in Mem PROVE RowGood(ghost, row'[c], c)
      OBVIOUS
    <3>1. row[c] \in Rows /\ RowGood(ghost, row[c], c)
      BY Zenon, <1>t DEF IInv
    <3>2. CASE c = m
      BY <2>2, <3>2 DEF RowGood
    <3>3. CASE c # m /\ row[c].sup = m
      BY Zenon, <2>2, <3>1, <3>3 DEF RowGood, Rows
    <3>4. CASE c # m /\ row[c].sup # m
      BY Zenon, <2>2, <3>1, <3>4
    <3> QED BY Zenon, <3>2, <3>3, <3>4
  <2>5. NoDanglingEdge'
    <3> SUFFICES ASSUME NEW c \in Mem, row'[c].sup # None
                 PROVE  row'[row'[c].sup].life # "gone"
      BY Zenon DEF NoDanglingEdge
    <3>0. row[c] \in Rows
      BY Zenon, <1>t
    <3>1. c # m /\ row'[c] = row[c] /\ row[c].sup # m
      <4>1. c # m
        BY <2>2
      <4>2. row[c].sup = m => row'[c].sup = None
        BY Zenon, <2>2, <3>0, <4>1 DEF Rows
      <4>3. row[c].sup # m
        BY Zenon, <4>2
      <4> QED BY Zenon, <2>2, <4>1, <4>3
    <3>2. row[c].sup \in Mem \ {m} /\ row[row[c].sup].life # "gone"
      BY Zenon, <1>t, <3>1 DEF IInv, NoDanglingEdge, Rows
    <3>3. row'[row[c].sup].life = row[row[c].sup].life
      BY ZenonT(60), <1>t, <2>2, <3>2 DEF Rows
    <3> QED BY Zenon, <3>1, <3>2, <3>3
  <2> QED BY Zenon, <1>j, <1>t, <2>1, <2>3, <2>4, <2>5 DEF IInv, TypeOK
<1>f. ASSUME NEW s \in Statuses, SetStatus(m, s) PROVE IInv'
  <2> DEFINE r == [row[m] EXCEPT !.status = s]
  <2>1. row' = [row EXCEPT ![m] = r] /\ UNCHANGED <<job, edit>>
    BY Zenon, <1>f, <1>t DEF SetStatus
  <2>2. r \in Rows /\ r.sup = row[m].sup /\ r.life = row[m].life
    BY Zenon, <1>r DEF Rows
  <2>3. /\ ghost' \in [hits : SUBSET (Mem \X Mem), manual : SUBSET Mem]
        /\ ghost.hits \subseteq ghost'.hits /\ ghost.manual \subseteq ghost'.manual
        /\ m \in ghost'.manual
    BY Zenon, <1>f, <1>t DEF SetStatus
  <2>4. RowGood(ghost', r, m)
    BY Zenon, <1>r, <2>2, <2>3 DEF RowGood, Marked
  <2> HIDE DEF r
  <2> QED BY Zenon, <1>a, <1>t, <2>1, <2>2, <2>3, <2>4
<1>g. ASSUME NEW s \in Statuses, Archive(m, s) PROVE IInv'
  <2> DEFINE r == [row[m] EXCEPT !.status = s]
  <2>1. row' = [row EXCEPT ![m] = r] /\ UNCHANGED <<job, edit, ghost>> /\ s # "conflicted"
    BY Zenon, <1>g, <1>t DEF Archive
  <2>2. r \in Rows /\ r.sup = row[m].sup /\ r.life = row[m].life /\ r.status = s
    BY Zenon, <1>r DEF Rows
  <2>3. RowGood(ghost, r, m)
    BY Zenon, <1>r, <2>1, <2>2 DEF RowGood
  <2> HIDE DEF r
  <2> QED BY Zenon, <1>a, <1>t, <2>1, <2>2, <2>3
<1> QED BY Zenon, <1>b, <1>c, <1>d, <1>e, <1>f, <1>g DEF RowStep

\* Every step keeps the invariant.
LEMMA NextIInv == IInv /\ [Next]_vars => IInv'
<1> SUFFICES ASSUME IInv, [Next]_vars PROVE IInv'
  OBVIOUS
<1>1. CASE UNCHANGED vars
  BY Zenon, <1>1 DEF vars, IInv, TypeOK, NoDanglingEdge
<1>2. CASE Next
  BY Zenon, <1>2, JobStepIInv, RowStepIInv DEF Next
<1> QED BY Zenon, <1>1, <1>2

\* For every number of memories and every set of jobs, edits and removals,
\* the inductive invariant holds.
THEOREM Inductive == Spec => []IInv
  BY InitIInv, NextIInv, PTL DEF Spec

\* Every variable keeps its shape.
THEOREM TypeCorrect == Spec => []TypeOK
<1>1. IInv => TypeOK
  BY Zenon DEF IInv
<1> QED BY <1>1, Inductive, PTL

\* However many detections, edits, sweeps and purges overlap, an edge always
\* points from the newer row to a strictly older one: chains never cycle.
THEOREM EdgesPointToOlder == Spec => []SupersedesOlder
<1>1. IInv => SupersedesOlder
  BY Zenon DEF IInv, RowGood, SupersedesOlder
<1> QED BY <1>1, Inductive, PTL

\* A row is marked "conflicted" only if a newer row was judged to contradict
\* it or a user set the status: no stale status write-back marks a winner.
THEOREM MarksAreEarned == Spec => []OnlyLosersMarked
<1>1. IInv => OnlyLosersMarked
  BY DEF IInv, RowGood, Marked, OnlyLosersMarked
<1> QED BY <1>1, Inductive, PTL

\* An edge never names a purged row, though detections write edges to rows
\* they read before the purge.
THEOREM EdgesNeverDangle == Spec => []NoDanglingEdge
<1>1. IInv => NoDanglingEdge
  BY Zenon DEF IInv
<1> QED BY <1>1, Inductive, PTL

\* What the runs check of the marks in one invariant: they are earned, and no
\* edge dangles.
THEOREM MarksAreSound == Spec => []MarksSound
  BY TypeCorrect, MarksAreEarned, EdgesNeverDangle, PTL DEF MarksSound

-----------------------------------------------------------------------------
(* What ends an edge.                                                        *)

\* Only Path C re-judges a verdict.
PathOK == \A j \in Jobs : job[j].pc \in {"judge", "revert", "clear"} => j[1] = "C"

\* No detection has begun.
LEMMA PathBegins == Init => PathOK
  BY DEF Init, PathOK

\* Only a detection of Path C gets to the steps that judge a verdict again.
LEMMA PathStays == TypeOK /\ PathOK /\ [Next]_vars => PathOK'
<1> SUFFICES ASSUME TypeOK, PathOK, [Next]_vars PROVE PathOK'
  OBVIOUS
<1>1. CASE job' = job
  BY ZenonT(60), <1>1 DEF PathOK
<1>2. ASSUME NEW j \in Jobs, JobStep(j) PROVE PathOK'
  <2>0. job \in [Jobs -> JobStates]
    BY Zenon DEF TypeOK
  <2>1. ASSUME NEW s, job' = [job EXCEPT ![j] = s],
               s.pc \in {"judge", "revert", "clear"} => j[1] = "C"
        PROVE  PathOK'
    BY Zenon, <2>0, <2>1 DEF PathOK
  <2>2. ASSUME NEW pc, Goto(j, pc), pc \in {"judge", "revert", "clear"} => j[1] = "C" PROVE PathOK'
    BY <2>0, <2>2 DEF PathOK, Goto
  <2>3. CASE Start(j)
    <3>1. j[1] \in Paths
      BY Zenon, ChainAssumption
    <3> QED
      BY <2>0, <2>3, <3>1 DEF Start, PathOK, Paths, JobStates
  <2>4. CASE KeepVerdict(j) \/ Refetch(j) \/ EndJob(j) \/ Abort(j)
    BY <2>0, <2>4 DEF KeepVerdict, Refetch, EndJob, Abort, Goto, PathOK, JobStates
  <2>5. CASE RevertCandidate(j) \/ ClearEdge(j)
    BY Zenon, <2>0, <2>5 DEF RevertCandidate, ClearEdge, Goto, At, PathOK, JobStates
  <2>6. ASSUME NEW a \in Answers, Retract(j, a) PROVE PathOK'
    BY Zenon, <2>0, <2>6 DEF Retract, Goto, At, PathOK, JobStates
  <2>7. ASSUME NEW hs, RdfQuery(j, hs) \/ SemanticQuery(j, hs) \/ OverlapQuery(j, hs) PROVE PathOK'
    <3>1. CASE RdfQuery(j, hs)
      BY Zenon, <2>0, <3>1 DEF RdfQuery, PathOK, JobStates
    <3>2. CASE SemanticQuery(j, hs)
      BY Zenon, <2>0, <3>2 DEF SemanticQuery, PathOK, JobStates
    <3>3. CASE OverlapQuery(j, hs)
      BY Zenon, <2>0, <3>3 DEF OverlapQuery, PathOK, JobStates
    <3> QED
      BY Zenon, <2>7, <3>1, <3>2, <3>3
  <2>8. ASSUME NEW w, WriteOne(j, w) \/ WriteRefused(j, w) PROVE PathOK'
    BY ZenonT(60), <2>0, <2>8 DEF WriteOne, WriteRefused, At, PathOK, JobStates
  <2> QED
    BY ZenonT(60), <1>2, <2>3, <2>4, <2>5, <2>6, <2>7, <2>8 DEF JobStep
<1>3. ASSUME NEW m \in Mem, RowStep(m) PROVE job' = job
  BY Zenon, <1>3 DEF RowStep, EditRead, EditPatch, Delete, Purge, SetStatus, Archive
<1> QED
  BY Zenon, <1>1, <1>2, <1>3 DEF Next, vars

\* What may end the edge of m in a step.
Cause(m) ==
    \/ row'[row[m].sup].life = "gone" \/ row'[m].life = "gone"
    \/ edit[m] # {} /\ edit'[m] = {}
    \/ /\ <<"C", m>> \in Jobs
       /\ At(<<"C", m>>, "clear") /\ Target(<<"C", m>>) = row[m].sup

\* A detection's write sets an edge or leaves it, so only the compare-and-swap
\* of a retraction clears one.
LEMMA JobsKeepEdges ==
  ASSUME TypeOK, PathOK, NEW j \in Jobs, JobStep(j), NEW m \in Mem, row[m].sup # None, row'[m].sup = None
  PROVE  Cause(m)
<1>0. row \in [Mem -> Rows] /\ job \in [Jobs -> JobStates] /\ j[1] \in Paths /\ j[2] \in Mem /\ j = <<j[1], j[2]>>
  BY ChainAssumption DEF TypeOK
<1>1. row' # row
  OBVIOUS
<1>2. CASE RevertCandidate(j)
  BY Zenon, <1>0, <1>2 DEF RevertCandidate, Rows
<1>3. CASE ClearEdge(j)
  <2>1. At(j, "clear") /\ row[j[2]].sup \in {Target(j), None}
    BY Zenon, <1>1, <1>3 DEF ClearEdge
  <2>2. m = j[2]
    BY Zenon, <1>0, <1>3 DEF ClearEdge, Rows
  <2>3. j = <<"C", m>>
    BY Zenon, <1>0, <2>1, <2>2 DEF At, PathOK
  <2> QED
    BY Zenon, <2>1, <2>2, <2>3 DEF Cause
<1>4. ASSUME NEW w \in job[j].writes, WriteOne(j, w) PROVE FALSE
  <2>1. w \in Writes
    BY Zenon, <1>0 DEF JobStates
  <2> QED
    BY <1>0, <1>4, <2>1 DEF WriteOne, Applied, Rows, Writes
<1> QED
  BY ZenonT(60), <1>1, <1>2, <1>3, <1>4 DEF JobStep, Start, KeepVerdict, Refetch, EndJob, Abort, Retract,
     RdfQuery, SemanticQuery, OverlapQuery, WriteRefused

\* A step of the row's owner that clears an edge has one of the causes.
LEMMA RowsKeepEdges ==
  ASSUME TypeOK, NEW k \in Mem, RowStep(k), NEW m \in Mem, row[m].sup # None, row'[m].sup = None
  PROVE  Cause(m)
<1>0. row \in [Mem -> Rows] /\ edit \in [Mem -> SUBSET Seen]
  BY Zenon DEF TypeOK
<1>1. CASE EditPatch(k)
  <2>1. m = k
    BY Zenon, <1>0, <1>1 DEF EditPatch, Rows
  <2>2. edit[m] # {} /\ edit'[m] = {}
    BY Zenon, <1>0, <1>1, <2>1 DEF EditPatch
  <2> QED
    BY Zenon, <2>2 DEF Cause
<1>2. CASE Purge(k)
  <2>1. row'[k].life = "gone" /\ (m = k \/ row[m].sup = k)
    BY <1>0, <1>2 DEF Purge, Rows
  <2> QED
    BY Zenon, <2>1 DEF Cause
<1>3. CASE Delete(k) \/ EditRead(k) \/ \E s \in Statuses : SetStatus(k, s) \/ Archive(k, s)
  BY <1>0, <1>3 DEF Delete, EditRead, SetStatus, Archive, Rows
<1> QED
  BY Zenon, <1>1, <1>2, <1>3 DEF RowStep

\* An edge ends only with its target, with its row, by an edit of the row that
\* carries it, or by the retraction that looked at this very edge: no step of
\* any overlapping detection clears an edge that another one has set.
THEOREM EdgesEnd == Spec => EdgesEndForCause
<1>1. Init => PathOK
  BY Zenon, PathBegins
<1>2. TypeOK /\ PathOK /\ [Next]_vars => PathOK'
  BY Zenon, PathStays
<1>3. TypeOK /\ PathOK /\ [Next]_vars =>
        [\A m \in Mem : row[m].sup # None /\ row'[m].sup = None => Cause(m)]_vars
  BY Zenon, JobsKeepEdges, RowsKeepEdges DEF Next
<1> QED
  BY <1>1, <1>2, <1>3, TypeCorrect, PTL DEF Spec, EdgesEndForCause, Cause

-----------------------------------------------------------------------------
(* The audit queue.  Distinct events sit in distinct slots, so the counters, *)
(* which count calls, are cardinalities of sets of events.                   *)

\* The places of a sequence.
LEMMA Places ==
  ASSUME NEW n \in Nat
  PROVE  IsFiniteSet(1..n) /\ Cardinality(1..n) = n
BY FS_Interval

\* A sequence has no more elements than places.
LEMMA FiniteRange ==
  ASSUME NEW S, NEW s \in Seq(S)
  PROVE  /\ Range(s) \subseteq S /\ IsFiniteSet(Range(s))
         /\ Cardinality(Range(s)) \in Nat /\ Cardinality(Range(s)) <= Len(s)
<1>1. Len(s) \in Nat /\ DOMAIN s = 1..Len(s)
  OBVIOUS
<1>2. s \in Surjection(1..Len(s), Range(s))
  BY <1>1 DEF Surjection, Range
<1>3. IsFiniteSet(1..Len(s)) /\ Cardinality(1..Len(s)) = Len(s)
  BY Zenon, <1>1, Places
<1>4. IsFiniteSet(Range(s)) /\ Cardinality(Range(s)) <= Len(s)
  BY <1>2, <1>3, FS_Surjection
<1>5. Range(s) \subseteq S
  <2>1. \A i \in DOMAIN s : s[i] \in S
    OBVIOUS
  <2> QED BY Zenon, <2>1 DEF Range
<1>6. Cardinality(Range(s)) \in Nat
  BY Zenon, <1>4, FS_CardinalityType
<1> QED
  BY Zenon, <1>4, <1>5, <1>6

\* A sequence without repetition has as many elements as places.
LEMMA DistinctRange ==
  ASSUME NEW S, NEW s, s \in Seq(S), IsInjective(s)
  PROVE  IsFiniteSet(Range(s)) /\ Cardinality(Range(s)) = Len(s)
<1>1. Len(s) \in Nat /\ DOMAIN s = 1..Len(s)
  OBVIOUS
<1>2. s \in Surjection(1..Len(s), Range(s))
  BY <1>1 DEF Surjection, Range
<1>3. IsFiniteSet(1..Len(s)) /\ Cardinality(1..Len(s)) = Len(s)
  BY Zenon, <1>1, Places
<1>4. s \in Injection(1..Len(s), Range(s))
  BY <1>1 DEF Injection, IsInjective, Range
<1> QED
  BY Zenon, <1>2, <1>3, <1>4, FS_Surjection

\* The empty queue.
LEMMA EmptyRange == Range(<<>>) = {} /\ IsInjective(<<>>)
BY DEF Range, IsInjective

\* An event put at the end of the queue.
LEMMA RangeOfAppend ==
  ASSUME NEW S, NEW s \in Seq(S), NEW e \in S, e \notin Range(s), IsInjective(s)
  PROVE  /\ Append(s, e) \in Seq(S) /\ Len(Append(s, e)) = Len(s) + 1
         /\ Range(Append(s, e)) = Range(s) \cup {e} /\ IsInjective(Append(s, e))
<1>1. /\ Len(s) \in Nat /\ DOMAIN s = 1..Len(s) /\ DOMAIN Append(s, e) = 1..(Len(s) + 1)
      /\ \A i \in 1..Len(s) : Append(s, e)[i] = s[i]
      /\ Append(s, e)[Len(s) + 1] = e
      /\ Append(s, e) \in Seq(S) /\ Len(Append(s, e)) = Len(s) + 1
  OBVIOUS
<1>2. 1..(Len(s) + 1) = 1..Len(s) \cup {Len(s) + 1}
  BY <1>1
<1>3. Range(Append(s, e)) = Range(s) \cup {e}
  BY <1>1, <1>2 DEF Range
<1>4. \A i \in 1..Len(s) : s[i] # e
  BY Zenon, <1>1 DEF Range
<1>5. IsInjective(Append(s, e))
  BY <1>1, <1>2, <1>4 DEF IsInjective
<1> QED
  BY Zenon, <1>1, <1>3, <1>5

\* A batch taken off the front of the queue, and what stays.
LEMMA RangeOfSplit ==
  ASSUME NEW S, NEW s \in Seq(S), NEW n \in 0..Len(s), IsInjective(s)
  PROVE  LET c == SubSeq(s, 1, n)
             d == SubSeq(s, n + 1, Len(s))
         IN  /\ c \in Seq(S) /\ d \in Seq(S) /\ Len(c) = n
             /\ IsInjective(c) /\ IsInjective(d)
             /\ Range(c) \cup Range(d) = Range(s) /\ Range(c) \cap Range(d) = {}
<1> DEFINE c == SubSeq(s, 1, n)
           d == SubSeq(s, n + 1, Len(s))
<1>1. Len(s) \in Nat /\ n \in Nat /\ n <= Len(s) /\ DOMAIN s = 1..Len(s)
  OBVIOUS
<1>2. c \in Seq(S) /\ Len(c) = n /\ DOMAIN c = 1..n /\ \A i \in 1..n : c[i] = s[i]
  BY <1>1
<1>3. /\ d \in Seq(S) /\ DOMAIN d = 1..(Len(s) - n)
      /\ \A i \in 1..(Len(s) - n) : d[i] = s[n + i]
  BY <1>1
<1>4. \A i \in 1..(Len(s) - n) : n + i \in 1..Len(s) /\ ~(n + i \in 1..n)
  BY <1>1
<1>5. \A k \in 1..Len(s) : k \in 1..n \/ \E i \in 1..(Len(s) - n) : k = n + i
  <2> SUFFICES ASSUME NEW k \in 1..Len(s), k \notin 1..n
               PROVE  \E i \in 1..(Len(s) - n) : k = n + i
    OBVIOUS
  <2>1. k - n \in 1..(Len(s) - n) /\ k = n + (k - n)
    BY <1>1
  <2> QED
    BY Zenon, <2>1
<1>6. \A i \in 1..n : i \in 1..Len(s)
  BY <1>1
<1> HIDE DEF c, d
<1>7. IsInjective(c)
  BY Zenon, <1>1, <1>2, <1>6 DEF IsInjective
<1>8. IsInjective(d)
  <2> SUFFICES ASSUME NEW i \in 1..(Len(s) - n), NEW j \in 1..(Len(s) - n), d[i] = d[j]
               PROVE  i = j
    BY Zenon, <1>3 DEF IsInjective
  <2>1. n + i = n + j
    BY Zenon, <1>1, <1>3, <1>4 DEF IsInjective
  <2> QED
    BY <2>1, <1>1
<1>9. Range(c) \cup Range(d) = Range(s)
  <2>1. ASSUME NEW x \in Range(s) PROVE x \in Range(c) \cup Range(d)
    <3>1. PICK k \in 1..Len(s) : x = s[k]
      BY Zenon, <1>1 DEF Range
    <3>2. CASE k \in 1..n
      BY Zenon, <3>1, <3>2, <1>2 DEF Range
    <3>3. CASE \E i \in 1..(Len(s) - n) : k = n + i
      BY Zenon, <3>1, <3>3, <1>3 DEF Range
    <3> QED
      BY Zenon, <3>2, <3>3, <1>5
  <2>2. Range(c) \subseteq Range(s)
    BY Zenon, <1>1, <1>2, <1>6 DEF Range
  <2>3. Range(d) \subseteq Range(s)
    BY Zenon, <1>1, <1>3, <1>4 DEF Range
  <2> QED
    BY Zenon, <2>1, <2>2, <2>3
<1>10. Range(c) \cap Range(d) = {}
  <2> SUFFICES ASSUME NEW i \in 1..n, NEW j \in 1..(Len(s) - n), c[i] = d[j]
               PROVE  FALSE
    BY <1>2, <1>3 DEF Range
  <2>1. i \in DOMAIN s /\ n + j \in DOMAIN s /\ i # n + j
    BY Zenon, <1>1, <1>4, <1>6
  <2>2. s[i] = s[n + j]
    BY Zenon, <1>2, <1>3
  <2> QED
    BY Zenon, <2>1, <2>2 DEF IsInjective
<1> QED
  BY ZenonT(60), <1>2, <1>3, <1>7, <1>8, <1>9, <1>10 DEF c, d

\* The size of a union of disjoint sets.
LEMMA DisjointUnion ==
  ASSUME NEW A, NEW B, IsFiniteSet(A), IsFiniteSet(B), A \cap B = {}
  PROVE  /\ IsFiniteSet(A \cup B) /\ Cardinality(A) \in Nat /\ Cardinality(B) \in Nat
         /\ Cardinality(A \cup B) = Cardinality(A) + Cardinality(B)
<1>1. Cardinality(A \cap B) = 0
  BY Zenon, FS_EmptySet
<1>2. Cardinality(A) \in Nat /\ Cardinality(B) \in Nat
  BY Zenon, FS_CardinalityType
<1>3. IsFiniteSet(A \cup B) /\ Cardinality(A \cup B) = Cardinality(A) + Cardinality(B) - Cardinality(A \cap B)
  BY Zenon, FS_Union
<1> QED
  BY <1>1, <1>2, <1>3

-----------------------------------------------------------------------------
\* Only a flusher that is flushing holds a chunk or a drain; every tenant of the
\* chunk has a POST, and one that ended well is in the audit log.
QStages ==
    /\ phase = "starting" => flusher = "none"
    /\ flusher \notin {"flush", "finalflush"} => drained = <<>> /\ chunk = <<>>
QSlices ==
    /\ \A e \in Range(chunk) : TenantOfEvent[e] # NoTenant => slice[TenantOfEvent[e]] # "idle"
    /\ \A t \in QueueTenants : slice[t] = "ok" => Of(t) \subseteq in_log

\* What the queue holds it holds once, and until the flusher is cancelled nothing else is "queued".
QHeld ==
    /\ IsInjective(queue) /\ IsInjective(drained) /\ IsInjective(chunk)
    /\ Range(queue) \cap Range(drained) = {} /\ Range(queue) \cap Range(chunk) = {}
    /\ Range(drained) \cap Range(chunk) = {}
    /\ Having("queued") = Queued

QCounts ==
    /\ \A f \in {"dropped", "written", "failed"} : IsFiniteSet(Having(f))
    /\ dropped_count = Cardinality(Having("dropped"))
    /\ flushed_count = Cardinality(Having("written"))
    /\ failed_count = Cardinality(Having("failed"))
    /\ Having("written") \subseteq in_log

QInv == QueueTypeOK /\ QStages /\ QSlices /\ (flusher # "cancelled" => QHeld /\ QCounts)

\* Nothing logged, every counter at zero.
LEMMA QBegins == QueueInit => QInv
<1> SUFFICES ASSUME QueueInit PROVE QInv
  OBVIOUS
<1>1. QueueTypeOK
  BY QueueAssumption DEF QueueInit, QueueTypeOK, Fates
<1>2. \A f \in Fates : f # "new" => Having(f) = {}
  BY Zenon DEF QueueInit, Having
<1>3. Queued = {}
  BY Zenon, EmptyRange DEF QueueInit, Queued
<1>4. QHeld
  BY Zenon, <1>2, <1>3, EmptyRange DEF QHeld, QueueInit, Fates
<1>5. QCounts
  BY Zenon, <1>2, FS_EmptySet DEF QCounts, QueueInit, Fates
<1>6. QStages /\ QSlices
  BY Zenon, EmptyRange DEF QStages, QSlices, QueueInit
<1> QED
  BY Zenon, <1>1, <1>4, <1>5, <1>6 DEF QInv

\* The counters are exact where the invariant holds.
LEMMA QSound == QInv => CountersExact
<1> SUFFICES ASSUME QInv, flusher # "cancelled"
             PROVE  /\ Having("queued") = Queued
                    /\ Len(queue) + Len(drained) + Len(chunk) = Cardinality(Queued)
                    /\ dropped_count = Cardinality(Having("dropped"))
                    /\ flushed_count = Cardinality(Having("written"))
                    /\ failed_count = Cardinality(Having("failed"))
                    /\ Having("written") \subseteq in_log
  BY Zenon DEF CountersExact, QInv
<1>1. QHeld /\ QCounts /\ QueueTypeOK
  BY Zenon DEF QInv
<1>2. /\ queue \in Seq(Logged) /\ drained \in Seq(Logged) /\ chunk \in Seq(Logged)
      /\ IsInjective(queue) /\ IsInjective(drained) /\ IsInjective(chunk)
      /\ Range(queue) \cap Range(drained) = {}
      /\ (Range(queue) \cup Range(drained)) \cap Range(chunk) = {}
  BY Zenon, <1>1 DEF QHeld, QueueTypeOK
<1>3. IsFiniteSet(Range(queue)) /\ Cardinality(Range(queue)) = Len(queue)
  BY Zenon, <1>2, DistinctRange
<1>4. IsFiniteSet(Range(drained)) /\ Cardinality(Range(drained)) = Len(drained)
  BY Zenon, <1>2, DistinctRange
<1>5. IsFiniteSet(Range(chunk)) /\ Cardinality(Range(chunk)) = Len(chunk)
  BY Zenon, <1>2, DistinctRange
<1>6. /\ IsFiniteSet(Range(queue) \cup Range(drained))
      /\ Cardinality(Range(queue) \cup Range(drained)) = Cardinality(Range(queue)) + Cardinality(Range(drained))
  BY Zenon, <1>2, <1>3, <1>4, DisjointUnion
<1>7. Cardinality(Queued) = Cardinality(Range(queue) \cup Range(drained)) + Cardinality(Range(chunk))
  BY Zenon, <1>2, <1>5, <1>6, DisjointUnion DEF Queued
<1> QED
  BY ZenonT(60), <1>1, <1>3, <1>4, <1>5, <1>6, <1>7 DEF QHeld, QCounts

-----------------------------------------------------------------------------
\* One event changes its fate.
Becomes(e, f) == fate' = [fate EXCEPT ![e] = f]
\* An event moves from one fate to another; the other fates keep their events.
LEMMA OneFate ==
  ASSUME QueueTypeOK, NEW e \in Logged, NEW f \in Fates, f # fate[e], Becomes(e, f)
  PROVE  /\ fate' \in [Logged -> Fates]
         /\ Having(f)' = Having(f) \cup {e} /\ e \notin Having(f)
         /\ \A g \in Fates : g # f /\ g # fate[e] => Having(g)' = Having(g)
BY Zenon DEF QueueTypeOK, Having, Becomes

\* Nothing of what the queue holds is concerned.
LEMMA HeldStays ==
  ASSUME QHeld, UNCHANGED <<queue, drained, chunk>>, Having("queued")' = Having("queued")
  PROVE  QHeld'
BY Zenon DEF QHeld, Queued

\* The batch under way stays in order while the log grows.
LEMMA SlicesStay ==
  ASSUME QSlices, UNCHANGED <<chunk, slice>>, in_log \subseteq in_log'
  PROVE  QSlices'
BY Zenon DEF QSlices, Of

\* A stuttering step.
LEMMA QStutters == ASSUME QInv, UNCHANGED queueVars PROVE QInv'
<1>1. UNCHANGED <<phase, queue, flusher, drained, chunk, slice, in_log,
                  dropped_count, flushed_count, failed_count, fate>>
  BY Zenon DEF queueVars
<1>2. QueueTypeOK' /\ QStages'
  BY Zenon, <1>1 DEF QInv, QueueTypeOK, QStages
<1>3. \A f : Having(f)' = Having(f)
  BY Zenon, <1>1 DEF Having
<1>4. flusher # "cancelled" => QHeld' /\ QCounts'
  BY Zenon, <1>1, <1>3, HeldStays DEF QInv, QCounts
<1> QED
  BY Zenon, <1>1, <1>2, <1>4, SlicesStay DEF QInv

\* An event that goes past the queue.
LEMMA PastTheQueue ==
  ASSUME QInv, NEW e \in Logged, NEW f \in {"posting", "posted", "post failed"},
         fate[e] \in {"new", "posting"}, f # fate[e], Becomes(e, f),
         in_log' = in_log \/ in_log' = in_log \cup {e},
         UNCHANGED <<phase, queue, flusher, drained, chunk, slice, dropped_count, flushed_count, failed_count>>
  PROVE  QInv'
<1>1. QueueTypeOK /\ f \in Fates
  BY Zenon DEF QInv, Fates
<1>2. /\ fate' \in [Logged -> Fates]
      /\ \A g \in Fates : g # f /\ g # fate[e] => Having(g)' = Having(g)
  BY Zenon, <1>1, OneFate
<1>3. /\ Having("queued")' = Having("queued") /\ Having("dropped")' = Having("dropped")
      /\ Having("written")' = Having("written") /\ Having("failed")' = Having("failed")
  BY Zenon, <1>2 DEF Fates
<1>4. in_log \subseteq in_log' /\ in_log' \subseteq Logged
  BY Zenon, <1>1 DEF QueueTypeOK
<1>5. QueueTypeOK' /\ QStages'
  BY Zenon, <1>1, <1>2, <1>4 DEF QueueTypeOK, QStages, QInv
<1>6. QSlices'
  BY Zenon, <1>4, SlicesStay DEF QInv
<1>7. flusher # "cancelled" => QHeld'
  BY ZenonT(60), <1>3, HeldStays DEF QInv
<1>8. flusher # "cancelled" => QCounts'
  BY Zenon, <1>3, <1>4 DEF QInv, QCounts
<1> QED
  BY ZenonT(60), <1>5, <1>6, <1>7, <1>8 DEF QInv

\* log_action before the queue is bound.
LEMMA LogUnqueuedKeeps == ASSUME QInv, NEW e \in Logged, LogUnqueued(e) PROVE QInv'
BY Zenon, PastTheQueue DEF LogUnqueued, Becomes

\* The event is posted by the caller itself.
LEMMA PostSyncKeeps == ASSUME QInv, NEW e \in Logged, PostSync(e) PROVE QInv'
<1>1. CASE Becomes(e, "posted")
  BY Zenon, <1>1, PastTheQueue DEF PostSync
<1>2. CASE Becomes(e, "post failed")
  BY Zenon, <1>2, PastTheQueue DEF PostSync
<1> QED
  BY Zenon, <1>1, <1>2 DEF PostSync, Becomes

\* The event goes into the queue.
LEMMA EnqueueKeeps == ASSUME QInv, NEW e \in Logged, Enqueue(e) PROVE QInv'
<1>1. QueueTypeOK /\ "queued" \in Fates /\ fate[e] = "new" /\ Becomes(e, "queued")
  BY Zenon DEF QInv, Fates, Enqueue, Becomes
<1>2. /\ fate' \in [Logged -> Fates] /\ Having("queued")' = Having("queued") \cup {e}
      /\ e \notin Having("queued")
      /\ \A g \in Fates : g # "queued" /\ g # fate[e] => Having(g)' = Having(g)
  BY Zenon, <1>1, OneFate
<1>3. /\ Having("dropped")' = Having("dropped")
      /\ Having("written")' = Having("written") /\ Having("failed")' = Having("failed")
  BY Zenon, <1>1, <1>2 DEF Fates
<1>4. UNCHANGED <<phase, flusher, drained, chunk, slice, in_log, dropped_count, flushed_count, failed_count>>
      /\ queue' = Append(queue, e) /\ Len(queue) < max_queue_size
  BY Zenon DEF Enqueue
<1>5. queue' \in Seq(Logged) /\ Len(queue') = Len(queue) + 1 /\ Len(queue) \in Nat
  BY <1>1, <1>4 DEF QueueTypeOK
<1>6. QueueTypeOK'
  BY <1>1, <1>2, <1>4, <1>5, QueueAssumption DEF QueueTypeOK
<1>7. QStages' /\ QSlices'
  BY Zenon, <1>4, SlicesStay DEF QInv, QStages
<1>8. ASSUME flusher # "cancelled" PROVE QHeld' /\ QCounts'
  <2>1. QHeld /\ QCounts
    BY Zenon, <1>8 DEF QInv
  <2>2. e \notin Range(queue) /\ e \notin Range(drained) /\ e \notin Range(chunk) /\ IsInjective(queue)
    BY Zenon, <1>2, <2>1 DEF QHeld, Queued
  <2>3. Range(queue') = Range(queue) \cup {e} /\ IsInjective(queue')
    BY SMTT(30), <1>1, <1>4, <2>2, RangeOfAppend DEF QueueTypeOK
  <2>4. QHeld'
    BY <1>2, <1>4, <2>1, <2>2, <2>3 DEF QHeld, Queued
  <2>5. QCounts'
    BY ZenonT(60), <1>3, <1>4, <2>1 DEF QCounts
  <2> QED BY Zenon, <2>4, <2>5
<1> QED
  BY Zenon, <1>4, <1>6, <1>7, <1>8 DEF QInv

\* The queue is full: the event is dropped and counted.
LEMMA EnqueueFullKeeps == ASSUME QInv, NEW e \in Logged, EnqueueFull(e) PROVE QInv'
<1>1. CASE Becomes(e, "posting") /\ UNCHANGED dropped_count
  BY Zenon, <1>1, PastTheQueue DEF EnqueueFull
<1>2. CASE Becomes(e, "dropped") /\ dropped_count' = dropped_count + 1
  <2>1. QueueTypeOK /\ "dropped" \in Fates /\ fate[e] = "new"
    BY Zenon DEF QInv, Fates, EnqueueFull
  <2>2. /\ fate' \in [Logged -> Fates] /\ Having("dropped")' = Having("dropped") \cup {e}
        /\ e \notin Having("dropped")
        /\ \A g \in Fates : g # "dropped" /\ g # fate[e] => Having(g)' = Having(g)
    BY Zenon, <1>2, <2>1, OneFate
  <2>3. /\ Having("queued")' = Having("queued")
        /\ Having("written")' = Having("written") /\ Having("failed")' = Having("failed")
    BY Zenon, <2>1, <2>2 DEF Fates
  <2>4. UNCHANGED <<phase, queue, flusher, drained, chunk, slice, in_log, flushed_count, failed_count>>
    BY ZenonT(60) DEF EnqueueFull
  <2>5. QueueTypeOK' /\ QStages' /\ QSlices'
    BY <1>2, <2>1, <2>2, <2>4, SlicesStay DEF QInv, QStages, QueueTypeOK
  <2>6. ASSUME flusher # "cancelled" PROVE QHeld' /\ QCounts'
    <3>1. QHeld /\ QCounts
      BY Zenon, <2>6 DEF QInv
    <3>2. IsFiniteSet(Having("dropped")') /\ Cardinality(Having("dropped")') = Cardinality(Having("dropped")) + 1
      BY <2>2, <3>1, FS_AddElement DEF QCounts
    <3> QED BY ZenonT(60), <1>2, <2>3, <2>4, <3>1, <3>2, HeldStays DEF QCounts
  <2> QED BY ZenonT(60), <2>4, <2>5, <2>6 DEF QInv
<1> QED
  BY Zenon, <1>1, <1>2 DEF EnqueueFull, Becomes

\* The queue is started, stopped and closed with the application.
LEMMA LifespanKeeps == ASSUME QInv, QueueStart \/ Stop \/ StopReturns \/ Close PROVE QInv'
<1>1. UNCHANGED <<queue, drained, chunk, slice, in_log, dropped_count, flushed_count, failed_count, fate>>
  BY Zenon DEF QueueStart, Stop, StopReturns, Close
<1>2. /\ phase' \in {"running", "stopping", "stopped", "closed"}
      /\ flusher' = flusher \/ (phase = "starting" /\ flusher' = "waiting")
  BY Zenon DEF QueueStart, Stop, StopReturns, Close
<1>3. flusher' \in {"none", "waiting", "flush", "final", "finalflush", "done", "cancelled"}
      /\ QStages' /\ (flusher' # "cancelled" => flusher # "cancelled")
  BY Zenon, <1>1, <1>2 DEF QInv, QStages, QueueTypeOK
<1>4. QueueTypeOK'
  BY Zenon, <1>1, <1>2, <1>3 DEF QInv, QueueTypeOK
<1>5. \A f : Having(f)' = Having(f)
  BY Zenon, <1>1 DEF Having
<1>6. QSlices' /\ (flusher' # "cancelled" => QHeld' /\ QCounts')
  BY Zenon, <1>1, <1>3, <1>5, HeldStays, SlicesStay DEF QInv, QCounts
<1> QED
  BY Zenon, <1>3, <1>4, <1>6 DEF QInv

\* The whole queue becomes the drain.
LEMMA DrainKeeps == ASSUME QInv, Wake \/ FinalDrain PROVE QInv'
<1>1. /\ drained' = queue /\ queue' = <<>> /\ flusher \in {"waiting", "final"}
      /\ UNCHANGED <<phase, chunk, slice, in_log, dropped_count, flushed_count, failed_count, fate>>
      /\ flusher' \in {"waiting", "flush", "final", "finalflush", "done"}
      /\ (flusher' \notin {"flush", "finalflush"} => queue = <<>>)
  BY Zenon DEF Wake, FinalDrain, AfterDrain
<1>2. drained = <<>> /\ chunk = <<>> /\ phase # "starting" /\ QHeld /\ QCounts /\ QueueTypeOK /\ QSlices
  BY Zenon, <1>1 DEF QInv, QStages
<1>3. QueueTypeOK'
  BY <1>1, <1>2, QueueAssumption DEF QueueTypeOK
<1>4. QStages'
  BY Zenon, <1>1, <1>2 DEF QStages
<1>5. \A f : Having(f)' = Having(f)
  BY Zenon, <1>1 DEF Having
<1>6. QHeld'
  BY ZenonT(60), <1>1, <1>2, <1>5, EmptyRange DEF QHeld, Queued
<1>7. QSlices' /\ QCounts'
  BY Zenon, <1>1, <1>2, <1>5, SlicesStay DEF QCounts
<1> QED
  BY Zenon, <1>3, <1>4, <1>6, <1>7 DEF QInv

\* A chunk is cut off the drain.
LEMMA FlushChunkKeeps == ASSUME QInv, FlushChunk PROVE QInv'
<1> DEFINE n == IF Len(drained) < chunk_size THEN Len(drained) ELSE chunk_size
           c == SubSeq(drained, 1, n)
           d == SubSeq(drained, n + 1, Len(drained))
<1>1. /\ flusher \in {"flush", "finalflush"} /\ chunk = <<>> /\ chunk' = c /\ drained' = d
      /\ slice' = [t \in QueueTenants |->
                      IF t \in {TenantOfEvent[e] : e \in Range(c)} THEN "pending" ELSE "idle"]
      /\ UNCHANGED <<phase, queue, flusher, in_log, dropped_count, flushed_count, failed_count, fate>>
  BY Zenon DEF FlushChunk
<1>2. QueueTypeOK /\ QStages /\ QHeld /\ QCounts
  BY Zenon, <1>1 DEF QInv
<1>3. drained \in Seq(Logged) /\ IsInjective(drained) /\ n \in 0..Len(drained) /\ n <= chunk_size
  BY <1>2, QueueAssumption DEF QueueTypeOK, QHeld
<1> HIDE DEF n
<1>4. /\ c \in Seq(Logged) /\ d \in Seq(Logged) /\ Len(c) = n /\ IsInjective(c) /\ IsInjective(d)
      /\ Range(c) \cup Range(d) = Range(drained) /\ Range(c) \cap Range(d) = {}
  BY Zenon, <1>3, RangeOfSplit
<1> HIDE DEF c, d
<1>5. slice' \in [QueueTenants -> {"idle", "pending", "ok", "failed"}]
  BY Zenon, <1>1
<1>6. QueueTypeOK'
  BY ZenonT(60), <1>1, <1>2, <1>3, <1>4, <1>5 DEF QueueTypeOK
<1>7. QStages'
  BY Zenon, <1>1, <1>2 DEF QStages
<1>8. \A f : Having(f)' = Having(f)
  BY Zenon, <1>1 DEF Having
<1>9. Range(c) \subseteq Logged
  BY Zenon, <1>4, FiniteRange
<1>10. QSlices'
  <2>1. ASSUME NEW e \in Range(c), TenantOfEvent[e] # NoTenant PROVE slice'[TenantOfEvent[e]] = "pending"
    <3>1. TenantOfEvent[e] \in QueueTenants
      BY Zenon, <1>9, <2>1, QueueAssumption DEF QueueTenants, Range
    <3> QED BY Zenon, <1>1, <2>1, <3>1
  <2>2. \A t \in QueueTenants : slice'[t] # "ok"
    BY Zenon, <1>1
  <2> QED BY Zenon, <1>1, <2>1, <2>2 DEF QSlices
<1>11. QHeld'
  BY ZenonT(60), <1>1, <1>2, <1>4, <1>8, EmptyRange DEF QHeld, Queued
<1>12. QCounts'
  BY Zenon, <1>1, <1>2, <1>8 DEF QCounts
<1> QED
  BY ZenonT(60), <1>6, <1>7, <1>10, <1>11, <1>12 DEF QInv

\* A slice of the chunk ends.
LEMMA FlushOneTenantKeeps == ASSUME QInv, NEW t \in QueueTenants, FlushOneTenant(t) PROVE QInv'
<1>1. /\ UNCHANGED <<phase, queue, flusher, drained, chunk, dropped_count, flushed_count, failed_count, fate>>
      /\ flusher \in {"flush", "finalflush"}
  BY Zenon DEF FlushOneTenant
<1>2. QueueTypeOK /\ QStages /\ QSlices /\ QHeld /\ QCounts
  BY Zenon, <1>1 DEF QInv
<1>3. PICK s \in {"ok", "failed"} : slice' = [slice EXCEPT ![t] = s] /\ (s = "ok" => in_log' = in_log \cup Of(t))
  BY Zenon DEF FlushOneTenant
<1>4. in_log' = in_log \/ in_log' = in_log \cup Of(t)
  BY Zenon DEF FlushOneTenant
<1>5. Of(t) \subseteq Logged
  BY Zenon, <1>2, FiniteRange DEF Of, QueueTypeOK
<1>6. in_log \subseteq in_log' /\ in_log' \subseteq Logged
  BY Zenon, <1>2, <1>4, <1>5 DEF QueueTypeOK
<1>7. /\ slice' \in [QueueTenants -> {"idle", "pending", "ok", "failed"}] /\ slice'[t] = s
      /\ \A u \in QueueTenants : u # t => slice'[u] = slice[u]
  BY Zenon, <1>2, <1>3 DEF QueueTypeOK
<1>8. QueueTypeOK'
  BY Zenon, <1>1, <1>2, <1>6, <1>7 DEF QueueTypeOK
<1>9. QStages'
  BY ZenonT(60), <1>1, <1>2 DEF QStages
<1>10. QSlices'
  <2>1. ASSUME NEW e \in Range(chunk), TenantOfEvent[e] # NoTenant PROVE slice'[TenantOfEvent[e]] # "idle"
    <3>1. TenantOfEvent[e] \in QueueTenants
      <4>1. Range(chunk) \subseteq Logged
        BY Zenon, <1>2, FiniteRange DEF QueueTypeOK
      <4> QED BY Zenon, <2>1, <4>1, QueueAssumption DEF QueueTenants, Range
    <3> QED BY ZenonT(60), <1>2, <1>3, <1>7, <2>1, <3>1 DEF QSlices
  <2>2. \A u : Of(u)' = Of(u)
    BY Zenon, <1>1 DEF Of
  <2>3. ASSUME NEW u \in QueueTenants, slice'[u] = "ok" PROVE Of(u) \subseteq in_log'
    BY Zenon, <1>2, <1>3, <1>6, <1>7, <2>3 DEF QSlices
  <2> QED BY Zenon, <1>1, <2>1, <2>2, <2>3 DEF QSlices
<1>11. \A f : Having(f)' = Having(f)
  BY Zenon, <1>1 DEF Having
<1>12. QHeld' /\ QCounts'
  BY Zenon, <1>1, <1>2, <1>6, <1>11, HeldStays DEF QCounts
<1> QED
  BY Zenon, <1>8, <1>9, <1>10, <1>12 DEF QInv

\* A chunk is made of the slices that failed, the events without a tenant and
\* the events flushed.
LEMMA ChunkParts ==
  ASSUME QueueTypeOK, IsInjective(chunk)
  PROVE  /\ IsFiniteSet(Failed) /\ IsFiniteSet(Sentinels) /\ IsFiniteSet(Flushed)
         /\ Cardinality(Failed) \in Nat /\ Cardinality(Sentinels) \in Nat /\ Cardinality(Flushed) \in Nat
         /\ Len(chunk) = Cardinality(Failed) + Cardinality(Sentinels) + Cardinality(Flushed)
<1>1. IsFiniteSet(Range(chunk)) /\ Cardinality(Range(chunk)) = Len(chunk)
  BY Zenon, DistinctRange DEF QueueTypeOK
<1>2. Failed \subseteq Range(chunk) /\ Sentinels \subseteq Range(chunk) /\ Flushed \subseteq Range(chunk)
  BY Zenon DEF Failed, Sentinels, Flushed, Of
<1>3. IsFiniteSet(Failed) /\ IsFiniteSet(Sentinels) /\ IsFiniteSet(Flushed)
  BY Zenon, <1>1, <1>2, FS_Subset
<1>4. Failed \cap Sentinels = {}
  BY DEF Failed, Sentinels, Of
<1>5. /\ IsFiniteSet(Failed \cup Sentinels)
      /\ Cardinality(Failed \cup Sentinels) = Cardinality(Failed) + Cardinality(Sentinels)
  BY Zenon, <1>3, <1>4, DisjointUnion
<1>6. (Failed \cup Sentinels) \cap Flushed = {} /\ Range(chunk) = (Failed \cup Sentinels) \cup Flushed
  BY Zenon, <1>2 DEF Flushed
<1>7. Cardinality((Failed \cup Sentinels) \cup Flushed) = Cardinality(Failed \cup Sentinels) + Cardinality(Flushed)
  BY Zenon, <1>3, <1>5, <1>6, DisjointUnion
<1>8. Cardinality(Failed) \in Nat /\ Cardinality(Sentinels) \in Nat /\ Cardinality(Flushed) \in Nat
  BY <1>3, FS_CardinalityType
<1> QED
  BY Zenon, <1>1, <1>3, <1>5, <1>6, <1>7, <1>8

\* A batch is done with.
LEMMA EndChunkKeeps == ASSUME QInv, EndChunk PROVE QInv'
<1>1. /\ flusher \in {"flush", "finalflush"} /\ InFlight = {} /\ chunk' = <<>>
      /\ slice' = [t \in QueueTenants |-> "idle"]
      /\ fate' = [e \in Logged |-> IF e \in Failed THEN "failed"
                                    ELSE IF e \in Sentinels THEN "unattributed"
                                    ELSE IF e \in Flushed THEN "written" ELSE fate[e]]
      /\ UNCHANGED <<phase, queue, drained, in_log, dropped_count>>
  BY Zenon DEF EndChunk, ChunkDone
<1>2. /\ failed_count' = failed_count + Cardinality(Failed)
      /\ flushed_count' = (flushed_count + Len(chunk)) - Cardinality(Failed) - Cardinality(Sentinels)
  BY Zenon DEF EndChunk
<1>3. /\ flusher' \in {"flush", "finalflush", "waiting", "final", "done"}
      /\ (flusher' \notin {"flush", "finalflush"} => drained = <<>>)
  BY Zenon, <1>1 DEF EndChunk, ChunkDone, AfterDrain
<1>4. QueueTypeOK /\ QStages /\ QSlices /\ QHeld /\ QCounts
  BY ZenonT(60), <1>1 DEF QInv
<1>5. Failed \subseteq Range(chunk) /\ Sentinels \subseteq Range(chunk) /\ Flushed \subseteq Range(chunk)
      /\ Failed \cap Sentinels = {} /\ (Failed \cup Sentinels) \cap Flushed = {}
      /\ Range(chunk) = Failed \cup Sentinels \cup Flushed
  BY Zenon DEF Failed, Sentinels, Flushed, Of
<1>6. Range(chunk) \subseteq Having("queued") /\ Having("queued") \subseteq Logged
  BY Zenon, <1>4 DEF QHeld, Queued, Having
<1>7. /\ Having("failed")' = Having("failed") \cup Failed /\ Having("failed") \cap Failed = {}
      /\ Having("written")' = Having("written") \cup Flushed /\ Having("written") \cap Flushed = {}
      /\ Having("dropped")' = Having("dropped")
      /\ Having("queued")' = Having("queued") \ Range(chunk)
  BY Zenon, <1>1, <1>5, <1>6 DEF Having
<1>8. flushed_count' = flushed_count + Cardinality(Flushed) /\ IsFiniteSet(Failed) /\ IsFiniteSet(Flushed)
      /\ Cardinality(Failed) \in Nat /\ Cardinality(Flushed) \in Nat
  <2>1. /\ IsFiniteSet(Failed) /\ IsFiniteSet(Flushed)
        /\ Cardinality(Failed) \in Nat /\ Cardinality(Sentinels) \in Nat /\ Cardinality(Flushed) \in Nat
        /\ Len(chunk) = Cardinality(Failed) + Cardinality(Sentinels) + Cardinality(Flushed)
    BY Zenon, <1>4, ChunkParts DEF QHeld
  <2>2. flushed_count \in Nat
    BY Zenon, <1>4 DEF QueueTypeOK
  <2>3. \A f, a, b, c \in Nat : (f + (a + b + c)) - a - b = f + c
    OBVIOUS
  <2> QED BY <1>2, <2>1, <2>2, <2>3
<1>9. QueueTypeOK'
  <2>1. fate' \in [Logged -> Fates]
    BY Zenon, <1>1, <1>4 DEF QueueTypeOK, Fates
  <2>2. failed_count' \in Nat /\ flushed_count' \in Nat
    BY <1>2, <1>4, <1>8 DEF QueueTypeOK
  <2>3. chunk' \in Seq(Logged) /\ Len(chunk') <= chunk_size
    BY <1>1, QueueAssumption
  <2>4. slice' \in [QueueTenants -> {"idle", "pending", "ok", "failed"}]
    BY Zenon, <1>1
  <2> QED BY ZenonT(60), <1>1, <1>3, <1>4, <2>1, <2>2, <2>3, <2>4 DEF QueueTypeOK
<1>10. QStages'
  BY Zenon, <1>1, <1>3, <1>4 DEF QStages
<1>11. QSlices'
  BY Zenon, <1>1, EmptyRange DEF QSlices
<1>12. QHeld'
  BY ZenonT(60), <1>1, <1>4, <1>7, EmptyRange DEF QHeld, Queued
<1>13. Flushed \subseteq in_log
  <2> SUFFICES ASSUME NEW e \in Flushed PROVE e \in in_log
    OBVIOUS
  <2>1. e \in Range(chunk) /\ TenantOfEvent[e] # NoTenant /\ slice[TenantOfEvent[e]] # "failed"
    BY Zenon DEF Flushed, Failed, Sentinels, Of
  <2>2. TenantOfEvent[e] \in QueueTenants
    BY Zenon, <1>6, <2>1, QueueAssumption DEF QueueTenants, Range
  <2>3. slice[TenantOfEvent[e]] = "ok"
    BY Zenon, <1>1, <1>4, <2>1, <2>2 DEF InFlight, QSlices, QueueTypeOK
  <2> QED BY Zenon, <1>4, <2>1, <2>2, <2>3 DEF QSlices, Of
<1>14. QCounts'
  <2>1. /\ IsFiniteSet(Having("failed")')
        /\ Cardinality(Having("failed")') = Cardinality(Having("failed")) + Cardinality(Failed)
    BY SMTT(30), <1>4, <1>7, <1>8, DisjointUnion DEF QCounts
  <2>2. /\ IsFiniteSet(Having("written")')
        /\ Cardinality(Having("written")') = Cardinality(Having("written")) + Cardinality(Flushed)
    BY <1>4, <1>7, <1>8, DisjointUnion DEF QCounts
  <2> QED BY ZenonT(60), <1>1, <1>2, <1>4, <1>7, <1>8, <1>13, <2>1, <2>2 DEF QCounts
<1> QED
  BY <1>9, <1>10, <1>11, <1>12, <1>14 DEF QInv

\* stop()'s deadline: the counters stop being exact, the rest stays sound.
LEMMA CancelKeeps == ASSUME QInv, Cancel PROVE QInv'
<1>1. /\ phase = "stopping" /\ flusher' = "cancelled" /\ chunk' = <<>> /\ drained' = <<>>
      /\ flushed_count' = (flushed_count + Len(chunk)) - Cardinality(Sentinels)
      /\ slice' = [t \in QueueTenants |-> "idle"]
      /\ fate' = Settle(Range(chunk) \cup Range(drained), "abandoned")
      /\ UNCHANGED <<phase, queue, dropped_count, failed_count>>
  BY DEF Cancel
<1>2. QueueTypeOK
  BY DEF QInv
<1>3. Sentinels \subseteq Range(chunk) /\ Range(chunk) \subseteq Logged
  BY Zenon, <1>2, FiniteRange DEF Sentinels, Of, QueueTypeOK
<1>4. Cardinality(Sentinels) \in Nat /\ Cardinality(Sentinels) <= Len(chunk)
  <2>1. IsFiniteSet(Range(chunk)) /\ Cardinality(Range(chunk)) \in Nat /\ Cardinality(Range(chunk)) <= Len(chunk)
    BY Zenon, <1>2, FiniteRange DEF QueueTypeOK
  <2>2. IsFiniteSet(Sentinels) /\ Cardinality(Sentinels) <= Cardinality(Range(chunk))
    BY Zenon, <1>3, <2>1, FS_Subset
  <2>3. Cardinality(Sentinels) \in Nat
    BY Zenon, <2>2, FS_CardinalityType
  <2>4. Len(chunk) \in Nat
    BY <1>2 DEF QueueTypeOK
  <2> QED BY <2>1, <2>2, <2>3, <2>4
<1>5. flushed_count' \in Nat
  <2>1. Len(chunk) \in Nat /\ flushed_count \in Nat
    BY <1>2 DEF QueueTypeOK
  <2> QED BY <1>1, <1>4, <2>1
<1>6. in_log' \subseteq Logged
  <2>1. PICK late \in SUBSET InFlight : in_log' = in_log \cup UNION {Of(t) : t \in late}
    BY Zenon DEF Cancel
  <2>2. \A t : Of(t) \subseteq Logged
    BY Zenon, <1>3 DEF Of
  <2> QED BY ZenonT(60), <1>2, <2>1, <2>2 DEF QueueTypeOK
<1>7. fate' \in [Logged -> Fates]
  BY Zenon, <1>1, <1>2 DEF QueueTypeOK, Fates, Settle
<1>8. slice' \in [QueueTenants -> {"idle", "pending", "ok", "failed"}]
  BY <1>1
<1>9. chunk' \in Seq(Logged) /\ Len(chunk') <= chunk_size /\ drained' \in Seq(Logged)
  BY <1>1, QueueAssumption
<1>10. QueueTypeOK'
  BY Zenon, <1>1, <1>2, <1>5, <1>6, <1>7, <1>8, <1>9 DEF QueueTypeOK
<1>11. QStages' /\ QSlices'
  BY Zenon, <1>1, EmptyRange DEF QStages, QSlices
<1> QED
  BY Zenon, <1>1, <1>10, <1>11 DEF QInv

\* Every step keeps the invariant of the queue.
LEMMA QKeeps == QInv /\ [QueueNext]_queueVars => QInv'
<1> SUFFICES ASSUME QInv, QueueNext PROVE QInv'
  BY QStutters
<1> QED
  BY Zenon, LogUnqueuedKeeps, EnqueueKeeps, EnqueueFullKeeps, PostSyncKeeps, LifespanKeeps, DrainKeeps,
     FlushChunkKeeps, FlushOneTenantKeeps, EndChunkKeeps, CancelKeeps DEF QueueNext, Flusher

(***************************************************************************)
(* For any events, tenants and sizes, and wherever the flusher stands: until *)
(* stop()'s deadline cancels it, every event the queue took is held exactly  *)
(* once or counted exactly once, as flushed (and then it is in the audit     *)
(* log) or as failed, and the dropped counter counts the refused events      *)
(* (AuditQueue.enqueue, _flush_chunk, _flush_one_tenant, stop).              *)
(***************************************************************************)
THEOREM CountersAreExact == QueueSpec => []CountersExact
<1> QED
  BY QBegins, QKeeps, QSound, PTL DEF QueueSpec
=============================================================================
