--------------------------- MODULE PipelineProofs ---------------------------
(***************************************************************************)
(* RowDecided and DeletedRowFrozen of MemoryPipeline, proved for any number *)
(* of overlapping deliveries, retries, lost messages and edits.             *)
(*                                                                          *)
(* RowDecided speaks of the moments when everything is quiet.  What carries *)
(* it there is a debt: while a live memory with a vector has not been       *)
(* compared and nothing was lost, some delivery that leads to the check is  *)
(* still under way (Compare), and while the policy's verdict has not been   *)
(* carried out, some delivery that carries it is (Enforce).                 *)
(***************************************************************************)
EXTENDS MemoryPipeline, TLAPS

Cells == [st : Stages, ver : Versions \cup {NoVector}, tries : Nat, snap : SUBSET Snaps]
Ghosts == [verdict : [pii : Signals, dated : BOOLEAN], audited : BOOLEAN, dropped : BOOLEAN,
           lost : SUBSET (Topics \cup {"detect"}), checked : SUBSET Versions,
           blind : BOOLEAN, runs : Nat]

Shapes ==
  /\ row \in Rows /\ config \in Configs /\ locked \in BOOLEAN
  /\ job \in [Topics -> [Slots -> Cells]] /\ ghost \in Ghosts

\* A handler that has loaded the row still holds what it read, and a row it saw
\* deleted is deleted.  A remediation half done has written the audit event
\* (drop) or narrowed the visibility (keep_private).
Holds(v) ==
  v.st \in {"loaded", "audited", "cleared"} =>
    \E s \in Snaps : v.snap = {s} /\ (row.live => s.live)
CellOK(v) ==
  /\ v.tries <= config.env.tries
  /\ Holds(v)
  /\ v.st = "audited" /\ config.policy = "drop" => ghost.audited
  /\ v.st = "audited" /\ config.policy = "private" /\ row.live => row.private
CellsOK == \A t \in Topics, c \in Slots : CellOK(job[t][c])

Decided ==
  /\ config.agentSet => row.col \in {"agent", "user"}
  /\ row.pii = ghost.verdict.pii /\ row.dated = ghost.verdict.dated
  /\ ghost.dropped => ghost.audited

\* The lock was taken by a detection, and by one only while it is reliable.
LockOK ==
  /\ locked => ghost.checked # {} \/ ghost.lost # {} \/ ghost.blind \/ ~row.live
  /\ ~config.env.redisFails /\ ~config.env.lockExpires =>
       ghost.runs <= 1 /\ (~locked => ghost.runs = 0)

BusyCell(v) == v.st \notin {"none", "done", "dead"}
Carries(v) ==
  \/ v.st = "queued"
  \/ v.st \in {"loaded", "audited"} /\ (CHOOSE r \in v.snap : TRUE).pii = "yes"

Unchecked ==
  /\ row.live /\ row.emb # NoVector
  /\ ghost.lost = {} /\ ghost.checked = {} /\ ~ghost.blind
LeadsToCheck == {"embed", "embedded", "direct"}
Compare == Unchecked => \E t \in LeadsToCheck, c \in Slots : BusyCell(job[t][c])

Wanted ==
  /\ row.live /\ row.pii = "yes" /\ ghost.lost = {}
  /\ config.policy = "drop" \/ (config.policy = "private" /\ ~row.private)
Enforce ==
  Wanted => \E c \in Slots : BusyCell(job["enrich"][c]) \/ Carries(job["enriched"][c])

IInv == Shapes /\ CellsOK /\ Decided /\ LockOK /\ Compare /\ Enforce

-----------------------------------------------------------------------------
\* What the bounds say of the environment a behaviour has chosen.
LEMMA EnvFacts ==
  ASSUME BoundsAssumption, NEW cfg \in Configs
  PROVE  /\ cfg.env \in Envs /\ cfg.env.copies \in 1..Copies /\ cfg.env.tries \in Nat
         /\ cfg.env.losses \in Nat /\ cfg.env.contents \in Nat \ {0}
         /\ cfg.env.redisFails \in BOOLEAN /\ cfg.env.lockExpires \in BOOLEAN
         /\ cfg.agentSet \in BOOLEAN /\ cfg.enrichEnabled \in BOOLEAN
         /\ cfg.mode \in {"fast", "strong"}
         /\ cfg.policy \in {"off", "drop", "flag", "private"}
         /\ 1..cfg.env.contents \subseteq Versions
<1>1. PICK e \in Envs : cfg \in [mode : e.modes, agentSet : BOOLEAN, enrichEnabled : BOOLEAN,
                                 policy : e.policies, env : {e}]
  BY DEF Configs
<1>2. cfg.env = e /\ cfg.mode \in e.modes /\ cfg.policy \in e.policies
      /\ cfg.agentSet \in BOOLEAN /\ cfg.enrichEnabled \in BOOLEAN
  BY <1>1
<1>3. 1..e.contents \subseteq Versions
  BY DEF Versions
<1> QED BY <1>2, <1>3 DEF BoundsAssumption

\* A vector's version is a positive number, never the mark for "no vector".
LEMMA VersionsPositive == ASSUME BoundsAssumption PROVE Versions \subseteq Nat \ {0}
BY DEF BoundsAssumption, Versions

\* One cell of the deliveries changes and the others stay.
Put(t, c, v) ==
  /\ job' \in [Topics -> [Slots -> Cells]]
  /\ job'[t][c] = v
  /\ \A u \in Topics, d \in Slots : u # t \/ d # c => job'[u][d] = job[u][d]

\* A step that changes one message.
LEMMA PutOne ==
  ASSUME Shapes, NEW t \in Topics, NEW c \in Slots, NEW v \in Cells,
         job' = [job EXCEPT ![t][c] = v]
  PROVE  Put(t, c, v)
BY DEF Shapes, Put

\* Stage and Finish are such changes.
LEMMA StagePut ==
  ASSUME Shapes, NEW t \in Topics, NEW c \in Slots, NEW st \in Stages, Stage(t, c, st)
  PROVE  Put(t, c, [job[t][c] EXCEPT !.st = st])
<1> DEFINE v == [job[t][c] EXCEPT !.st = st]
<1>1. job[t][c] \in Cells
  BY DEF Shapes
<1>2. v \in Cells
  BY <1>1 DEF Cells
<1>3. job' = [job EXCEPT ![t][c] = v]
  BY DEF Stage, Shapes
<1> QED BY Zenon, <1>2, <1>3, PutOne

TakesIn(t, c, st, seen) == job' = [job EXCEPT ![t][c].st = st, ![t][c].snap = {seen}]
\* A handler takes in the row it has read.
LEMMA LoadPut ==
  ASSUME Shapes, NEW t \in Topics, NEW c \in Slots, NEW st \in Stages, NEW seen \in Snaps,
         TakesIn(t, c, st, seen)
  PROVE  Put(t, c, [job[t][c] EXCEPT !.st = st, !.snap = {seen}])
<1> DEFINE v == [job[t][c] EXCEPT !.st = st, !.snap = {seen}]
<1>1. job[t][c] \in Cells
  BY DEF Shapes
<1>2. v \in Cells
  BY Zenon, <1>1 DEF Cells
<1>3. job' = [job EXCEPT ![t][c] = v]
  BY Zenon, <1>1 DEF TakesIn, Shapes, Cells
<1> QED BY Zenon, <1>2, <1>3, PutOne

\* What the enrichment PATCH and the governance PATCH make of a row.
Patched(r, col, pii, dated) ==
  [r EXCEPT !.col = col, !.enrPending = FALSE, !.pii = pii, !.dated = dated]
Columns == {"default", "agent", "llm", "heur", "user"}
OnlyPatched(new, r, col, pii, dated) ==
  /\ new \in Rows /\ new.live = r.live /\ new.emb = r.emb /\ new.private = r.private
  /\ new.col = col /\ new.pii = pii /\ new.dated = dated

\* A patch of the worker sets the enriched columns and no other.
LEMMA PatchedRow ==
  ASSUME NEW r \in Rows, NEW col \in Columns,
         NEW pii \in Signals, NEW dated \in BOOLEAN
  PROVE  OnlyPatched(Patched(r, col, pii, dated), r, col, pii, dated)
BY ZenonT(60) DEF Rows, Columns, Patched, OnlyPatched

\* A remediation makes the row private and changes nothing else.
LEMMA PrivateRow ==
  ASSUME NEW r \in Rows
  PROVE  LET new == [r EXCEPT !.private = TRUE]
         IN  /\ new \in Rows /\ new.live = r.live /\ new.pii = r.pii /\ new.dated = r.dated
             /\ new.col = r.col /\ new.emb = r.emb /\ new.private
BY Zenon DEF Rows

\* A handler is done with its message.
LEMMA FinishPut ==
  ASSUME Shapes, NEW t \in Topics, NEW c \in Slots, Finish(t, c)
  PROVE  Put(t, c, [job[t][c] EXCEPT !.st = "done", !.snap = {}])
<1> DEFINE v == [job[t][c] EXCEPT !.st = "done", !.snap = {}]
<1>1. job[t][c] \in Cells
  BY Zenon DEF Shapes
<1>2. v \in Cells
  BY Zenon, <1>1 DEF Cells, Stages
<1>3. job' = [job EXCEPT ![t][c] = v]
  BY Zenon, <1>1 DEF Finish, Shapes, Cells
<1> QED BY Zenon, <1>2, <1>3, PutOne

-----------------------------------------------------------------------------
\* Time only adds to what the cells rest on: the settings stay, a deleted row
\* stays deleted, a private one private, and an audit event stays written.
Onward ==
  /\ config' = config
  /\ row'.live => row.live
  /\ row.private => row'.private
  /\ ghost.audited => ghost'.audited

\* CellOK of a delivery in the next state.
CellNext(v) ==
  /\ v.tries <= config'.env.tries
  /\ v.st \in {"loaded", "audited", "cleared"} =>
       \E s \in Snaps : v.snap = {s} /\ (row'.live => s.live)
  /\ v.st = "audited" /\ config'.policy = "drop" => ghost'.audited
  /\ v.st = "audited" /\ config'.policy = "private" /\ row'.live => row'.private

\* A message in order stays so when the row moves on.
LEMMA CellKept ==
  ASSUME Onward, NEW v, CellOK(v)
  PROVE  CellNext(v)
BY Zenon DEF Onward, CellOK, Holds, CellNext

\* A cell that holds no snapshot only counts its attempts.
LEMMA PlainCell ==
  ASSUME NEW v, v.tries <= config'.env.tries, v.st \notin {"loaded", "audited", "cleared"}
  PROVE  CellNext(v)
BY DEF CellNext

\* The changed cell is in order, the others were.
LEMMA CellsPut ==
  ASSUME Shapes, CellsOK, Onward, NEW t \in Topics, NEW c \in Slots, NEW v,
         Put(t, c, v), CellNext(v)
  PROVE  CellsOK'
<1> SUFFICES ASSUME NEW u \in Topics, NEW d \in Slots PROVE CellOK(job[u][d])'
  BY DEF CellsOK
<1>1. CASE u = t /\ d = c
  BY <1>1 DEF Put, CellOK, Holds, CellNext
<1>2. CASE u # t \/ d # c
  <2>1. CellNext(job'[u][d])
    BY <1>2, CellKept DEF Put, CellsOK
  <2> QED BY Zenon, <2>1 DEF CellOK, Holds, CellNext
<1> QED BY <1>1, <1>2

\* No delivery changes.
LEMMA CellsStay ==
  ASSUME CellsOK, Onward, job' = job
  PROVE  CellsOK'
BY ZenonT(60), CellKept DEF CellsOK, CellOK, Holds, CellNext

\* The lock stands while no detection runs.
LEMMA LockStays ==
  ASSUME LockOK, Onward, locked' = locked, ghost'.runs = ghost.runs,
         ghost'.checked = ghost.checked, ghost'.blind = ghost.blind,
         ghost.lost \subseteq ghost'.lost
  PROVE  LockOK'
BY Zenon DEF LockOK, Onward

\* A step of one delivery.  The debts are the point: if the check is still owed
\* afterwards, either it was owed before and this delivery has not just given up,
\* or this delivery itself will lead to it; likewise for the policy.
LEMMA Moves ==
  ASSUME IInv, NEW t \in Topics, NEW c \in Slots, NEW v, Put(t, c, v), CellNext(v), Onward,
         row' \in Rows, ghost' \in Ghosts, locked' \in BOOLEAN, Decided', LockOK',
         Unchecked' =>
           \/ t \in LeadsToCheck /\ BusyCell(v)
           \/ Unchecked /\ ~(t \in LeadsToCheck /\ BusyCell(job[t][c])),
         Wanted' =>
           \/ t = "enrich" /\ BusyCell(v)
           \/ t = "enriched" /\ Carries(v)
           \/ /\ Wanted
              /\ ~(t = "enrich" /\ BusyCell(job[t][c]))
              /\ ~(t = "enriched" /\ Carries(job[t][c]))
  PROVE  IInv'
<1>1. Shapes'
  BY Zenon DEF IInv, Shapes, Put, Onward
<1>2. CellsOK'
  BY Zenon, CellsPut DEF IInv
<1>3. Compare'
  <2> SUFFICES ASSUME Unchecked'
               PROVE  \E u \in LeadsToCheck, d \in Slots : BusyCell(job'[u][d])
    BY Zenon DEF Compare, BusyCell
  <2>1. CASE t \in LeadsToCheck /\ BusyCell(v)
    BY <2>1 DEF Put
  <2>2. CASE Unchecked /\ ~(t \in LeadsToCheck /\ BusyCell(job[t][c]))
    <3>1. PICK u \in LeadsToCheck, d \in Slots : BusyCell(job[u][d])
      BY <2>2 DEF IInv, Compare
    <3>2. u \in Topics /\ (u # t \/ d # c)
      BY <2>2, <3>1 DEF LeadsToCheck, Topics, Requests, BackChannel
    <3> QED BY <3>1, <3>2 DEF Put
  <2> QED BY <2>1, <2>2
<1>4. Enforce'
  <2> SUFFICES ASSUME Wanted'
               PROVE  \E d \in Slots : BusyCell(job'["enrich"][d]) \/ Carries(job'["enriched"][d])
    BY Zenon DEF Enforce, BusyCell, Carries
  <2>1. CASE t = "enrich" /\ BusyCell(v)
    BY <2>1 DEF Put
  <2>2. CASE t = "enriched" /\ Carries(v)
    BY <2>2 DEF Put
  <2>3. CASE /\ Wanted
             /\ ~(t = "enrich" /\ BusyCell(job[t][c]))
             /\ ~(t = "enriched" /\ Carries(job[t][c]))
    <3>1. PICK d \in Slots : BusyCell(job["enrich"][d]) \/ Carries(job["enriched"][d])
      BY <2>3 DEF IInv, Enforce
    <3>2. "enrich" \in Topics /\ "enriched" \in Topics
      BY DEF Topics, Requests, BackChannel
    <3>3. CASE BusyCell(job["enrich"][d])
      BY Zenon, <2>3, <3>2, <3>3 DEF Put
    <3>4. CASE Carries(job["enriched"][d])
      BY <2>3, <3>2, <3>4 DEF Put
    <3> QED BY <3>1, <3>3, <3>4
  <2> QED BY <2>1, <2>2, <2>3
<1> QED BY <1>1, <1>2, <1>3, <1>4 DEF IInv

\* A delivery that only moves on: nothing but its cell changes.
LEMMA JobMoves ==
  ASSUME IInv, NEW t \in Topics, NEW c \in Slots, NEW v, Put(t, c, v), CellNext(v),
         UNCHANGED <<row, config, locked, ghost>>,
         Unchecked /\ t \in LeadsToCheck /\ BusyCell(job[t][c]) => BusyCell(v),
         t = "enrich" /\ BusyCell(job[t][c]) => BusyCell(v),
         Wanted /\ t = "enriched" /\ Carries(job[t][c]) => Carries(v)
  PROVE  IInv'
<1>1. Onward /\ row' \in Rows /\ ghost' \in Ghosts /\ locked' \in BOOLEAN
  BY DEF IInv, Shapes, Onward
<1>2. Decided' /\ LockOK' /\ (Unchecked' <=> Unchecked) /\ (Wanted' <=> Wanted)
  BY DEF IInv, Decided, LockOK, Unchecked, Wanted
<1> QED BY <1>1, <1>2, Moves

\* A delivery, a publish or a detection is lost: no debt remains to be shown.
LEMMA LossMoves ==
  ASSUME IInv, NEW t \in Topics, NEW c \in Slots, NEW v, Put(t, c, v), CellNext(v),
         NEW what \in Topics \cup {"detect"}, Lost(what),
         UNCHANGED <<row, config, locked>>
  PROVE  IInv'
<1>1. /\ ghost' \in Ghosts /\ ghost'.lost = ghost.lost \cup {what}
      /\ ghost'.audited = ghost.audited /\ ghost'.dropped = ghost.dropped
      /\ ghost'.verdict = ghost.verdict /\ ghost'.checked = ghost.checked
      /\ ghost'.runs = ghost.runs /\ ghost'.blind = ghost.blind
  BY DEF IInv, Shapes, Ghosts, Lost
<1>2. Onward /\ row' \in Rows /\ locked' \in BOOLEAN /\ Decided'
  BY <1>1 DEF IInv, Shapes, Onward, Decided
<1>3. LockOK'
  BY <1>1, <1>2, LockStays DEF IInv
<1>4. ~Unchecked' /\ ~Wanted'
  BY <1>1 DEF Unchecked, Wanted
<1> QED BY <1>1, <1>2, <1>3, <1>4, Moves

-----------------------------------------------------------------------------
\* What IInv says of one delivery.
LEMMA CellFacts ==
  ASSUME IInv, NEW t \in Topics, NEW c \in Slots
  PROVE  /\ job[t][c] \in Cells /\ CellOK(job[t][c])
         /\ job[t][c].tries <= config.env.tries
BY DEF IInv, Shapes, CellsOK, CellOK

\* A delivery whose stage alone changes keeps its attempts and its snapshot.
LEMMA StageCell ==
  ASSUME NEW v \in Cells, NEW st \in Stages
  PROVE  /\ [v EXCEPT !.st = st].st = st /\ [v EXCEPT !.st = st].tries = v.tries
         /\ [v EXCEPT !.st = st].snap = v.snap /\ [v EXCEPT !.st = st].ver = v.ver
BY DEF Cells

\* A plain stage change, to a stage in which the handler holds no snapshot.
LEMMA StageMoves ==
  ASSUME IInv, NEW t \in Topics, NEW c \in Slots, NEW st \in Stages, Stage(t, c, st),
         st \notin {"none", "loaded", "audited", "cleared", "done", "dead"},
         UNCHANGED <<row, config, locked, ghost>>, t \notin BackChannel
  PROVE  IInv'
<1> DEFINE v == [job[t][c] EXCEPT !.st = st]
<1>1. Put(t, c, v)
  BY StagePut DEF IInv
<1>2. v.st = st /\ v.tries <= config.env.tries
  BY CellFacts, StageCell
<1>3. CellNext(v) /\ BusyCell(v)
  BY Zenon, <1>2, PlainCell DEF BusyCell
<1> HIDE DEF v
<1>4. t # "enriched"
  BY DEF BackChannel
<1> QED BY Zenon, <1>1, <1>3, <1>4, JobMoves

\* A delivery that ends in a loss.
LEMMA StageLost ==
  ASSUME IInv, NEW t \in Topics, NEW c \in Slots, NEW st \in {"done", "dead"}, Stage(t, c, st),
         NEW what \in Topics \cup {"detect"}, Lost(what), UNCHANGED <<row, config, locked>>
  PROVE  IInv'
<1> DEFINE v == [job[t][c] EXCEPT !.st = st]
<1>0. st \in Stages
  BY Zenon DEF Stages
<1>1. Put(t, c, v)
  BY <1>0, StagePut DEF IInv
<1>2. v.st = st /\ v.tries <= config.env.tries
  BY <1>0, CellFacts, StageCell
<1>3. CellNext(v)
  BY Zenon, <1>2, PlainCell
<1> HIDE DEF v
<1> QED BY <1>1, <1>3, LossMoves

\* A fresh delivery takes a free slot.
LEMMA FreshMoves ==
  ASSUME BoundsAssumption, IInv, NEW t \in Topics, NEW c \in Slots,
         NEW n \in Versions \cup {NoVector},
         ~BusyCell(job[t][c]), job' = [job EXCEPT ![t][c] = Job("queued", n)],
         UNCHANGED <<row, config, locked, ghost>>
  PROVE  IInv'
<1> DEFINE v == Job("queued", n)
<1>1. v \in Cells /\ v.st = "queued" /\ v.tries = 0
  BY DEF Job, Cells, Stages
<1>2. Put(t, c, v)
  BY Zenon, <1>1, PutOne DEF IInv
<1>3. config.env.tries \in Nat
  BY Zenon, EnvFacts DEF IInv, Shapes
<1>4. CellNext(v) /\ BusyCell(v)
  BY <1>1, <1>3, PlainCell DEF BusyCell
<1>5. Carries(v)
  BY Zenon, <1>1 DEF Carries
<1> HIDE DEF v
<1> QED BY Zenon, <1>2, <1>4, <1>5, JobMoves

-----------------------------------------------------------------------------
(* The bus.                                                                  *)

\* The slots in use are slots.
LEMMA InUseSlots == ASSUME BoundsAssumption, IInv PROVE InUse \subseteq Slots
BY EnvFacts DEF IInv, Shapes, InUse, Slots, BoundsAssumption

\* A publication is lost.
LEMMA PublishLostKeeps ==
  ASSUME BoundsAssumption, IInv, NEW t \in Requests \cup {"direct"}, PublishLost(t)
  PROVE  IInv'
<1>1. t \in Topics /\ 1 \in Slots
  BY DEF Topics, Slots, BoundsAssumption
<1> QED BY Zenon, <1>1, StageLost DEF PublishLost

\* A request is delivered again.
LEMMA RedeliverKeeps ==
  ASSUME BoundsAssumption, IInv, NEW t \in Requests, NEW c \in InUse, Redeliver(t, c)
  PROVE  IInv'
<1>1. t \in Topics /\ c \in Slots /\ c + 1 \in Slots
  BY Zenon, InUseSlots DEF Topics, Redeliver
<1>2. job[t][c].ver \in Versions \cup {NoVector}
  BY Zenon, <1>1, CellFacts DEF Cells
<1>3. ~BusyCell(job[t][c + 1])
  BY Zenon DEF Redeliver, BusyCell
<1> QED BY ZenonT(60), <1>1, <1>2, <1>3, FreshMoves DEF Redeliver

\* A refused message is queued again, with one more try.
LEMMA NackCell ==
  ASSUME NEW w \in Cells
  PROVE  LET v == [w EXCEPT !.st = "queued", !.snap = {}, !.tries = @ + 1]
         IN  v \in Cells /\ v.st = "queued" /\ v.tries = w.tries + 1
<1> DEFINE u == [w EXCEPT !.st = "queued", !.snap = {}]
           v == [w EXCEPT !.st = "queued", !.snap = {}, !.tries = @ + 1]
<1>1. u \in Cells /\ u.st = "queued" /\ u.tries = w.tries
  BY Zenon DEF Cells, Stages
<1>2. v = [u EXCEPT !.tries = w.tries + 1]
  BY Zenon DEF Cells
<1> HIDE DEF u, v
<1>3. w.tries + 1 \in Nat
  BY DEF Cells
<1>4. v \in Cells /\ v.st = "queued" /\ v.tries = w.tries + 1
  BY Zenon, <1>1, <1>2, <1>3 DEF Cells
<1> QED BY Zenon, <1>4 DEF v

\* A handler refuses its message.
LEMMA NackKeeps ==
  ASSUME BoundsAssumption, IInv, NEW t \in Requests \cup BackChannel, NEW c \in InUse, Nack(t, c)
  PROVE  IInv'
<1>1. t \in Topics /\ c \in Slots
  BY Zenon, InUseSlots DEF Topics
<1>2. config.env.tries \in Nat /\ job[t][c] \in Cells
  BY Zenon, <1>1, EnvFacts, CellFacts DEF IInv, Shapes
<1>3. CASE job[t][c].tries < config.env.tries
  <2> DEFINE v == [job[t][c] EXCEPT !.st = "queued", !.snap = {}, !.tries = @ + 1]
  <2>1. v \in Cells /\ v.st = "queued" /\ v.tries = job[t][c].tries + 1
    BY Zenon, <1>2, NackCell
  <2>2. job' = [job EXCEPT ![t][c] = v]
    BY SMTT(30), <1>1, <1>2, <1>3 DEF Nack, NackEffect, IInv, Shapes, Cells
  <2>3. Put(t, c, v)
    BY Zenon, <1>1, <2>1, <2>2, PutOne DEF IInv
  <2>4. v.tries <= config.env.tries
    BY <1>2, <1>3, <2>1 DEF Cells
  <2>5. BusyCell(v) /\ Carries(v)
    BY Zenon, <2>1 DEF BusyCell, Carries
  <2>6. UNCHANGED <<row, config, locked, ghost>>
    BY Zenon, <1>3 DEF Nack, NackEffect
  <2> HIDE DEF v
  <2>7. CellNext(v)
    BY <2>1, <2>4, <2>6, PlainCell
  <2> QED BY <1>1, <2>3, <2>5, <2>6, <2>7, JobMoves
<1>4. CASE ~(job[t][c].tries < config.env.tries)
  BY <1>1, <1>4, StageLost DEF Nack, NackEffect
<1> QED BY <1>3, <1>4

\* The backfill asks for the embedding again.
LEMMA BackfillKeeps ==
  ASSUME BoundsAssumption, IInv, NEW c \in InUse, Backfill(c)
  PROVE  IInv'
<1>1. "embed" \in Topics /\ c \in Slots
  BY InUseSlots DEF Topics, Requests
<1>2. row.content \in Versions \cup {NoVector}
  BY DEF IInv, Shapes, Rows
<1>3. ~BusyCell(job["embed"][c])
  BY DEF Backfill, BusyCell
<1> QED BY Zenon, <1>1, <1>2, <1>3, FreshMoves DEF Backfill

-----------------------------------------------------------------------------
(* The worker.                                                               *)

\* The worker drops a request for an embedding.
LEMMA EmbedDroppedKeeps ==
  ASSUME BoundsAssumption, IInv, NEW c \in InUse, EmbedDropped(c)
  PROVE  IInv'
BY InUseSlots, StageLost DEF EmbedDropped, Topics, Requests

\* The worker computes an embedding or an enrichment.
LEMMA ComputeKeeps ==
  ASSUME BoundsAssumption, IInv, NEW c \in InUse, EmbedCompute(c) \/ EnrichCompute(c)
  PROVE  IInv'
<1>1. c \in Slots /\ "embed" \in Topics \ BackChannel /\ "enrich" \in Topics \ BackChannel
      /\ "computed" \in Stages
  BY InUseSlots DEF Topics, Requests, BackChannel, Stages
<1> QED BY <1>1, StageMoves DEF EmbedCompute, EnrichCompute

\* The vector lands: the check is owed from here on, and this delivery leads to it.
LEMMA EmbedPatchKeeps ==
  ASSUME BoundsAssumption, IInv, NEW c \in InUse, EmbedPatch(c)
  PROVE  IInv'
<1> DEFINE v == [job["embed"][c] EXCEPT !.st = "patched"]
<1>1. c \in Slots /\ "embed" \in Topics /\ "patched" \in Stages /\ "embed" \in LeadsToCheck
  BY Zenon, InUseSlots DEF Topics, Requests, Stages, LeadsToCheck
<1>2. Put("embed", c, v)
  BY <1>1, StagePut DEF EmbedPatch, IInv
<1>3. v.st = "patched" /\ v.tries <= config.env.tries
  BY <1>1, CellFacts, StageCell
<1>4. job["embed"][c].ver \in Versions \cup {NoVector}
  BY Zenon, <1>1, CellFacts DEF Cells
<1>5. /\ row' \in Rows /\ (row'.live <=> row.live) /\ row'.pii = row.pii /\ row'.dated = row.dated
      /\ row'.col = row.col /\ row'.private = row.private
  BY Zenon, <1>4 DEF EmbedPatch, MemoryUpdate, IInv, Shapes, Rows
<1>6. UNCHANGED <<config, locked, ghost>>
  BY DEF EmbedPatch
<1>7. Onward /\ ghost' \in Ghosts /\ locked' \in BOOLEAN /\ Decided' /\ (Wanted' => Wanted)
  BY Zenon, <1>5, <1>6 DEF Onward, IInv, Shapes, Decided, Wanted
<1>8. LockOK'
  BY Zenon, <1>5, <1>6, <1>7, LockStays DEF IInv
<1>9. CellNext(v) /\ BusyCell(v)
  BY Zenon, <1>3, <1>6, PlainCell DEF BusyCell
<1> HIDE DEF v
<1> QED BY Zenon, <1>1, <1>2, <1>5, <1>7, <1>8, <1>9, Moves

\* A verdict lands: from here on the policy is owed, and this delivery carries it.
LEMMA EnrichPatchKeeps ==
  ASSUME BoundsAssumption, IInv, NEW c \in InUse, NEW res \in Results, EnrichPatch(c, res)
  PROVE  IInv'
<1> DEFINE v == [job["enrich"][c] EXCEPT !.st = "patched"]
<1>1. c \in Slots /\ "enrich" \in Topics /\ "patched" \in Stages /\ "enrich" \notin LeadsToCheck
  BY Zenon, InUseSlots DEF Topics, Requests, Stages, LeadsToCheck
<1>2. Put("enrich", c, v)
  BY Zenon, <1>1, StagePut DEF EnrichPatch, IInv
<1>3. v.st = "patched" /\ v.tries <= config.env.tries
  BY <1>1, CellFacts, StageCell
<1>4. res.kind \in {"llm", "heur"} /\ res.pii \in {"yes", "no"} /\ res.dated \in BOOLEAN
  <2>1. CASE res \in [kind : {"llm"}, pii : {"yes", "no"}, dated : BOOLEAN]
    BY <2>1
  <2>2. CASE res = [kind |-> "heur", pii |-> "no", dated |-> FALSE]
    BY <2>2
  <2> QED BY <2>1, <2>2 DEF Results
<1>5. BuildPatch(res) \in Rows /\ BuildPatch(res).live = row.live /\ BuildPatch(res).emb = row.emb
      /\ BuildPatch(res).private = row.private
      /\ BuildPatch(res).col = (IF config.agentSet THEN row.col ELSE res.kind)
      /\ BuildPatch(res).pii = (IF res.kind = "llm" THEN res.pii ELSE row.pii)
      /\ BuildPatch(res).dated = (IF res.kind = "llm" THEN res.dated ELSE row.dated)
  <2> DEFINE col == IF config.agentSet THEN row.col ELSE res.kind
             pii == IF res.kind = "llm" THEN res.pii ELSE row.pii
             dated == IF res.kind = "llm" THEN res.dated ELSE row.dated
  <2>1. row \in Rows
    BY DEF IInv, Shapes
  <2>2. col \in Columns /\ pii \in Signals /\ dated \in BOOLEAN
    BY <1>4, <2>1 DEF Rows, Signals, Columns
  <2>3. BuildPatch(res) = Patched(row, col, pii, dated)
    BY Zenon DEF BuildPatch, Patched
  <2> HIDE DEF col, pii, dated
  <2>5. /\ BuildPatch(res) \in Rows /\ BuildPatch(res).live = row.live
        /\ BuildPatch(res).emb = row.emb /\ BuildPatch(res).private = row.private
        /\ BuildPatch(res).col = col /\ BuildPatch(res).pii = pii /\ BuildPatch(res).dated = dated
    <3>1. OnlyPatched(Patched(row, col, pii, dated), row, col, pii, dated)
      BY <2>1, <2>2, PatchedRow
    <3> QED
      BY Zenon, <2>3, <3>1 DEF OnlyPatched
  <2> QED BY <2>5 DEF col, pii, dated
<1>6. row' \in Rows /\ row'.live = row.live /\ row'.emb = row.emb /\ row'.private = row.private
      /\ (config.agentSet => row'.col = row.col)
  BY Zenon, <1>5 DEF EnrichPatch, MemoryUpdate, IInv, Shapes
<1>7. UNCHANGED <<config, locked>>
  BY Zenon DEF EnrichPatch
<1>8. /\ ghost' \in Ghosts /\ ghost'.audited = ghost.audited /\ ghost'.dropped = ghost.dropped
      /\ ghost'.lost = ghost.lost /\ ghost'.checked = ghost.checked
      /\ ghost'.runs = ghost.runs /\ ghost'.blind = ghost.blind
  BY Zenon, <1>4 DEF EnrichPatch, IInv, Shapes, Ghosts, Signals
<1>9. row'.pii = ghost'.verdict.pii /\ row'.dated = ghost'.verdict.dated
  <2>1. CASE row.live /\ res.kind = "llm"
    BY <1>4, <1>5, <2>1 DEF EnrichPatch, MemoryUpdate, IInv, Shapes, Ghosts
  <2>2. CASE ~(row.live /\ res.kind = "llm")
    BY <1>5, <2>2 DEF EnrichPatch, MemoryUpdate, IInv, Decided
  <2> QED BY Zenon, <2>1, <2>2
<1>10. Onward /\ locked' \in BOOLEAN /\ Decided' /\ (Unchecked' => Unchecked)
  BY Zenon, <1>6, <1>7, <1>8, <1>9 DEF Onward, IInv, Shapes, Decided, Unchecked
<1>11. LockOK'
  BY Zenon, <1>7, <1>8, <1>10, LockStays DEF IInv
<1>12. CellNext(v) /\ BusyCell(v)
  BY Zenon, <1>3, <1>7, PlainCell DEF BusyCell
<1> HIDE DEF v
<1> QED BY <1>1, <1>2, <1>6, <1>8, <1>10, <1>11, <1>12, Moves

\* The announcement hands the debt from the request to the back-channel message.
LEMMA AnnounceKeeps ==
  ASSUME BoundsAssumption, IInv, NEW c \in InUse,
         NEW t \in Requests, NEW back \in BackChannel,
         t = "embed" <=> back = "embedded", Announce(t, back, c)
  PROVE  IInv'
<1>1. c \in Slots /\ t \in Topics /\ back \in Topics /\ t # back
  BY Zenon, InUseSlots DEF Topics, Requests, BackChannel
<1>2. CASE Stage(t, c, "done") /\ Lost(back)
  BY Zenon, <1>1, <1>2, StageLost DEF Announce
<1>3. CASE /\ job' = [job EXCEPT ![t][c].st = "done", ![back][c] = Job("queued", job[t][c].ver)]
           /\ UNCHANGED ghost
  <2> DEFINE v == [job[t][c] EXCEPT !.st = "done"]
             w == Job("queued", job[t][c].ver)
  <2>1. job[t][c] \in Cells /\ job[t][c].tries <= config.env.tries /\ "done" \in Stages
    BY Zenon, <1>1, CellFacts DEF Stages
  <2>2. v \in Cells /\ v.st = "done" /\ v.tries <= config.env.tries
    BY Zenon, <2>1 DEF Cells
  <2>3. w \in Cells /\ w.st = "queued" /\ w.tries = 0
    BY Zenon, <2>1 DEF Job, Cells, Stages
  <2>4. /\ job' \in [Topics -> [Slots -> Cells]]
        /\ job'[t][c] = v /\ job'[back][c] = w
        /\ \A u \in Topics, d \in Slots :
             (u # t /\ u # back) \/ d # c => job'[u][d] = job[u][d]
    <3>1. job' = [job EXCEPT ![t][c] = v, ![back][c] = w]
      BY Zenon, <1>3
    <3> HIDE DEF v, w
    <3> QED BY ZenonT(60), <1>1, <2>2, <2>3, <3>1 DEF IInv, Shapes
  <2>5. UNCHANGED <<row, config, locked, ghost>>
    BY Zenon, <1>3 DEF Announce
  <2>6. config.env.tries \in Nat
    BY Zenon, EnvFacts DEF IInv, Shapes
  <2> HIDE DEF v, w
  <2>7. CellNext(v) /\ CellNext(w)
    BY <2>2, <2>3, <2>5, <2>6, PlainCell
  <2>8. Onward
    BY Zenon, <2>5 DEF Onward
  <2>9. Shapes'
    BY Zenon, <2>4, <2>5 DEF IInv, Shapes
  <2>10. CellsOK'
    <3> SUFFICES ASSUME NEW u \in Topics, NEW d \in Slots PROVE CellOK(job[u][d])'
      BY Zenon DEF CellsOK
    <3>1. CellNext(job'[u][d])
      <4>1. CASE (u = t \/ u = back) /\ d = c
        BY <2>4, <2>7, <4>1
      <4>2. CASE (u # t /\ u # back) \/ d # c
        BY ZenonT(60), <2>4, <2>8, <4>2, CellKept DEF IInv, CellsOK
      <4> QED BY Zenon, <4>1, <4>2
    <3> QED BY Zenon, <3>1 DEF CellNext, CellOK, Holds
  <2>11. Decided' /\ LockOK' /\ (Unchecked' <=> Unchecked) /\ (Wanted' <=> Wanted)
    BY <2>5 DEF IInv, Decided, LockOK, Unchecked, Wanted
  <2>12. BusyCell(w) /\ Carries(w)
    BY <2>3 DEF BusyCell, Carries
  <2>13. Compare'
    <3> SUFFICES ASSUME Unchecked
                 PROVE  \E u \in LeadsToCheck, d \in Slots : BusyCell(job'[u][d])
      BY <2>11 DEF Compare, BusyCell
    <3>1. PICK u \in LeadsToCheck, d \in Slots : BusyCell(job[u][d])
      BY DEF IInv, Compare
    <3>2. CASE u = t /\ d = c
      <4>1. back \in LeadsToCheck
        BY <3>2 DEF LeadsToCheck, Requests
      <4> QED BY <1>1, <2>4, <2>12, <4>1
    <3>3. CASE u = back /\ d = c
      BY <1>1, <2>4, <2>12, <3>3
    <3>4. CASE (u # t /\ u # back) \/ d # c
      BY <2>4, <3>1, <3>4 DEF LeadsToCheck, Topics, Requests, BackChannel
    <3> QED BY <3>2, <3>3, <3>4
  <2>14. Enforce'
    <3> SUFFICES ASSUME Wanted
                 PROVE  \E d \in Slots : BusyCell(job'["enrich"][d]) \/ Carries(job'["enriched"][d])
      BY <2>11 DEF Enforce, BusyCell, Carries
    <3>1. PICK d \in Slots : BusyCell(job["enrich"][d]) \/ Carries(job["enriched"][d])
      BY DEF IInv, Enforce
    <3>2. CASE t = "enrich" /\ d = c
      <4>1. back = "enriched"
        BY <3>2 DEF BackChannel
      <4> QED BY <1>1, <2>4, <2>12, <4>1
    <3>3. CASE t # "enrich" \/ d # c
      <4>1. d # c \/ (t = "embed" /\ back = "embedded")
        BY <3>3 DEF Requests
      <4>2. job'["enrich"][d] = job["enrich"][d] /\ job'["enriched"][d] = job["enriched"][d]
        BY <2>4, <4>1 DEF Topics, Requests, BackChannel
      <4> QED BY <3>1, <4>2
    <3> QED BY <3>2, <3>3
  <2> QED BY <2>9, <2>10, <2>11, <2>13, <2>14 DEF IInv
<1> QED BY Zenon, <1>2, <1>3 DEF Announce

-----------------------------------------------------------------------------
(* The consumers.                                                            *)

\* What a handler holds of the row it loaded.
LEMMA SnapFacts ==
  ASSUME IInv, NEW t \in Topics, NEW c \in Slots,
         job[t][c].st \in {"loaded", "audited", "cleared"}
  PROVE  /\ Snap(t, c) \in Snaps /\ job[t][c].snap = {Snap(t, c)}
         /\ row.live => Snap(t, c).live
<1>1. PICK s \in Snaps : job[t][c].snap = {s} /\ (row.live => s.live)
  BY CellFacts DEF CellOK, Holds
<1>2. Snap(t, c) = s
  BY <1>1 DEF Snap
<1> QED BY <1>1, <1>2

\* The consumer of a back channel reads the row.
LEMMA LoadKeeps ==
  ASSUME BoundsAssumption, IInv, NEW t \in BackChannel, NEW c \in InUse, Load(t, c)
  PROVE  IInv'
<1>1. c \in Slots /\ t \in Topics
  BY InUseSlots DEF Topics
<1>2. job[t][c] \in Cells /\ job[t][c].tries <= config.env.tries
  BY <1>1, CellFacts
<1>3. UNCHANGED <<row, config, locked, ghost>>
  BY DEF Load
<1>4. CASE t = "embedded" /\ row.emb = NoVector
  <2> DEFINE v == [job[t][c] EXCEPT !.st = "done", !.snap = {}]
  <2>1. Put(t, c, v)
    BY Zenon, <1>1, <1>4, FinishPut DEF Load, IInv
  <2>2. v.st = "done" /\ v.tries = job[t][c].tries
    BY <1>2 DEF Cells
  <2>3. CellNext(v)
    BY Zenon, <1>2, <1>3, <2>2, PlainCell
  <2>4. ~Unchecked
    BY <1>4 DEF Unchecked
  <2> HIDE DEF v
  <2> QED BY Zenon, <1>1, <1>3, <1>4, <2>1, <2>3, <2>4, JobMoves
<1>5. CASE ~(t = "embedded" /\ row.emb = NoVector)
  <2> DEFINE st == IF t = "enriched" THEN "loaded" ELSE "cleared"
             v == [job[t][c] EXCEPT !.st = st, !.snap = {Seen(row)}]
  <2>1. Seen(row) \in Snaps /\ Seen(row).live = row.live /\ Seen(row).pii = row.pii
    BY DEF Seen, Snaps, IInv, Shapes, Rows
  <2>2. st \in Stages
    BY DEF Stages
  <2>3. TakesIn(t, c, st, Seen(row))
    BY <1>5, Zenon DEF Load, TakesIn
  <2>4. v \in Cells /\ v.st = st /\ v.tries = job[t][c].tries /\ v.snap = {Seen(row)}
    <3> HIDE DEF st
    <3> QED BY Zenon, <1>2, <2>1, <2>2 DEF Cells
  <2>5. Put(t, c, v)
    <3> HIDE DEF st
    <3> QED BY Zenon, <1>1, <2>1, <2>2, <2>3, LoadPut DEF IInv
  <2>6. CellNext(v)
    <3>1. st # "audited" /\ row'.live = Seen(row).live
      BY Zenon, <1>3, <2>1
    <3> HIDE DEF v, st
    <3> QED BY <1>2, <1>3, <2>1, <2>4, <3>1 DEF CellNext
  <2>7. BusyCell(v)
    BY <2>4 DEF BusyCell
  <2>8. Wanted /\ t = "enriched" => Carries(v)
    <3> SUFFICES ASSUME Wanted, t = "enriched" PROVE Carries(v)
      OBVIOUS
    <3>1. v.st = "loaded" /\ Seen(row).pii = "yes" /\ (CHOOSE r \in v.snap : TRUE) = Seen(row)
      BY Zenon, <2>1, <2>4 DEF Wanted
    <3> QED BY Zenon, <3>1 DEF Carries
  <2> HIDE DEF v
  <2> QED BY Zenon, <1>1, <1>3, <2>5, <2>6, <2>7, <2>8, JobMoves
<1> QED BY Zenon, <1>4, <1>5

\* The last step of a remediation, when this delivery no longer carries a debt.
LEMMA GovernedMoves ==
  ASSUME IInv, NEW c \in Slots, job["enriched"][c].st \in {"loaded", "audited"}, Governed(c),
         UNCHANGED <<row, config, locked>>,
         ghost' = ghost \/ ghost' = [ghost EXCEPT !.audited = TRUE],
         ~(Wanted /\ Carries(job["enriched"][c]))
  PROVE  IInv'
<1>1. "enriched" \in Topics /\ "enriched" \notin LeadsToCheck /\ "cleared" \in Stages
  BY DEF Topics, BackChannel, LeadsToCheck, Stages
<1>2. job["enriched"][c] \in Cells /\ job["enriched"][c].tries <= config.env.tries
  BY Zenon, <1>1, CellFacts
<1>3. /\ ghost' \in Ghosts /\ (ghost.audited => ghost'.audited) /\ ghost'.dropped = ghost.dropped
      /\ ghost'.verdict = ghost.verdict /\ ghost'.lost = ghost.lost
      /\ ghost'.checked = ghost.checked /\ ghost'.runs = ghost.runs /\ ghost'.blind = ghost.blind
  BY ZenonT(60) DEF IInv, Shapes, Ghosts
<1>4. /\ Onward /\ row' \in Rows /\ locked' \in BOOLEAN /\ Decided'
      /\ (Unchecked' => Unchecked) /\ (Wanted' => Wanted)
  BY <1>3 DEF IInv, Shapes, Onward, Decided, Unchecked, Wanted
<1>5. LockOK'
  BY <1>3, <1>4, LockStays DEF IInv
<1>6. CASE Finish("enriched", c)
  <2> DEFINE v == [job["enriched"][c] EXCEPT !.st = "done", !.snap = {}]
  <2>1. Put("enriched", c, v)
    BY Zenon, <1>1, <1>6, FinishPut DEF IInv
  <2>2. v.st = "done" /\ v.tries = job["enriched"][c].tries
    BY <1>2 DEF Cells
  <2>3. CellNext(v)
    BY Zenon, <1>2, <2>2, PlainCell
  <2> HIDE DEF v
  <2> QED BY Zenon, <1>1, <1>3, <1>4, <1>5, <2>1, <2>3, Moves
<1>7. CASE Stage("enriched", c, "cleared")
  <2> DEFINE v == [job["enriched"][c] EXCEPT !.st = "cleared"]
  <2>1. Put("enriched", c, v)
    BY <1>1, <1>7, StagePut DEF IInv
  <2>2. /\ v.st = "cleared" /\ v.tries = job["enriched"][c].tries
        /\ v.snap = job["enriched"][c].snap
    BY <1>1, <1>2, StageCell
  <2>3. Snap("enriched", c) \in Snaps /\ job["enriched"][c].snap = {Snap("enriched", c)}
        /\ (row.live => Snap("enriched", c).live)
    BY Zenon, <1>1, SnapFacts
  <2> HIDE DEF v
  <2>4. CellNext(v)
    BY Zenon, <1>2, <2>2, <2>3 DEF CellNext
  <2> QED BY Zenon, <1>1, <1>3, <1>4, <1>5, <2>1, <2>4, Moves
<1> QED BY Zenon, <1>6, <1>7 DEF Governed

\* Whether the handler carries a verdict is what its snapshot says.
LEMMA CarriesSnap ==
  ASSUME NEW c \in Slots, job["enriched"][c].st \in {"loaded", "audited"}
  PROVE  Carries(job["enriched"][c]) => Snap("enriched", c).pii = "yes"
BY DEF Carries, Snap

\* The remediation that the policy asks for.
LEMMA RemediateGovernedKeeps ==
  ASSUME BoundsAssumption, IInv, NEW c \in InUse,
         RemediateNothing(c) \/ RemediateFlag(c) \/ RemediatePrivateAudit(c)
  PROVE  IInv'
<1>1. c \in Slots /\ "enriched" \in Topics
  BY Zenon, InUseSlots DEF Topics, BackChannel
<1>2. CASE RemediateNothing(c)
  <2>1. ~(Wanted /\ Carries(job["enriched"][c]))
    BY <1>1, <1>2, CarriesSnap DEF RemediateNothing, Flagged, Wanted
  <2> QED BY SMTT(30), <1>1, <1>2, <2>1, GovernedMoves DEF RemediateNothing
<1>3. CASE RemediateFlag(c)
  BY <1>1, <1>3, GovernedMoves DEF RemediateFlag, Wanted
<1>4. CASE RemediatePrivateAudit(c)
  <2>1. row.live => row.private
    BY <1>1, <1>4, CellFacts DEF RemediatePrivateAudit, CellOK
  <2>2. ~Wanted
    BY <1>4, <2>1 DEF RemediatePrivateAudit, Wanted
  <2> QED BY <1>1, <1>4, <2>2, GovernedMoves DEF RemediatePrivateAudit
<1> QED BY <1>2, <1>3, <1>4

\* The first half of a remediation: the row is private, or the audit event written.
LEMMA RemediateHalfKeeps ==
  ASSUME BoundsAssumption, IInv, NEW c \in InUse, RemediatePrivate(c) \/ RemediateDropAudit(c)
  PROVE  IInv'
<1> DEFINE v == [job["enriched"][c] EXCEPT !.st = "audited"]
<1>1. c \in Slots /\ "enriched" \in Topics /\ "audited" \in Stages /\ "enriched" \notin LeadsToCheck
  BY InUseSlots DEF Topics, BackChannel, Stages, LeadsToCheck
<1>2. job["enriched"][c].st = "loaded" /\ Snap("enriched", c).pii = "yes"
      /\ Stage("enriched", c, "audited") /\ UNCHANGED <<config, locked>>
  BY DEF RemediatePrivate, RemediateDropAudit, Flagged
<1>3. Put("enriched", c, v)
  BY <1>1, <1>2, StagePut DEF IInv
<1>4. /\ v.st = "audited" /\ v.tries = job["enriched"][c].tries
      /\ v.tries <= config.env.tries /\ v.snap = job["enriched"][c].snap
  BY <1>1, CellFacts, StageCell
<1>5. Snap("enriched", c) \in Snaps /\ job["enriched"][c].snap = {Snap("enriched", c)}
      /\ (row.live => Snap("enriched", c).live)
  BY <1>1, <1>2, SnapFacts
<1> HIDE DEF v
<1>6. Carries(v)
  BY <1>2, <1>4, <1>5 DEF Carries
<1>7. /\ row' \in Rows /\ row'.live = row.live /\ row'.pii = row.pii /\ row'.dated = row.dated
      /\ row'.col = row.col /\ row'.emb = row.emb /\ (row.private => row'.private)
      /\ (config.policy = "private" /\ row.live => row'.private)
  <2>1. row \in Rows
    BY DEF IInv, Shapes
  <2>2. CASE RemediatePrivate(c)
    BY <2>1, <2>2, PrivateRow DEF RemediatePrivate, MemoryUpdate
  <2>3. CASE RemediateDropAudit(c)
    BY <2>1, <2>3 DEF RemediateDropAudit
  <2> QED BY <2>2, <2>3
<1>8. /\ ghost' \in Ghosts /\ (ghost.audited => ghost'.audited) /\ ghost'.dropped = ghost.dropped
      /\ ghost'.verdict = ghost.verdict /\ ghost'.lost = ghost.lost
      /\ ghost'.checked = ghost.checked /\ ghost'.runs = ghost.runs /\ ghost'.blind = ghost.blind
      /\ (config.policy = "drop" => ghost'.audited)
  <2>1. ghost \in Ghosts
    BY Zenon DEF IInv, Shapes
  <2>2. CASE RemediatePrivate(c)
    BY Zenon, <2>1, <2>2 DEF RemediatePrivate
  <2>3. CASE RemediateDropAudit(c)
    <3>1. ghost' = [ghost EXCEPT !.audited = TRUE]
      BY ZenonT(60), <2>3 DEF RemediateDropAudit
    <3> QED
      BY Zenon, <2>1, <3>1 DEF Ghosts
  <2> QED
    BY Zenon, <2>2, <2>3
<1>9. Onward /\ locked' \in BOOLEAN /\ Decided' /\ (Unchecked' => Unchecked)
  BY <1>2, <1>7, <1>8 DEF IInv, Shapes, Onward, Decided, Unchecked
<1>10. LockOK'
  BY Zenon, <1>2, <1>8, <1>9, LockStays DEF IInv
<1>11. CellNext(v)
  BY ZenonT(60), <1>2, <1>4, <1>5, <1>7, <1>8 DEF CellNext
<1> QED BY Zenon, <1>1, <1>3, <1>6, <1>7, <1>8, <1>9, <1>10, <1>11, Moves

\* The delete comes after the audit event.
LEMMA RemediateDropDeleteKeeps ==
  ASSUME BoundsAssumption, IInv, NEW c \in InUse, RemediateDropDelete(c)
  PROVE  IInv'
<1> DEFINE v == [job["enriched"][c] EXCEPT !.st = "done", !.snap = {}]
<1>1. c \in Slots /\ "enriched" \in Topics
  BY Zenon, InUseSlots DEF Topics, BackChannel
<1>2. Put("enriched", c, v)
  BY Zenon, <1>1, FinishPut DEF RemediateDropDelete, IInv
<1>3. v.st = "done" /\ v.tries = job["enriched"][c].tries /\ v.tries <= config.env.tries
  BY Zenon, <1>1, CellFacts DEF Cells
<1> HIDE DEF v
<1>4. ghost.audited
  BY Zenon, <1>1, CellFacts DEF RemediateDropDelete, CellOK
<1>5. /\ row' \in Rows /\ ~row'.live /\ row'.pii = row.pii /\ row'.dated = row.dated
      /\ row'.col = row.col /\ row'.private = row.private
  BY Zenon DEF RemediateDropDelete, IInv, Shapes, Rows
<1>6. /\ ghost' \in Ghosts /\ ghost'.audited = ghost.audited /\ ghost'.verdict = ghost.verdict
      /\ ghost'.lost = ghost.lost /\ ghost'.checked = ghost.checked
      /\ ghost'.runs = ghost.runs /\ ghost'.blind = ghost.blind
  BY Zenon DEF RemediateDropDelete, IInv, Shapes, Ghosts
<1>7. UNCHANGED <<config, locked>>
  BY Zenon DEF RemediateDropDelete
<1>8. Onward /\ locked' \in BOOLEAN /\ Decided' /\ ~Unchecked' /\ ~Wanted'
  BY Zenon, <1>4, <1>5, <1>6, <1>7 DEF IInv, Shapes, Onward, Decided, Unchecked, Wanted
<1>9. LockOK'
  BY Zenon, <1>6, <1>7, <1>8, LockStays DEF IInv
<1>10. CellNext(v)
  BY Zenon, <1>3, <1>7, PlainCell
<1> QED BY Zenon, <1>1, <1>2, <1>5, <1>6, <1>8, <1>9, <1>10, Moves

-----------------------------------------------------------------------------
(* Path A.                                                                   *)

\* What a detection that runs leaves in the ghost variable.
Ran(g, h, n) ==
  /\ h \in Ghosts /\ h.audited = g.audited /\ h.dropped = g.dropped
  /\ h.verdict = g.verdict /\ h.lost = g.lost /\ h.runs = n
  /\ h.blind \/ h.checked # {}

\* A run of the detection, blind or on the vectors it saw.
LEMMA GhostCompared ==
  ASSUME NEW g \in Ghosts, NEW h, NEW n \in Nat, NEW y \in SUBSET Versions, y # {},
         \/ h = [g EXCEPT !.blind = TRUE, !.runs = n]
         \/ h = [g EXCEPT !.checked = y, !.runs = n]
  PROVE  Ran(g, h, n)
<1>1. CASE h = [g EXCEPT !.blind = TRUE, !.runs = n]
  BY Zenon, <1>1 DEF Ghosts, Ran
<1>2. CASE h = [g EXCEPT !.checked = y, !.runs = n]
  BY Zenon, <1>2 DEF Ghosts, Ran
<1> QED BY Zenon, <1>1, <1>2

\* Whatever becomes of a detection, the check is no longer owed after it: the
\* caller that found the lock taken can rely on the one that took it.
LEMMA DetectSettles ==
  ASSUME BoundsAssumption, IInv, NEW seen, NEW emb, seen.content \in Versions,
         row.live => seen.live, Detect(seen, emb), UNCHANGED <<row, config>>
  PROVE  /\ ghost' \in Ghosts /\ locked' \in BOOLEAN
         /\ ghost'.audited = ghost.audited /\ ghost'.dropped = ghost.dropped
         /\ ghost'.verdict = ghost.verdict /\ ghost.lost \subseteq ghost'.lost
         /\ LockOK' /\ ~Unchecked'
<1>1. ghost \in Ghosts /\ locked \in BOOLEAN /\ ghost.runs \in Nat
  BY Zenon DEF IInv, Shapes, Ghosts
<1>2. CASE locked /\ UNCHANGED <<locked, ghost>>
  BY Zenon, <1>1, <1>2 DEF IInv, LockOK, Unchecked
<1>3. CASE (~locked \/ config.env.redisFails) /\ locked' = TRUE /\ ghost' = Compared(seen, emb)
  <2>1. Ran(ghost, ghost', ghost.runs + 1)
    <3>0. PICK n \in Nat : n = ghost.runs + 1
      BY <1>1
    <3>1. CASE emb = NoVector
      <4>1. ghost' = [ghost EXCEPT !.blind = TRUE, !.runs = n]
        BY Zenon, <1>3, <3>0, <3>1 DEF Compared
      <4>2. {seen.content} \in SUBSET Versions /\ {seen.content} # {}
        BY Zenon
      <4> QED BY Zenon, <1>1, <3>0, <4>1, <4>2, GhostCompared
    <3>2. CASE emb # NoVector
      <4>1. PICK y \in SUBSET Versions : y = ghost.checked \cup {seen.content}
        BY ZenonT(60), <1>1 DEF Ghosts
      <4>2. ghost' = [ghost EXCEPT !.checked = y, !.runs = n]
        BY Zenon, <1>3, <3>0, <3>2, <4>1 DEF Compared
      <4>3. y # {}
        BY Zenon, <4>1
      <4> QED BY Zenon, <1>1, <3>0, <4>2, <4>3, GhostCompared
    <3> QED BY Zenon, <3>1, <3>2
  <2>2. ~Unchecked'
    BY Zenon, <2>1 DEF Unchecked, Ran
  <2>3. LockOK'
    BY <1>1, <1>3, <2>1 DEF IInv, LockOK, Ran
  <2> QED BY Zenon, <1>3, <2>1, <2>2, <2>3 DEF Ran
<1>4. CASE (~locked \/ config.env.redisFails) /\ locked' = TRUE /\ Lost("detect")
  <2>1. /\ ghost' \in Ghosts /\ ghost'.audited = ghost.audited /\ ghost'.dropped = ghost.dropped
        /\ ghost'.verdict = ghost.verdict /\ ghost'.lost = ghost.lost \cup {"detect"}
        /\ ghost'.runs = ghost.runs
    BY Zenon, <1>1, <1>4 DEF Lost, Ghosts
  <2>2. ~Unchecked' /\ LockOK'
    BY Zenon, <1>1, <1>4, <2>1 DEF IInv, LockOK, Unchecked
  <2> QED BY Zenon, <1>4, <2>1, <2>2
<1>5. CASE (~locked \/ config.env.redisFails) /\ locked' = TRUE /\ ~seen.live /\ UNCHANGED ghost
  BY Zenon, <1>1, <1>5 DEF IInv, LockOK, Unchecked
<1> QED BY Zenon, <1>2, <1>3, <1>4, <1>5 DEF Detect

\* The detection on a row that was read.
LEMMA DetectLoadedKeeps ==
  ASSUME BoundsAssumption, IInv, NEW t \in BackChannel, NEW c \in InUse, DetectLoaded(t, c)
  PROVE  IInv'
<1> DEFINE v == [job[t][c] EXCEPT !.st = "done", !.snap = {}]
<1>1. c \in Slots /\ t \in Topics /\ t # "enrich"
  BY Zenon, InUseSlots DEF Topics, BackChannel
<1>2. Put(t, c, v)
  BY Zenon, <1>1, FinishPut DEF DetectLoaded, IInv
<1>3. v.st = "done" /\ v.tries = job[t][c].tries /\ v.tries <= config.env.tries
  BY Zenon, <1>1, CellFacts DEF Cells
<1> HIDE DEF v
<1>4. Snap(t, c).content \in Versions /\ (row.live => Snap(t, c).live)
  BY Zenon, <1>1, SnapFacts DEF DetectLoaded, Snaps
<1>5. /\ ghost' \in Ghosts /\ locked' \in BOOLEAN
      /\ ghost'.audited = ghost.audited /\ ghost'.dropped = ghost.dropped
      /\ ghost'.verdict = ghost.verdict /\ ghost.lost \subseteq ghost'.lost
      /\ LockOK' /\ ~Unchecked' /\ UNCHANGED <<row, config>>
  BY Zenon, <1>4, DetectSettles DEF DetectLoaded
<1>6. Onward /\ row' \in Rows /\ Decided' /\ (Wanted' => Wanted)
  BY Zenon, <1>5 DEF IInv, Shapes, Onward, Decided, Wanted
<1>7. CellNext(v)
  BY Zenon, <1>3, <1>5, PlainCell
<1>8. ~Carries(job[t][c])
  BY ZenonT(60) DEF DetectLoaded, Carries
<1> QED BY Zenon, <1>1, <1>2, <1>5, <1>6, <1>7, <1>8, Moves

\* The detection that the write path starts itself.
LEMMA DetectDirectKeeps ==
  ASSUME BoundsAssumption, IInv, NEW c \in InUse, DetectDirect(c)
  PROVE  IInv'
<1> DEFINE v == [job["direct"][c] EXCEPT !.st = "done"]
<1>1. c \in Slots /\ "direct" \in Topics /\ "done" \in Stages
  BY InUseSlots DEF Topics, Stages
<1>2. Put("direct", c, v)
  BY <1>1, StagePut DEF DetectDirect, IInv
<1>3. v.st = "done" /\ v.tries = job["direct"][c].tries /\ v.tries <= config.env.tries
  BY <1>1, CellFacts, StageCell
<1> HIDE DEF v
<1>4. row.content \in Versions
  BY DEF IInv, Shapes, Rows
<1>5. /\ ghost' \in Ghosts /\ locked' \in BOOLEAN
      /\ ghost'.audited = ghost.audited /\ ghost'.dropped = ghost.dropped
      /\ ghost'.verdict = ghost.verdict /\ ghost.lost \subseteq ghost'.lost
      /\ LockOK' /\ ~Unchecked' /\ UNCHANGED <<row, config>>
  BY SMTT(30), <1>4, DetectSettles DEF DetectDirect
<1>6. Onward /\ row' \in Rows /\ Decided' /\ (Wanted' => Wanted)
  BY SMTT(30), <1>5 DEF IInv, Shapes, Onward, Decided, Wanted
<1>7. CellNext(v)
  BY <1>3, <1>5, PlainCell
<1> QED BY <1>1, <1>2, <1>5, <1>6, <1>7, Moves

\* Nothing happens to the deliveries.
LEMMA LockExpiresKeeps ==
  ASSUME IInv, LockExpires
  PROVE  IInv'
<1>1. /\ UNCHANGED <<row, job, config, ghost>> /\ locked' = FALSE /\ config.env.lockExpires
  BY DEF LockExpires
<1>2. Shapes'
  BY Zenon, <1>1 DEF IInv, Shapes
<1>3. Decided' /\ LockOK'
  BY <1>1 DEF IInv, Decided, LockOK
<1>4. Compare'
  BY ZenonT(60), <1>1 DEF IInv, Compare, Unchecked, BusyCell
<1>5. Enforce'
  BY <1>1 DEF IInv, Enforce, Wanted, BusyCell, Carries
<1>6. Onward
  BY <1>1 DEF Onward
<1> QED BY <1>1, <1>2, <1>3, <1>4, <1>5, <1>6, CellsStay DEF IInv

-----------------------------------------------------------------------------
(* The user.                                                                 *)

\* The user deletes the row or changes a column.
LEMMA RowOnlyKeeps ==
  ASSUME IInv, SoftDelete \/ UpdateColumn
  PROVE  IInv'
<1>1. UNCHANGED <<job, config, locked, ghost>>
  BY DEF SoftDelete, UpdateColumn
<1>2. /\ row' \in Rows /\ (row'.live => row.live) /\ row'.private = row.private
      /\ row'.pii = row.pii /\ row'.dated = row.dated /\ row'.emb = row.emb
      /\ row'.col \in {row.col, "user"}
  BY ZenonT(60) DEF SoftDelete, UpdateColumn, IInv, Shapes, Rows
<1>3. Onward /\ Shapes' /\ Decided' /\ (Unchecked' => Unchecked) /\ (Wanted' => Wanted)
  BY Zenon, <1>1, <1>2 DEF IInv, Shapes, Onward, Decided, Unchecked, Wanted
<1>4. LockOK' /\ CellsOK'
  BY Zenon, <1>1, <1>3, LockStays, CellsStay DEF IInv
<1>5. Compare'
  BY Zenon, <1>1, <1>3 DEF IInv, Compare, BusyCell
<1>6. Enforce'
  BY Zenon, <1>1, <1>3 DEF IInv, Enforce, BusyCell, Carries
<1> QED BY Zenon, <1>3, <1>4, <1>5, <1>6 DEF IInv

\* The user changes the content.
LEMMA UpdateContentKeeps ==
  ASSUME BoundsAssumption, IInv, NEW c \in InUse, NEW embedded \in BOOLEAN,
         UpdateContent(c, embedded)
  PROVE  IInv'
<1> DEFINE n == IF embedded THEN row.content + 1 ELSE NoVector
           v == Job("queued", n)
<1>1. c \in Slots /\ "direct" \in Topics /\ "direct" \in LeadsToCheck
  BY Zenon, InUseSlots DEF Topics, LeadsToCheck
<1>2. row.content + 1 \in Versions
  <2>1. config.env.contents \in Nat /\ 1..config.env.contents \subseteq Versions
    BY Zenon, EnvFacts DEF IInv, Shapes
  <2>2. row.content \in Nat \ {0}
    BY VersionsPositive DEF IInv, Shapes, Rows
  <2> QED BY <2>1, <2>2 DEF UpdateContent
<1>3. v \in Cells /\ v.st = "queued" /\ v.tries = 0
  BY <1>2 DEF Job, Cells, Stages
<1>4. job' = [job EXCEPT !["direct"][c] = v]
  BY Zenon DEF UpdateContent
<1> HIDE DEF v, n
<1>5. Put("direct", c, v)
  BY Zenon, <1>1, <1>3, <1>4, PutOne DEF IInv
<1>6. UNCHANGED <<config, locked, ghost>>
  BY Zenon DEF UpdateContent
<1>7. /\ row' \in Rows /\ row'.live = row.live /\ row'.private = row.private
      /\ row'.pii = row.pii /\ row'.dated = row.dated /\ row'.col = row.col
  <2>1. PICK k \in Versions : k = row.content + 1
    BY <1>2
  <2>2. PICK e \in Versions \cup {NoVector} : e = IF embedded THEN k ELSE row.emb
    BY DEF IInv, Shapes, Rows
  <2>3. row' = [row EXCEPT !.content = k, !.emb = e]
    BY Zenon, <2>1, <2>2 DEF UpdateContent
  <2> QED BY Zenon, <2>3 DEF IInv, Shapes, Rows
<1>8. Onward /\ ghost' \in Ghosts /\ locked' \in BOOLEAN /\ Decided' /\ (Wanted' => Wanted)
  BY Zenon, <1>6, <1>7 DEF IInv, Shapes, Onward, Decided, Wanted
<1>9. LockOK'
  BY Zenon, <1>6, <1>8, LockStays DEF IInv
<1>10. config.env.tries \in Nat
  BY Zenon, EnvFacts DEF IInv, Shapes
<1>11. CellNext(v) /\ BusyCell(v)
  BY <1>3, <1>6, <1>10, PlainCell DEF BusyCell
<1> QED BY Zenon, <1>1, <1>5, <1>7, <1>8, <1>9, <1>11, Moves

-----------------------------------------------------------------------------
\* A row just written, its requests under way.
LEMMA InitHolds == ASSUME BoundsAssumption, Init PROVE IInv
<1>1. PICK res \in Results, emb \in {NoVector, 1} :
        /\ ~Refused(config, res)
        /\ row = FirstRow(config, res, emb) /\ job = Scheduled(config, emb)
        /\ ghost = [verdict |-> [pii |-> row.pii, dated |-> row.dated],
                    audited |-> res.pii = "yes" /\ config.policy # "off",
                    dropped |-> FALSE, lost |-> {}, checked |-> {}, blind |-> FALSE, runs |-> 0]
  BY ZenonT(60) DEF Init
<1>2. config \in Configs /\ locked = FALSE
  BY Zenon DEF Init
<1>3. /\ 1 \in Versions /\ 1 \in Slots /\ config.env.tries \in Nat
      /\ config.policy \in {"off", "drop", "flag", "private"} /\ config.agentSet \in BOOLEAN
  BY <1>2, EnvFacts DEF BoundsAssumption, Slots
<1>4. res.kind \in {"llm", "heur"} /\ res.pii \in {"yes", "no"} /\ res.dated \in BOOLEAN
  <2>1. CASE res \in [kind : {"llm"}, pii : {"yes", "no"}, dated : BOOLEAN]
    BY Zenon, <2>1
  <2>2. CASE res = [kind |-> "heur", pii |-> "no", dated |-> FALSE]
    BY <2>2
  <2> QED BY Zenon, <2>1, <2>2 DEF Results
<1>5. FirstColumn(config, res) \in {"agent", "llm", "heur", "default"}
      /\ (config.agentSet => FirstColumn(config, res) = "agent")
  BY <1>4 DEF FirstColumn
<1>6. /\ row \in Rows /\ row.col = FirstColumn(config, res) /\ row.emb = emb
      /\ (row.pii = "yes" => res.pii = "yes")
      /\ row.private = (res.pii = "yes" /\ config.policy = "private")
  BY ZenonT(60), <1>1, <1>3, <1>4, <1>5 DEF FirstRow, Rows, Signals
<1>7. \A t \in Topics, c \in Slots :
        /\ job[t][c] \in Cells /\ job[t][c].tries = 0
        /\ job[t][c].st \in {"none", "queued"}
        /\ t = "direct" /\ c = 1 /\ emb # NoVector => job[t][c].st = "queued"
  <2>1. NoJob \in Cells /\ NoJob.tries = 0 /\ NoJob.st = "none"
    BY Zenon DEF NoJob, Job, Cells, Stages
  <2>2. Job("queued", 1) \in Cells /\ Job("queued", 1).tries = 0 /\ Job("queued", 1).st = "queued"
    BY Zenon, <1>3 DEF Job, Cells, Stages
  <2> QED BY Zenon, <1>1, <2>1, <2>2 DEF Scheduled
<1>8. job \in [Topics -> [Slots -> Cells]]
  BY ZenonT(60), <1>1, <1>7 DEF Scheduled
<1>9. ghost \in Ghosts /\ ghost.verdict = [pii |-> row.pii, dated |-> row.dated] /\ ~ghost.dropped
      /\ ghost.runs = 0
  BY Zenon, <1>1, <1>4, <1>6 DEF Ghosts, Rows
<1>10. Shapes
  BY ZenonT(60), <1>2, <1>6, <1>8, <1>9 DEF Shapes
<1>11. CellsOK
  BY SMTT(30), <1>3, <1>7 DEF CellsOK, CellOK, Holds
<1>12. Decided /\ LockOK
  BY <1>2, <1>5, <1>6, <1>9 DEF Decided, LockOK
<1>13. Compare
  BY ZenonT(60), <1>3, <1>6, <1>7 DEF Compare, Unchecked, BusyCell, LeadsToCheck, Topics
<1>14. Enforce
  BY Zenon, <1>1, <1>6 DEF Enforce, Wanted, Refused
<1> QED BY Zenon, <1>10, <1>11, <1>12, <1>13, <1>14 DEF IInv

\* Every step keeps the invariant.
LEMMA NextKeeps == ASSUME BoundsAssumption, IInv, Next PROVE IInv'
<1>1. CASE User
  BY Zenon, <1>1, RowOnlyKeeps, UpdateContentKeeps DEF User
<1>2. CASE Faults
  BY Zenon, <1>2, PublishLostKeeps, RedeliverKeeps, EmbedDroppedKeeps, BackfillKeeps, NackKeeps,
     LockExpiresKeeps DEF Faults
<1>3. ASSUME NEW c \in InUse, Worker(c) PROVE IInv'
  <2>1. "embed" \in Requests /\ "enrich" \in Requests /\ "embedded" \in BackChannel
        /\ "enriched" \in BackChannel
    BY Zenon DEF Requests, BackChannel
  <2> QED BY Zenon, <1>3, <2>1, ComputeKeeps, EmbedPatchKeeps, EnrichPatchKeeps, AnnounceKeeps DEF Worker
<1>4. ASSUME NEW c \in InUse, Consumer(c) PROVE IInv'
  BY Zenon, <1>4, LoadKeeps, DetectLoadedKeeps, RemediateGovernedKeeps, RemediateHalfKeeps,
     RemediateDropDeleteKeeps, DetectDirectKeeps DEF Consumer
<1> QED BY <1>1, <1>2, <1>3, <1>4 DEF Next

\* A stuttering step.
LEMMA StutterKeeps == ASSUME IInv, UNCHANGED vars PROVE IInv'
<1>1. UNCHANGED <<row, job, config, locked, ghost>>
  BY DEF vars
<1>2. Shapes' /\ Onward
  BY <1>1 DEF IInv, Shapes, Onward
<1>3. Decided' /\ LockOK'
  BY <1>1 DEF IInv, Decided, LockOK
<1>4. Compare'
  BY <1>1 DEF IInv, Compare, Unchecked, BusyCell
<1>5. Enforce'
  BY ZenonT(60), <1>1 DEF IInv, Enforce, Wanted, BusyCell, Carries
<1> QED BY <1>1, <1>2, <1>3, <1>4, <1>5, CellsStay DEF IInv

\* Once everything is quiet no debt can be covered, so none is left.
LEMMA DecidedWhenQuiet == ASSUME BoundsAssumption, IInv PROVE RowDecided
<1>1. TypeOK
  <2>1. \A t \in Topics, c \in Slots :
          /\ job[t][c].st \in Stages /\ job[t][c].tries \in 0..config.env.tries
          /\ job[t][c].ver \in Versions \cup {NoVector} /\ job[t][c].snap \subseteq Snaps
    <3> SUFFICES ASSUME NEW t \in Topics, NEW c \in Slots
                 PROVE  /\ job[t][c].st \in Stages /\ job[t][c].tries \in 0..config.env.tries
                        /\ job[t][c].ver \in Versions \cup {NoVector} /\ job[t][c].snap \subseteq Snaps
      OBVIOUS
    <3>1. config.env.tries \in Nat
      BY EnvFacts DEF IInv, Shapes
    <3> QED BY <3>1, CellFacts DEF Cells
  <2> QED BY Zenon, <2>1 DEF TypeOK, IInv, Shapes, Ghosts
<1>2. FieldsSurvive
  BY Zenon, <1>1 DEF FieldsSurvive, IInv, Decided
<1>3. PathAExactlyOnce
  <2>1. Quiet => ~Unchecked
    BY Zenon DEF Quiet, Busy, BusyCell, IInv, Compare, LeadsToCheck, Topics, Requests, BackChannel
  <2>2. config.env.redisFails \/ config.env.lockExpires \/ ghost.runs <= 1
    BY DEF IInv, LockOK
  <2> QED BY Zenon, <2>1, <2>2 DEF PathAExactlyOnce, Unchecked
<1>4. PolicyApplied
  <2>1. Quiet => ~Wanted
    BY Zenon DEF Quiet, Busy, BusyCell, Carries, IInv, Enforce, Topics, Requests, BackChannel
  <2> QED BY Zenon, <2>1 DEF PolicyApplied, Wanted, IInv, Decided
<1> QED BY <1>2, <1>3, <1>4 DEF RowDecided

\* In whatever order, however often and however late embedding and enrichment
\* arrive, a row keeps what was decided about it: agent columns and LLM verdicts
\* survive, the contradiction check runs once and is not forgotten, and the
\* governance policy has been carried out and audited once everything is quiet.
THEOREM RowIsDecided == Spec => []RowDecided
<1>1. Init => IInv
  BY BoundsAssumption, InitHolds
<1>2. IInv /\ [Next]_vars => IInv'
  BY BoundsAssumption, NextKeeps, StutterKeeps
<1>3. IInv => RowDecided
  BY BoundsAssumption, DecidedWhenQuiet
<1> QED BY <1>1, <1>2, <1>3, PTL DEF Spec

\* No late PATCH of the worker or of governance changes or resurrects a
\* soft-deleted row (memory_update answers 404).
THEOREM DeletedRowIsFrozen == Spec => DeletedRowFrozen
<1>1. Init => IInv
  BY BoundsAssumption, InitHolds
<1>2. IInv /\ [Next]_vars => IInv'
  BY BoundsAssumption, NextKeeps, StutterKeeps
<1>3. IInv /\ [Next]_vars => [~row.live => row' = row]_vars
  <2> SUFFICES ASSUME row \in Rows, Next, ~row.live PROVE row' = row
    BY DEF IInv, Shapes
  <2>1. [row EXCEPT !.live = FALSE] = row
    BY Zenon DEF Rows
  <2>2. CASE User
    BY Zenon, <2>2 DEF User, SoftDelete, UpdateColumn, UpdateContent
  <2>3. CASE Faults
    BY Zenon, <2>3 DEF Faults, PublishLost, Redeliver, EmbedDropped, Backfill, Nack, LockExpires
  <2>4. ASSUME NEW c \in InUse, Worker(c) PROVE row' = row
    BY Zenon, <2>4 DEF Worker, EmbedCompute, EmbedPatch, Announce, EnrichCompute, EnrichPatch, MemoryUpdate
  <2>5. ASSUME NEW c \in InUse, Consumer(c) PROVE row' = row
    BY Zenon, <2>1, <2>5 DEF Consumer, Load, DetectLoaded, RemediateNothing, RemediateFlag, RemediatePrivate,
       RemediatePrivateAudit, RemediateDropAudit, RemediateDropDelete, DetectDirect, MemoryUpdate
  <2> QED BY <2>2, <2>3, <2>4, <2>5 DEF Next
<1> QED BY <1>1, <1>2, <1>3, PTL DEF Spec, DeletedRowFrozen
=============================================================================
