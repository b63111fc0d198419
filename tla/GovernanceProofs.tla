-------------------------- MODULE GovernanceProofs --------------------------
(***************************************************************************)
(* What holds of agents and keystone rules for every set of installs, names *)
(* and calls: an agent keeps its owner and its trust, and a rule is         *)
(* replaced or removed by a caller whose trust met its floor.               *)
(***************************************************************************)
EXTENDS Governance, TLAPS

-----------------------------------------------------------------------------
(* Agents.  A registration past the gate carries no label but its own, and  *)
(* the rows of labels are owned by nobody else; primary keys are never used  *)
(* twice, so that a row found again under its key is the row that was read.  *)

\* What TLA+'s sequences give the steps of several callers below.
LEMMA SeqElements ==
  ASSUME NEW S, NEW q \in Seq(S)
  PROVE  Len(q) \in Nat /\ \A i \in 1..Len(q) : q[i] \in S
OBVIOUS

\* An entry added at the end of a history.
LEMMA SeqAppend ==
  ASSUME NEW S, NEW q \in Seq(S), NEW e \in S
  PROVE  LET r == Append(q, e)
         IN  r \in Seq(S) /\ Len(r) = Len(q) + 1 /\ \A i \in 1..Len(q) : r[i] = q[i]
OBVIOUS

Owner == Installs \cup {NoInstall}
Row == [pk : Nat, owner : Owner, inst : Owner, trust : Nat, fleet : Fleets \cup {Unassigned},
        prof : SUBSET STRING]
\* What agent_add is given.
Data == [fleet : Fleets \cup {Unassigned}, inst : Owner, owner : Owner, hasTrust : BOOLEAN, trust : Nat,
         prof : SUBSET STRING]
RegPc == {"new", "gate", "get", "backfill", "legacy", "create", "recheck", "done", "failed"}
RegStates ==
    [pc : RegPc, q : Registrations, id : Ids, row : Row, legacy : Row, degraded : BOOLEAN,
     stored : Owner, local : BOOLEAN]
OpStates == [pc : {"new", "404", "act", "done"}, q : AgentCalls, row : Row]

AType ==
    /\ agents \in [Ids -> Row] /\ pks \in Nat
    /\ regs \in [DOMAIN regs -> RegStates]
    /\ aops \in [DOMAIN aops -> OpStates]

Bound(g) == Broker(g) /\ Install(g) # NoInstall

\* What registration g has established when it is at its pc.
AGood(g) ==
    /\ regs[g].row.pk <= pks
    /\ regs[g].pc # "new" /\ Bound(g) /\ IsLabel(regs[g].id) => regs[g].id = Label(Install(g))
    /\ regs[g].degraded => Bound(g) /\ regs[g].id = Label(Install(g)) /\ regs[g].pc \notin {"new", "gate"}
    /\ regs[g].pc = "gate" => Bound(g)
    /\ regs[g].pc = "backfill" =>
          /\ regs[g].row.pk # 0
          /\ regs[g].row.owner = NoInstall => regs[g].local
          /\ regs[g].row.owner # NoInstall /\ agents[regs[g].id].pk = regs[g].row.pk =>
                agents[regs[g].id].owner = regs[g].row.owner
    /\ regs[g].pc = "recheck" /\ Bound(g) =>
          regs[g].local \/ (regs[g].stored = regs[g].row.owner /\ regs[g].row.owner # NoInstall)
    /\ regs[g].pc \in {"backfill", "recheck"} /\ regs[g].degraded =>
          regs[g].row.owner \in {NoInstall, Install(g)}
    /\ regs[g].pc = "done" /\ Bound(g) => regs[g].local \/ regs[g].stored = Install(g)

LabelsOwned == \A i \in Installs : agents[Label(i)].owner \in {NoInstall, i}

AInv ==
    /\ AType
    /\ \A a \in Ids : agents[a].pk <= pks
    /\ LabelsOwned
    /\ \A g \in DOMAIN regs : AGood(g)

(* What a step may do to the agents table. *)
Evolves ==
    /\ pks' \in Nat /\ pks <= pks'
    /\ \A a \in Ids :
          /\ agents'[a].pk <= pks'
          /\ agents'[a].pk \in {0, agents[a].pk} \/ pks < agents'[a].pk
          /\ agents[a].pk # 0 /\ agents'[a].pk = agents[a].pk =>
                /\ agents[a].owner # NoInstall => agents'[a].owner = agents[a].owner
                /\ agents[a].inst # NoInstall => agents'[a].inst = agents[a].inst

\* The absent row is a row.
LEMMA NoRowType == NoRow \in Row
BY Zenon DEF NoRow, Row, Owner

\* The upsert keeps the key, fills owner and install once, moves the trust when told to.
LEMMA MergedRow ==
  ASSUME NEW row \in Row, NEW data \in Data
  PROVE  /\ Merged(row, data) \in Row
         /\ Merged(row, data).pk = row.pk
         /\ Merged(row, data).owner = IF row.owner = NoInstall THEN data.owner ELSE row.owner
         /\ Merged(row, data).inst = IF row.inst = NoInstall THEN data.inst ELSE row.inst
         /\ Merged(row, data).trust = IF data.hasTrust THEN data.trust ELSE row.trust
BY ZenonT(60) DEF Merged, Row, Data

(* What a call of agent_add stores. *)
LEMMA AddedRow ==
  ASSUME AType, NEW a \in Ids, NEW data \in Data
  PROVE  /\ agent_add(a, data) \in Row
         /\ agents[a].pk = 0 => agent_add(a, data).pk = pks + 1 /\ agent_add(a, data).owner = data.owner
         /\ agents[a].pk # 0 =>
               /\ agent_add(a, data).pk = agents[a].pk
               /\ agent_add(a, data).owner = IF agents[a].owner = NoInstall THEN data.owner ELSE agents[a].owner
               /\ agent_add(a, data).inst = IF agents[a].inst = NoInstall THEN data.inst ELSE agents[a].inst
               /\ agent_add(a, data).trust = IF data.hasTrust THEN data.trust ELSE agents[a].trust
<1>1. agents[a] \in Row /\ pks \in Nat
  BY Zenon DEF AType
<1>2. CASE agents[a].pk = 0
  BY <1>1, <1>2 DEF agent_add, Row, Data
<1>3. CASE agents[a].pk # 0
  BY Zenon, <1>1, <1>3, MergedRow DEF agent_add
<1> QED
  BY Zenon, <1>2, <1>3

\* A stored row is one the table may evolve to.
LEMMA StoredEvolves ==
  ASSUME AInv, NEW a \in Ids, NEW data \in Data, Stored(a, data)
  PROVE  Evolves /\ agents' \in [Ids -> Row]
<1>1. agents \in [Ids -> Row] /\ pks \in Nat /\ \A b \in Ids : agents[b] \in Row /\ agents[b].pk \in Nat
  BY DEF AInv, AType, Row
<1>2. agents' = [agents EXCEPT ![a] = agent_add(a, data)] /\ pks' = IF agents[a].pk = 0 THEN pks + 1 ELSE pks
  BY DEF Stored
<1>3. agents' \in [Ids -> Row] /\ agents'[a] = agent_add(a, data) /\ \A b \in Ids : b # a => agents'[b] = agents[b]
  BY Zenon, <1>1, <1>2, AddedRow DEF AInv
<1>4. ASSUME NEW b \in Ids
      PROVE  /\ agents'[b].pk <= pks'
             /\ agents'[b].pk \in {0, agents[b].pk} \/ pks < agents'[b].pk
             /\ agents[b].pk # 0 /\ agents'[b].pk = agents[b].pk =>
                  /\ agents[b].owner # NoInstall => agents'[b].owner = agents[b].owner
                  /\ agents[b].inst # NoInstall => agents'[b].inst = agents[b].inst
  <2>1. CASE b # a
    BY <2>1, <1>1, <1>2, <1>3 DEF AInv
  <2>2. CASE b = a /\ agents[a].pk = 0
    BY <2>2, <1>1, <1>2, <1>3, AddedRow DEF AInv
  <2>3. CASE b = a /\ agents[a].pk # 0
    BY ZenonT(60), <2>3, <1>1, <1>2, <1>3, AddedRow DEF AInv
  <2> QED
    BY Zenon, <2>1, <2>2, <2>3
<1> QED
  BY <1>1, <1>2, <1>3, <1>4 DEF Evolves

\* A step that leaves the table alone.
LEMMA EvolvesStutter ==
  ASSUME AInv, UNCHANGED <<agents, pks>>
  PROVE  Evolves /\ agents' \in [Ids -> Row] /\ LabelsOwned'
BY DEF AInv, AType, Evolves, LabelsOwned

(* A registration that does not move keeps what it established. *)
LEMMA OthersKeep ==
  ASSUME AInv, Evolves, NEW h \in DOMAIN regs, regs'[h] = regs[h]
  PROVE  AGood(h)'
<1>1. /\ regs[h] \in RegStates /\ regs[h].id \in Ids /\ regs[h].row.pk \in Nat
      /\ pks \in Nat /\ agents[regs[h].id].pk \in Nat
  BY Zenon DEF AInv, AType, RegStates, Row
<1>2. AGood(h)
  BY DEF AInv
<1>3. regs'[h].row.pk <= pks'
  BY <1>1, <1>2 DEF AGood, Evolves
<1>4. ASSUME regs[h].pc = "backfill", regs[h].row.owner # NoInstall, agents'[regs[h].id].pk = regs[h].row.pk
      PROVE  agents'[regs[h].id].owner = regs[h].row.owner
  <2> DEFINE a == regs[h].id
  <2>1. regs[h].row.pk # 0 /\ regs[h].row.pk <= pks
    BY Zenon, <1>2, <1>4 DEF AGood
  <2>2. agents'[a].pk = agents[a].pk
    BY <2>1, <1>1, <1>4 DEF Evolves
  <2>3. agents[a].owner = regs[h].row.owner
    BY Zenon, <2>2, <1>2, <1>4 DEF AGood
  <2> QED
    BY Zenon, <2>1, <2>2, <2>3, <1>1, <1>4 DEF Evolves
<1> QED
  BY ZenonT(60), <1>2, <1>3, <1>4 DEF AGood, Bound, Broker, Install

\* A step of one registration keeps the invariant if its own record stays in order.
LEMMA ARegStep ==
  ASSUME AInv, Evolves, agents' \in [Ids -> Row], LabelsOwned', UNCHANGED aops,
         NEW g \in DOMAIN regs, NEW r \in RegStates, regs' = [regs EXCEPT ![g] = r], AGood(g)'
  PROVE  AInv'
<1>1. /\ DOMAIN regs' = DOMAIN regs /\ regs' \in [DOMAIN regs -> RegStates]
      /\ \A h \in DOMAIN regs : h # g => regs'[h] = regs[h]
  BY Zenon DEF AInv, AType
<1>2. ASSUME NEW h \in DOMAIN regs PROVE AGood(h)'
  <2>1. CASE h = g
    BY <2>1
  <2>2. CASE h # g
    BY <2>2, <1>1, OthersKeep
  <2> QED
    BY <2>1, <2>2
<1>3. AType'
  BY <1>1 DEF AInv, AType, Evolves
<1>4. \A a \in Ids : agents'[a].pk <= pks'
  BY Zenon DEF Evolves
<1> QED
  BY Zenon, <1>1, <1>2, <1>3, <1>4 DEF AInv

\* A step of one administrative call, in the same way.
LEMMA AOpStep ==
  ASSUME AInv, Evolves, agents' \in [Ids -> Row], LabelsOwned', UNCHANGED regs,
         aops' \in [DOMAIN aops -> OpStates]
  PROVE  AInv'
<1>1. ASSUME NEW h \in DOMAIN regs PROVE AGood(h)'
  BY Zenon, OthersKeep
<1>2. AType'
  BY Zenon DEF AInv, AType, Evolves
<1>3. \A a \in Ids : agents'[a].pk <= pks'
  BY Zenon DEF Evolves
<1> QED
  BY Zenon, <1>1, <1>2, <1>3 DEF AInv

\* The table at the start.
LEMMA AInit == GInit => AInv
<1> SUFFICES ASSUME GInit PROVE AInv
  OBVIOUS
<1>1. /\ gscene \in GScenes /\ AgentsInit(gscene)
  BY DEF GInit
<1>2. /\ gscene.known \subseteq Ids /\ gscene.trust \in Nat
      /\ gscene.regs \in Seq(Registrations) /\ gscene.aops \in Seq(AgentCalls)
  BY Zenon, <1>1, SceneAssumption
<1>3. /\ \A g \in 1..Len(gscene.regs) : gscene.regs[g] \in Registrations
      /\ \A o \in 1..Len(gscene.aops) : gscene.aops[o] \in AgentCalls
  BY Zenon, <1>2, SeqElements
<1>4. /\ agents \in [Ids -> Row]
      /\ \A a \in Ids : agents[a].pk \in {0, 1} /\ agents[a].owner = NoInstall
  <2> DEFINE known == [NoRow EXCEPT !.pk = 1, !.trust = gscene.trust]
  <2>1. known \in Row /\ known.pk = 1 /\ known.owner = NoInstall
    BY Zenon, <1>2, NoRowType DEF Row, NoRow
  <2>2. NoRow.pk = 0 /\ NoRow.owner = NoInstall
    BY Zenon DEF NoRow
  <2>3. agents = [a \in Ids |-> IF a \in gscene.known THEN known ELSE NoRow]
    BY Zenon, <1>1 DEF AgentsInit
  <2> HIDE DEF known
  <2> QED
    BY Zenon, <2>1, <2>2, <2>3, NoRowType
<1>5. /\ regs \in [DOMAIN regs -> RegStates]
      /\ \A g \in DOMAIN regs : regs[g].pc = "new" /\ ~regs[g].degraded /\ regs[g].row = NoRow
  <2> DEFINE e(g) == [pc |-> "new", q |-> gscene.regs[g], id |-> gscene.regs[g].name, row |-> NoRow,
                      legacy |-> NoRow, degraded |-> FALSE, stored |-> NoInstall, local |-> FALSE]
  <2>1. ASSUME NEW g \in 1..Len(gscene.regs)
        PROVE  e(g) \in RegStates /\ e(g).pc = "new" /\ ~e(g).degraded /\ e(g).row = NoRow
    <3>1. gscene.regs[g] \in Registrations /\ gscene.regs[g].name \in Ids
      BY Zenon, <1>3 DEF Registrations
    <3> QED
      BY Zenon, <3>1, NoRowType DEF RegStates, RegPc, Owner
  <2>2. regs = [g \in 1..Len(gscene.regs) |-> e(g)]
    BY Zenon, <1>1 DEF AgentsInit
  <2> HIDE DEF e
  <2> QED
    BY <2>1, <2>2
<1>6. aops \in [DOMAIN aops -> OpStates]
  <2> DEFINE e(o) == [pc |-> "new", q |-> gscene.aops[o], row |-> NoRow]
  <2>1. ASSUME NEW o \in 1..Len(gscene.aops) PROVE e(o) \in OpStates
    BY <1>3, NoRowType DEF OpStates
  <2>2. aops = [o \in 1..Len(gscene.aops) |-> e(o)]
    BY <1>1 DEF AgentsInit
  <2> HIDE DEF e
  <2> QED
    BY Zenon, <2>1, <2>2
<1>7. pks = 1
  BY Zenon, <1>1 DEF AgentsInit
<1>8. LabelsOwned
  BY <1>4 DEF LabelsOwned, Ids
<1>9. \A g \in DOMAIN regs : AGood(g)
  BY <1>5, <1>7 DEF AGood, NoRow
<1> QED
  BY <1>4, <1>5, <1>6, <1>7, <1>8, <1>9 DEF AInv, AType

\* What a registration under way holds.
LEMMA RegFields ==
  ASSUME AInv, NEW g \in DOMAIN regs
  PROVE  /\ regs[g] \in RegStates /\ regs[g].q \in Registrations /\ regs[g].id \in Ids
         /\ regs[g].row \in Row /\ regs[g].legacy \in Row /\ regs[g].local \in BOOLEAN
         /\ regs[g].degraded \in BOOLEAN /\ agents[regs[g].id] \in Row /\ pks \in Nat
         /\ Broker(g) \in BOOLEAN /\ Install(g) \in Owner /\ Stamp(g) \in Owner
         /\ Bound(g) => Install(g) \in Installs /\ Label(Install(g)) \in Ids /\ Stamp(g) = Install(g)
<1>1. regs[g] \in RegStates /\ agents \in [Ids -> Row] /\ pks \in Nat
  BY Zenon DEF AInv, AType
<1>2. regs[g].q \in Registrations /\ regs[g].id \in Ids
  BY <1>1 DEF RegStates
<1>3. Broker(g) \in BOOLEAN /\ Install(g) \in Owner
  BY Zenon, <1>2 DEF Broker, Install, Registrations, Owner
<1>4. Bound(g) => Install(g) \in Installs /\ Label(Install(g)) \in Ids
  BY <1>3 DEF Bound, Owner, Ids
<1> QED
  BY Zenon, <1>1, <1>2, <1>3, <1>4 DEF RegStates, Stamp, Bound, Owner

\* A backfill gives an owner only to a row that has none, and never a trust level.
LEMMA BackfillData ==
  ASSUME AInv, NEW g \in DOMAIN regs, NEW row \in Row
  PROVE  /\ Backfill(row, g) \in Data
         /\ Backfill(row, g).owner = IF row.owner = NoInstall THEN Stamp(g) ELSE NoInstall
         /\ Backfill(row, g).hasTrust = FALSE
<1>1. regs[g].q.fleet \in Fleets \cup {Unassigned} /\ regs[g].q.instId \in Owner /\ Stamp(g) \in Owner
  BY RegFields DEF Registrations, Owner
<1>2. DefaultTrust \in Nat /\ NoInstall \in Owner
  BY SceneAssumption DEF Owner
<1> QED
  BY Zenon, <1>1, <1>2 DEF Backfill, Data

\* A new row is owned by the install that registers it.
LEMMA NewRowData ==
  ASSUME AInv, NEW g \in DOMAIN regs
  PROVE  NewRow(g) \in Data /\ NewRow(g).owner = Stamp(g)
<1>1. regs[g].q.fleet \in Fleets \cup {Unassigned} /\ regs[g].q.instId \in Owner /\ Stamp(g) \in Owner
  BY Zenon, RegFields DEF Registrations, Owner
<1>2. regs[g].legacy.trust \in Nat /\ regs[g].legacy.prof \in SUBSET STRING
  BY Zenon, RegFields DEF Row
<1>3. InitialTrust(g) \in Nat
  BY Zenon, <1>2, SceneAssumption DEF InitialTrust
<1> QED
  BY Zenon, <1>1, <1>2, <1>3 DEF NewRow, Data

(* What a registration stores, it stores under a name that is no label but  *)
(* its own.                                                                 *)
LEMMA StoredLabels ==
  ASSUME AInv, NEW g \in DOMAIN regs, regs[g].pc # "new", NEW data \in Data,
         data.owner \in {NoInstall, Stamp(g)}, Stored(regs[g].id, data)
  PROVE  LabelsOwned'
<1> DEFINE a == regs[g].id
<1> SUFFICES ASSUME NEW i \in Installs PROVE agents'[Label(i)].owner \in {NoInstall, i}
  BY Zenon DEF LabelsOwned
<1>1. a \in Ids /\ Label(i) \in Ids /\ agents \in [Ids -> Row]
  BY Zenon, RegFields DEF Ids, AInv, AType
<1>2. agents' = [agents EXCEPT ![a] = agent_add(a, data)]
  BY Zenon DEF Stored
<1>3. agents[Label(i)].owner \in {NoInstall, i}
  BY Zenon DEF AInv, LabelsOwned
<1>4. CASE Label(i) # a
  BY Zenon, <1>1, <1>2, <1>3, <1>4
<1>5. CASE Label(i) = a
  <2>1. Stamp(g) \in {NoInstall, i}
    <3>1. CASE Bound(g)
      <4>1. a = Label(Install(g)) /\ Install(g) \in Installs
        BY Zenon, <3>1, <1>5, RegFields DEF AInv, AGood, IsLabel
      <4> QED
        BY Zenon, <4>1, <1>5, <3>1, LabelAssumption, RegFields
    <3>2. CASE ~Bound(g)
      BY Zenon, <3>2, RegFields DEF Stamp, Bound
    <3> QED
      BY Zenon, <3>1, <3>2
  <2>2. agents'[a] = agent_add(a, data)
    BY Zenon, <1>1, <1>2
  <2>3. agent_add(a, data).owner \in {data.owner, agents[a].owner}
    BY ZenonT(60), <1>1, AddedRow DEF AInv
  <2> QED
    BY Zenon, <2>1, <2>2, <2>3, <1>3, <1>5
<1> QED
  BY Zenon, <1>4, <1>5

\* The gate of get_or_create_agent.
LEMMA AGate ==
  ASSUME AInv, NEW g \in DOMAIN regs, RegGate(g) PROVE AInv'
<1> DEFINE own == Broker(g) /\ Install(g) # NoInstall
           id == IF own /\ IsLabel(regs[g].id) THEN Label(Install(g)) ELSE regs[g].id
           p == IF own /\ ~IsLabel(regs[g].id) THEN "gate" ELSE "get"
           r == [regs[g] EXCEPT !.id = id, !.pc = p]
<1>1. Evolves /\ agents' \in [Ids -> Row] /\ LabelsOwned' /\ UNCHANGED <<agents, aops, pks>>
  BY Zenon, EvolvesStutter DEF RegGate
<1>2. /\ p \in {"get", "gate"} /\ (p = "gate" => own) /\ id \in Ids
      /\ own /\ IsLabel(id) => id = Label(Install(g))
  BY Zenon, RegFields DEF Bound
<1>3. /\ regs' = [regs EXCEPT ![g].id = IF Broker(g) /\ Install(g) # NoInstall /\ IsLabel(regs[g].id)
                                        THEN Label(Install(g)) ELSE @,
                              ![g].pc = IF Broker(g) /\ Install(g) # NoInstall /\ ~IsLabel(regs[g].id)
                                        THEN "gate" ELSE "get"]
      /\ regs[g].pc = "new"
  BY Zenon DEF RegGate
<1>4. regs' = [regs EXCEPT ![g] = r]
  BY Zenon, <1>3
<1> HIDE DEF id, p
<1>5. /\ r \in RegStates /\ r.pc = p /\ r.id = id /\ r.q = regs[g].q /\ r.row = regs[g].row
      /\ r.degraded = regs[g].degraded
  BY Zenon, <1>2, RegFields DEF RegStates, RegPc
<1> HIDE DEF r
<1>6. regs'[g] = r
  BY <1>4 DEF AInv, AType
<1>7. AGood(g)'
  BY ZenonT(60), <1>1, <1>2, <1>3, <1>5, <1>6 DEF AInv, AGood, Bound, Broker, Install
<1> QED
  BY Zenon, <1>1, <1>4, <1>5, <1>7, ARegStep

\* The lookup of the install's owner.
LEMMA AOwner ==
  ASSUME AInv, NEW g \in DOMAIN regs, RegOwner(g) PROVE AInv'
<1> DEFINE id == IF _owned_by_other_install(agents[regs[g].id].owner, Install(g))
                 THEN Label(Install(g)) ELSE regs[g].id
           r == [regs[g] EXCEPT !.pc = "get", !.id = id]
<1>1. Evolves /\ agents' \in [Ids -> Row] /\ LabelsOwned' /\ UNCHANGED <<agents, aops, pks>>
  BY Zenon, EvolvesStutter DEF RegOwner
<1>2. regs[g].pc = "gate" /\ Bound(g) /\ AGood(g)
  BY Zenon DEF RegOwner, AInv, AGood
<1>3. id \in Ids /\ (IsLabel(id) => id = Label(Install(g)))
  BY Zenon, <1>2, RegFields DEF AGood
<1>4. regs' = [regs EXCEPT ![g] = r]
  BY Zenon DEF RegOwner
<1> HIDE DEF id
<1>5. /\ r \in RegStates /\ r.pc = "get" /\ r.id = id /\ r.q = regs[g].q /\ r.row = regs[g].row
      /\ r.degraded = regs[g].degraded
  BY Zenon, <1>3, RegFields DEF RegStates, RegPc
<1> HIDE DEF r
<1>6. regs'[g] = r
  BY <1>4 DEF AInv, AType
<1>7. AGood(g)'
  BY Zenon, <1>1, <1>2, <1>3, <1>5, <1>6 DEF AGood, Bound, Broker, Install
<1> QED
  BY Zenon, <1>1, <1>4, <1>5, <1>7, ARegStep

\* The lookup of the row.
LEMMA AGet ==
  ASSUME AInv, NEW g \in DOMAIN regs, RegGet(g) PROVE AInv'
<1> DEFINE row == agents[regs[g].id]
           none == row.pk # 0 /\ row.owner = NoInstall
           p == CASE row.pk # 0 /\ NothingTo(Backfill(row, g)) -> "recheck"
                  [] row.pk # 0 /\ ~NothingTo(Backfill(row, g)) -> "backfill"
                  [] row.pk = 0 /\ Carries(g) -> "legacy"
                  [] OTHER -> "create"
           r == [regs[g] EXCEPT !.row = row, !.stored = row.owner, !.local = none, !.pc = p]
<1>1. Evolves /\ agents' \in [Ids -> Row] /\ LabelsOwned' /\ UNCHANGED <<agents, aops, pks>>
  BY Zenon, EvolvesStutter DEF RegGet
<1>2. regs[g].pc = "get" /\ AGood(g) /\ regs' = [regs EXCEPT ![g] = r]
  BY Zenon DEF RegGet, AInv
<1>3. /\ p \in {"recheck", "backfill", "legacy", "create"}
      /\ p \in {"recheck", "backfill"} => row.pk # 0
  BY Zenon, RegFields DEF Row
<1> HIDE DEF p
<1>4. /\ row \in Row /\ row.owner \in Owner /\ row.pk \in Nat /\ row.pk <= pks /\ none \in BOOLEAN
  BY Zenon, RegFields DEF Row, AInv
<1>5. regs[g].degraded => row.owner \in {NoInstall, Install(g)}
  BY Zenon, <1>2, RegFields DEF AInv, AGood, LabelsOwned
<1> HIDE DEF row, none
<1>6. /\ r \in RegStates /\ r.pc = p /\ r.id = regs[g].id /\ r.q = regs[g].q /\ r.row = row
      /\ r.stored = row.owner /\ r.local = none /\ r.degraded = regs[g].degraded
  BY ZenonT(60), <1>3, <1>4, RegFields DEF RegStates, RegPc
<1> HIDE DEF r
<1>7. regs'[g] = r
  BY Zenon, <1>2 DEF AInv, AType
<1>8. p \in {"recheck", "backfill"} /\ row.owner = NoInstall => none
  BY Zenon, <1>3 DEF none
<1>9. agents'[regs[g].id] = row
  BY Zenon, <1>1 DEF row
<1>10. AGood(g)'
  BY ZenonT(60), <1>1, <1>2, <1>3, <1>4, <1>5, <1>6, <1>7, <1>8, <1>9 DEF AGood, Bound, Broker, Install
<1> QED
  BY Zenon, <1>1, <1>2, <1>6, <1>10, ARegStep

(* The failed alternative of the two steps that call storage. *)
LEMMA AFails ==
  ASSUME AInv, NEW g \in DOMAIN regs, regs[g].pc # "new", Goes(g, "failed"), UNCHANGED <<agents, pks, aops>>
  PROVE  AInv'
<1> DEFINE r == [regs[g] EXCEPT !.pc = "failed"]
<1>1. Evolves /\ agents' \in [Ids -> Row] /\ LabelsOwned'
  BY Zenon, EvolvesStutter
<1>2. regs' = [regs EXCEPT ![g] = r]
  BY Zenon DEF Goes
<1>3. /\ r \in RegStates /\ r.pc = "failed" /\ r.id = regs[g].id /\ r.q = regs[g].q /\ r.row = regs[g].row
      /\ r.degraded = regs[g].degraded
  BY Zenon, RegFields DEF RegStates, RegPc
<1> HIDE DEF r
<1>4. regs'[g] = r
  BY Zenon, <1>2 DEF AInv, AType
<1>5. AGood(g)'
  BY Zenon, <1>3, <1>4 DEF AInv, AGood, Bound, Broker, Install
<1> QED
  BY Zenon, <1>1, <1>2, <1>3, <1>5, ARegStep

\* The backfill of an existing row.
LEMMA ABackfill ==
  ASSUME AInv, NEW g \in DOMAIN regs, RegBackfill(g) PROVE AInv'
<1> DEFINE row == regs[g].row
           data == Backfill(row, g)
           a == regs[g].id
           gone == regs[g].local \/ agents[a].pk # row.pk
           stored == agent_add(a, data).owner
           r == [regs[g] EXCEPT !.pc = "recheck", !.row = Merged(row, data), !.stored = stored, !.local = gone]
<1>1. regs[g].pc = "backfill" /\ AGood(g) /\ UNCHANGED aops
  BY Zenon DEF RegBackfill, AInv
<1>2. CASE Goes(g, "failed") /\ UNCHANGED <<agents, pks>>
  BY Zenon, <1>1, <1>2, AFails
<1>3. CASE Stored(a, data) /\ regs' = [regs EXCEPT ![g] = r]
  <2>1. /\ data \in Data /\ data.owner = IF row.owner = NoInstall THEN Stamp(g) ELSE NoInstall
        /\ row \in Row /\ a \in Ids /\ row.pk \in Nat /\ pks \in Nat
    BY Zenon, RegFields, BackfillData DEF Row
  <2>2. Evolves /\ agents' \in [Ids -> Row] /\ LabelsOwned'
    BY Zenon, <1>1, <1>3, <2>1, StoredEvolves, StoredLabels
  <2>3. /\ agent_add(a, data) \in Row /\ stored \in Owner
        /\ agents[a].pk # 0 => stored = IF agents[a].owner = NoInstall THEN data.owner ELSE agents[a].owner
    BY Zenon, <2>1, AddedRow DEF AInv, Row
  <2>4. /\ Merged(row, data) \in Row /\ Merged(row, data).pk = row.pk
        /\ Merged(row, data).owner = IF row.owner = NoInstall THEN Stamp(g) ELSE row.owner
    BY Zenon, <2>1, MergedRow
  <2>5. gone \in BOOLEAN
    BY Zenon
  <2>6. ~gone => stored = row.owner /\ row.owner # NoInstall
    BY Zenon, <1>1, <2>3 DEF AGood
  <2> HIDE DEF stored, gone, data
  <2>7. /\ r \in RegStates /\ r.pc = "recheck" /\ r.id = a /\ r.q = regs[g].q /\ r.row = Merged(row, data)
        /\ r.stored = stored /\ r.local = gone /\ r.degraded = regs[g].degraded
    BY ZenonT(60), <2>3, <2>4, <2>5, RegFields DEF RegStates, RegPc
  <2> HIDE DEF r
  <2>8. regs'[g] = r
    BY Zenon, <1>3 DEF AInv, AType
  <2>9. r.row.pk <= pks'
    <3>1. r.row.pk = row.pk /\ row.pk \in Nat /\ pks \in Nat /\ row.pk <= pks
      BY Zenon, <1>1, <2>1, <2>4, <2>7 DEF AGood
    <3>2. pks' \in Nat /\ pks <= pks'
      BY Zenon, <2>2 DEF Evolves
    <3> QED
      BY <3>1, <3>2
  <2>10. regs[g].degraded => r.row.owner \in {NoInstall, Install(g)}
    BY Zenon, <1>1, <2>4, <2>7, RegFields DEF AGood
  <2>11. r.local \/ (r.stored = r.row.owner /\ r.row.owner # NoInstall)
    BY Zenon, <2>4, <2>6, <2>7
  <2>12. AGood(g)'
    BY Zenon, <1>1, <2>7, <2>8, <2>9, <2>10, <2>11 DEF AGood, Bound, Broker, Install
  <2> QED
    BY Zenon, <1>1, <1>3, <2>2, <2>7, <2>12, ARegStep
<1> QED
  BY Zenon, <1>2, <1>3 DEF RegBackfill

\* The lookup of the legacy name.
LEMMA ALegacy ==
  ASSUME AInv, NEW g \in DOMAIN regs, RegLegacy(g) PROVE AInv'
<1> DEFINE main == agents[Main]
           takes == main.pk # 0 /\ regs[g].q.fleet \in {Unassigned, main.fleet}
           old == IF takes THEN main ELSE NoRow
           r == [regs[g] EXCEPT !.pc = "create", !.legacy = old]
<1>1. Evolves /\ agents' \in [Ids -> Row] /\ LabelsOwned' /\ UNCHANGED <<agents, aops, pks>>
  BY Zenon, EvolvesStutter DEF RegLegacy
<1>2. regs[g].pc = "legacy" /\ AGood(g) /\ regs' = [regs EXCEPT ![g] = r]
  BY Zenon DEF RegLegacy, AInv
<1>3. old \in Row
  BY Zenon, NoRowType DEF AInv, AType, Ids
<1> HIDE DEF old
<1>4. /\ r \in RegStates /\ r.pc = "create" /\ r.id = regs[g].id /\ r.q = regs[g].q /\ r.row = regs[g].row
      /\ r.degraded = regs[g].degraded
  BY Zenon, <1>3, RegFields DEF RegStates, RegPc
<1> HIDE DEF r
<1>5. regs'[g] = r
  BY <1>2 DEF AInv, AType
<1>6. AGood(g)'
  BY Zenon, <1>1, <1>2, <1>4, <1>5 DEF AGood, Bound, Broker, Install
<1> QED
  BY ZenonT(60), <1>1, <1>2, <1>4, <1>6, ARegStep

\* The creation of the row.
LEMMA ACreate ==
  ASSUME AInv, NEW g \in DOMAIN regs, RegCreate(g) PROVE AInv'
<1> DEFINE data == NewRow(g)
           a == regs[g].id
           row == agent_add(a, data)
           r == [regs[g] EXCEPT !.pc = "recheck", !.row = row, !.stored = row.owner]
<1>1. regs[g].pc = "create" /\ AGood(g) /\ UNCHANGED aops
  BY Zenon DEF RegCreate, AInv
<1>2. CASE Goes(g, "failed") /\ UNCHANGED <<agents, pks>>
  BY Zenon, <1>1, <1>2, AFails
<1>3. CASE Stored(a, data) /\ regs' = [regs EXCEPT ![g] = r]
  <2>1. data \in Data /\ data.owner = Stamp(g) /\ a \in Ids /\ pks \in Nat
    BY Zenon, RegFields, NewRowData
  <2>2. Evolves /\ agents' \in [Ids -> Row] /\ LabelsOwned'
    BY <1>1, <1>3, <2>1, StoredEvolves, StoredLabels
  <2>3. /\ row \in Row /\ row.owner \in Owner /\ row.pk \in Nat
        /\ row.owner = IF agents[a].pk = 0 \/ agents[a].owner = NoInstall THEN Stamp(g) ELSE agents[a].owner
    BY Zenon, <2>1, AddedRow DEF AInv, Row
  <2>4. row.pk <= pks'
    <3>1. agents'[a] = row
      BY Zenon, <1>3, <2>1 DEF Stored, AInv, AType
    <3> QED
      BY Zenon, <3>1, <2>1, <2>2 DEF Evolves
  <2>5. Bound(g) => row.owner # NoInstall
    BY Zenon, <2>3, RegFields DEF Bound
  <2>6. regs[g].degraded => row.owner \in {NoInstall, Install(g)}
    BY ZenonT(60), <1>1, <2>3, RegFields DEF AInv, AGood, LabelsOwned
  <2> HIDE DEF row
  <2>7. /\ r \in RegStates /\ r.pc = "recheck" /\ r.id = a /\ r.q = regs[g].q /\ r.row = row
        /\ r.stored = row.owner /\ r.degraded = regs[g].degraded
    BY ZenonT(60), <2>3, RegFields DEF RegStates, RegPc
  <2> HIDE DEF r
  <2>8. regs'[g] = r
    BY Zenon, <1>3 DEF AInv, AType
  <2>9. AGood(g)'
    BY Zenon, <1>1, <2>4, <2>5, <2>6, <2>7, <2>8 DEF AGood, Bound, Broker, Install
  <2> QED
    BY Zenon, <1>1, <1>3, <2>2, <2>7, <2>9, ARegStep
<1> QED
  BY Zenon, <1>2, <1>3 DEF RegCreate

\* The second look after a lost race.
LEMMA ARecheck ==
  ASSUME AInv, NEW g \in DOMAIN regs, RegRecheck(g) PROVE AInv'
<1> DEFINE loses == /\ Broker(g) /\ Install(g) # NoInstall /\ ~regs[g].degraded
                    /\ _owned_by_other_install(regs[g].row.owner, Install(g))
           again == [regs[g] EXCEPT !.pc = "get", !.id = Label(Install(g)), !.degraded = TRUE]
           ends == [regs[g] EXCEPT !.pc = "done"]
<1>1. Evolves /\ agents' \in [Ids -> Row] /\ LabelsOwned' /\ UNCHANGED <<agents, aops, pks>>
  BY EvolvesStutter DEF RegRecheck
<1>2. regs[g].pc = "recheck" /\ AGood(g) /\ regs' = [regs EXCEPT ![g] = IF loses THEN again ELSE ends]
  BY DEF RegRecheck, AInv
<1>3. CASE loses
  <2>1. regs' = [regs EXCEPT ![g] = again] /\ Bound(g)
    BY Zenon, <1>2, <1>3 DEF Bound
  <2>2. /\ again \in RegStates /\ again.pc = "get" /\ again.id = Label(Install(g)) /\ again.q = regs[g].q
        /\ again.row = regs[g].row
    BY Zenon, <2>1, RegFields DEF RegStates, RegPc
  <2> HIDE DEF again
  <2>3. regs'[g] = again
    BY <2>1 DEF AInv, AType
  <2>4. AGood(g)'
    BY Zenon, <1>1, <1>2, <2>1, <2>2, <2>3 DEF AGood, Bound, Broker, Install
  <2> QED
    BY Zenon, <1>1, <2>1, <2>2, <2>4, ARegStep
<1>4. CASE ~loses
  <2>1. regs' = [regs EXCEPT ![g] = ends]
    BY Zenon, <1>2, <1>4
  <2>2. Bound(g) => regs[g].local \/ regs[g].stored = Install(g)
    <3>1. Bound(g) => regs[g].row.owner \in {NoInstall, Install(g)}
      BY Zenon, <1>2, <1>4, RegFields DEF AGood, Bound, _owned_by_other_install
    <3> QED
      BY Zenon, <3>1, <1>2 DEF AGood
  <2>3. /\ ends \in RegStates /\ ends.pc = "done" /\ ends.id = regs[g].id /\ ends.q = regs[g].q
        /\ ends.row = regs[g].row /\ ends.local = regs[g].local /\ ends.stored = regs[g].stored
        /\ ends.degraded = regs[g].degraded
    BY Zenon, RegFields DEF RegStates, RegPc
  <2> HIDE DEF ends
  <2>4. regs'[g] = ends
    BY <2>1 DEF AInv, AType
  <2>5. AGood(g)'
    <3>1. /\ regs[g].row.pk <= pks
          /\ Bound(g) /\ IsLabel(regs[g].id) => regs[g].id = Label(Install(g))
          /\ regs[g].degraded => Bound(g) /\ regs[g].id = Label(Install(g))
      BY Zenon, <1>2 DEF AGood
    <3>2. Install(g)' = Install(g) /\ Bound(g)' = Bound(g)
      BY Zenon, <2>3, <2>4 DEF Bound, Broker, Install
    <3>3. /\ regs'[g].row.pk <= pks'
          /\ Bound(g)' /\ IsLabel(regs'[g].id) => regs'[g].id = Label(Install(g)')
          /\ regs'[g].degraded => Bound(g)' /\ regs'[g].id = Label(Install(g)')
          /\ Bound(g)' => regs'[g].local \/ regs'[g].stored = Install(g)'
      BY ZenonT(60), <1>1, <2>2, <2>3, <2>4, <3>1, <3>2
    <3> QED
      BY Zenon, <2>3, <2>4, <3>3 DEF AGood
  <2> QED
    BY Zenon, <1>1, <2>1, <2>3, <2>5, ARegStep
<1> QED
  BY Zenon, <1>3, <1>4

(* The operator's writes leave the key and the identities of a row, or the  *)
(* row goes.                                                                *)
LEMMA OpWrites ==
  ASSUME AInv, NEW a \in Ids, NEW x \in Row, agents' = [agents EXCEPT ![a] = x], UNCHANGED pks,
         \/ x = NoRow
         \/ x.pk = agents[a].pk /\ x.owner = agents[a].owner /\ x.inst = agents[a].inst
  PROVE  Evolves /\ agents' \in [Ids -> Row] /\ LabelsOwned'
<1>1. agents \in [Ids -> Row] /\ pks \in Nat
  BY Zenon DEF AInv, AType
<1>2. NoRow.pk = 0 /\ NoRow.owner = NoInstall
  BY Zenon DEF NoRow
<1>3. agents' \in [Ids -> Row] /\ agents'[a] = x /\ \A b \in Ids : b # a => agents'[b] = agents[b]
  BY <1>1
<1>4. \A b \in Ids : agents[b].pk \in Nat /\ agents[b].pk <= pks
  BY Zenon, <1>1 DEF AInv, Row
<1>5. Evolves
  BY <1>1, <1>2, <1>3, <1>4 DEF Evolves
<1>6. LabelsOwned'
  BY Zenon, <1>2, <1>3 DEF AInv, LabelsOwned, Ids
<1> QED
  BY Zenon, <1>3, <1>5, <1>6

ActsOn(o) ==
    \/ agent_update_trust_level(o) \/ agent_update_fleet(o) \/ agent_delete(o)
    \/ agent_update_search_profile(o) \/ agent_reset_search_profile(o)

\* What an administrative call under way holds.
LEMMA OpFields ==
  ASSUME AInv, NEW o \in DOMAIN aops
  PROVE  /\ aops[o] \in OpStates /\ aops[o].q \in AgentCalls /\ aops[o].q.name \in Ids
         /\ aops[o].q.level \in Nat /\ aops[o].q.fleet \in Fleets \cup {Unassigned}
         /\ aops[o].q.fields \in SUBSET STRING /\ aops[o].row \in Row /\ aops[o].row.prof \in SUBSET STRING
         /\ agents[aops[o].q.name] \in Row
<1>1. aops[o] \in OpStates /\ agents \in [Ids -> Row]
  BY Zenon DEF AInv, AType
<1>2. aops[o].q \in AgentCalls /\ aops[o].row \in Row
  BY Zenon, <1>1 DEF OpStates
<1> QED
  BY Zenon, <1>1, <1>2 DEF AgentCalls, Row

\* An administrative call deletes a row or changes it; only the trust call moves the trust.
LEMMA OpWritten ==
  ASSUME AInv, NEW o \in DOMAIN aops, ActsOn(o)
  PROVE  /\ \E x \in Row : /\ agents' = [agents EXCEPT ![aops[o].q.name] = x]
                           /\ \/ x = NoRow
                              \/ /\ x.pk = agents[aops[o].q.name].pk /\ x.owner = agents[aops[o].q.name].owner
                                 /\ x.inst = agents[aops[o].q.name].inst
                                 /\ x.trust # agents[aops[o].q.name].trust => aops[o].q.kind = "trust"
         /\ aops[o].pc = "act" /\ aops' = [aops EXCEPT ![o].pc = "done"] /\ UNCHANGED <<regs, pks>>
<1> DEFINE a == aops[o].q.name
           old == agents[a]
<1>1. aops[o].pc = "act" /\ aops' = [aops EXCEPT ![o].pc = "done"] /\ UNCHANGED <<regs, pks>>
  BY Zenon DEF ActsOn, Acts, agent_update_trust_level, agent_update_fleet, agent_delete,
         agent_update_search_profile, agent_reset_search_profile
<1>2. old \in Row /\ a \in Ids
  BY Zenon, OpFields
<1>3. CASE agent_update_trust_level(o)
  <2> DEFINE t == IF old.pk = 0 THEN old.trust ELSE aops[o].q.level
             x == [old EXCEPT !.trust = t]
  <2>1. agents' = [agents EXCEPT ![a] = x] /\ aops[o].q.kind = "trust"
    BY Zenon, <1>3 DEF agent_update_trust_level, Acts
  <2>2. t \in Nat
    BY Zenon, <1>2, OpFields DEF Row
  <2>3. x \in Row /\ x.pk = old.pk /\ x.owner = old.owner /\ x.inst = old.inst
    <3> HIDE DEF t
    <3> QED
      BY Zenon, <1>2, <2>2 DEF Row
  <2> QED
    BY Zenon, <1>1, <2>1, <2>3
<1>4. CASE agent_update_fleet(o)
  <2> DEFINE f == IF old.pk = 0 THEN old.fleet ELSE aops[o].q.fleet
             x == [old EXCEPT !.fleet = f]
  <2>1. agents' = [agents EXCEPT ![a] = x]
    BY Zenon, <1>4 DEF agent_update_fleet
  <2>2. f \in Fleets \cup {Unassigned}
    BY Zenon, <1>2, OpFields DEF Row
  <2>3. x \in Row /\ x.pk = old.pk /\ x.owner = old.owner /\ x.inst = old.inst /\ x.trust = old.trust
    <3> HIDE DEF f
    <3> QED
      BY Zenon, <1>2, <2>2 DEF Row
  <2> QED
    BY ZenonT(60), <1>1, <2>1, <2>3
<1>5. CASE agent_delete(o)
  BY ZenonT(60), <1>1, <1>5, NoRowType DEF agent_delete
<1>6. CASE agent_update_search_profile(o)
  <2> DEFINE f == IF old.pk = aops[o].row.pk THEN aops[o].row.prof \cup aops[o].q.fields ELSE old.prof
             x == [old EXCEPT !.prof = f]
  <2>1. agents' = [agents EXCEPT ![a] = x]
    BY Zenon, <1>6 DEF agent_update_search_profile
  <2>2. f \in SUBSET STRING
    BY Zenon, <1>2, OpFields DEF Row
  <2>3. x \in Row /\ x.pk = old.pk /\ x.owner = old.owner /\ x.inst = old.inst /\ x.trust = old.trust
    <3> HIDE DEF f
    <3> QED
      BY Zenon, <1>2, <2>2 DEF Row
  <2> QED
    BY ZenonT(60), <1>1, <2>1, <2>3
<1>7. CASE agent_reset_search_profile(o)
  <2> DEFINE x == [old EXCEPT !.prof = {}]
  <2>1. agents' = [agents EXCEPT ![a] = x]
    BY Zenon, <1>7 DEF agent_reset_search_profile
  <2>2. x \in Row /\ x.pk = old.pk /\ x.owner = old.owner /\ x.inst = old.inst /\ x.trust = old.trust
    BY Zenon, <1>2 DEF Row
  <2> QED
    BY ZenonT(60), <1>1, <2>1, <2>2
<1> QED
  BY ZenonT(60), <1>3, <1>4, <1>5, <1>6, <1>7 DEF ActsOn

\* An administrative call writes.
LEMMA AActs ==
  ASSUME AInv, NEW o \in DOMAIN aops, ActsOn(o)
  PROVE  AInv' /\ Evolves
<1> DEFINE r == [aops[o] EXCEPT !.pc = "done"]
<1>1. Evolves /\ agents' \in [Ids -> Row] /\ LabelsOwned'
  BY OpWritten, OpWrites, OpFields
<1>2. r \in OpStates /\ aops' = [aops EXCEPT ![o] = r] /\ UNCHANGED regs
  BY Zenon, OpWritten, OpFields DEF OpStates
<1> HIDE DEF r
<1>3. aops' \in [DOMAIN aops -> OpStates]
  BY <1>2 DEF AInv, AType
<1> QED
  BY SMTT(30), <1>1, <1>2, <1>3, AOpStep

\* An administrative call reads the row it is about.
LEMMA ALooks ==
  ASSUME AInv, NEW o \in DOMAIN aops, OpLooks(o)
  PROVE  AInv' /\ Evolves
<1> DEFINE row == agents[aops[o].q.name]
           p == IF row.pk = 0 THEN "404" ELSE "act"
           r == [aops[o] EXCEPT !.pc = p, !.row = row]
<1>1. Evolves /\ agents' \in [Ids -> Row] /\ LabelsOwned'
  BY Zenon, EvolvesStutter DEF OpLooks
<1>2. aops' = [aops EXCEPT ![o] = r] /\ UNCHANGED regs
  BY Zenon DEF OpLooks
<1>3. row \in Row /\ p \in {"404", "act"}
  BY Zenon, OpFields
<1> HIDE DEF row, p
<1>4. r \in OpStates
  BY Zenon, <1>3, OpFields DEF OpStates
<1> HIDE DEF r
<1>5. aops' \in [DOMAIN aops -> OpStates]
  BY Zenon, <1>2, <1>4 DEF AInv, AType
<1> QED
  BY <1>1, <1>2, <1>5, AOpStep

\* The backfill from memories only adds rows.
LEMMA AAuthors ==
  ASSUME AInv, NEW o \in DOMAIN aops, agent_backfill_from_memories(o)
  PROVE  /\ AInv' /\ Evolves
         /\ \A b \in Ids : agents[b].pk # 0 => agents'[b] = agents[b]
<1> DEFINE a == aops[o].q.name
           authors == {regs[g].id : g \in {h \in DOMAIN regs : regs[h].pc = "done"}}
           made == [NoRow EXCEPT !.pk = pks + 1, !.trust = 1]
           x == IF a \in authors /\ agents[a].pk = 0 THEN made ELSE agents[a]
           r == [aops[o] EXCEPT !.pc = "done"]
<1>1. agents' = [agents EXCEPT ![a] = x] /\ pks' = pks + 1 /\ UNCHANGED regs /\ aops' = [aops EXCEPT ![o] = r]
  BY Zenon DEF agent_backfill_from_memories
<1>2. agents \in [Ids -> Row] /\ pks \in Nat /\ a \in Ids /\ agents[a] \in Row
  BY Zenon, OpFields DEF AInv, AType
<1>3. made \in Row /\ made.pk = pks + 1 /\ made.owner = NoInstall
  <2> DEFINE k == pks + 1
  <2>1. k \in Nat /\ 1 \in Nat
    BY <1>2
  <2> HIDE DEF k
  <2>2. [NoRow EXCEPT !.pk = k, !.trust = 1] \in Row /\ [NoRow EXCEPT !.pk = k, !.trust = 1].pk = k
        /\ [NoRow EXCEPT !.pk = k, !.trust = 1].owner = NoInstall
    BY Zenon, <2>1, NoRowType DEF Row, NoRow
  <2> QED
    BY <2>2 DEF k
<1> HIDE DEF made, authors
<1>4. x \in Row /\ (x = agents[a] \/ (agents[a].pk = 0 /\ x.pk = pks + 1 /\ x.owner = NoInstall))
  BY Zenon, <1>2, <1>3
<1> HIDE DEF x
<1>5. agents' \in [Ids -> Row] /\ agents'[a] = x /\ \A b \in Ids : b # a => agents'[b] = agents[b]
  BY Zenon, <1>1, <1>2, <1>4
<1>6. \A b \in Ids : agents[b].pk \in Nat /\ agents[b].pk <= pks
  BY Zenon, <1>2 DEF AInv, Row
<1>7. Evolves
  BY <1>1, <1>2, <1>4, <1>5, <1>6 DEF Evolves
<1>8. LabelsOwned'
  BY Zenon, <1>4, <1>5 DEF AInv, LabelsOwned, Ids
<1>9. r \in OpStates
  BY Zenon, OpFields DEF OpStates
<1> HIDE DEF r
<1>10. aops' \in [DOMAIN aops -> OpStates]
  BY Zenon, <1>1, <1>9 DEF AInv, AType
<1> QED
  BY ZenonT(60), <1>1, <1>4, <1>5, <1>7, <1>8, <1>10, AOpStep

\* Every step keeps the invariant of the agents.
LEMMA ANext == AInv /\ [GNext]_gvars => AInv'
<1> SUFFICES ASSUME AInv, [GNext]_gvars PROVE AInv'
  BY Zenon
<1>1. CASE AgentStep
  BY ZenonT(60), <1>1, AGate, AOwner, AGet, ABackfill, ALegacy, ACreate, ARecheck, ALooks, AActs, AAuthors
     DEF AgentStep, ActsOn
<1>2. CASE UNCHANGED agentVars
  <2>1. UNCHANGED <<agents, regs, aops, pks>>
    BY Zenon, <1>2 DEF agentVars
  <2> QED
    BY ZenonT(60), <2>1, EvolvesStutter, AOpStep DEF AInv, AType
<1> QED
  BY <1>1, <1>2 DEF GNext, gvars

\* Every step on the table is one it may evolve by.
LEMMA AEvolves ==
  ASSUME AInv, AgentStep
  PROVE  Evolves
<1>1. ASSUME NEW g \in DOMAIN regs,
             RegGate(g) \/ RegOwner(g) \/ RegGet(g) \/ RegLegacy(g) \/ RegRecheck(g)
      PROVE  Evolves
  BY Zenon, <1>1, EvolvesStutter DEF RegGate, RegOwner, RegGet, RegLegacy, RegRecheck
<1>2. ASSUME NEW g \in DOMAIN regs, RegBackfill(g) PROVE Evolves
  BY ZenonT(60), <1>2, RegFields, BackfillData, StoredEvolves, EvolvesStutter DEF RegBackfill
<1>3. ASSUME NEW g \in DOMAIN regs, RegCreate(g) PROVE Evolves
  BY SMTT(30), <1>3, RegFields, NewRowData, StoredEvolves, EvolvesStutter DEF RegCreate
<1> QED
  BY ZenonT(60), <1>1, <1>2, <1>3, ALooks, AActs, AAuthors DEF AgentStep, ActsOn

TrustKept ==
    \A a \in Ids : agents[a].pk # 0 /\ agents'[a].pk = agents[a].pk /\ agents'[a].trust # agents[a].trust =>
        \/ \E o \in DOMAIN aops : aops'[o] # aops[o] /\ aops[o].q.kind = "trust"
        \/ \E g \in DOMAIN regs : regs[g].pc = "create" /\ regs'[g].pc = "recheck" /\ regs[g].id = a

\* Every step on the table keeps the trust levels of others.
LEMMA ATrust ==
  ASSUME AInv, AgentStep
  PROVE  TrustKept
<1> SUFFICES ASSUME NEW a \in Ids, agents[a].pk # 0, agents'[a].pk = agents[a].pk,
                    agents'[a].trust # agents[a].trust
             PROVE  \/ \E o \in DOMAIN aops : aops'[o] # aops[o] /\ aops[o].q.kind = "trust"
                    \/ \E g \in DOMAIN regs : regs[g].pc = "create" /\ regs'[g].pc = "recheck" /\ regs[g].id = a
  BY Zenon DEF TrustKept
<1> agents \in [Ids -> Row]
  BY Zenon DEF AInv, AType
<1>1. ASSUME NEW g \in DOMAIN regs,
             RegGate(g) \/ RegOwner(g) \/ RegGet(g) \/ RegLegacy(g) \/ RegRecheck(g)
      PROVE  FALSE
  BY Zenon, <1>1 DEF RegGate, RegOwner, RegGet, RegLegacy, RegRecheck
<1>2. ASSUME NEW g \in DOMAIN regs, RegBackfill(g) PROVE FALSE
  <2> DEFINE data == Backfill(regs[g].row, g)
             b == regs[g].id
  <2>1. data \in Data /\ data.hasTrust = FALSE /\ b \in Ids
    BY Zenon, RegFields, BackfillData
  <2>2. agents' = agents \/ agents' = [agents EXCEPT ![b] = agent_add(b, data)]
    BY <1>2 DEF RegBackfill, Stored
  <2>3. agents[b].pk # 0 => agent_add(b, data).trust = agents[b].trust
    BY Zenon, <2>1, AddedRow DEF AInv
  <2> HIDE DEF data
  <2> QED
    BY Zenon, <2>1, <2>2, <2>3
<1>3. ASSUME NEW g \in DOMAIN regs, RegCreate(g)
      PROVE  regs[g].pc = "create" /\ regs'[g].pc = "recheck" /\ regs[g].id = a
  <2>1. agents' = agents \/ agents' = [agents EXCEPT ![regs[g].id] = agent_add(regs[g].id, NewRow(g))]
    BY <1>3 DEF RegCreate, Stored
  <2>2. regs[g].id = a /\ agents' # agents
    BY <2>1
  <2>3. regs' = [regs EXCEPT ![g].pc = "recheck", ![g].row = agent_add(regs[g].id, NewRow(g)),
                             ![g].stored = agent_add(regs[g].id, NewRow(g)).owner]
    BY <1>3, <2>2 DEF RegCreate
  <2>4. regs[g] \in RegStates /\ regs \in [DOMAIN regs -> RegStates]
    BY DEF AInv, AType
  <2>5. regs'[g].pc = "recheck"
    BY <2>3, <2>4 DEF RegStates
  <2> QED
    BY <2>2, <2>5, <1>3 DEF RegCreate
<1>4. ASSUME NEW o \in DOMAIN aops, OpLooks(o) PROVE FALSE
  BY Zenon, <1>4 DEF OpLooks
<1>5. ASSUME NEW o \in DOMAIN aops, ActsOn(o) PROVE aops'[o] # aops[o] /\ aops[o].q.kind = "trust"
  <2>1. aops[o].pc = "act" /\ aops' = [aops EXCEPT ![o].pc = "done"]
    BY Zenon, <1>5, OpWritten
  <2>2. aops[o] \in OpStates /\ aops \in [DOMAIN aops -> OpStates]
    BY Zenon DEF AInv, AType
  <2>3. aops'[o].pc = "done"
    BY Zenon, <2>1, <2>2 DEF OpStates
  <2>4. aops[o].q.name \in Ids /\ NoRow.pk = 0
    BY Zenon, OpFields DEF NoRow
  <2>5. aops[o].q.kind = "trust"
    BY ZenonT(60), <1>5, <2>4, OpWritten
  <2> QED
    BY <2>1, <2>3, <2>5
<1>6. ASSUME NEW o \in DOMAIN aops, agent_backfill_from_memories(o) PROVE FALSE
  BY <1>6, AAuthors
<1> QED
  BY ZenonT(60), <1>1, <1>2, <1>3, <1>4, <1>5, <1>6 DEF AgentStep, ActsOn

(* A row keeps its install identities for life, and nobody but an operator, *)
(* or a registration that had found no row, changes its trust level          *)
(* (agent_add).                                                             *)
THEOREM IdentityIsKept == GSpec => IdentityKept
<1>1. AInv /\ [GNext]_gvars =>
        [\A a \in Ids : agents[a].pk # 0 /\ agents'[a].pk = agents[a].pk =>
           /\ agents[a].owner # NoInstall => agents'[a].owner = agents[a].owner
           /\ agents[a].inst # NoInstall => agents'[a].inst = agents[a].inst
           /\ agents'[a].trust # agents[a].trust =>
                \/ \E o \in DOMAIN aops : aops'[o] # aops[o] /\ aops[o].q.kind = "trust"
                \/ \E g \in DOMAIN regs : regs[g].pc = "create" /\ regs'[g].pc = "recheck" /\ regs[g].id = a
        ]_agentVars
  <2> SUFFICES ASSUME AInv, [GNext]_gvars, ~UNCHANGED agentVars
               PROVE  Evolves /\ TrustKept
    BY Zenon DEF Evolves, TrustKept
  <2>1. AgentStep
    BY Zenon DEF GNext, gvars
  <2> QED
    BY ZenonT(60), <2>1, AEvolves, ATrust
<1> QED
  BY <1>1, AInit, ANext, PTL DEF GSpec, IdentityKept

-----------------------------------------------------------------------------
(* Keystone rules.  From the floor on a call's trust covers the rule it saw, *)
(* and when it writes, the version of its re-read was that rule.             *)

KeyPc == {"new", "read", "floor", "recheck", "write", "done", "403", "404", "409", "422"}
KeyStates ==
    [pc : KeyPc, q : KeyCalls, trust : Nat, seen : Rules, at : Nat, again : Rules, over : Rules, newer : BOOLEAN]

KType ==
    /\ khist \in Seq(Rules) /\ Len(khist) >= 1 /\ krep \in 1..Len(khist)
    /\ kops \in [DOMAIN kops -> KeyStates]

KGood(k) ==
    /\ kops[k].pc \in {"recheck", "write"} => kops[k].trust >= Floor(kops[k].q, kops[k].seen)
    /\ kops[k].pc = "write" => kops[k].at \in 1..Len(khist) /\ khist[kops[k].at] = kops[k].seen
    /\ kops[k].pc = "done" => kops[k].newer \/ kops[k].trust >= Floor(kops[k].q, kops[k].over)

KInv == KType /\ \A k \in DOMAIN kops : KGood(k)

\* The trust floor of a rule.
LEMMA FloorRange ==
  ASSUME NEW q, NEW rule
  PROVE  Floor(q, rule) \in {1, 2}
BY Zenon DEF Floor, _effective_min_for_caller, keystone_min_trust, effective_keystone_min_trust

(* A call that moves keeps the others as they are: versions are only added. *)
LEMMA KCallStep ==
  ASSUME KInv, NEW k \in DOMAIN kops, NEW r \in KeyStates, kops' = [kops EXCEPT ![k] = r], KGood(k)',
         UNCHANGED krep, UNCHANGED khist \/ \E v \in Rules : khist' = Append(khist, v)
  PROVE  KInv'
<1>1. /\ DOMAIN kops' = DOMAIN kops /\ kops' \in [DOMAIN kops -> KeyStates]
      /\ \A j \in DOMAIN kops : j # k => kops'[j] = kops[j]
  BY Zenon DEF KInv, KType
<1>2. /\ khist \in Seq(Rules) /\ khist' \in Seq(Rules) /\ Len(khist) \in Nat /\ Len(khist') \in Nat
      /\ Len(khist') >= Len(khist) /\ \A i \in 1..Len(khist) : khist'[i] = khist[i]
  <2>1. khist \in Seq(Rules) /\ Len(khist) \in Nat
    BY SeqElements DEF KInv, KType
  <2>2. CASE UNCHANGED khist
    BY <2>1, <2>2
  <2>3. ASSUME NEW v \in Rules, khist' = Append(khist, v)
        PROVE  khist' \in Seq(Rules) /\ Len(khist') = Len(khist) + 1
               /\ \A i \in 1..Len(khist) : khist'[i] = khist[i]
    BY ZenonT(60), <2>1, <2>3, SeqAppend
  <2> QED
    BY <2>1, <2>2, <2>3
<1>3. ASSUME NEW j \in DOMAIN kops, j # k PROVE KGood(j)'
  BY <1>1, <1>2, <1>3 DEF KInv, KGood
<1>4. KType'
  BY <1>1, <1>2 DEF KInv, KType
<1> QED
  BY Zenon, <1>1, <1>3, <1>4 DEF KInv

\* What a keystone call under way holds, and the history it reads.
LEMMA CallFields ==
  ASSUME KInv, NEW k \in DOMAIN kops
  PROVE  /\ kops[k] \in KeyStates /\ kops \in [DOMAIN kops -> KeyStates]
         /\ kops[k].q \in KeyCalls /\ kops[k].q.new \in Rules /\ kops[k].trust \in Nat
         /\ kops[k].at \in Nat /\ kops[k].seen \in Rules
         /\ khist \in Seq(Rules) /\ Len(khist) \in Nat /\ Len(khist) >= 1
         /\ krep \in 1..Len(khist) /\ khist[krep] \in Rules /\ Current \in Rules
<1>1. /\ kops[k] \in KeyStates /\ kops \in [DOMAIN kops -> KeyStates]
      /\ khist \in Seq(Rules) /\ Len(khist) >= 1 /\ krep \in 1..Len(khist)
  BY Zenon DEF KInv, KType
<1>2. kops[k].q \in KeyCalls
  BY <1>1 DEF KeyStates
<1>3. Len(khist) \in Nat /\ \A i \in 1..Len(khist) : khist[i] \in Rules
  BY Zenon, <1>1, SeqElements
<1> QED
  BY <1>1, <1>2, <1>3 DEF KeyStates, KeyCalls, Current

(* A call that ends without writing. *)
LEMMA KCallEnds ==
  ASSUME KInv, NEW k \in DOMAIN kops, NEW p \in KeyPc \ {"recheck", "write", "done"}, KEnds(k, p),
         UNCHANGED <<khist, krep>>
  PROVE  KInv'
<1> DEFINE r == [kops[k] EXCEPT !.pc = p]
<1>1. kops' = [kops EXCEPT ![k] = r]
  BY Zenon DEF KEnds
<1>2. r \in KeyStates /\ r.pc = p
  BY Zenon, CallFields DEF KeyStates
<1> HIDE DEF r
<1>3. kops'[k] = r
  BY Zenon, <1>1, CallFields
<1>4. KGood(k)'
  BY Zenon, <1>2, <1>3 DEF KGood
<1> QED
  BY Zenon, <1>1, <1>2, <1>4, KCallStep

\* No rule, no call.
LEMMA KInit == GInit => KInv
<1> SUFFICES ASSUME GInit PROVE KInv
  OBVIOUS
<1>1. gscene \in GScenes /\ KeystonesInit(gscene)
  BY DEF GInit
<1>2. gscene.rule \in Rules /\ gscene.kops \in Seq(KeyCalls)
  BY Zenon, <1>1, SceneAssumption
<1>3. \A k \in 1..Len(gscene.kops) : gscene.kops[k] \in KeyCalls
  BY <1>2, SeqElements
<1>4. khist \in Seq(Rules) /\ Len(khist) = 1 /\ krep = 1
  BY <1>1, <1>2 DEF KeystonesInit
<1> DEFINE e(k) == [pc |-> "new", q |-> gscene.kops[k], trust |-> 0, seen |-> NoRule, at |-> 1,
                    again |-> NoRule, over |-> NoRule, newer |-> FALSE]
<1>5. kops = [k \in 1..Len(gscene.kops) |-> e(k)]
  BY Zenon, <1>1 DEF KeystonesInit
<1>6. NoRule \in Rules
  BY Zenon DEF NoRule, Rules
<1>7. \A k \in 1..Len(gscene.kops) : e(k) \in KeyStates /\ e(k).pc = "new"
  BY Zenon, <1>3, <1>6 DEF KeyStates, KeyPc
<1> HIDE DEF e
<1>8. KType
  BY <1>4, <1>5, <1>7 DEF KType
<1>9. \A k \in DOMAIN kops : kops[k].pc = "new"
  BY Zenon, <1>5, <1>7
<1> QED
  BY Zenon, <1>8, <1>9 DEF KInv, KGood

\* A call passes the trust gate.
LEMMA KEnters ==
  ASSUME AInv, KInv, NEW k \in DOMAIN kops, KeyEnters(k) PROVE KInv'
<1> DEFINE r == IF RequireTrust(k, 1) THEN [kops[k] EXCEPT !.pc = "read", !.trust = TrustOf(k)]
                ELSE [kops[k] EXCEPT !.pc = "403"]
<1>1. kops' = [kops EXCEPT ![k] = r] /\ UNCHANGED <<khist, krep>>
  BY DEF KeyEnters
<1>2. RequireTrust(k, 1) => TrustOf(k) \in Nat
  BY Zenon DEF RequireTrust, TrustOf, AInv, AType, Row
<1>3. r \in KeyStates /\ r.pc \in {"read", "403"}
  BY ZenonT(60), <1>2, CallFields DEF KeyStates, KeyPc
<1> HIDE DEF r
<1>4. kops'[k] = r
  BY Zenon, <1>1, CallFields
<1>5. KGood(k)'
  BY Zenon, <1>3, <1>4 DEF KGood
<1> QED
  BY Zenon, <1>1, <1>3, <1>5, KCallStep

\* A call reads the rule, on the replica.
LEMMA KReads ==
  ASSUME KInv, NEW k \in DOMAIN kops, KeyReads(k) PROVE KInv'
<1> DEFINE p == IF kops[k].q.op = "delete" /\ khist[krep].scope = "none" THEN "404" ELSE "floor"
           r == [kops[k] EXCEPT !.seen = khist[krep], !.pc = p]
<1>1. kops' = [kops EXCEPT ![k] = r] /\ UNCHANGED <<khist, krep>>
  BY Zenon DEF KeyReads
<1>2. p \in {"404", "floor"}
  OBVIOUS
<1> HIDE DEF p
<1>3. r \in KeyStates /\ r.pc = p
  BY ZenonT(60), <1>2, CallFields DEF KeyStates, KeyPc
<1> HIDE DEF r
<1>4. kops'[k] = r
  BY <1>1, CallFields
<1>5. KGood(k)'
  BY Zenon, <1>2, <1>3, <1>4 DEF KGood
<1> QED
  BY Zenon, <1>1, <1>3, <1>5, KCallStep

(* The floor is met by the level that was just read, or by the one the call *)
(* has had since it entered.                                                *)
LEMMA KUpsertFloor ==
  ASSUME AInv, KInv, NEW k \in DOMAIN kops, UpsertFloor(k) PROVE KInv'
<1> DEFINE f == Floor(kops[k].q, kops[k].seen)
           r == [kops[k] EXCEPT !.pc = "recheck", !.trust = TrustOf(k)]
<1>1. UNCHANGED <<khist, krep>>
  BY Zenon DEF UpsertFloor
<1>2. CASE RequireTrust(k, f) /\ kops' = [kops EXCEPT ![k] = r]
  <2>1. TrustOf(k) \in Nat /\ TrustOf(k) >= f
    BY <1>2, FloorRange DEF RequireTrust, TrustOf, AInv, AType, Row
  <2> HIDE DEF f
  <2>2. r \in KeyStates /\ r.pc = "recheck" /\ r.trust = TrustOf(k) /\ r.q = kops[k].q /\ r.seen = kops[k].seen
    BY ZenonT(60), <2>1, CallFields DEF KeyStates, KeyPc
  <2> HIDE DEF r
  <2>3. kops'[k] = r
    BY Zenon, <1>2, CallFields
  <2>4. KGood(k)'
    BY Zenon, <2>1, <2>2, <2>3 DEF KGood, f
  <2> QED
    BY ZenonT(60), <1>1, <1>2, <2>2, <2>4, KCallStep
<1>3. CASE KEnds(k, "403")
  BY Zenon, <1>1, <1>3, KCallEnds DEF KeyPc
<1> QED
  BY <1>2, <1>3 DEF UpsertFloor

\* A call compares the rule it read with its trust.
LEMMA KCompared ==
  ASSUME KInv, NEW k \in DOMAIN kops, Compared(k), UNCHANGED <<khist, krep>>
  PROVE  KInv'
<1> DEFINE f == Floor(kops[k].q, kops[k].seen)
           r == [kops[k] EXCEPT !.pc = "recheck"]
<1>1. CASE kops[k].trust >= f
  <2>1. kops' = [kops EXCEPT ![k] = r]
    BY <1>1 DEF Compared, KEnds
  <2>2. /\ r \in KeyStates /\ r.pc = "recheck" /\ r.trust = kops[k].trust /\ r.q = kops[k].q
        /\ r.seen = kops[k].seen
    BY Zenon, CallFields DEF KeyStates, KeyPc
  <2> HIDE DEF r
  <2>3. kops'[k] = r
    BY Zenon, <2>1, CallFields
  <2>4. KGood(k)'
    BY Zenon, <1>1, <2>2, <2>3 DEF KGood
  <2> QED
    BY Zenon, <2>1, <2>2, <2>4, KCallStep
<1>2. CASE ~(kops[k].trust >= f)
  <2>1. KEnds(k, "403")
    BY <1>2 DEF Compared
  <2> QED
    BY <2>1, KCallEnds DEF KeyPc
<1> QED
  BY <1>1, <1>2

\* A call reads the rule again before it writes.
LEMMA KRechecked ==
  ASSUME KInv, NEW k \in DOMAIN kops, NEW gone \in {"404", "409"}, kops[k].pc = "recheck",
         Rechecked(k, gone), UNCHANGED <<khist, krep>>
  PROVE  KInv'
<1> DEFINE v == khist[krep]
           p == CASE SameShape(v, kops[k].seen) -> "write"
                  [] ~SameShape(v, kops[k].seen) /\ v.scope = "none" -> gone
                  [] OTHER -> "409"
           r == [kops[k] EXCEPT !.at = krep, !.again = v, !.pc = p]
<1>1. kops' = [kops EXCEPT ![k] = r]
  BY Zenon DEF Rechecked
<1>2. p \in {"write", "404", "409"} /\ (p = "write" => v = kops[k].seen)
  BY DEF SameShape
<1> HIDE DEF p
<1>3. /\ r \in KeyStates /\ r.pc = p /\ r.trust = kops[k].trust /\ r.q = kops[k].q
      /\ r.seen = kops[k].seen /\ r.at = krep
  <2>1. krep \in Nat /\ v \in Rules /\ kops[k] \in KeyStates /\ p \in KeyPc
    BY <1>2, CallFields DEF KeyPc
  <2> HIDE DEF v
  <2> QED
    BY Zenon, <2>1 DEF KeyStates
<1> HIDE DEF r
<1>4. kops'[k] = r
  BY <1>1, CallFields
<1>5. kops[k].trust >= Floor(kops[k].q, kops[k].seen)
  BY DEF KInv, KGood
<1>6. KGood(k)'
  BY Zenon, <1>2, <1>3, <1>4, <1>5, CallFields DEF KGood
<1> QED
  BY Zenon, <1>1, <1>3, <1>6, KCallStep

\* A call writes the rule.
LEMMA KWritten ==
  ASSUME KInv, NEW k \in DOMAIN kops, kops[k].pc = "write", Written(k), UNCHANGED krep,
         NEW v \in Rules, khist' = Append(khist, v)
  PROVE  KInv'
<1> DEFINE n == kops[k].at < Len(khist)
           r == [kops[k] EXCEPT !.pc = "done", !.over = Current, !.newer = n]
<1>1. kops' = [kops EXCEPT ![k] = r]
  BY Zenon DEF Written
<1>2. n \in BOOLEAN
  OBVIOUS
<1>3. ~n => kops[k].seen = Current
  BY CallFields DEF KInv, KGood, Current
<1>4. kops[k].trust >= Floor(kops[k].q, kops[k].seen)
  BY Zenon DEF KInv, KGood
<1> HIDE DEF n
<1>5. r \in KeyStates /\ r.pc = "done" /\ r.trust = kops[k].trust /\ r.q = kops[k].q
      /\ r.over = Current /\ r.newer = n
  BY ZenonT(60), <1>2, CallFields DEF KeyStates, KeyPc
<1> HIDE DEF r
<1>6. kops'[k] = r
  BY <1>1, CallFields
<1>7. n \/ kops[k].trust >= Floor(kops[k].q, Current)
  BY <1>3, <1>4
<1>8. KGood(k)'
  BY Zenon, <1>5, <1>6, <1>7 DEF KGood
<1> QED
  BY Zenon, <1>1, <1>5, <1>8, KCallStep

\* Every step keeps the invariant of the keystones.
LEMMA KNext == AInv /\ KInv /\ [GNext]_gvars => KInv'
<1> SUFFICES ASSUME AInv, KInv, [GNext]_gvars PROVE KInv'
  OBVIOUS
<1>1. CASE KeyStep
  <2>1. ASSUME NEW k \in DOMAIN kops, DeleteFloor(k) \/ McpSetFloor(k) \/ McpDeleteFloor(k) PROVE KInv'
    BY ZenonT(60), <2>1, KCompared DEF DeleteFloor, McpSetFloor, McpDeleteFloor
  <2>2. ASSUME NEW k \in DOMAIN kops, UpsertRechecks(k) \/ McpSetRechecks(k) PROVE KInv'
    BY ZenonT(60), <2>2, KRechecked DEF UpsertRechecks, McpSetRechecks, Is
  <2>3. ASSUME NEW k \in DOMAIN kops, DeleteRechecks(k) \/ McpDeleteRechecks(k) PROVE KInv'
    BY <2>3, KRechecked DEF DeleteRechecks, McpDeleteRechecks, Is
  <2>4. ASSUME NEW k \in DOMAIN kops, upsert_keystone(k) PROVE KInv'
    <3>1. CASE khist' = Append(khist, kops[k].q.new) /\ Written(k)
      BY Zenon, <2>4, <3>1, KWritten, CallFields DEF upsert_keystone
    <3>2. CASE KEnds(k, "422") /\ UNCHANGED khist
      BY Zenon, <2>4, <3>2, KCallEnds DEF upsert_keystone, KeyPc
    <3> QED
      BY Zenon, <2>4, <3>1, <3>2 DEF upsert_keystone
  <2>5. ASSUME NEW k \in DOMAIN kops, delete_keystone(k) PROVE KInv'
    <3>1. CASE khist' = Append(khist, NoRule) /\ Written(k)
      <4>1. NoRule \in Rules
        BY Zenon DEF NoRule, Rules
      <4> QED
        BY <2>5, <3>1, <4>1, KWritten DEF delete_keystone
    <3>2. CASE KEnds(k, "404") /\ UNCHANGED khist
      BY ZenonT(60), <2>5, <3>2, KCallEnds DEF delete_keystone, KeyPc
    <3> QED
      BY ZenonT(60), <2>5, <3>1, <3>2 DEF delete_keystone
  <2>6. CASE KeyReplicates
    <3>1. krep' \in 1..Len(khist') /\ UNCHANGED <<khist, kops>>
      BY <2>6 DEF KeyReplicates, KInv, KType
    <3> QED
      BY Zenon, <3>1 DEF KInv, KType, KGood
  <2> QED
    BY ZenonT(60), <1>1, <2>1, <2>2, <2>3, <2>4, <2>5, <2>6, KEnters, KReads, KUpsertFloor DEF KeyStep
<1>2. CASE UNCHANGED keyVars
  BY Zenon, <1>2 DEF keyVars, KInv, KType, KGood
<1> QED
  BY <1>1, <1>2 DEF GNext, gvars

(* A broker write is attributed to the install that made it, and a keystone  *)
(* rule is replaced or removed by a caller whose trust met the rule's floor,  *)
(* with the exceptions OwnedWrites and RuleWritesAuthorised name             *)
(* (resolve_write_agent, routes/keystones.py, memclaw_keystones_set).        *)
THEOREM AgentRulesHold == GSpec => []AgentRules
<1>1. AInv => OwnedWrites
  BY Zenon DEF AInv, AGood, OwnedWrites, Bound
<1>2. KInv => RuleWritesAuthorised
  BY Zenon DEF KInv, KGood, RuleWritesAuthorised
<1>3. AInv /\ KInv => AgentRules
  BY <1>1, <1>2 DEF AgentRules
<1> QED
  BY <1>3, AInit, ANext, KInit, KNext, PTL DEF GSpec
=============================================================================
