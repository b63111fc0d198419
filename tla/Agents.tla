------------------------------- MODULE Agents -------------------------------
(***************************************************************************)
(* Agent rows: registration on first contact, the ownership of agent names  *)
(* by broker installs, trust levels and search profiles                     *)
(* (services/agent_service.py, routes/agents.py, agent_add of the storage    *)
(* service).  A registration is one call of resolve_write_agent, or of       *)
(* get_or_create_agent by a heartbeat, from its first lookup to its answer.  *)
(* Each call of the storage service is one step.                             *)
(***************************************************************************)
EXTENDS Tenancy

CONSTANTS
    Installs, NoInstall,
    Names,             \* agent ids a caller may name
    Main, MainOf(_),   \* "main", and main-{install_id}
    Label(_),          \* broker_label: broker:{install_uuid}
    Fleets, Unassigned,
    DefaultTrust       \* DEFAULT_TRUST_LEVEL

Ids == Names \cup {Main} \cup {MainOf(i) : i \in Installs} \cup {Label(i) : i \in Installs}
IsLabel(a) == \E i \in Installs : a = Label(i)

VARIABLES
    agents,   \* agent rows; pk 0 is no row
    regs,     \* registrations under way
    aops,     \* operations on agents under way: operators and tuners
    pks       \* primary keys handed out

agentVars == <<agents, regs, aops, pks>>

NoRow == [pk |-> 0, owner |-> NoInstall, inst |-> NoInstall, trust |-> 0, fleet |-> Unassigned, prof |-> {}]

AgentsInit(sc) ==
    /\ agents = [a \in Ids |-> IF a \in sc.known THEN [NoRow EXCEPT !.pk = 1, !.trust = sc.trust] ELSE NoRow]
    /\ regs = [g \in 1..Len(sc.regs) |->
                 [pc |-> "new", q |-> sc.regs[g], id |-> sc.regs[g].name, row |-> NoRow,
                  legacy |-> NoRow, degraded |-> FALSE, stored |-> NoInstall, local |-> FALSE]]
    /\ aops = [o \in 1..Len(sc.aops) |-> [pc |-> "new", q |-> sc.aops[o], row |-> NoRow]]
    /\ pks = 1

-----------------------------------------------------------------------------
(* The agents table.                                                       *)

\* In the conflicting case each field the caller gave overwrites, except the two
\* install identities, which are only filled in when they are empty.
Merged(row, data) ==
    [row EXCEPT !.fleet = IF data.fleet # Unassigned THEN data.fleet ELSE @,
                !.trust = IF data.hasTrust THEN data.trust ELSE @,
                !.inst = IF @ = NoInstall THEN data.inst ELSE @,
                !.owner = IF @ = NoInstall THEN data.owner ELSE @]

LastOwnerWins(a, data) ==
    IF agents[a].pk = 0
    THEN [pk |-> pks + 1, owner |-> data.owner, inst |-> data.inst, trust |-> data.trust,
          fleet |-> data.fleet, prof |-> data.prof]
    ELSE [Merged(agents[a], data) EXCEPT !.owner = IF data.owner # NoInstall THEN data.owner ELSE @]

\* INSERT ... ON CONFLICT DO NOTHING, else SELECT FOR UPDATE and fill in.
agent_add(a, data) ==
    IF agents[a].pk = 0
    THEN [pk |-> pks + 1, owner |-> data.owner, inst |-> data.inst, trust |-> data.trust,
          fleet |-> data.fleet, prof |-> data.prof]
    ELSE Merged(agents[a], data)

Stored(a, data) ==
    /\ agents' = [agents EXCEPT ![a] = agent_add(a, data)]
    /\ pks' = IF agents[a].pk = 0 THEN pks + 1 ELSE pks

-----------------------------------------------------------------------------
(* resolve_write_agent.                                                    *)

_owned_by_other_install(owner, i) == owner # NoInstall /\ owner # i
Broker(g) == regs[g].q.broker
Install(g) == regs[g].q.install
Stamp(g) == IF Broker(g) THEN Install(g) ELSE NoInstall
Goes(g, pc) == regs' = [regs EXCEPT ![g].pc = pc]

\* The gate keeps the name for a caller without an install and for the install's own
\* label, and replaces another install's label, without a lookup.
RegGate(g) ==
    /\ regs[g].pc = "new"
    /\ LET i == Install(g)
           id == regs[g].id
       IN regs' = [regs EXCEPT
            ![g].id = IF Broker(g) /\ i # NoInstall /\ IsLabel(id) THEN Label(i) ELSE @,
            ![g].pc = IF Broker(g) /\ i # NoInstall /\ ~IsLabel(id) THEN "gate" ELSE "get"]
    /\ UNCHANGED <<gscene, agents, aops, pks>>

\* broker_owned_agent_id: the name is replaced when another install owns its row.
RegOwner(g) ==
    /\ regs[g].pc = "gate"
    /\ regs' = [regs EXCEPT ![g].pc = "get",
                  ![g].id = IF _owned_by_other_install(agents[@].owner, Install(g))
                            THEN Label(Install(g)) ELSE @]
    /\ UNCHANGED <<gscene, agents, aops, pks>>

\* What an existing row lacks and the caller knows; no trust level, which a new row
\* gets from the column's default.
Backfill(row, g) ==
    [fleet |-> IF row.fleet = Unassigned THEN regs[g].q.fleet ELSE Unassigned,
     inst |-> IF row.inst = NoInstall THEN regs[g].q.instId ELSE NoInstall,
     owner |-> IF row.owner = NoInstall THEN Stamp(g) ELSE NoInstall,
     hasTrust |-> FALSE, trust |-> DefaultTrust, prof |-> {}]
NothingTo(b) == b.fleet = Unassigned /\ b.inst = NoInstall /\ b.owner = NoInstall

Carries(g) ==
    /\ ~regs[g].q.approval /\ regs[g].q.instId # NoInstall
    /\ regs[g].id = MainOf(regs[g].q.instId)

\* get_or_create_agent reads the row.
RegGet(g) ==
    /\ regs[g].pc = "get"
    /\ LET row == agents[regs[g].id]
       IN regs' = [regs EXCEPT ![g].row = row, ![g].stored = row.owner,
                    ![g].local = row.pk # 0 /\ row.owner = NoInstall,
                    ![g].pc = CASE row.pk # 0 /\ NothingTo(Backfill(row, g)) -> "recheck"
                                [] row.pk # 0 /\ ~NothingTo(Backfill(row, g)) -> "backfill"
                                [] row.pk = 0 /\ Carries(g) -> "legacy"
                                [] OTHER -> "create"]
    /\ UNCHANGED <<gscene, agents, aops, pks>>

\* An existing row: the fields go into the local copy and to storage, and it is the
\* local copy that is returned.
RegBackfill(g) ==
    /\ regs[g].pc = "backfill"
    /\ LET data == Backfill(regs[g].row, g)
           a == regs[g].id
       IN \/ /\ Stored(a, data)
             /\ regs' = [regs EXCEPT ![g].pc = "recheck", ![g].row = Merged(@, data),
                                     ![g].stored = agent_add(a, data).owner,
                                     ![g].local = @ \/ agents[a].pk # regs[g].row.pk]
             /\ UNCHANGED gscene
          \/ GFault /\ Goes(g, "failed") /\ UNCHANGED <<agents, pks>>
    /\ UNCHANGED aops

\* A new main-{install} takes over the tuning of the legacy "main" of its fleet.
RegLegacy(g) ==
    /\ regs[g].pc = "legacy"
    /\ LET main == agents[Main]
           takes == main.pk # 0 /\ regs[g].q.fleet \in {Unassigned, main.fleet}
       IN regs' = [regs EXCEPT ![g].pc = "create", ![g].legacy = IF takes THEN main ELSE NoRow]
    /\ UNCHANGED <<gscene, agents, aops, pks>>

InitialTrust(g) ==
    IF regs[g].legacy.pk # 0 THEN regs[g].legacy.trust
    ELSE IF regs[g].q.approval THEN 0 ELSE DefaultTrust

NewRow(g) ==
    [fleet |-> regs[g].q.fleet, inst |-> regs[g].q.instId, owner |-> Stamp(g),
     hasTrust |-> TRUE, trust |-> InitialTrust(g), prof |-> regs[g].legacy.prof]

\* No row was found: the storage call inserts it, or meets one made meanwhile, and
\* returns the stored row.
RegCreate(g) ==
    /\ regs[g].pc = "create"
    /\ LET a == regs[g].id
       IN \/ /\ Stored(a, NewRow(g))
             /\ regs' = [regs EXCEPT ![g].pc = "recheck", ![g].row = agent_add(a, NewRow(g)),
                                     ![g].stored = agent_add(a, NewRow(g)).owner]
             /\ UNCHANGED gscene
          \/ GFault /\ Goes(g, "failed") /\ UNCHANGED <<agents, pks>>
    /\ UNCHANGED aops

NoRecheck(g) ==
    /\ regs[g].pc = "recheck"
    /\ Goes(g, "done")
    /\ UNCHANGED <<gscene, agents, aops, pks>>

\* resolve_write_agent looks at the row it got back; the loser of a first touch starts
\* over as its own label.
RegRecheck(g) ==
    /\ regs[g].pc = "recheck"
    /\ regs' = [regs EXCEPT ![g] =
          IF /\ Broker(g) /\ Install(g) # NoInstall /\ ~@.degraded
             /\ _owned_by_other_install(@.row.owner, Install(g))
          THEN [@ EXCEPT !.pc = "get", !.id = Label(Install(g)), !.degraded = TRUE]
          ELSE [@ EXCEPT !.pc = "done"]]
    /\ UNCHANGED <<gscene, agents, aops, pks>>
-----------------------------------------------------------------------------
(* The routes of an operator, and the tuning of a search profile.           *)

\* Each looks the row up first and answers 404 without one.
OpLooks(o) ==
    /\ aops[o].pc = "new" /\ aops[o].q.kind # "backfill"
    /\ LET row == agents[aops[o].q.name]
       IN aops' = [aops EXCEPT ![o].pc = IF row.pk = 0 THEN "404" ELSE "act", ![o].row = row]
    /\ UNCHANGED <<gscene, agents, regs, pks>>

Acts(o, kind) ==
    /\ aops[o].pc = "act" /\ aops[o].q.kind = kind
    /\ aops' = [aops EXCEPT ![o].pc = "done"]
    /\ UNCHANGED <<gscene, regs, pks>>

\* The updates go by name, to whatever row has it by now.
agent_update_trust_level(o) ==
    /\ Acts(o, "trust")
    /\ agents' = [agents EXCEPT ![aops[o].q.name].trust = IF agents[aops[o].q.name].pk = 0 THEN @ ELSE aops[o].q.level]

agent_update_fleet(o) ==
    /\ Acts(o, "fleet")
    /\ agents' = [agents EXCEPT ![aops[o].q.name].fleet = IF agents[aops[o].q.name].pk = 0 THEN @ ELSE aops[o].q.fleet]

agent_delete(o) ==
    /\ Acts(o, "delete")
    /\ agents' = [agents EXCEPT ![aops[o].q.name] = NoRow]

\* The profile that was read, with the given fields, goes to the row with the primary
\* key that was read; a row made since under the same name is left alone.
agent_update_search_profile(o) ==
    /\ Acts(o, "tune")
    /\ LET a == aops[o].q.name
       IN agents' = [agents EXCEPT ![a].prof =
                       IF agents[a].pk = aops[o].row.pk THEN aops[o].row.prof \cup aops[o].q.fields ELSE @]

agent_reset_search_profile(o) ==
    /\ Acts(o, "reset")
    /\ agents' = [agents EXCEPT ![aops[o].q.name].prof = {}]

\* Rows for the authors of memories that have none.
agent_backfill_from_memories(o) ==
    /\ aops[o].pc = "new" /\ aops[o].q.kind = "backfill"
    /\ LET authors == {regs[g].id : g \in {h \in DOMAIN regs : regs[h].pc = "done"}}
           a == aops[o].q.name
       IN agents' = [agents EXCEPT ![a] = IF a \in authors /\ @.pk = 0
                                          THEN [NoRow EXCEPT !.pk = pks + 1, !.trust = 1] ELSE @]
    /\ pks' = pks + 1
    /\ aops' = [aops EXCEPT ![o].pc = "done"]
    /\ UNCHANGED <<gscene, regs>>

AgentStep ==
    \/ \E g \in DOMAIN regs :
          RegGate(g) \/ RegOwner(g) \/ RegGet(g) \/ RegBackfill(g) \/ RegLegacy(g) \/ RegCreate(g) \/ RegRecheck(g)
    \/ \E o \in DOMAIN aops :
          \/ OpLooks(o) \/ agent_update_trust_level(o) \/ agent_update_fleet(o) \/ agent_delete(o)
          \/ agent_update_search_profile(o) \/ agent_reset_search_profile(o) \/ agent_backfill_from_memories(o)

-----------------------------------------------------------------------------
(* A row keeps its install identities for life, and its trust level is      *)
(* changed by an operator only; the one other writer is a registration that *)
(* had found no row (agent_add applies its trust_level when it meets one).   *)
IdentityKept ==
    [][\A a \in Ids : agents[a].pk # 0 /\ agents'[a].pk = agents[a].pk =>
         /\ agents[a].owner # NoInstall => agents'[a].owner = agents[a].owner
         /\ agents[a].inst # NoInstall => agents'[a].inst = agents[a].inst
         /\ agents'[a].trust # agents[a].trust =>
               \/ \E o \in DOMAIN aops : aops'[o] # aops[o] /\ aops[o].q.kind = "trust"
               \/ \E g \in DOMAIN regs : regs[g].pc = "create" /\ regs'[g].pc = "recheck" /\ regs[g].id = a
      ]_agentVars

\* A broker write is attributed to the label of its own install, or to a name whose
\* stored row its install owned when the write was resolved.  Excepted are the two cases
\* in which resolve_write_agent goes by its local copy: the row it found had no owner, or
\* was deleted and replaced before the back-fill reached it.
OwnedWrites ==
    \A g \in DOMAIN regs :
        regs[g].pc = "done" /\ Broker(g) /\ Install(g) # NoInstall =>
            /\ IsLabel(regs[g].id) => regs[g].id = Label(Install(g))
            /\ regs[g].local \/ regs[g].stored = Install(g)
=============================================================================
