-------------------------------- MODULE Fleet --------------------------------
(***************************************************************************)
(* Fleet nodes and their commands: the routes of routes/fleet.py over the  *)
(* fleet_nodes and fleet_commands tables, the auto-upgrade gate of         *)
(* /fleet/heartbeat, and the plugin's heartbeat loop, which runs the       *)
(* commands a heartbeat brings back (plugin/src/heartbeat.ts).             *)
(*                                                                         *)
(* A slot of Beats is one heartbeat from the moment the plugin sends it to  *)
(* the end of the loop over the commands it returned.  setInterval starts a *)
(* heartbeat whether or not the last one has ended, so slots overlap.      *)
(* Versions are numbers ordered as semver orders them; time is in units of *)
(* the in-flight window.                                                   *)
(***************************************************************************)
EXTENDS Naturals, Sequences, FiniteSets

CONSTANTS
    Nodes, Beats,
    MinAuto,        \* MIN_AUTO_DEPLOY_PLUGIN_VERSION
    Recommended,    \* MIN_RECOMMENDED_PLUGIN_VERSION, the target of an auto-upgrade
    KnownBroken,    \* KNOWN_BROKEN_DEPLOY_VERSIONS
    Manifest,       \* the version /plugin-manifest names
    InFlight,       \* DEPLOY_IN_FLIGHT_WINDOW
    AttemptWindow,  \* AUTO_UPGRADE_ATTEMPT_WINDOW
    MaxAttempts,    \* AUTO_UPGRADE_MAX_ATTEMPTS
    Cooldown,       \* the plugin's failure cooldown
    MaxBlock,       \* the longest deploy_blocked_until the server believes
    Scenes          \* bounds of a behaviour: the version the nodes start with, the commands
                    \* the operator sends, the failures, deletions, clock and commands in all,
                    \* how many heartbeats overlap, and whether they do in the server too

ASSUME FleetAssumption ==
    /\ {MinAuto, Recommended, Manifest, InFlight, AttemptWindow, MaxAttempts} \subseteq Nat
    /\ {Cooldown, MaxBlock} \subseteq Nat
    /\ KnownBroken \subseteq Nat

None == 0   \* no version, no time

VARIABLES
    now,
    node,     \* fleet_nodes: whether the row exists, and which incarnation (its UUID) it is
    cmds,     \* fleet_commands in created_at order; a deleted row is "gone"
    beat,     \* the heartbeats under way
    plug,     \* the plugin of each node and the files it keeps
    scene,    \* what the scene still allows
    blind     \* gate queries that failed open so far

fleetVars == <<now, node, cmds, beat, plug, scene, blind>>

Idle == [pc |-> "idle", node |-> CHOOSE n \in Nodes : TRUE, gen |-> 0, ver |-> None,
         until |-> None, got |-> <<>>, out |-> "none", reboot |-> FALSE, lost |-> FALSE]

FleetInit ==
    /\ now = 1
    /\ node = [n \in Nodes |-> [there |-> FALSE, gen |-> 0]]
    /\ cmds = <<>>
    /\ beat = [b \in Beats |-> Idle]
    /\ scene \in Scenes /\ blind = 0
    /\ plug = [n \in Nodes |->
                 [ver |-> scene.ver, disk |-> scene.ver, marker |-> None, coolVer |-> None,
                  coolUntil |-> None, checked |-> FALSE, restart |-> FALSE, begun |-> None]]

Fault == scene.faults > 0 /\ scene' = [scene EXCEPT !.faults = @ - 1]
NoFault == UNCHANGED scene

-----------------------------------------------------------------------------
(* The fleet tables.                                                       *)

\* The upsert keeps the row's id, or makes a row with a fresh one.
fleet_upsert_node(n) ==
    node' = [node EXCEPT ![n] = IF @.there THEN @ ELSE [there |-> TRUE, gen |-> @.gen + 1]]

Row(n, gen) == node[n].there /\ node[n].gen = gen
Of(c, n, gen) == cmds[c].node = n /\ cmds[c].gen = gen /\ cmds[c].status # "gone"

fleet_get_pending_commands(n, gen) ==
    SelectSeq([c \in 1..Len(cmds) |-> c],
              LAMBDA c : Of(c, n, gen) /\ cmds[c].status = "pending")

Deploys(n, gen, since) ==
    {c \in 1..Len(cmds) : Of(c, n, gen) /\ cmds[c].kind = "deploy" /\ cmds[c].at >= since}

fleet_has_recent_in_flight_deploy(n, gen, since) ==
    \E c \in Deploys(n, gen, since) : cmds[c].status \in {"pending", "acked"}

CountUnfinishedOnly(n, gen, target, since) ==
    Cardinality({c \in Deploys(n, gen, since) :
                   cmds[c].target = target /\ cmds[c].status \in {"pending", "acked"}})

\* Every status counts: a deploy that is "done" without progress is an attempt.
fleet_count_recent_deploys_for_target(n, gen, target, since) ==
    Cardinality({c \in Deploys(n, gen, since) : cmds[c].target = target})

\* Rows nothing reads any more, whose numbers may serve again: deleted ones, and
\* interview requests that are no longer pending.
Free == {c \in 1..Len(cmds) : /\ \/ cmds[c].status = "gone"
                                 \/ cmds[c].kind = "interview" /\ cmds[c].status # "pending"
                              /\ \A b \in Beats : \A i \in 1..Len(beat[b].got) : beat[b].got[i] # c}

\* The foreign key refuses a command of a node that is gone.
fleet_add_command(n, gen, kind, target, by) ==
    /\ Row(n, gen)
    /\ LET row == [node |-> n, gen |-> gen, kind |-> kind, target |-> target,
                   status |-> "pending", at |-> now, by |-> by, ran |-> 0]
       IN \/ /\ Free # {}
             /\ cmds' = [cmds EXCEPT ![CHOOSE c \in Free : \A d \in Free : c <= d] = row]
          \/ /\ Free = {} /\ Len(cmds) < scene.cmds
             /\ cmds' = Append(cmds, row)

AckNothing(ids) == UNCHANGED cmds

\* UPDATE ... WHERE id IN (...): whatever status the rows have by now.
fleet_ack_commands(ids) ==
    cmds' = [c \in 1..Len(cmds) |->
               IF c \in ids /\ cmds[c].status # "gone" THEN [cmds[c] EXCEPT !.status = "acked"]
               ELSE cmds[c]]

fleet_update_command_result(c, status) ==
    cmds' = [cmds EXCEPT ![c].status = IF @ = "gone" THEN @ ELSE status]

\* DELETE of a fleet's nodes takes their commands along.
fleet_delete(n) ==
    /\ node' = [node EXCEPT ![n].there = FALSE]
    /\ cmds' = [c \in 1..Len(cmds) |->
                  IF cmds[c].node = n THEN [cmds[c] EXCEPT !.status = "gone"] ELSE cmds[c]]

-----------------------------------------------------------------------------
(* The operator's routes.                                                  *)

\* POST /fleet/commands for a node the operator sees in the list.
CreateCommand(n) ==
    /\ node[n].there /\ scene.orders # <<>>
    /\ LET kind == Head(scene.orders) IN
       fleet_add_command(n, node[n].gen, kind, IF kind = "deploy" THEN Recommended ELSE None, "operator")
    /\ scene' = [scene EXCEPT !.orders = Tail(@)]
    /\ UNCHANGED <<now, node, beat, plug, blind>>

\* DELETE /fleet/{id}: 404 for a fleet without nodes.
DeleteFleet(n) ==
    /\ node[n].there /\ scene.deletes > 0
    /\ scene' = [scene EXCEPT !.deletes = @ - 1]
    /\ fleet_delete(n)
    /\ UNCHANGED <<now, beat, plug, blind>>

-----------------------------------------------------------------------------
(* The plugin sends a heartbeat.                                           *)

\* The first heartbeat of a process compares the marker a deploy left with the
\* version that now runs.
verifyDeployPostRestart(p) ==
    IF p.checked \/ p.marker = None THEN [p EXCEPT !.checked = TRUE]
    ELSE IF p.marker = p.ver
         THEN [p EXCEPT !.checked = TRUE, !.marker = None, !.coolVer = None, !.coolUntil = None]
         ELSE [p EXCEPT !.checked = TRUE, !.marker = None, !.coolVer = p.marker,
                        !.coolUntil = now + Cooldown]

_semver_lt(a, b) == a < b

\* The reported cooldown counts when it lies ahead, and not too far ahead.
BlockedByCooldown(until) == now < until /\ until < now + MaxBlock

\* The version gates of _maybe_queue_auto_upgrade, in their order.
VersionEligible(v, until) ==
    /\ _semver_lt(v, Recommended) /\ ~_semver_lt(v, MinAuto)
    /\ v \notin KnownBroken /\ ~BlockedByCooldown(until)

\* A heartbeat of a known node that brings nothing and upgrades nothing changes
\* nothing; only the others are taken.
Matters(n) ==
    \/ ~plug[n].checked \/ ~node[n].there
    \/ fleet_get_pending_commands(n, node[n].gen) # <<>>
    \/ VersionEligible(plug[n].ver, plug[n].coolUntil)

InServer == {"sent", "gate", "queue", "refetch", "ack", "reply"}

sendHeartbeat(n, b) ==
    /\ b <= scene.beats /\ beat[b].pc = "idle" /\ \A o \in Beats : o < b => beat[o].pc # "idle"
    /\ Matters(n)
    /\ scene.overlap \/ \A o \in Beats : beat[o].pc \notin InServer
    /\ LET p == verifyDeployPostRestart(plug[n])
       IN /\ plug' = [plug EXCEPT ![n] = p]
          /\ beat' = [beat EXCEPT ![b] = [Idle EXCEPT !.pc = "sent", !.node = n, !.ver = p.ver,
                                                      !.until = p.coolUntil]]
    /\ UNCHANGED <<now, node, cmds, scene, blind>>

-----------------------------------------------------------------------------
(* POST /fleet/heartbeat: one action per await.                            *)

Goto(b, pc) == beat' = [beat EXCEPT ![b].pc = pc, ![b].ver = None, ![b].until = None]

\* The upsert, the agents (best effort), then the pending commands; a failed
\* read of them counts as none.
HeartbeatUpserts(b) ==
    /\ beat[b].pc = "sent"
    /\ LET n == beat[b].node IN
       /\ fleet_upsert_node(n)
       /\ \/ /\ NoFault
             /\ beat' = [beat EXCEPT ![b].pc = "gate", ![b].gen = node'[n].gen,
                                     ![b].got = fleet_get_pending_commands(n, node'[n].gen)]
          \/ /\ Fault
             /\ beat' = [beat EXCEPT ![b].pc = "gate", ![b].gen = node'[n].gen, ![b].got = <<>>]
    /\ UNCHANGED <<now, cmds, plug, blind>>

_has_recent_deploy_command_from_list(got) ==
    \E i \in 1..Len(got) : cmds[got[i]].kind = "deploy"

Since(w) == IF now > w THEN now - w ELSE 0

\* The two queries fail open: an error reads as "not in flight", as no attempts,
\* and the tenant's flag reads as on.
AutoUpgradeGate(b) ==
    /\ beat[b].pc = "gate"
    /\ LET h == beat[b]
           eligible == VersionEligible(h.ver, h.until) /\ ~_has_recent_deploy_command_from_list(h.got)
           flying == fleet_has_recent_in_flight_deploy(h.node, h.gen, Since(InFlight))
           tried == fleet_count_recent_deploys_for_target(h.node, h.gen, Recommended,
                                                          Since(AttemptWindow)) >= MaxAttempts
       IN \/ /\ ~eligible \/ flying \/ tried
             /\ Goto(b, "ack") /\ NoFault /\ UNCHANGED blind
          \/ /\ eligible /\ ~flying /\ ~tried
             /\ Goto(b, "queue") /\ NoFault /\ UNCHANGED blind
          \/ /\ eligible /\ (flying \/ tried) /\ Fault
             /\ Goto(b, "queue") /\ blind' = blind + 1
    /\ UNCHANGED <<now, node, cmds, plug>>

\* create_command; an error leaves the list as it was.  Then the list is read
\* again; an error there leaves the earlier list.
AutoUpgradeQueues(b) ==
    /\ beat[b].pc = "queue"
    /\ \/ /\ fleet_add_command(beat[b].node, beat[b].gen, "deploy", Recommended, "auto")
          /\ Goto(b, "refetch")
          /\ NoFault
       \/ /\ IF Row(beat[b].node, beat[b].gen) THEN Fault ELSE NoFault
          /\ Goto(b, "ack") /\ UNCHANGED cmds
    /\ UNCHANGED <<now, node, plug, blind>>

HeartbeatRefetches(b) ==
    /\ beat[b].pc = "refetch"
    /\ \/ /\ NoFault
          /\ beat' = [beat EXCEPT ![b].pc = "ack",
                                  ![b].got = fleet_get_pending_commands(beat[b].node, beat[b].gen)]
       \/ Fault /\ Goto(b, "ack")
    /\ UNCHANGED <<now, node, cmds, plug, blind>>

\* The commands are marked acked before they are returned; a failed ack fails
\* the heartbeat.
HeartbeatAcks(b) ==
    /\ beat[b].pc = "ack"
    /\ \/ /\ NoFault
          /\ IF beat[b].got = <<>> THEN UNCHANGED cmds
             ELSE fleet_ack_commands({beat[b].got[i] : i \in 1..Len(beat[b].got)})
          /\ Goto(b, "reply")
       \/ /\ Fault /\ beat[b].got # <<>>
          /\ beat' = [beat EXCEPT ![b] = Idle] /\ UNCHANGED cmds
    /\ UNCHANGED <<now, node, plug, blind>>

\* The response reaches the plugin, or the plugin gave up or restarted.
HeartbeatReplies(b) ==
    /\ beat[b].pc = "reply"
    /\ LET heard == ~beat[b].lost /\ beat[b].got # <<>> IN
       \/ heard /\ NoFault /\ Goto(b, "run")
       \/ ~heard /\ NoFault /\ beat' = [beat EXCEPT ![b] = Idle]
       \/ heard /\ Fault /\ beat' = [beat EXCEPT ![b] = Idle]
    /\ UNCHANGED <<now, node, cmds, plug, blind>>

-----------------------------------------------------------------------------
(* The plugin runs the commands of one heartbeat, one after the other.     *)

Cmd(b) == cmds[Head(beat[b].got)]
Ran(b) == cmds' = [cmds EXCEPT ![Head(beat[b].got)].ran = @ + 1]
Result(b, out, reboot) ==
    beat' = [beat EXCEPT ![b].pc = "report", ![b].out = out, ![b].reboot = @ \/ reboot]

isDeployBlocked(p, v) == p.coolVer = v /\ p.coolUntil > now

\* processCommand: an unverifiable signature is rejected; ping, educate and the
\* like answer at once; restart answers and asks for a restart.
TakeCommand(b) ==
    /\ beat[b].pc = "run" /\ Cmd(b).kind \in {"ping", "restart"}
    /\ Ran(b)
    /\ \/ NoFault /\ Result(b, "done", Cmd(b).kind = "restart")
       \/ Fault /\ Result(b, "rejected", FALSE)
    /\ UNCHANGED <<now, node, plug, blind>>

\* deploy: the version is the manifest's, or the payload's when the manifest is
\* unreachable; a version under cooldown is refused.  Then the files are fetched.
DeployFetches(b) ==
    /\ beat[b].pc = "run" /\ Cmd(b).kind = "deploy"
    /\ Ran(b)
    /\ \E known \in BOOLEAN :
         LET v == IF known THEN Manifest ELSE Cmd(b).target IN
         \/ /\ isDeployBlocked(plug[beat[b].node], v)
            /\ IF known THEN NoFault ELSE Fault
            /\ Result(b, "failed", FALSE)
         \/ /\ ~isDeployBlocked(plug[beat[b].node], v)
            /\ IF known THEN NoFault ELSE Fault
            /\ beat' = [beat EXCEPT ![b].pc = IF known THEN "build" ELSE "buildUnstamped",
                                    ![b].ver = v]
         \/ known /\ Fault /\ Result(b, "failed", FALSE)
    /\ UNCHANGED <<now, node, plug, blind>>

\* What a build can leave on disk: stamped builds make v; without the manifest
\* version.ts may keep the old version.
Built(p, v, stamped) == IF stamped THEN {v} ELSE {v, p.disk}

\* Files, version stamp, marker and `npx tsc` in one synchronous block.  A failed
\* build restores the sources and starts the cooldown; tsc may have emitted.
DeployBuilds(b) ==
    /\ beat[b].pc \in {"build", "buildUnstamped"}
    /\ LET n == beat[b].node
           v == beat[b].ver
           begun == [plug[n] EXCEPT !.marker = v, !.begun = v]
       IN \/ /\ NoFault /\ Result(b, "done", TRUE)
             /\ \E d \in Built(plug[n], v, beat[b].pc = "build") :
                  plug' = [plug EXCEPT ![n] = [begun EXCEPT !.disk = d]]
          \/ /\ Fault /\ Result(b, "failed", FALSE)
             /\ \E d \in {v, plug[n].disk} :
                  plug' = [plug EXCEPT ![n] = [begun EXCEPT !.disk = d, !.marker = None, !.coolVer = v,
                                                            !.coolUntil = now + Cooldown]]
    /\ UNCHANGED <<now, node, cmds, blind>>

Killed(n) ==
    beat' = [b \in Beats |->
               IF beat[b].node # n \/ beat[b].pc = "idle" THEN beat[b]
               ELSE IF beat[b].pc \in {"run", "build", "buildUnstamped", "report", "submit"} THEN Idle
                    ELSE [beat[b] EXCEPT !.lost = TRUE]]

\* A new process: it runs what was built and has verified nothing.
Rebooted(p) == [p EXCEPT !.ver = p.disk, !.checked = FALSE, !.restart = FALSE]

MarkerAfterBuild(b) ==
    /\ beat[b].pc \in {"build", "buildUnstamped"} /\ Fault
    /\ LET n == beat[b].node
           v == beat[b].ver
       IN /\ \E d \in {v, plug[n].disk} :
               plug' = [plug EXCEPT ![n] = Rebooted([@ EXCEPT !.begun = v, !.disk = d])]
          /\ Killed(n)
    /\ UNCHANGED <<now, node, cmds, blind>>

\* The process is killed inside the block, after the marker and before the cooldown.
DeployKilled(b) ==
    /\ beat[b].pc \in {"build", "buildUnstamped"} /\ Fault
    /\ LET n == beat[b].node
           v == beat[b].ver
       IN /\ \E d \in {v, plug[n].disk} :
               plug' = [plug EXCEPT ![n] = Rebooted([@ EXCEPT !.marker = v, !.begun = v, !.disk = d])]
          /\ Killed(n)
    /\ UNCHANGED <<now, node, cmds, blind>>

\* deployPlugin: a source in the payload is built without marker or cooldown, and
\* may carry any version.
deployPlugin(b) ==
    /\ beat[b].pc = "run" /\ Cmd(b).kind = "source"
    /\ Ran(b)
    /\ LET n == beat[b].node IN
       \/ /\ NoFault /\ Result(b, "done", TRUE)
          /\ \E d \in {Manifest, MinAuto} :
               plug' = [plug EXCEPT ![n].disk = d, ![n].begun = None]
       \/ Fault /\ Result(b, "failed", FALSE) /\ UNCHANGED plug
    /\ UNCHANGED <<now, node, blind>>

\* The result is posted, or the post fails; the next command follows, and only
\* after the post is a restart scheduled.
ReportResult(b) ==
    /\ beat[b].pc = "report"
    /\ \/ NoFault /\ fleet_update_command_result(Head(beat[b].got), beat[b].out)
       \/ Fault /\ UNCHANGED cmds
    /\ plug' = [plug EXCEPT ![beat[b].node].restart = @ \/ beat[b].reboot]
    /\ beat' = [beat EXCEPT ![b] = IF Len(beat[b].got) > 1
                                   THEN [@ EXCEPT !.pc = "run", !.got = Tail(@), !.reboot = FALSE]
                                   ELSE Idle]
    /\ UNCHANGED <<now, node, blind>>

\* The scheduled restart, or a crash of the gateway.
Restart(n) ==
    /\ IF plug[n].restart THEN NoFault ELSE Fault
    /\ plug' = [plug EXCEPT ![n] = Rebooted(@)]
    /\ Killed(n)
    /\ UNCHANGED <<now, node, cmds, blind>>

\* A request is over within the request timeout, far below the time unit; the
\* plugin's fetches and builds are not.
Tick ==
    /\ \A b \in Beats : beat[b].pc \notin InServer
    /\ now < scene.time /\ now' = now + 1
    /\ UNCHANGED <<node, cmds, beat, plug, scene, blind>>

ServerStep(b) ==
    \/ HeartbeatUpserts(b) \/ AutoUpgradeGate(b) \/ AutoUpgradeQueues(b)
    \/ HeartbeatRefetches(b) \/ HeartbeatAcks(b) \/ HeartbeatReplies(b)

PluginStep(b) ==
    \/ TakeCommand(b) \/ DeployFetches(b) \/ DeployBuilds(b)
    \/ deployPlugin(b) \/ ReportResult(b)

FleetNext ==
    \/ \E b \in Beats : ServerStep(b) \/ PluginStep(b) \/ DeployKilled(b)
    \/ \E b \in Beats, n \in Nodes : sendHeartbeat(n, b)
    \/ \E n \in Nodes : Restart(n) \/ DeleteFleet(n) \/ CreateCommand(n)
    \/ Tick

FleetSpec == FleetInit /\ [][FleetNext]_fleetVars

-----------------------------------------------------------------------------
(* The tables and the plugin's files keep their shape; a command belongs to *)
(* a row the node has had, and a heartbeat holds commands that exist.       *)
FleetTypeOK ==
    /\ now \in Nat /\ blind \in Nat /\ node \in [Nodes -> [there : BOOLEAN, gen : Nat]]
    /\ \A c \in 1..Len(cmds) :
          /\ cmds[c].node \in Nodes /\ cmds[c].gen \in 1..node[cmds[c].node].gen /\ cmds[c].at \in 1..now
          /\ cmds[c].status \in {"pending", "acked", "done", "failed", "rejected", "gone"}
    /\ \A b \in Beats :
          /\ DOMAIN beat[b] = DOMAIN Idle /\ beat[b].node \in Nodes
          /\ \A i \in 1..Len(beat[b].got) : beat[b].got[i] \in 1..Len(cmds)
    /\ \A n \in Nodes : {plug[n].ver, plug[n].disk, plug[n].marker, plug[n].coolVer, plug[n].coolUntil} \subseteq Nat

Overlap == Cardinality(Beats) - 1
Auto(n, gen, w) ==
    {c \in Deploys(n, gen, Since(w)) : cmds[c].by = "auto"}

(* The auto-upgrade of a node stays within its budget: in one attempt       *)
(* window the heartbeats queue at most AUTO_UPGRADE_MAX_ATTEMPTS deploys,   *)
(* and one in-flight window holds one unanswered deploy, up to the          *)
(* heartbeats that pass the gate together and the queries that failed open. *)
DeployBudget ==
    \A n \in Nodes :
      /\ Cardinality(Auto(n, node[n].gen, AttemptWindow)) <= MaxAttempts + Overlap + blind
      /\ Cardinality({c \in Auto(n, node[n].gen, InFlight) : cmds[c].status \in {"pending", "acked"}})
           <= 1 + Overlap + blind

(* A command runs on the node at most once per overlapping heartbeat: it is *)
(* acked before it is returned, so neither a lost answer nor a restart of   *)
(* the node brings it back.                                                 *)
RunsBounded == \A c \in 1..Len(cmds) : cmds[c].ran <= 1 + Overlap

(* Whatever interrupts a deploy, the node remembers how it ended: the       *)
(* version it last began to build is running, or is marked for the check    *)
(* after the restart, or is under cooldown.                                 *)
DeployAccounted ==
    \A n \in Nodes : plug[n].begun # None =>
      plug[n].begun \in {plug[n].marker, plug[n].ver, plug[n].coolVer}

(* The commands of a node are bounded and accounted for: the budget of the  *)
(* auto-upgrade, the runs of a command and the end of each deploy.          *)
CommandsBounded == FleetTypeOK /\ DeployBudget /\ RunsBounded /\ DeployAccounted
=============================================================================
