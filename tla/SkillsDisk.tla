------------------------------ MODULE SkillsDisk ------------------------------
(***************************************************************************)
(* The skills on a node's disk: the plugin asks for the installable skills *)
(* at every heartbeat and mirrors them into a directory it owns and into   *)
(* one it shares with other tools (plugin/src/reconcile-skills.ts).  Two   *)
(* pulls may have their queries under way together; applying an answer is  *)
(* synchronous, so only other programs run in between.                     *)
(***************************************************************************)
EXTENDS Skills

CONSTANTS
    Pulls, SafeSlugs,    \* pulls under way; slugs isSafeSlug accepts
    Protected,           \* the skill that comes with the plugin
    Limit,               \* rows the catalogue query returns at most
    Foreign              \* the body of a skill another tool installed

VARIABLES owned, shared, pull

diskVars == <<owned, shared, pull>>
diskAll == <<skillVars, owned, shared, pull>>

Empty == [by |-> "none", body |-> Nil]
IdlePull == [pc |-> "idle", cat |-> <<>>, todo |-> {}, slug |-> "none"]

DiskInit ==
    /\ SkillsInit
    /\ owned = [s \in Slugs |-> IF s = Protected THEN Foreign ELSE Nil]
    /\ shared = [s \in Slugs |-> Empty] /\ pull = [p \in Pulls |-> IdlePull]

isMemclawOwned(s) == shared[s].by = "memclaw"

Syncing == \E p \in Pulls : pull[p].pc \notin {"idle", "fetched"}
Turn(p, pc) == pull[p].pc = pc /\ UNCHANGED skillVars
Pull(p, fields) == pull' = [pull EXCEPT ![p] = fields]

\* Opted in: the active ones.  Over the limit the least recently updated are left out;
\* which ones those are is not tracked.
installable_skills ==
    LET rows == {s \in Slugs : /\ Exists(Read.docs[s])
                               /\ scene.enabled => Read.docs[s].status = "active"}
    IN  IF Cardinality(rows) <= Limit THEN {rows}
        ELSE {some \in SUBSET rows : Cardinality(some) = Limit}

isSafeSlug(s) == s \in SafeSlugs

\* A query that fails changes nothing, so it is no step.
reconcileSkills(p) ==
    /\ pull[p].pc = "idle" /\ scene.pulls
    /\ \A q \in Pulls : q < p => pull[q].pc # "idle"
    /\ \E rows \in installable_skills :
         /\ Pull(p, [IdlePull EXCEPT !.pc = "fetched",
                       !.cat = [s \in {t \in rows : isSafeSlug(t)} |-> Read.docs[s].body]])
         /\ shown' = shown \cup {<<s, Read.docs[s].body>> : s \in rows}
    /\ UNCHANGED <<docs, poison, replica, clock, req, tick, carried, blessed, scene, owned, shared>>

\* Mutant: what left the catalogue stays.
MirroredKept(cat) == [s \in Slugs |-> IF s \in DOMAIN cat THEN cat[s] ELSE owned[s]]

\* Orphans first, then what is missing or differs.
Mirrored(cat) ==
    [s \in Slugs |-> CASE s \in DOMAIN cat -> cat[s]
                       [] s = Protected -> owned[s]
                       [] OTHER -> Nil]

reconcileOwnedDir(p) ==
    /\ Turn(p, "fetched") /\ ~Syncing
    /\ owned' = Mirrored(pull[p].cat)
    /\ Pull(p, [pull[p] EXCEPT !.pc = "prune"])
    /\ UNCHANGED shared

\* Only what carries the marker is removed.
AdditivePrunes(p) ==
    /\ Turn(p, "prune")
    /\ shared' = [s \in Slugs |-> IF /\ s \notin DOMAIN pull[p].cat /\ isMemclawOwned(s)
                                     /\ s # Protected
                                  THEN Empty ELSE shared[s]]
    /\ Pull(p, [pull[p] EXCEPT !.pc = "stat", !.todo = DOMAIN pull[p].cat])
    /\ UNCHANGED owned

Skip(p, s) == [pull[p] EXCEPT !.pc = "stat", !.todo = @ \ {s}, !.slug = "none"]

AdditiveStats(p, s) ==
    /\ Turn(p, "stat") /\ s \in pull[p].todo
    /\ Pull(p, IF shared[s].by # "none" /\ (~isMemclawOwned(s) \/ shared[s].body = pull[p].cat[s])
               THEN Skip(p, s)
               ELSE [pull[p] EXCEPT !.pc = "mkdir", !.slug = s])
    /\ UNCHANGED <<owned, shared>>

\* Mutant: a recursive mkdir, which does not tell.
MkdirRecursive(p) ==
    /\ Turn(p, "mkdir")
    /\ IF shared[pull[p].slug].by = "none"
       THEN shared' = [shared EXCEPT ![pull[p].slug] = [by |-> "bare", body |-> Nil]]
       ELSE UNCHANGED shared
    /\ Pull(p, [pull[p] EXCEPT !.pc = "mark"])
    /\ UNCHANGED owned

\* A directory that appeared since the look is looked at again.
AdditiveMkdir(p) ==
    /\ Turn(p, "mkdir")
    /\ LET s == pull[p].slug
       IN  CASE shared[s].by = "none" ->
                  /\ shared' = [shared EXCEPT ![s] = [by |-> "bare", body |-> Nil]]
                  /\ Pull(p, [pull[p] EXCEPT !.pc = "mark"])
             [] isMemclawOwned(s) ->
                  Pull(p, [pull[p] EXCEPT !.pc = "file"]) /\ UNCHANGED shared
             [] OTHER -> Pull(p, Skip(p, s)) /\ UNCHANGED shared
    /\ UNCHANGED owned

AdditiveMarks(p) ==
    /\ Turn(p, "mark")
    /\ shared' = [shared EXCEPT ![pull[p].slug].by = "memclaw"]
    /\ Pull(p, [pull[p] EXCEPT !.pc = "file"])
    /\ UNCHANGED owned

AdditiveWrites(p) ==
    /\ Turn(p, "file")
    /\ shared' = [shared EXCEPT ![pull[p].slug].body = pull[p].cat[pull[p].slug]]
    /\ Pull(p, Skip(p, pull[p].slug))
    /\ UNCHANGED owned

PullEnds(p) ==
    /\ Turn(p, "stat") /\ pull[p].todo = {}
    /\ Pull(p, IdlePull) /\ UNCHANGED <<owned, shared>>

\* The node's process dies: in the owned directory the orphans may be gone and some of the
\* skills written; every pull under way is lost.
NodeDies ==
    /\ scene.faults > 0 /\ \E p \in Pulls : pull[p].pc # "idle"
    /\ scene' = [scene EXCEPT !.faults = @ - 1]
    /\ pull' = [p \in Pulls |-> IdlePull]
    /\ \/ UNCHANGED owned
       \/ \E p \in Pulls, done \in SUBSET Slugs :
            /\ pull[p].pc = "fetched" /\ ~Syncing
            /\ owned' = [s \in Slugs |-> IF s \in done THEN Mirrored(pull[p].cat)[s] ELSE owned[s]]
    /\ UNCHANGED <<docs, poison, replica, clock, req, tick, carried, blessed, shown, shared>>

\* Another tool installs a skill of its own in the shared directory.
ForeignInstalls(s) ==
    /\ scene.foreign > 0 /\ shared[s].by = "none"
    /\ scene' = [scene EXCEPT !.foreign = @ - 1]
    /\ shared' = [shared EXCEPT ![s] = [by |-> "foreign", body |-> Foreign]]
    /\ UNCHANGED <<docs, poison, replica, clock, req, tick, carried, blessed, shown, owned, pull>>

PullStep ==
    \E p \in Pulls :
        \/ reconcileSkills(p) \/ reconcileOwnedDir(p) \/ AdditivePrunes(p)
        \/ \E s \in Slugs : AdditiveStats(p, s)
        \/ AdditiveMkdir(p) \/ AdditiveMarks(p) \/ AdditiveWrites(p) \/ PullEnds(p)

ServiceStep == CatchUp \/ TickStep \/ (\E r \in Reqs : InboxStep(r))

DiskNext ==
    \/ SkillsNext /\ UNCHANGED diskVars
    \/ PullStep \/ NodeDies
    \/ \E s \in Slugs : ForeignInstalls(s)

DiskSpec == DiskInit /\ [][DiskNext]_diskAll

\* Requests and ticks that began go on, the replica follows, and heartbeats keep coming.
DiskFairSpec ==
    /\ DiskSpec
    /\ WF_diskAll(ServiceStep /\ UNCHANGED diskVars)
    /\ WF_diskAll(PullStep)

-----------------------------------------------------------------------------

\* A skill another tool installed in the shared directory is never changed or removed,
\* even when it appears between the plugin's look at the directory and its mkdir
\* (reconcile-skills.ts, "MemClaw does NOT own this dir, so it must never touch an entry it
\* didn't write").
ForeignKept ==
    [][\A s \in Slugs : shared[s].by = "foreign" => shared'[s] = shared[s]]_diskAll

\* What a node's directories hold: an approved text where the plugin writes, and whatever
\* another tool put there.
DiskSound == []ShownBlessed /\ ForeignKept

Agrees(s) == owned[s] = IF docs[s].status = "active" THEN docs[s].body ELSE Nil

\* Once the decisions stop, the directory the plugin owns comes to hold the active skills
\* and nothing else, whatever was torn by a crash or applied late, as long as the catalogue
\* fits in one answer.  It speaks of slugs the plugin accepts: a forge/<slug> is not one.
DiskConverges ==
    (scene.pulls /\ scene.enabled) =>
        <>[](Cardinality({s \in Slugs : docs[s].status = "active"}) <= Limit =>
             \A s \in SafeSlugs \ {Protected} : Agrees(s))
=============================================================================
