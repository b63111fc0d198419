------------------------------- MODULE MCSkills -------------------------------
(***************************************************************************)
(* Two slugs a node can install, one of them the skill that comes with the *)
(* plugin, and one of Forge's.  Bodies 5 and 6 have the content of body 1  *)
(* under other descriptions: an injection, and one Sentinel only warns of. *)
(***************************************************************************)
EXTENDS SkillsDisk, TLC

Body(marks, files, long, content) ==
    [text |-> marks, evidence |-> {[marks |-> {}, depth |-> 1]}, files |-> files, big |-> FALSE,
     long |-> long, cites |-> 1, content |-> content]

MCBodies ==
    <<Body({}, {}, FALSE, 1),
      Body({"pii"}, {[path |-> "script", role |-> "scripts", marks |-> {"exfil"}]}, FALSE, 2),
      Body({}, {[path |-> "plain", role |-> "references", marks |-> {"shell"}]}, FALSE, 3),
      Body({}, {[path |-> "climbs", role |-> "scripts", marks |-> {}]}, FALSE, 4),
      Body({"inject"}, {}, FALSE, 1),
      Body({"pii"}, {}, FALSE, 1)>>

Memory(id, run, agent, says) ==
    [id |-> id, run |-> run, agent |-> agent, ents |-> {1, 2}, at |-> 0,
     status |-> "active", supersedes |-> Nil, recalls |-> 0, says |-> says]

MCLake ==
    {Memory(1, 1, 1, {"success"}), Memory(2, 2, 2, {"success"}),
     [Memory(3, 3, 1, {}) EXCEPT !.recalls = 5],
     [Memory(4, 3, 2, {}) EXCEPT !.supersedes = 3, !.ents = {3}]}

Answer(shape, kind, body, goal) ==
    [shape |-> shape, kind |-> kind, slug |-> "forge/a", body |-> body, goal |-> goal,
     domain |-> "ops", steps |-> <<<<1, 3>>, <<2>>>>]

MCAnswers ==
    {Answer("object", "create", 1, <<2, 3>>), Answer("object", "create", 3, <<3, 4>>),
     Answer("object", "create", 4, <<2>>), Answer("object", "update", 2, <<2>>),
     Answer("text", "create", 2, <<2>>)}

MCSingular == 4 :> 2

Fp(goal) == compute_fingerprint(Answer("object", "create", 1, goal), {1, 2})

Staged(body, fp) ==
    [status |-> "staged", body |-> body, hash |-> MCBodies[body].content,
     scan |-> scan_skill_doc(body, MCBodies[body]), source |-> "agent", kind |-> "create",
     bound |-> Nil, target |-> "a", fp |-> fp, fleet |-> 1, size |-> 2, agents |-> 2,
     windowEnd |-> 1, deferred |-> FALSE]

Candidate(body, fp) == [Staged(body, fp) EXCEPT !.status = "candidate", !.source = "forge",
                                               !.target = "forge/a"]

Data(status, kind, body) ==
    [status |-> status, source |-> "agent", kind |-> kind, bound |-> IF kind = "update" THEN 1 ELSE Nil,
     target |-> "a", body |-> body]

Nothing == [s \in Slugs |-> NoDoc]
MCScene(ops, n, bodies) ==
    [ops |-> ops, requests |-> n, bodies |-> bodies, data |-> {}, docs |-> Nothing, ticks |-> 0,
     raised |-> {{}}, faults |-> 0, days |-> 1, split |-> FALSE, enabled |-> TRUE, auto |-> FALSE,
     fleet |-> 1, pulls |-> FALSE, foreign |-> 0]

OneStaged == [Nothing EXCEPT !["a"] = Staged(1, NoFp)]
OneCandidate == [Nothing EXCEPT !["forge/a"] = Candidate(1, Fp(<<2, 3>>))]

Decide == [MCScene({"approve", "edit", "defer", "quarantine", "read"}, 3, {2, 3, 4, 5, 6})
             EXCEPT !.docs = OneStaged]
Reject == [MCScene({"approve", "reject", "edit"}, 3, {2})
             EXCEPT !.docs = OneCandidate, !.ticks = 2, !.days = 2, !.faults = 1]
Write == [MCScene({"admin_write", "agent_write", "mcp_write", "delete", "mcp_delete", "approve"}, 3, {})
             EXCEPT !.docs = OneStaged,
                    !.data = {Data("active", "create", 2), Data(Unset, "update", 3), Data(Unset, "create", 5)}]
Install == [MCScene({"approve", "quarantine", "mcp_delete"}, 2, {})
             EXCEPT !.docs = OneStaged, !.pulls = TRUE, !.foreign = 1, !.faults = 1]

Split == [Reject EXCEPT !.split = TRUE, !.faults = 0, !.days = 1, !.ops = {"reject"},
                       !.requests = 1]
Legacy == [Write EXCEPT !.enabled = FALSE, !.ops = @ \cup {"read"}, !.requests = 2]
Mine == [MCScene({"approve", "quarantine", "read"}, 1, {})
           EXCEPT !.ticks = 2, !.auto = TRUE, !.faults = 1, !.fleet = Nil, !.days = 4,
                  !.raised = {{}, {"terminal"}, {"reuse", "contradictions", "supersessions"}}]

MCScenes == {Decide, Reject, Write, Install, Split, Legacy, Mine}
MCSplit == {Split}
==============================================================================
