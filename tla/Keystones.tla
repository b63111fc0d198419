------------------------------ MODULE Keystones ------------------------------
(***************************************************************************)
(* Keystone rules: the REST routes and the MCP tool that author and remove  *)
(* them, the trust floor that depends on the rule's scope, and the re-read   *)
(* before the write (routes/keystones.py, memclaw_keystones_set,             *)
(* trust_utils.py, storage routers/keystones.py).  Rules are read from the   *)
(* replica; khist holds the versions of the one rule the callers compete for.*)
(***************************************************************************)
EXTENDS Agents

VARIABLES
    khist,    \* versions of the rule on the primary, oldest first
    krep,     \* the version the replica shows
    kops      \* calls under way

keyVars == <<khist, krep, kops>>

\* A version is the rule's scope and the agent it binds; scope "none" is no rule.
NoRule == [scope |-> "none", target |-> "none"]
Current == khist[Len(khist)]

KeystonesInit(sc) ==
    /\ khist = <<sc.rule>> /\ krep = 1
    /\ kops = [k \in 1..Len(sc.kops) |->
                 [pc |-> "new", q |-> sc.kops[k], trust |-> 0, seen |-> NoRule, at |-> 1, again |-> NoRule,
                  over |-> NoRule, newer |-> FALSE]]

-----------------------------------------------------------------------------
(* The trust floor.                                                        *)

keystone_min_trust(rule, caller) ==
    IF rule.scope = "agent" /\ rule.target # "none" /\ rule.target = caller THEN 1 ELSE 2

effective_keystone_min_trust(new, stored, caller) ==
    LET a == keystone_min_trust(new, caller)
        b == keystone_min_trust(stored, caller)
    IN IF stored.scope = "none" \/ b < a THEN a ELSE b

\* A caller known by its header only is held to the cross-agent bar.
_effective_min_for_caller(floor, verified) == IF ~verified /\ floor < 2 THEN 2 ELSE floor

Rest(q) == q.via = "rest"
Verified(q) == q.verified \/ ~Rest(q)
StandaloneAdmin(k) == Rest(kops[k].q) /\ kops[k].q.caller = "rest-admin" /\ gscene.dep.standalone

\* What call q needs to replace or remove a rule of this shape.
Floor(q, stored) ==
    LET base == IF q.op = "delete" THEN keystone_min_trust(stored, q.caller)
                ELSE effective_keystone_min_trust(q.new, stored, q.caller)
    IN _effective_min_for_caller(base, Verified(q))

\* require_trust: the row's level; no row is a refusal on these paths.
RequireTrust(k, level) ==
    LET a == kops[k].q.caller
    IN IF StandaloneAdmin(k) THEN TRUE
       ELSE a \in Ids /\ agents[a].pk # 0 /\ agents[a].trust >= level
TrustOf(k) == IF StandaloneAdmin(k) THEN 3 ELSE agents[kops[k].q.caller].trust

\* The scope-specific shape rules of the storage service.
_validate_payload(rule) == rule.scope \in {"tenant", "fleet", "agent"} /\ (rule.scope = "agent" <=> rule.target # "none")

-----------------------------------------------------------------------------
(* The calls: a registration check, the rule, the floor, the rule again.    *)

Is(k, via, op, pc) == kops[k].q.via = via /\ kops[k].q.op = op /\ kops[k].pc = pc
KEnds(k, pc) == kops' = [kops EXCEPT ![k].pc = pc]

KeyEnters(k) ==
    /\ kops[k].pc = "new"
    /\ kops' = [kops EXCEPT ![k] = IF RequireTrust(k, 1) THEN [@ EXCEPT !.pc = "read", !.trust = TrustOf(k)]
                                   ELSE [@ EXCEPT !.pc = "403"]]
    /\ UNCHANGED <<gscene, khist, krep>>

\* The first read, on the replica; a delete of a rule that is not there ends.
KeyReads(k) ==
    /\ kops[k].pc = "read"
    /\ kops' = [kops EXCEPT ![k].seen = khist[krep],
                            ![k].pc = IF kops[k].q.op = "delete" /\ khist[krep].scope = "none"
                                      THEN "404" ELSE "floor"]
    /\ UNCHANGED <<gscene, khist, krep>>

\* The REST upsert reads the trust level again; the other calls compare the one they
\* have.
UpsertFloor(k) ==
    /\ Is(k, "rest", "set", "floor")
    /\ \/ /\ RequireTrust(k, Floor(kops[k].q, kops[k].seen))
          /\ kops' = [kops EXCEPT ![k].pc = "recheck", ![k].trust = TrustOf(k)]
       \/ ~RequireTrust(k, Floor(kops[k].q, kops[k].seen)) /\ KEnds(k, "403")
    /\ UNCHANGED <<gscene, khist, krep>>

Compared(k) == KEnds(k, IF kops[k].trust >= Floor(kops[k].q, kops[k].seen) THEN "recheck" ELSE "403")

DeleteFloor(k) == Is(k, "rest", "delete", "floor") /\ Compared(k) /\ UNCHANGED <<gscene, khist, krep>>
McpSetFloor(k) == Is(k, "mcp", "set", "floor") /\ Compared(k) /\ UNCHANGED <<gscene, khist, krep>>
McpDeleteFloor(k) == Is(k, "mcp", "delete", "floor") /\ Compared(k) /\ UNCHANGED <<gscene, khist, krep>>

AnyShape(v, seen) == TRUE

\* The shape the floor was computed for is still there.
SameShape(v, seen) == v = seen

\* The second read, on the replica too: 409 on another shape, and 404 when there is
\* nothing left to delete.
Rechecked(k, gone) ==
    LET v == khist[krep]
    IN kops' = [kops EXCEPT ![k].at = krep, ![k].again = v,
                   ![k].pc = CASE SameShape(v, kops[k].seen) -> "write"
                               [] ~SameShape(v, kops[k].seen) /\ v.scope = "none" -> gone
                               [] OTHER -> "409"]

UpsertRechecks(k) == Is(k, "rest", "set", "recheck") /\ Rechecked(k, "409") /\ UNCHANGED <<gscene, khist, krep>>
DeleteRechecks(k) == Is(k, "rest", "delete", "recheck") /\ Rechecked(k, "404") /\ UNCHANGED <<gscene, khist, krep>>
McpSetRechecks(k) == Is(k, "mcp", "set", "recheck") /\ Rechecked(k, "409") /\ UNCHANGED <<gscene, khist, krep>>
McpDeleteRechecks(k) == Is(k, "mcp", "delete", "recheck") /\ Rechecked(k, "404") /\ UNCHANGED <<gscene, khist, krep>>

Written(k) == kops' = [kops EXCEPT ![k].pc = "done", ![k].over = Current, ![k].newer = kops[k].at < Len(khist)]

\* Unconditional in storage, after the validation of the new shape.
upsert_keystone(k) ==
    /\ kops[k].q.op = "set" /\ kops[k].pc = "write"
    /\ \/ _validate_payload(kops[k].q.new) /\ khist' = Append(khist, kops[k].q.new) /\ Written(k)
       \/ ~_validate_payload(kops[k].q.new) /\ KEnds(k, "422") /\ UNCHANGED khist
    /\ UNCHANGED <<gscene, krep>>

delete_keystone(k) ==
    /\ kops[k].q.op = "delete" /\ kops[k].pc = "write"
    /\ \/ Current.scope # "none" /\ khist' = Append(khist, NoRule) /\ Written(k)
       \/ Current.scope = "none" /\ KEnds(k, "404") /\ UNCHANGED khist
    /\ UNCHANGED <<gscene, krep>>

\* External: the replica shows a later version.
KeyReplicates ==
    /\ krep < Len(khist)
    /\ krep' = krep + 1
    /\ UNCHANGED <<gscene, khist, kops>>

KeyStep ==
    \/ \E k \in DOMAIN kops :
          \/ KeyEnters(k) \/ KeyReads(k)
          \/ UpsertFloor(k) \/ DeleteFloor(k) \/ McpSetFloor(k) \/ McpDeleteFloor(k)
          \/ UpsertRechecks(k) \/ DeleteRechecks(k) \/ McpSetRechecks(k) \/ McpDeleteRechecks(k)
          \/ upsert_keystone(k) \/ delete_keystone(k)
    \/ KeyReplicates

-----------------------------------------------------------------------------
(* A rule is replaced or removed by a caller whose trust met the floor of the shape it
   replaced; a shape the caller was not authorised for is hit only when it was
   committed after the version the caller's re-read saw on the replica. *)
RuleWritesAuthorised ==
    \A k \in DOMAIN kops :
        kops[k].pc = "done" => kops[k].newer \/ kops[k].trust >= Floor(kops[k].q, kops[k].over)

\* What an agent's name and trust level decide is decided for the caller that holds them:
\* the attribution of a broker write, and who replaces or removes a keystone rule.
AgentRules == OwnedWrites /\ RuleWritesAuthorised
=============================================================================
