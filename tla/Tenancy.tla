------------------------------ MODULE Tenancy ------------------------------
(***************************************************************************)
(* The tenant boundary: how a request is given its tenants (auth.py and the *)
(* MCP middleware), the suppression mirror that a soft-deleted organization *)
(* is refused by, with its per-process cache (suppression.py) and the       *)
(* consumer that keeps the mirror, and the purge of a tenant's data         *)
(* (routes/org_deletion.py).  Time passes in Tick steps; ages count ticks.  *)
(***************************************************************************)
EXTENDS OrgSettings

CONSTANTS
    Tenants, NoTenant,
    Local,           \* the tenant of a standalone deployment
    Org,             \* the tenant whose settings OrgSettings keeps
    TTL, ErrTTL,     \* _TTL_SECONDS and _ERROR_TTL_SECONDS of the suppression cache
    PurgeTables,     \* _PURGE_TENANT_TABLES
    MaxDeliveries    \* deliveries before an event is dead-lettered

ASSUME TenancyAssumption == TTL \in Nat \ {0} /\ ErrTTL \in 1..TTL

VARIABLES
    mirror,    \* tenant_suppression on the primary: is suppressed_at set
    replica,   \* what the replica shows
    repAge,    \* ticks since the replica last changed, at most TTL
    supCache,  \* _cache of each worker: [val, ttl], expired at ttl 0
    failAge,   \* ticks since the last failed check of a tenant began, at most ErrTTL
    events,    \* suppression-changed events
    reqs,      \* requests
    rows,      \* the rows of a tenant: which request made it, in which table
    purge,     \* one purge_org_data request
    paudit     \* the lifecycle_audit row of the purge of each tenant

tenancyVars == <<mirror, replica, repAge, supCache, failAge, events, reqs, rows, purge, paudit>>

Least(a, b) == IF a < b THEN a ELSE b
Others(home, readable) == SelectSeq(readable, LAMBDA t : t # home)

TenancyInit(sc) ==
    /\ mirror = [t \in Tenants |-> FALSE] /\ replica = mirror
    /\ repAge = [t \in Tenants |-> 0]
    /\ supCache = [w \in Workers |-> [t \in Tenants |-> [val |-> FALSE, ttl |-> 0]]]
    /\ failAge = [w \in Workers |-> [t \in Tenants |-> ErrTTL]]
    /\ events = [e \in 1..Len(sc.events) |->
                   [action |-> sc.events[e].action, tenants |-> sc.events[e].tenants,
                    idx |-> 1, tries |-> 0, st |-> "queued"]]
    /\ reqs = [r \in 1..Len(sc.reqs) |->
                 [pc |-> "new", q |-> sc.reqs[r], todo |-> <<>>, wait |-> 0, got |-> "none",
                  old |-> FALSE, late |-> FALSE]]
    /\ rows = [t \in Tenants |-> {}]
    /\ purge = [pc |-> "new", todo |-> sc.purge, out |-> [t \in Tenants |-> "none"],
                saw |-> [t \in Tenants |-> {}]]
    /\ paudit = [t \in Tenants |-> "none"]

-----------------------------------------------------------------------------
(* Who the caller is.  A context is [ok, admin, home, readable].            *)

Denied == [ok |-> FALSE, admin |-> FALSE, home |-> NoTenant, readable |-> <<>>]
AuthContext(home, readable) == [ok |-> TRUE, admin |-> FALSE, home |-> home, readable |-> readable]

\* The four paths of get_auth_context, in order: the admin key, the deployment's own
\* key, standalone, the gateway's headers.
get_auth_context(dep, q) ==
    CASE q.key = "admin" -> [Denied EXCEPT !.ok = TRUE, !.admin = TRUE]
      [] q.key # "admin" /\ dep.ownKey ->
           IF q.key # "memclaw" THEN Denied
           ELSE IF dep.standalone THEN AuthContext(Local, <<>>)
           ELSE AuthContext(q.home, IF q.home = NoTenant THEN <<>> ELSE q.readable)
      [] q.key # "admin" /\ ~dep.ownKey /\ dep.standalone -> AuthContext(Local, <<>>)
      [] OTHER -> IF q.home = NoTenant \/ (dep.secret /\ ~q.secret) THEN Denied
                  ELSE AuthContext(q.home, q.readable)

\* MCPAuthMiddleware: the gateway's headers come first, and the suppression mirror is
\* not asked on this path.
MCPAuthMiddleware(dep, q) ==
    IF q.home # NoTenant
    THEN IF dep.secret /\ ~q.secret THEN Denied ELSE AuthContext(q.home, q.readable)
    ELSE IF q.key = "admin" \/ ~dep.standalone THEN Denied ELSE AuthContext(Local, <<>>)

\* The gates of AuthContext: a read-only credential or an organization over its plan
\* may not write, and deletes stay possible over the plan.
enforce_read_only(q) == "write" \in q.caps
enforce_usage_limits(q) == ~q.overPlan
enforce_tenant(ctx, t) == ctx.admin \/ ctx.home = t
enforce_readable_tenant(ctx, t) ==
    ctx.admin \/ t = ctx.home \/ \E i \in 1..Len(ctx.readable) : ctx.readable[i] = t
Permitted(ctx, q) ==
    CASE q.verb = "read" -> enforce_readable_tenant(ctx, q.target)
      [] q.verb = "write" -> enforce_read_only(q) /\ enforce_usage_limits(q) /\ enforce_tenant(ctx, q.target)
      [] q.verb = "delete" -> enforce_read_only(q) /\ enforce_tenant(ctx, q.target)

ContextOf(r) ==
    IF reqs[r].q.via = "mcp" THEN MCPAuthMiddleware(gscene.dep, reqs[r].q)
    ELSE get_auth_context(gscene.dep, reqs[r].q)

\* _block_if_suppressed for the home tenant, then _block_if_any_readable_suppressed
\* for the others.
SuppressionChecks(ctx) ==
    IF ctx.home = NoTenant THEN <<>> ELSE <<ctx.home>> \o Others(ctx.home, ctx.readable)

Arrive(r) ==
    /\ reqs[r].pc = "new"
    /\ LET ctx == ContextOf(r)
           todo == IF ctx.ok /\ reqs[r].q.via = "rest" THEN SuppressionChecks(ctx) ELSE <<>>
       IN reqs' = [reqs EXCEPT ![r].pc = CASE ~ctx.ok -> "denied"
                                           [] ctx.ok /\ todo = <<>> -> "admitted"
                                           [] OTHER -> "check",
                               ![r].todo = todo]
    /\ UNCHANGED <<gscene, settingsVars, mirror, replica, repAge, supCache, failAge, events, rows, purge, paudit>>

-----------------------------------------------------------------------------
(* is_tenant_suppressed.  `now` is taken before the call to storage.        *)

\* The tenant was shown suppressed for a whole TTL before the check began.
LongSuppressed(t) == replica[t] /\ repAge[t] = TTL

Decide(r, suppressed, excused, old) ==
    LET rest == Tail(reqs[r].todo)
    IN reqs' = [reqs EXCEPT
                 ![r].pc = IF suppressed THEN "blocked" ELSE IF rest = <<>> THEN "admitted" ELSE "check",
                 ![r].todo = rest, ![r].wait = 0, ![r].got = "none", ![r].old = FALSE,
                 ![r].late = @ \/ (~suppressed /\ ~excused /\ old)]

CheckHits(r) ==
    /\ reqs[r].pc = "check"
    /\ LET w == reqs[r].q.w
           t == Head(reqs[r].todo)
       IN /\ supCache[w][t].ttl > 0
          /\ Decide(r, supCache[w][t].val, failAge[w][t] < ErrTTL, LongSuppressed(t))
    /\ UNCHANGED <<gscene, settingsVars, mirror, replica, repAge, supCache, failAge, events, rows, purge, paudit>>

CheckMisses(r) ==
    /\ reqs[r].pc = "check"
    /\ supCache[reqs[r].q.w][Head(reqs[r].todo)].ttl = 0
    /\ reqs' = [reqs EXCEPT ![r].pc = "fetch", ![r].wait = 0,
                            ![r].old = LongSuppressed(Head(reqs[r].todo))]
    /\ UNCHANGED <<gscene, settingsVars, mirror, replica, repAge, supCache, failAge, events, rows, purge, paudit>>

\* SELECT on the replica, or the call fails.
CheckReads(r) ==
    /\ reqs[r].pc = "fetch" /\ reqs[r].got = "none"
    /\ \/ reqs' = [reqs EXCEPT ![r].got = IF replica[Head(reqs[r].todo)] THEN "suppressed" ELSE "live"]
          /\ UNCHANGED gscene
       \/ reqs' = [reqs EXCEPT ![r].got = "error"] /\ GFault
    /\ UNCHANGED <<settingsVars, mirror, replica, repAge, supCache, failAge, events, rows, purge, paudit>>

_prune_expired(c) == [t \in Tenants |-> IF c[t].ttl = 0 THEN [val |-> FALSE, ttl |-> 0] ELSE c[t]]

TtlFromAnswer(life, wait) == life

\* The expiry counts from before the call: what is left of it once it returned.
Remaining(life, wait) == IF wait < life THEN life - wait ELSE 0

\* A failed call fails open, and is cached for the short TTL.
CheckStores(r) ==
    /\ reqs[r].pc = "fetch" /\ reqs[r].got # "none"
    /\ LET w == reqs[r].q.w
           t == Head(reqs[r].todo)
           err == reqs[r].got = "error"
           sup == reqs[r].got = "suppressed"
       IN /\ supCache' = [supCache EXCEPT ![w] = [_prune_expired(@) EXCEPT ![t] =
                 [val |-> sup, ttl |-> Remaining(IF err THEN ErrTTL ELSE TTL, reqs[r].wait)]]]
          /\ failAge' = [failAge EXCEPT ![w][t] = IF err THEN Least(@, reqs[r].wait) ELSE @]
          /\ Decide(r, sup, err, reqs[r].old)
    /\ UNCHANGED <<gscene, settingsVars, mirror, replica, repAge, events, rows, purge, paudit>>

\* The admitted request does its work; a write adds a row of the tenant.
Work(r) ==
    /\ reqs[r].pc = "admitted"
    /\ LET q == reqs[r].q
           ok == Permitted(ContextOf(r), q)
       IN /\ reqs' = [reqs EXCEPT ![r].pc = IF ok THEN "done" ELSE "denied"]
          /\ rows' = IF ok /\ q.verb = "write" THEN [rows EXCEPT ![q.target] = @ \cup {<<r, q.table>>}]
                     ELSE IF ok /\ q.verb = "delete" THEN [rows EXCEPT ![q.target] = {}] ELSE rows
    /\ UNCHANGED <<gscene, settingsVars, mirror, replica, repAge, supCache, failAge, events, purge, paudit>>
-----------------------------------------------------------------------------
(* The consumer of memclaw.org.suppression-changed.                        *)

\* A duplicate suppress keeps the row suppressed, a duplicate restore keeps it live.
set_tenant_suppression(t, action) ==
    mirror' = [mirror EXCEPT ![t] = action = "suppress"]

\* A malformed payload is dropped and acknowledged.
SuppressionDelivered(e) ==
    /\ events[e].st = "queued"
    /\ events' = [events EXCEPT ![e].st = IF events[e].action = "malformed" THEN "acked" ELSE "handling",
                                ![e].idx = 1, ![e].tries = @ + 1]
    /\ UNCHANGED <<gscene, settingsVars, mirror, replica, repAge, supCache, failAge, reqs, rows, purge, paudit>>

Nacked(e) == IF events[e].tries = MaxDeliveries THEN "dead" ELSE "queued"

SwallowFailure(e) ==
    /\ events[e].st = "handling"
    /\ \/ set_tenant_suppression(events[e].tenants[events[e].idx], events[e].action) /\ UNCHANGED gscene
       \/ GFault /\ UNCHANGED mirror
    /\ events' = [events EXCEPT ![e].idx = @ + 1,
                                ![e].st = IF events[e].idx = Len(events[e].tenants) THEN "acked" ELSE @]
    /\ UNCHANGED <<settingsVars, replica, repAge, supCache, failAge, reqs, rows, purge, paudit>>

\* One upsert after the other; the first that fails raises, the bus redelivers the
\* whole event and dead-letters it after the last delivery.
_handle_suppression_changed(e) ==
    /\ events[e].st = "handling"
    /\ \/ /\ set_tenant_suppression(events[e].tenants[events[e].idx], events[e].action)
          /\ events' = [events EXCEPT ![e].idx = @ + 1,
                          ![e].st = IF events[e].idx = Len(events[e].tenants) THEN "acked" ELSE @]
          /\ UNCHANGED gscene
       \/ /\ GFault /\ UNCHANGED mirror
          /\ events' = [events EXCEPT ![e].st = Nacked(e)]
    /\ UNCHANGED <<settingsVars, replica, repAge, supCache, failAge, reqs, rows, purge, paudit>>

\* External: an acknowledgement is lost, and the bus delivers again.
SuppressionRedelivered(e) ==
    /\ events[e].st = "acked" /\ events[e].tries < MaxDeliveries
    /\ GFault
    /\ events' = [events EXCEPT ![e].st = "queued"]
    /\ UNCHANGED <<settingsVars, mirror, replica, repAge, supCache, failAge, reqs, rows, purge, paudit>>

\* External: the replica catches up.
SuppressionReplicates(t) ==
    /\ replica[t] # mirror[t]
    /\ replica' = [replica EXCEPT ![t] = mirror[t]]
    /\ repAge' = [repAge EXCEPT ![t] = 0]
    /\ reqs' = [r \in DOMAIN reqs |-> IF reqs[r].pc = "fetch" /\ Head(reqs[r].todo) = t
                                      THEN [reqs[r] EXCEPT !.old = FALSE] ELSE reqs[r]]
    /\ UNCHANGED <<gscene, settingsVars, mirror, supCache, failAge, events, rows, purge, paudit>>

-----------------------------------------------------------------------------
(* purge_org_data: one tenant after the other, each on its own.             *)

Purging(pc) == purge.pc = pc /\ purge.todo # <<>>

\* A purge goes on when its audit row could not be made.
PurgeOpensAudit ==
    /\ Purging("new")
    /\ LET t == Head(purge.todo)
       IN \/ paudit' = [paudit EXCEPT ![t] = "open"] /\ UNCHANGED gscene
          \/ GFault /\ UNCHANGED paudit
    /\ purge' = [purge EXCEPT !.pc = "purge"]
    /\ UNCHANGED <<settingsVars, mirror, replica, repAge, supCache, failAge, events, reqs, rows>>

Purged(t) == {x \in rows[t] : x[2] \in PurgeTables}

\* The tables of the list in one transaction, children before parents; what is kept in
\* other tables of the tenant stays.
purge_tenant_data(t) ==
    /\ rows' = [rows EXCEPT ![t] = @ \ Purged(t)]
    /\ IF t = Org THEN SettingsPurged ELSE UNCHANGED <<sset, slast, sfirst>>

Reported(t, out) ==
    purge' = [purge EXCEPT !.pc = "finalize", !.out[t] = out, !.saw[t] = Purged(t)]

AssumeDone ==
    /\ Purging("purge")
    /\ LET t == Head(purge.todo)
       IN \/ purge_tenant_data(t) /\ Reported(t, "purged") /\ UNCHANGED gscene
          \/ Reported(t, "purged") /\ GFault /\ UNCHANGED <<rows, sset, slast, sfirst>>
    /\ UNCHANGED <<srep, slock, supd, scache, sload, sbus, mirror, replica, repAge, supCache,
                   failAge, events, reqs, paudit>>

\* The call may fail before the transaction commits, and its answer may be lost after.
PurgeTenant ==
    /\ Purging("purge")
    /\ LET t == Head(purge.todo)
       IN \/ purge_tenant_data(t) /\ Reported(t, "purged") /\ UNCHANGED gscene
          \/ purge_tenant_data(t) /\ Reported(t, "failed") /\ GFault
          \/ Reported(t, "failed") /\ GFault /\ UNCHANGED <<rows, sset, slast, sfirst>>
    /\ UNCHANGED <<srep, slock, supd, scache, sload, sbus, mirror, replica, repAge, supCache,
                   failAge, events, reqs, paudit>>

_finalize(t, status) ==
    \/ paudit' = [paudit EXCEPT ![t] = IF @ = "open" THEN status ELSE @] /\ UNCHANGED gscene
    \/ GFault /\ UNCHANGED paudit

\* A failed finalize is logged; the loop goes on, and ends with 207 if one failed.
PurgeFinalizes ==
    /\ Purging("finalize")
    /\ LET t == Head(purge.todo)
       IN _finalize(t, IF purge.out[t] = "purged" THEN "success" ELSE "failure")
    /\ purge' = [purge EXCEPT !.todo = Tail(@),
                              !.pc = IF Tail(purge.todo) # <<>> THEN "new"
                                     ELSE IF \E t \in Tenants : purge.out[t] = "failed" THEN "207" ELSE "200"]
    /\ UNCHANGED <<settingsVars, mirror, replica, repAge, supCache, failAge, events, reqs, rows>>

-----------------------------------------------------------------------------
Waiting(r) == reqs[r].pc = "fetch"

\* A tick of the monotonic clocks; the ages stop where nothing depends on them.
Tick ==
    /\ gscene.clock
    /\ supCache' = [w \in Workers |-> [t \in Tenants |->
                      [supCache[w][t] EXCEPT !.ttl = IF @ = 0 THEN 0 ELSE @ - 1]]]
    /\ failAge' = [w \in Workers |-> [t \in Tenants |-> Least(ErrTTL, failAge[w][t] + 1)]]
    /\ repAge' = [t \in Tenants |-> Least(TTL, repAge[t] + 1)]
    /\ reqs' = [r \in DOMAIN reqs |->
                  IF Waiting(r) THEN [reqs[r] EXCEPT !.wait = Least(TTL, @ + 1)] ELSE reqs[r]]
    /\ scache' = Aged
    /\ UNCHANGED <<gscene, sset, srep, slock, supd, sload, sbus, slast, sfirst, mirror, replica,
                   events, rows, purge, paudit>>

TenancyStep ==
    \/ \E r \in DOMAIN reqs :
          Arrive(r) \/ CheckHits(r) \/ CheckMisses(r) \/ CheckReads(r) \/ CheckStores(r) \/ Work(r)
    \/ \E e \in DOMAIN events :
          SuppressionDelivered(e) \/ _handle_suppression_changed(e) \/ SuppressionRedelivered(e)
    \/ \E t \in Tenants : SuppressionReplicates(t)
    \/ PurgeOpensAudit \/ PurgeTenant \/ PurgeFinalizes
    \/ Tick

TenancyProgress ==
    \/ \E r \in DOMAIN reqs :
          CheckHits(r) \/ CheckMisses(r) \/ CheckReads(r) \/ CheckStores(r) \/ Work(r)
    \/ \E e \in DOMAIN events : SuppressionDelivered(e) \/ _handle_suppression_changed(e)
    \/ \E t \in Tenants : SuppressionReplicates(t)
    \/ PurgeOpensAudit \/ PurgeTenant \/ PurgeFinalizes

-----------------------------------------------------------------------------
(* No request is admitted that reads or writes a tenant which the replica   *)
(* had shown suppressed for a whole TTL before the request's check of it     *)
(* began, unless a check of that tenant failed open within the error TTL:    *)
(* slow answers, overtaking checks and overwritten entries never make a       *)
(* cached "live" outlive its TTL (suppression.py).                           *)
AdmissionFresh == \A r \in DOMAIN reqs : ~reqs[r].late

\* An answer of the purge route is true: a tenant it calls purged holds no row of the
\* listed tables that was there when its transaction ran, its audit row does not say otherwise, and the
\* status is 200 exactly when no tenant failed (routes/org_deletion.py).
PurgeAnswerTrue ==
    /\ \A t \in Tenants :
          /\ purge.out[t] = "purged" => purge.saw[t] \cap rows[t] = {} /\ paudit[t] # "failure"
          /\ paudit[t] = "success" => purge.out[t] = "purged"
    /\ purge.pc = "200" => \A t \in Tenants : purge.out[t] # "failed"
    /\ purge.pc = "207" => \E t \in Tenants : purge.out[t] = "failed"

\* A tenant that events only ever suppress ends up refused by every process, for good,
\* unless an event of it was dead-lettered: partial failures and redeliveries of the
\* handler leave no tenant of the organization out.
OnlySuppressed(t) ==
    /\ \E e \in DOMAIN events : \E i \in DOMAIN events[e].tenants : events[e].tenants[i] = t
    /\ \A e \in DOMAIN events :
          (\E i \in DOMAIN events[e].tenants : events[e].tenants[i] = t) =>
              events[e].action = "suppress" /\ events[e].st # "dead"
SuppressionLands ==
    <>[](\A t \in Tenants : OnlySuppressed(t) =>
            replica[t] /\ \A w \in Workers : supCache[w][t].ttl > 0 => supCache[w][t].val)

\* The boundary of a tenant that is being deleted: nobody is admitted to it on a stale
\* entry, and what the purge answers of it is so.
TenantBoundary == AdmissionFresh /\ PurgeAnswerTrue

\* What an operator decides reaches every process: the overrides and the suppressions.
GovernanceConverges == SettingsConverge /\ SuppressionLands
=============================================================================
