---------------------------- MODULE TenancyProofs ----------------------------
(***************************************************************************)
(* The tenant boundary and the tenant's settings, for every set of workers, *)
(* tenants and updates: nobody is admitted on a stale entry of the          *)
(* suppression cache, what the purge route answers is so, and an update of  *)
(* the settings keeps what others wrote.                                    *)
(***************************************************************************)
EXTENDS Governance, Integers, TLAPS

-----------------------------------------------------------------------------
(* A cached "live" is never older than the replica's news: what is left of   *)
(* it and the age of a suppression add up to at most a TTL.  A check under   *)
(* way that read "live" knows the same of the time it has waited.            *)

ReqFields == {"pc", "q", "todo", "wait", "got", "old", "late"}
Asks(q) == /\ q.w \in Workers /\ q.home \in Tenants \cup {NoTenant}
           /\ \A home \in Tenants : Others(home, q.readable) \in Seq(Tenants)

Fit(x) ==
    /\ DOMAIN x = ReqFields /\ Asks(x.q)
    /\ x.todo \in Seq(Tenants) /\ x.wait \in 0..TTL /\ x.late = FALSE /\ x.old \in BOOLEAN
    /\ x.got \in {"none", "suppressed", "live", "error"}
    /\ x.pc \in {"new", "check"} => x.got = "none"
    /\ x.pc \in {"check", "fetch"} => x.todo # <<>>
    /\ x.pc = "fetch" =>
          /\ x.got = "live" => ~replica[Head(x.todo)] \/ repAge[Head(x.todo)] <= x.wait
          /\ x.old => replica[Head(x.todo)] /\ x.got # "live"

Honest(c, w, t) ==
    /\ c \in [val : BOOLEAN, ttl : 0..TTL]
    /\ c.ttl > 0 /\ ~c.val => \/ failAge[w][t] + c.ttl <= ErrTTL
                              \/ ~replica[t]
                              \/ repAge[t] + c.ttl <= TTL

EType ==
    /\ mirror \in [Tenants -> BOOLEAN] /\ replica \in [Tenants -> BOOLEAN]
    /\ repAge \in [Tenants -> 0..TTL]
    /\ failAge \in [Workers -> [Tenants -> 0..ErrTTL]]
    /\ DOMAIN supCache = Workers /\ \A w \in Workers : DOMAIN supCache[w] = Tenants

EInv ==
    /\ EType
    /\ \A w \in Workers : \A t \in Tenants : Honest(supCache[w][t], w, t)
    /\ \A r \in DOMAIN reqs : Fit(reqs[r])

-----------------------------------------------------------------------------
(* The purge takes each tenant once, and a row is made once: the request     *)
(* that made it is done.                                                     *)

PurgeOK ==
    /\ DOMAIN purge = {"pc", "todo", "out", "saw"}
    /\ purge.todo \in Seq(Tenants)
    /\ purge.out \in [Tenants -> {"none", "purged", "failed"}]
    /\ DOMAIN purge.saw = Tenants
    /\ \A i, j \in 1..Len(purge.todo) : purge.todo[i] = purge.todo[j] => i = j
    /\ paudit \in [Tenants -> {"none", "open", "success", "failure"}]
    /\ \A i \in 1..Len(purge.todo) : paudit[purge.todo[i]] \in {"none", "open"}
    /\ purge.pc = "finalize" /\ purge.todo # <<>> => purge.out[Head(purge.todo)] \in {"purged", "failed"}
    /\ \A t \in Tenants : /\ paudit[t] = "success" => purge.out[t] = "purged"
                          /\ paudit[t] = "failure" => purge.out[t] = "failed"
    /\ purge.pc = "200" => \A t \in Tenants : purge.out[t] # "failed"
    /\ purge.pc = "207" => \E t \in Tenants : purge.out[t] = "failed"

Done(r) == r \in DOMAIN reqs /\ reqs[r].pc = "done"

RowsOK ==
    /\ DOMAIN rows = Tenants
    /\ \A t \in Tenants : \A x \in rows[t] \cup purge.saw[t] : Done(x[1])
    /\ \A t \in Tenants : purge.out[t] = "purged" => purge.saw[t] \cap rows[t] = {}

PInv == PurgeOK /\ RowsOK

-----------------------------------------------------------------------------
\* The head and the tail of a non-empty list of checks.
LEMMA NonEmpty ==
  ASSUME NEW S, NEW q \in Seq(S), q # <<>>
  PROVE  /\ Len(q) \in Nat /\ 1 \in 1..Len(q) /\ Head(q) = q[1] /\ Head(q) \in S /\ Tail(q) \in Seq(S)
         /\ Len(Tail(q)) = Len(q) - 1 /\ \A i \in 1..Len(Tail(q)) : i + 1 \in 1..Len(q) /\ Tail(q)[i] = q[i + 1]
OBVIOUS

\* No request admitted, no purge begun.
LEMMA Begins == GInit => EInv /\ PInv
<1> SUFFICES ASSUME GInit PROVE EInv /\ PInv
  OBVIOUS
<1>1. gscene \in GScenes /\ TenancyInit(gscene)
  BY DEF GInit
<1>2. EType
  BY <1>1, TenancyAssumption DEF TenancyInit, EType
<1>3. \A w \in Workers : \A t \in Tenants : Honest(supCache[w][t], w, t)
  BY <1>1, TenancyAssumption DEF TenancyInit, Honest
<1>4. ASSUME NEW r \in DOMAIN reqs PROVE Fit(reqs[r])
  <2> DEFINE x == [pc |-> "new", q |-> gscene.reqs[r], todo |-> <<>>, wait |-> 0, got |-> "none",
                   old |-> FALSE, late |-> FALSE]
  <2>1. r \in 1..Len(gscene.reqs) /\ reqs[r] = x
    BY Zenon, <1>1 DEF TenancyInit
  <2>2. Asks(gscene.reqs[r])
    BY Zenon, <1>1, <2>1, BoundaryAssumption DEF Asks
  <2>3. <<>> \in Seq(Tenants) /\ 0 \in 0..TTL
    BY TenancyAssumption
  <2>4. Fit(x)
    BY Zenon, <2>2, <2>3 DEF Fit, ReqFields
  <2> QED
    BY Zenon, <2>1, <2>4
<1>5. PurgeOK
  BY <1>1, BoundaryAssumption DEF TenancyInit, PurgeOK
<1>6. RowsOK
  BY Zenon, <1>1 DEF TenancyInit, RowsOK
<1> QED
  BY Zenon, <1>2, <1>3, <1>4, <1>5, <1>6 DEF EInv, PInv

\* A stuttering step.
LEMMA Keep ==
  ASSUME EInv, PInv, UNCHANGED tenancyVars
  PROVE  EInv' /\ PInv'
<1>1. EInv'
  BY ZenonT(60) DEF tenancyVars, EInv, EType, Honest, Fit
<1>2. PInv'
  BY ZenonT(60) DEF tenancyVars, PInv, PurgeOK, RowsOK, Done
<1> QED
  BY <1>1, <1>2

-----------------------------------------------------------------------------
(* Steps of one request.                                                    *)

\* The rows a purge removed stay accounted for.
LEMMA RowsFollow ==
  ASSUME PInv, UNCHANGED <<purge, paudit, rows>>, \A r : Done(r) => Done(r)'
  PROVE  PInv'
<1>1. PurgeOK'
  BY ZenonT(60) DEF PInv, PurgeOK
<1>2. RowsOK'
  <2>1. \A t \in Tenants : \A x \in rows[t] \cup purge.saw[t] : Done(x[1])'
    BY Zenon DEF PInv, RowsOK
  <2> QED
    BY Zenon, <2>1 DEF PInv, RowsOK
<1> QED
  BY <1>1, <1>2 DEF PInv

\* One request moves; the others stay as they are.
LEMMA OneRequest ==
  ASSUME EInv, NEW r \in DOMAIN reqs, NEW x, reqs' = [reqs EXCEPT ![r] = x],
         UNCHANGED <<mirror, replica, repAge>>, Fit(x), reqs[r].pc # "done"
  PROVE  /\ \A s \in DOMAIN reqs' : Fit(reqs[s])'
         /\ \A s : Done(s) => Done(s)'
         /\ DOMAIN reqs' = DOMAIN reqs /\ reqs'[r] = x
<1>1. DOMAIN reqs' = DOMAIN reqs /\ reqs'[r] = x /\ \A s \in DOMAIN reqs : s # r => reqs'[s] = reqs[s]
  OBVIOUS
<1>2. ASSUME NEW s \in DOMAIN reqs PROVE Fit(reqs[s])'
  <2>1. Fit(reqs'[s])
    BY Zenon, <1>1 DEF EInv
  <2> QED
    BY Zenon, <2>1 DEF Fit
<1> QED
  BY Zenon, <1>1, <1>2 DEF Done

\* A step that moves only one request.
LEMMA RequestOnly ==
  ASSUME EInv, PInv, NEW r \in DOMAIN reqs, NEW x, reqs' = [reqs EXCEPT ![r] = x],
         UNCHANGED <<mirror, replica, repAge, supCache, failAge, rows, purge, paudit>>,
         Fit(x), reqs[r].pc # "done"
  PROVE  EInv' /\ PInv'
<1>1. EType' /\ \A w \in Workers : \A t \in Tenants : Honest(supCache[w][t], w, t)'
  BY Zenon DEF EInv, EType, Honest
<1>2. /\ \A s \in DOMAIN reqs' : Fit(reqs[s])'
      /\ \A s : Done(s) => Done(s)'
  BY Zenon, OneRequest
<1> QED
  BY Zenon, <1>1, <1>2, RowsFollow DEF EInv

\* The tenants a request is checked for.
LEMMA ChecksType ==
  ASSUME NEW q, Asks(q), NEW dep
  PROVE  /\ SuppressionChecks(get_auth_context(dep, q)) \in Seq(Tenants)
         /\ SuppressionChecks(MCPAuthMiddleware(dep, q)) \in Seq(Tenants)
<1>1. ASSUME NEW home \in Tenants, NEW readable, Others(home, readable) \in Seq(Tenants)
      PROVE  SuppressionChecks(AuthContext(home, readable)) \in Seq(Tenants)
  <2>1. AuthContext(home, readable).home = home /\ AuthContext(home, readable).readable = readable
    BY DEF AuthContext
  <2>2. <<home>> \in Seq(Tenants) /\ <<>> \in Seq(Tenants)
    OBVIOUS
  <2>3. <<home>> \o Others(home, readable) \in Seq(Tenants)
    BY <2>2, <1>1
  <2> QED
    BY <2>1, <2>2, <2>3 DEF SuppressionChecks
<1>2. ASSUME NEW readable PROVE SuppressionChecks(AuthContext(NoTenant, readable)) \in Seq(Tenants)
  BY DEF SuppressionChecks, AuthContext
<1>3. SuppressionChecks(Denied) \in Seq(Tenants) /\ SuppressionChecks([Denied EXCEPT !.ok = TRUE, !.admin = TRUE]) \in Seq(Tenants)
  BY DEF SuppressionChecks, Denied
<1>4. SuppressionChecks(AuthContext(Local, <<>>)) \in Seq(Tenants)
  BY <1>1, BoundaryAssumption
<1>5. /\ SuppressionChecks(AuthContext(q.home, q.readable)) \in Seq(Tenants)
      /\ SuppressionChecks(AuthContext(q.home, IF q.home = NoTenant THEN <<>> ELSE q.readable)) \in Seq(Tenants)
  BY Zenon, <1>1, <1>2 DEF Asks
<1>6. SuppressionChecks(get_auth_context(dep, q)) \in Seq(Tenants)
  <2>1. get_auth_context(dep, q) \in {Denied, [Denied EXCEPT !.ok = TRUE, !.admin = TRUE], AuthContext(Local, <<>>),
              AuthContext(q.home, q.readable), AuthContext(q.home, IF q.home = NoTenant THEN <<>> ELSE q.readable)}
    BY DEF get_auth_context
  <2> QED
    BY <2>1, <1>3, <1>4, <1>5
<1>7. SuppressionChecks(MCPAuthMiddleware(dep, q)) \in Seq(Tenants)
  <2>1. MCPAuthMiddleware(dep, q) \in {Denied, AuthContext(Local, <<>>), AuthContext(q.home, q.readable)}
    BY DEF MCPAuthMiddleware
  <2> QED
    BY <2>1, <1>3, <1>4, <1>5
<1> QED
  BY <1>6, <1>7

\* A request arrives, by REST or by MCP.
LEMMA ArriveKeeps ==
  ASSUME EInv, PInv, NEW r \in DOMAIN reqs, Arrive(r) PROVE EInv' /\ PInv'
<1> DEFINE ctx == ContextOf(r)
           todo == IF ctx.ok /\ reqs[r].q.via = "rest" THEN SuppressionChecks(ctx) ELSE <<>>
           pc == CASE ~ctx.ok -> "denied" [] ctx.ok /\ todo = <<>> -> "admitted" [] OTHER -> "check"
           x == [reqs[r] EXCEPT !.pc = pc, !.todo = todo]
<1>1. Fit(reqs[r]) /\ reqs[r].pc = "new"
  BY Zenon DEF EInv, Arrive
<1>2. todo \in Seq(Tenants)
  <2>1. SuppressionChecks(ctx) \in Seq(Tenants)
    BY Zenon, <1>1, ChecksType DEF ContextOf, Fit
  <2> QED
    BY <2>1
<1>3. pc \in {"denied", "admitted", "check"} /\ (pc = "check" => todo # <<>>)
  BY Zenon DEF ContextOf
<1>4. reqs' = [reqs EXCEPT ![r] = x]
  BY Zenon DEF Arrive
<1> HIDE DEF pc, todo, ctx
<1>5. Fit(x)
  BY <1>1, <1>2, <1>3 DEF Fit, ReqFields
<1> HIDE DEF x
<1> QED
  BY Zenon, <1>1, <1>4, <1>5, RequestOnly DEF Arrive

\* What the decision on one tenant leaves of the request.
LEMMA Decided ==
  ASSUME EInv, NEW r \in DOMAIN reqs, reqs[r].pc \in {"check", "fetch"},
         NEW suppressed \in BOOLEAN, NEW excused \in BOOLEAN, NEW old \in BOOLEAN,
         Decide(r, suppressed, excused, old), ~suppressed /\ ~excused => ~old
  PROVE  \E x : reqs' = [reqs EXCEPT ![r] = x] /\ Fit(x)
<1> DEFINE rest == Tail(reqs[r].todo)
           pc == IF suppressed THEN "blocked" ELSE IF rest = <<>> THEN "admitted" ELSE "check"
           late == reqs[r].late \/ (~suppressed /\ ~excused /\ old)
           x == [reqs[r] EXCEPT !.pc = pc, !.todo = rest, !.wait = 0, !.got = "none", !.old = FALSE, !.late = late]
<1>1. Fit(reqs[r])
  BY Zenon DEF EInv
<1>2. rest \in Seq(Tenants) /\ 0 \in 0..TTL
  BY <1>1, NonEmpty, TenancyAssumption DEF Fit
<1>3. late = FALSE
  BY Zenon, <1>1 DEF Fit
<1>4. pc \in {"blocked", "admitted", "check"} /\ (pc = "check" => rest # <<>>)
  OBVIOUS
<1>5. reqs' = [reqs EXCEPT ![r] = x]
  BY ZenonT(60) DEF Decide
<1> HIDE DEF late, pc, rest
<1>6. Fit(x)
  BY Zenon, <1>1, <1>2, <1>3, <1>4 DEF Fit, ReqFields
<1> QED
  BY Zenon, <1>5, <1>6

\* The suppression cache has the tenant.
LEMMA HitsKeeps ==
  ASSUME EInv, PInv, NEW r \in DOMAIN reqs, CheckHits(r) PROVE EInv' /\ PInv'
<1> DEFINE w == reqs[r].q.w
           t == Head(reqs[r].todo)
           c == supCache[w][t]
<1>1. Fit(reqs[r]) /\ reqs[r].pc = "check"
  BY Zenon DEF EInv, CheckHits
<1>2. w \in Workers /\ t \in Tenants
  BY Zenon, <1>1, NonEmpty DEF Fit, Asks
<1>3. c.ttl > 0 /\ Decide(r, c.val, failAge[w][t] < ErrTTL, LongSuppressed(t))
  BY ZenonT(60) DEF CheckHits
<1>4. Honest(c, w, t) /\ failAge[w][t] \in 0..ErrTTL /\ repAge[t] \in 0..TTL /\ replica[t] \in BOOLEAN
  BY <1>2 DEF EInv, EType
<1> HIDE DEF c, w, t
<1>5. c.val \in BOOLEAN /\ (~c.val /\ ~(failAge[w][t] < ErrTTL) => ~LongSuppressed(t))
  BY <1>3, <1>4, TenancyAssumption DEF Honest, LongSuppressed
<1>6. PICK x : reqs' = [reqs EXCEPT ![r] = x] /\ Fit(x)
  <2>1. LongSuppressed(t) \in BOOLEAN /\ (failAge[w][t] < ErrTTL) \in BOOLEAN
    BY DEF LongSuppressed
  <2> QED
    BY Zenon, <1>1, <1>3, <1>5, <2>1, Decided
<1> QED
  BY ZenonT(60), <1>1, <1>6, RequestOnly DEF CheckHits

\* The suppression cache does not have the tenant.
LEMMA MissesKeeps ==
  ASSUME EInv, PInv, NEW r \in DOMAIN reqs, CheckMisses(r) PROVE EInv' /\ PInv'
<1> DEFINE old == LongSuppressed(Head(reqs[r].todo))
           x == [reqs[r] EXCEPT !.pc = "fetch", !.wait = 0, !.old = old]
<1>1. Fit(reqs[r]) /\ reqs[r].pc = "check" /\ reqs' = [reqs EXCEPT ![r] = x]
  BY Zenon DEF EInv, CheckMisses
<1>2. old \in BOOLEAN /\ (old => replica[Head(reqs[r].todo)]) /\ 0 \in 0..TTL
  BY TenancyAssumption DEF LongSuppressed
<1> HIDE DEF old
<1>3. Fit(x)
  BY Zenon, <1>1, <1>2 DEF Fit, ReqFields
<1> HIDE DEF x
<1> QED
  BY Zenon, <1>1, <1>3, RequestOnly DEF CheckMisses

\* The lesser of two ages.
LEMMA LeastBounds ==
  \A a \in 0..ErrTTL, b \in 0..TTL :
    Least(a, b) \in 0..ErrTTL /\ Least(a, b) <= a /\ Least(a, b) <= b
BY TenancyAssumption DEF Least

\* The ages are integers.
LEMMA AgesAreIntegers == \A a \in 0..ErrTTL : a \in Int /\ a <= a
BY TenancyAssumption

\* What is left of a lifetime after a wait.
LEMMA RemainingBounds ==
  ASSUME NEW life \in {ErrTTL, TTL}, NEW wait \in 0..TTL
  PROVE  /\ Remaining(life, wait) \in 0..TTL
         /\ Remaining(life, wait) > 0 => Remaining(life, wait) + wait = life
BY TenancyAssumption DEF Remaining

\* The suppression is read from the replica.
LEMMA ReadsKeeps ==
  ASSUME EInv, PInv, NEW r \in DOMAIN reqs, CheckReads(r) PROVE EInv' /\ PInv'
<1>1. Fit(reqs[r]) /\ reqs[r].pc = "fetch" /\ reqs[r].got = "none"
  BY Zenon DEF EInv, CheckReads
<1>2. PICK g \in {"suppressed", "live", "error"} :
         /\ reqs' = [reqs EXCEPT ![r].got = g]
         /\ g = "live" => ~replica[Head(reqs[r].todo)]
  BY Zenon DEF CheckReads
<1> DEFINE x == [reqs[r] EXCEPT !.got = g]
<1>3. reqs' = [reqs EXCEPT ![r] = x]
  BY <1>2
<1>4. Fit(x)
  BY Zenon, <1>1, <1>2 DEF Fit, ReqFields
<1> HIDE DEF x
<1> QED
  BY Zenon, <1>1, <1>3, <1>4, RequestOnly DEF CheckReads

\* What was read is cached.
LEMMA StoresKeeps ==
  ASSUME EInv, PInv, NEW r \in DOMAIN reqs, CheckStores(r) PROVE EInv' /\ PInv'
<1> DEFINE w == reqs[r].q.w
           t == Head(reqs[r].todo)
           err == reqs[r].got = "error"
           sup == reqs[r].got = "suppressed"
           life == IF err THEN ErrTTL ELSE TTL
           c == [val |-> sup, ttl |-> Remaining(life, reqs[r].wait)]
           age == IF err THEN Least(failAge[w][t], reqs[r].wait) ELSE failAge[w][t]
<1>1. Fit(reqs[r]) /\ reqs[r].pc = "fetch" /\ reqs[r].got # "none"
  BY Zenon DEF EInv, CheckStores
<1>2. w \in Workers /\ t \in Tenants
  BY Zenon, <1>1, NonEmpty DEF Fit, Asks
<1>3. /\ supCache' = [supCache EXCEPT ![w] = [_prune_expired(supCache[w]) EXCEPT ![t] = c]]
      /\ failAge' = [failAge EXCEPT ![w][t] = age]
      /\ Decide(r, sup, err, reqs[r].old)
      /\ UNCHANGED <<mirror, replica, repAge, rows, purge, paudit>>
  BY Zenon, <1>2 DEF CheckStores, EInv, EType
<1>4. /\ failAge[w][t] \in 0..ErrTTL /\ repAge[t] \in 0..TTL /\ replica[t] \in BOOLEAN
      /\ reqs[r].wait \in 0..TTL /\ reqs[r].old \in BOOLEAN
      /\ reqs[r].got = "live" => ~replica[t] \/ repAge[t] <= reqs[r].wait
      /\ reqs[r].old => replica[t] /\ reqs[r].got # "live"
  BY Zenon, <1>1, <1>2 DEF EInv, EType, Fit
<1>5. reqs[r].got \in {"suppressed", "live", "error"}
  BY Zenon, <1>1 DEF Fit
<1>6. PICK x : reqs' = [reqs EXCEPT ![r] = x] /\ Fit(x)
  <2>1. sup \in BOOLEAN /\ err \in BOOLEAN /\ (~sup /\ ~err => ~reqs[r].old)
    BY Zenon, <1>4, <1>5
  <2> HIDE DEF sup, err
  <2> QED
    BY Zenon, <1>1, <1>3, <1>4, <2>1, Decided
<1>7. age \in 0..ErrTTL /\ age <= failAge[w][t] /\ (err => age <= reqs[r].wait)
  <2>1. \A a \in 0..ErrTTL, b \in 0..TTL :
          Least(a, b) \in 0..ErrTTL /\ Least(a, b) <= a /\ Least(a, b) <= b
    BY Zenon, LeastBounds
  <2>2. Least(failAge[w][t], reqs[r].wait) \in 0..ErrTTL
        /\ Least(failAge[w][t], reqs[r].wait) <= failAge[w][t]
        /\ Least(failAge[w][t], reqs[r].wait) <= reqs[r].wait
    BY Zenon, <1>4, <2>1
  <2>3. failAge[w][t] <= failAge[w][t]
    BY Zenon, <1>4, AgesAreIntegers
  <2> HIDE DEF w, t, err
  <2>4. CASE err
    BY Zenon, <2>2, <2>4
  <2>5. CASE ~err
    BY Zenon, <1>4, <2>3, <2>5
  <2> QED
    BY Zenon, <2>4, <2>5
<1>8. c.val = sup /\ c.ttl \in 0..TTL /\ (c.ttl > 0 => c.ttl + reqs[r].wait = life)
  <2>1. life \in {ErrTTL, TTL}
    BY Zenon
  <2> HIDE DEF life, sup
  <2>2. c.val = sup /\ c.ttl = Remaining(life, reqs[r].wait)
    BY Zenon
  <2>3. /\ Remaining(life, reqs[r].wait) \in 0..TTL
        /\ Remaining(life, reqs[r].wait) > 0 => Remaining(life, reqs[r].wait) + reqs[r].wait = life
    BY Zenon, <1>4, <2>1, RemainingBounds
  <2> HIDE DEF c
  <2> QED
    BY Zenon, <2>2, <2>3
<1>9. c \in [val : BOOLEAN, ttl : 0..TTL]
  BY Zenon, <1>8
<1> HIDE DEF c, age, w, t
<1>10. /\ failAge' \in [Workers -> [Tenants -> 0..ErrTTL]] /\ failAge'[w][t] = age
       /\ \A v \in Workers : \A u \in Tenants : <<v, u>> # <<w, t>> => failAge'[v][u] = failAge[v][u]
  BY Zenon, <1>2, <1>3, <1>7 DEF EInv, EType
<1>11. /\ DOMAIN supCache' = Workers /\ \A v \in Workers : DOMAIN supCache'[v] = Tenants
       /\ supCache'[w][t] = c
       /\ \A v \in Workers : \A u \in Tenants : <<v, u>> # <<w, t>> =>
             \/ supCache'[v][u] = supCache[v][u]
             \/ supCache'[v][u] = [val |-> FALSE, ttl |-> 0]
  <2> DEFINE n == [_prune_expired(supCache[w]) EXCEPT ![t] = c]
  <2>1. /\ DOMAIN n = Tenants /\ n[t] = c
        /\ \A u \in Tenants : u # t => n[u] = supCache[w][u] \/ n[u] = [val |-> FALSE, ttl |-> 0]
    BY Zenon, <1>2 DEF _prune_expired
  <2> HIDE DEF n
  <2>2. supCache' = [supCache EXCEPT ![w] = n]
    BY <1>3 DEF n
  <2>3. DOMAIN supCache' = Workers /\ supCache'[w] = n /\ \A v \in Workers : v # w => supCache'[v] = supCache[v]
    BY Zenon, <1>2, <2>2 DEF EInv, EType
  <2> QED
    BY Zenon, <2>1, <2>3 DEF EInv, EType
<1>12. EType'
  BY Zenon, <1>3, <1>10, <1>11 DEF EInv, EType
<1>13. ASSUME NEW v \in Workers, NEW u \in Tenants PROVE Honest(supCache[v][u], v, u)'
  <2>1. CASE v = w /\ u = t
    <3>1. c.ttl > 0 /\ ~c.val => \/ age + c.ttl <= ErrTTL \/ ~replica[t] \/ repAge[t] + c.ttl <= TTL
      <4>1. CASE reqs[r].got = "suppressed"
        BY ZenonT(60), <4>1, <1>8
      <4>2. CASE reqs[r].got = "live"
        <5>1. life = TTL /\ TTL \in Nat
          BY <4>2, TenancyAssumption
        <5>2. c.ttl > 0 => c.ttl + reqs[r].wait = TTL
          BY Zenon, <5>1, <1>8
        <5> QED
          BY <4>2, <5>1, <5>2, <1>4, <1>8
      <4>3. CASE reqs[r].got = "error"
        <5>1. life = ErrTTL /\ ErrTTL \in Nat /\ age <= reqs[r].wait
          BY <4>3, <1>7, TenancyAssumption
        <5>2. c.ttl > 0 => c.ttl + reqs[r].wait = ErrTTL
          BY Zenon, <5>1, <1>8
        <5> QED
          BY <5>1, <5>2, <1>4, <1>7, <1>8
      <4> QED
        BY Zenon, <4>1, <4>2, <4>3, <1>5
    <3> QED
      BY <2>1, <3>1, <1>3, <1>9, <1>10, <1>11 DEF Honest
  <2>2. CASE ~(v = w /\ u = t)
    <3>1. failAge'[v][u] = failAge[v][u] /\ Honest(supCache[v][u], v, u)
      BY Zenon, <2>2, <1>10 DEF EInv
    <3>2. CASE supCache'[v][u] = supCache[v][u]
      BY Zenon, <3>1, <3>2, <1>3 DEF Honest
    <3>3. CASE supCache'[v][u] = [val |-> FALSE, ttl |-> 0]
      BY <3>3, TenancyAssumption DEF Honest
    <3> QED
      BY Zenon, <2>2, <3>2, <3>3, <1>11
  <2> QED
    BY ZenonT(60), <2>1, <2>2
<1>14. /\ \A s \in DOMAIN reqs' : Fit(reqs[s])'
       /\ \A s : Done(s) => Done(s)'
  BY Zenon, <1>1, <1>3, <1>6, OneRequest
<1> QED
  BY Zenon, <1>3, <1>12, <1>13, <1>14, RowsFollow DEF EInv

\* An admitted request does its work.
LEMMA WorkKeeps ==
  ASSUME EInv, PInv, NEW r \in DOMAIN reqs, Work(r) PROVE EInv' /\ PInv'
<1> DEFINE q == reqs[r].q
           ok == Permitted(ContextOf(r), q)
           pc == IF ok THEN "done" ELSE "denied"
           x == [reqs[r] EXCEPT !.pc = pc]
<1>1. Fit(reqs[r]) /\ reqs[r].pc = "admitted" /\ reqs' = [reqs EXCEPT ![r] = x]
      /\ UNCHANGED <<mirror, replica, repAge, supCache, failAge, purge, paudit>>
  BY Zenon DEF EInv, Work
<1>2. pc \in {"done", "denied"}
  OBVIOUS
<1>3. \/ rows' = rows
      \/ pc = "done" /\ rows' = [rows EXCEPT ![q.target] = @ \cup {<<r, q.table>>}]
      \/ rows' = [rows EXCEPT ![q.target] = {}]
  BY Zenon DEF Work
<1> HIDE DEF pc
<1>4. Fit(x) /\ x.pc = pc
  BY Zenon, <1>1, <1>2 DEF Fit, ReqFields
<1> HIDE DEF x, ok
<1>5. /\ \A s \in DOMAIN reqs' : Fit(reqs[s])'
      /\ \A s : Done(s) => Done(s)'
      /\ DOMAIN reqs' = DOMAIN reqs /\ reqs'[r] = x
  BY Zenon, <1>1, <1>4, OneRequest
<1>6. EInv'
  BY Zenon, <1>1, <1>5 DEF EInv, EType, Honest
<1>7. ~Done(r)
  BY Zenon, <1>1 DEF Done
<1>8. DOMAIN rows' = Tenants
  BY ZenonT(60), <1>3 DEF PInv, RowsOK
<1>9. ASSUME NEW t \in Tenants
      PROVE  /\ \A y \in rows'[t] : y \in rows[t] \/ (y = <<r, q.table>> /\ Done(r)')
  BY <1>3, <1>4, <1>5 DEF PInv, RowsOK, Done
<1>10. ASSUME NEW t \in Tenants, NEW y \in rows'[t] \cup purge'.saw[t] PROVE Done(y[1])'
  BY <1>1, <1>5, <1>9 DEF PInv, RowsOK
<1>11. ASSUME NEW t \in Tenants, purge'.out[t] = "purged" PROVE purge'.saw[t] \cap rows'[t] = {}
  <2>1. <<r, q.table>> \notin purge.saw[t]
    BY <1>7 DEF PInv, RowsOK
  <2> QED
    BY Zenon, <2>1, <1>1, <1>9, <1>11 DEF PInv, RowsOK
<1>12. PurgeOK'
  BY ZenonT(60), <1>1 DEF PInv, PurgeOK
<1> QED
  BY <1>6, <1>8, <1>10, <1>11, <1>12 DEF PInv, RowsOK

-----------------------------------------------------------------------------
(* The mirror, the replica and the clock.                                   *)

\* A step that changes only the mirror of the suppressions.
LEMMA MirrorKeeps ==
  ASSUME EInv, PInv, mirror' \in [Tenants -> BOOLEAN],
         UNCHANGED <<replica, repAge, supCache, failAge, reqs, rows, purge, paudit>>
  PROVE  EInv' /\ PInv'
<1>1. EInv'
  BY ZenonT(60) DEF EInv, EType, Honest, Fit
<1> QED
  BY ZenonT(60), <1>1, RowsFollow DEF Done

\* A suppression event is delivered, handled or delivered again.
LEMMA EventsKeep ==
  ASSUME EInv, PInv, NEW e,
         SuppressionDelivered(e) \/ _handle_suppression_changed(e) \/ SuppressionRedelivered(e)
  PROVE  EInv' /\ PInv'
<1>1. mirror' \in [Tenants -> BOOLEAN]
  <2>1. mirror \in [Tenants -> BOOLEAN]
    BY Zenon DEF EInv, EType
  <2>2. ASSUME NEW t, NEW a, set_tenant_suppression(t, a) PROVE mirror' \in [Tenants -> BOOLEAN]
    <3>1. (a = "suppress") \in BOOLEAN
      OBVIOUS
    <3> QED
      BY Zenon, <2>1, <2>2, <3>1 DEF set_tenant_suppression
  <2> QED
    BY Zenon, <2>1, <2>2 DEF SuppressionDelivered, _handle_suppression_changed, SuppressionRedelivered
<1>2. UNCHANGED <<replica, repAge, supCache, failAge, reqs, rows, purge, paudit>>
  BY Zenon DEF SuppressionDelivered, _handle_suppression_changed, SuppressionRedelivered
<1> QED
  BY Zenon, <1>1, <1>2, MirrorKeeps

\* Every request at once moves to a value that fits, and keeps its place.
LEMMA EveryRequest ==
  ASSUME EInv, PInv, NEW f, DOMAIN f = DOMAIN reqs, reqs' = f, UNCHANGED <<rows, purge, paudit>>,
         \A r \in DOMAIN reqs : f[r].pc = reqs[r].pc
  PROVE  PInv'
<1>1. \A r : Done(r) => Done(r)'
  BY DEF Done
<1> QED
  BY <1>1, RowsFollow

\* The replica catches up.
LEMMA ReplicatesKeeps ==
  ASSUME EInv, PInv, NEW t \in Tenants, SuppressionReplicates(t) PROVE EInv' /\ PInv'
<1> DEFINE f == [r \in DOMAIN reqs |-> IF reqs[r].pc = "fetch" /\ Head(reqs[r].todo) = t
                                       THEN [reqs[r] EXCEPT !.old = FALSE] ELSE reqs[r]]
<1>1. /\ replica' = [replica EXCEPT ![t] = mirror[t]] /\ repAge' = [repAge EXCEPT ![t] = 0]
      /\ reqs' = f
      /\ UNCHANGED <<mirror, supCache, failAge, rows, purge, paudit>>
  BY Zenon DEF SuppressionReplicates
<1>2. /\ EType' /\ repAge'[t] = 0
      /\ \A u \in Tenants : u # t => replica'[u] = replica[u] /\ repAge'[u] = repAge[u]
  BY <1>1, TenancyAssumption DEF EInv, EType
<1>3. ASSUME NEW w \in Workers, NEW u \in Tenants PROVE Honest(supCache[w][u], w, u)'
  <2>1. Honest(supCache[w][u], w, u)
    BY Zenon DEF EInv
  <2>2. CASE u = t
    BY <2>1, <2>2, <1>1, <1>2, TenancyAssumption DEF Honest
  <2>3. CASE u # t
    BY Zenon, <2>1, <2>3, <1>1, <1>2 DEF Honest
  <2> QED
    BY Zenon, <2>2, <2>3
<1>4. ASSUME NEW r \in DOMAIN reqs PROVE Fit(reqs[r])' /\ f[r].pc = reqs[r].pc
  <2>1. Fit(reqs[r]) /\ reqs'[r] = f[r]
    BY Zenon, <1>1 DEF EInv
  <2>2. reqs[r].pc = "fetch" => Head(reqs[r].todo) \in Tenants
    BY Zenon, <2>1, NonEmpty DEF Fit
  <2>3. CASE reqs[r].pc = "fetch" /\ Head(reqs[r].todo) = t
    <3> DEFINE y == [reqs[r] EXCEPT !.old = FALSE]
    <3>1. /\ DOMAIN y = DOMAIN reqs[r] /\ y.old = FALSE /\ y.pc = reqs[r].pc /\ y.q = reqs[r].q
          /\ y.todo = reqs[r].todo /\ y.wait = reqs[r].wait /\ y.got = reqs[r].got /\ y.late = reqs[r].late
      BY Zenon, <2>1 DEF Fit, ReqFields
    <3>2. reqs'[r] = y /\ f[r] = y
      BY SMTT(30), <2>1, <2>3
    <3> HIDE DEF y, f
    <3>3. 0 <= reqs[r].wait
      BY <2>1, TenancyAssumption DEF Fit
    <3> QED
      BY ZenonT(60), <2>1, <2>3, <3>1, <3>2, <3>3, <1>2 DEF Fit
  <2>4. CASE ~(reqs[r].pc = "fetch" /\ Head(reqs[r].todo) = t)
    <3>1. reqs'[r] = reqs[r] /\ f[r] = reqs[r]
      BY <2>1, <2>4
    <3> HIDE DEF f
    <3> QED
      BY ZenonT(60), <2>1, <2>2, <2>4, <3>1, <1>2 DEF Fit
  <2> QED
    BY Zenon, <2>3, <2>4
<1>5. DOMAIN f = DOMAIN reqs
  OBVIOUS
<1> HIDE DEF f
<1>6. PInv'
  BY Zenon, <1>1, <1>4, <1>5, EveryRequest
<1> QED
  BY Zenon, <1>1, <1>2, <1>3, <1>4, <1>5, <1>6 DEF EInv

\* Time passes for the caches and the replica.
LEMMA TickKeeps ==
  ASSUME EInv, PInv, Tick PROVE EInv' /\ PInv'
<1> DEFINE f == [r \in DOMAIN reqs |->
                   IF Waiting(r) THEN [reqs[r] EXCEPT !.wait = Least(TTL, @ + 1)] ELSE reqs[r]]
<1>1. /\ supCache' = [w \in Workers |-> [t \in Tenants |->
                        [supCache[w][t] EXCEPT !.ttl = IF @ = 0 THEN 0 ELSE @ - 1]]]
      /\ failAge' = [w \in Workers |-> [t \in Tenants |-> Least(ErrTTL, failAge[w][t] + 1)]]
      /\ repAge' = [t \in Tenants |-> Least(TTL, repAge[t] + 1)]
      /\ reqs' = f
      /\ UNCHANGED <<mirror, replica, rows, purge, paudit>>
  BY Zenon DEF Tick
<1>2. /\ \A t \in Tenants : repAge'[t] = Least(TTL, repAge[t] + 1) /\ repAge'[t] \in 0..TTL
      /\ repAge' \in [Tenants -> 0..TTL]
  BY <1>1, TenancyAssumption DEF EInv, EType, Least
<1>3. /\ \A w \in Workers : \A t \in Tenants :
            failAge'[w][t] = Least(ErrTTL, failAge[w][t] + 1) /\ failAge'[w][t] \in 0..ErrTTL
      /\ failAge' \in [Workers -> [Tenants -> 0..ErrTTL]]
  BY <1>1, TenancyAssumption DEF EInv, EType, Least
<1>4. EType'
  BY Zenon, <1>1, <1>2, <1>3 DEF EInv, EType
<1>5. ASSUME NEW w \in Workers, NEW t \in Tenants PROVE Honest(supCache[w][t], w, t)'
  <2> DEFINE c == supCache[w][t]
             d == [c EXCEPT !.ttl = IF @ = 0 THEN 0 ELSE @ - 1]
  <2>1. Honest(c, w, t) /\ failAge[w][t] \in 0..ErrTTL /\ repAge[t] \in 0..TTL
    BY Zenon DEF EInv, EType
  <2>2. c \in [val : BOOLEAN, ttl : 0..TTL] /\ supCache'[w][t] = d
    BY Zenon, <2>1, <1>1 DEF Honest
  <2>3. d.val = c.val /\ d.ttl = (IF c.ttl = 0 THEN 0 ELSE c.ttl - 1) /\ d \in [val : BOOLEAN, ttl : 0..TTL]
    BY <2>2, TenancyAssumption
  <2> HIDE DEF c, d
  <2>4. d.ttl > 0 => c.ttl > 0 /\ d.ttl = c.ttl - 1
    BY <2>2, <2>3, TenancyAssumption
  <2>5. failAge[w][t] + c.ttl <= ErrTTL /\ d.ttl > 0 => failAge'[w][t] + d.ttl <= ErrTTL
    BY SMTT(30), <2>1, <2>2, <2>4, <1>3, TenancyAssumption DEF Least
  <2>6. repAge[t] + c.ttl <= TTL /\ d.ttl > 0 => repAge'[t] + d.ttl <= TTL
    BY <2>1, <2>2, <2>4, <1>2, TenancyAssumption DEF Least
  <2>7. d.ttl > 0 /\ ~d.val => \/ failAge'[w][t] + d.ttl <= ErrTTL
                               \/ ~replica[t]
                               \/ repAge'[t] + d.ttl <= TTL
    BY ZenonT(60), <2>1, <2>3, <2>4, <2>5, <2>6 DEF Honest
  <2> QED
    BY Zenon, <2>2, <2>3, <2>7, <1>1 DEF Honest
<1>6. ASSUME NEW r \in DOMAIN reqs PROVE Fit(reqs[r])' /\ f[r].pc = reqs[r].pc
  <2>1. Fit(reqs[r]) /\ reqs'[r] = f[r]
    BY Zenon, <1>1 DEF EInv
  <2>2. reqs[r].pc = "fetch" => Head(reqs[r].todo) \in Tenants
    BY Zenon, <2>1, NonEmpty DEF Fit
  <2>3. CASE reqs[r].pc = "fetch"
    <3> DEFINE n == Least(TTL, reqs[r].wait + 1)
               h == Head(reqs[r].todo)
               y == [reqs[r] EXCEPT !.wait = n]
    <3>1. n \in 0..TTL /\ h \in Tenants /\ repAge[h] \in 0..TTL /\ reqs[r].wait \in 0..TTL
      BY SMTT(30), <2>1, <2>2, <2>3, TenancyAssumption DEF Fit, Least, EInv, EType
    <3>2. repAge[h] <= reqs[r].wait => repAge'[h] <= n
      BY <3>1, <1>2, TenancyAssumption DEF Least
    <3>3. reqs'[r] = y /\ f[r] = y
      BY Zenon, <2>1, <2>3 DEF Waiting
    <3> HIDE DEF n, h
    <3>4. /\ DOMAIN y = DOMAIN reqs[r] /\ y.wait = n /\ y.pc = reqs[r].pc /\ y.q = reqs[r].q
          /\ y.todo = reqs[r].todo /\ y.old = reqs[r].old /\ y.got = reqs[r].got /\ y.late = reqs[r].late
      BY Zenon, <2>1 DEF Fit, ReqFields
    <3> HIDE DEF y, f
    <3> QED
      BY ZenonT(60), <2>1, <2>3, <3>1, <3>2, <3>3, <3>4, <1>1 DEF Fit, h
  <2>4. CASE reqs[r].pc # "fetch"
    <3>1. reqs'[r] = reqs[r] /\ f[r] = reqs[r]
      BY Zenon, <2>1, <2>4 DEF Waiting
    <3> HIDE DEF f
    <3> QED
      BY Zenon, <2>1, <2>4, <3>1 DEF Fit
  <2> QED
    BY Zenon, <2>3, <2>4
<1>7. DOMAIN f = DOMAIN reqs
  OBVIOUS
<1> HIDE DEF f
<1>8. PInv'
  BY ZenonT(60), <1>1, <1>6, <1>7, EveryRequest
<1> QED
  BY Zenon, <1>1, <1>4, <1>5, <1>6, <1>7, <1>8 DEF EInv

-----------------------------------------------------------------------------
(* The purge.                                                               *)

\* A step of the purge leaves the requests alone.
LEMMA PurgeOnly ==
  ASSUME EInv, UNCHANGED <<mirror, replica, repAge, supCache, failAge, reqs>>
  PROVE  EInv' /\ \A r : Done(r)' = Done(r)
<1>1. EInv'
  BY ZenonT(60) DEF EInv, EType, Honest, Fit
<1> QED
  BY Zenon, <1>1 DEF Done

\* The purge opens its audit row.
LEMMA OpensKeeps ==
  ASSUME EInv, PInv, PurgeOpensAudit PROVE EInv' /\ PInv'
<1> DEFINE t == Head(purge.todo)
<1>1. /\ UNCHANGED <<mirror, replica, repAge, supCache, failAge, reqs, rows>>
      /\ purge.pc = "new" /\ purge.todo # <<>> /\ purge' = [purge EXCEPT !.pc = "purge"]
      /\ paudit' = paudit \/ paudit' = [paudit EXCEPT ![t] = "open"]
  BY Zenon DEF PurgeOpensAudit, Purging
<1>2. t \in Tenants /\ paudit[t] \in {"none", "open"}
  BY <1>1, NonEmpty DEF PInv, PurgeOK
<1>3. /\ DOMAIN purge' = {"pc", "todo", "out", "saw"} /\ purge'.pc = "purge"
      /\ purge'.todo = purge.todo /\ purge'.out = purge.out /\ purge'.saw = purge.saw
  BY Zenon, <1>1 DEF PInv, PurgeOK
<1>4. /\ paudit' \in [Tenants -> {"none", "open", "success", "failure"}]
      /\ \A u \in Tenants : paudit'[u] = paudit[u] \/ (u = t /\ paudit'[u] = "open")
  BY ZenonT(60), <1>1, <1>2 DEF PInv, PurgeOK
<1> HIDE DEF t
<1>5. \A i \in 1..Len(purge.todo) : purge.todo[i] \in Tenants
  BY SMTT(30) DEF PInv, PurgeOK
<1>6. PurgeOK'
  BY <1>3, <1>4, <1>5 DEF PInv, PurgeOK
<1>7. RowsOK'
  BY Zenon, <1>1, <1>3, PurgeOnly DEF PInv, RowsOK
<1> QED
  BY <1>1, <1>6, <1>7, PurgeOnly DEF PInv

\* The purge deletes the tenant's rows.
LEMMA PurgeTenantKeeps ==
  ASSUME EInv, PInv, PurgeTenant PROVE EInv' /\ PInv'
<1> DEFINE t == Head(purge.todo)
<1>1. /\ UNCHANGED <<mirror, replica, repAge, supCache, failAge, reqs, paudit>>
      /\ purge.pc = "purge" /\ purge.todo # <<>>
  BY Zenon DEF PurgeTenant, Purging
<1>2. PICK o \in {"purged", "failed"} :
         /\ purge' = [purge EXCEPT !.pc = "finalize", !.out[t] = o, !.saw[t] = Purged(t)]
         /\ rows' = [rows EXCEPT ![t] = @ \ Purged(t)] \/ (o = "failed" /\ rows' = rows)
  BY ZenonT(60) DEF PurgeTenant, Reported, purge_tenant_data
<1>3. t \in Tenants /\ paudit[t] \in {"none", "open"}
  BY <1>1, NonEmpty DEF PInv, PurgeOK
<1>4. /\ DOMAIN purge' = {"pc", "todo", "out", "saw"} /\ purge'.pc = "finalize" /\ purge'.todo = purge.todo
      /\ purge'.out = [purge.out EXCEPT ![t] = o] /\ purge'.saw = [purge.saw EXCEPT ![t] = Purged(t)]
  BY ZenonT(60), <1>2 DEF PInv, PurgeOK
<1>5. /\ purge'.out \in [Tenants -> {"none", "purged", "failed"}] /\ purge'.out[t] = o
      /\ \A u \in Tenants : u # t => purge'.out[u] = purge.out[u]
  BY <1>3, <1>4 DEF PInv, PurgeOK
<1>6. DOMAIN purge'.saw = Tenants /\ purge'.saw[t] = Purged(t) /\ \A u \in Tenants : u # t => purge'.saw[u] = purge.saw[u]
  BY Zenon, <1>3, <1>4 DEF PInv, PurgeOK
<1>7. Purged(t) \subseteq rows[t]
  BY Zenon DEF Purged
<1>8. /\ DOMAIN rows' = Tenants /\ (o = "purged" => rows'[t] = rows[t] \ Purged(t))
      /\ \A u \in Tenants : rows'[u] \subseteq rows[u]
  BY ZenonT(60), <1>2, <1>3 DEF PInv, RowsOK
<1>9. PurgeOK'
  <2>1. purge'.out[Head(purge'.todo)] \in {"purged", "failed"}
    BY Zenon, <1>4, <1>5
  <2> HIDE DEF t
  <2> QED
    BY SMTT(30), <1>1, <1>3, <1>4, <1>5, <1>6, <2>1 DEF PInv, PurgeOK
<1> HIDE DEF t
<1>10. ASSUME NEW u \in Tenants, NEW x \in rows'[u] \cup purge'.saw[u] PROVE Done(x[1])'
  <2>1. x \in rows[u] \cup purge.saw[u]
    BY Zenon, <1>6, <1>7, <1>8
  <2>2. Done(x[1])
    BY Zenon, <2>1 DEF PInv, RowsOK
  <2> QED
    BY Zenon, <2>2, <1>1, PurgeOnly
<1>11. ASSUME NEW u \in Tenants, purge'.out[u] = "purged" PROVE purge'.saw[u] \cap rows'[u] = {}
  <2>1. CASE u = t
    BY Zenon, <2>1, <1>5, <1>6, <1>8, <1>11
  <2>2. CASE u # t
    <3>1. purge.out[u] = "purged" /\ purge'.saw[u] = purge.saw[u] /\ rows'[u] \subseteq rows[u]
      BY ZenonT(60), <2>2, <1>5, <1>6, <1>8, <1>11
    <3>2. purge.saw[u] \cap rows[u] = {}
      BY Zenon, <3>1 DEF PInv, RowsOK
    <3> QED
      BY Zenon, <3>1, <3>2
  <2> QED
    BY Zenon, <2>1, <2>2
<1> QED
  BY ZenonT(60), <1>1, <1>8, <1>9, <1>10, <1>11, PurgeOnly DEF PInv, RowsOK

\* The purge closes its audit row.
LEMMA FinalizesKeeps ==
  ASSUME EInv, PInv, PurgeFinalizes PROVE EInv' /\ PInv'
<1> DEFINE t == Head(purge.todo)
           rest == Tail(purge.todo)
           status == IF purge.out[t] = "purged" THEN "success" ELSE "failure"
           pc == IF rest # <<>> THEN "new"
                 ELSE IF \E u \in Tenants : purge.out[u] = "failed" THEN "207" ELSE "200"
<1>1. /\ UNCHANGED <<mirror, replica, repAge, supCache, failAge, reqs, rows>>
      /\ purge.pc = "finalize" /\ purge.todo # <<>>
      /\ purge' = [purge EXCEPT !.todo = rest, !.pc = pc]
      /\ paudit' = paudit \/ paudit' = [paudit EXCEPT ![t] = IF @ = "open" THEN status ELSE @]
  BY Zenon DEF PurgeFinalizes, Purging, _finalize
<1>2. /\ t = purge.todo[1] /\ t \in Tenants /\ rest \in Seq(Tenants) /\ 1 \in 1..Len(purge.todo)
      /\ \A i \in 1..Len(rest) : i + 1 \in 1..Len(purge.todo) /\ rest[i] = purge.todo[i + 1]
      /\ Len(rest) \in Nat
  BY <1>1, NonEmpty DEF PInv, PurgeOK
<1>3. /\ DOMAIN purge' = {"pc", "todo", "out", "saw"} /\ purge'.pc = pc /\ purge'.todo = rest
      /\ purge'.out = purge.out /\ purge'.saw = purge.saw
  BY Zenon, <1>1 DEF PInv, PurgeOK
<1>4. purge.out[t] \in {"purged", "failed"}
  BY Zenon, <1>1 DEF PInv, PurgeOK
<1>5. /\ pc = "200" => \A u \in Tenants : purge.out[u] # "failed"
      /\ pc = "207" => \E u \in Tenants : purge.out[u] = "failed"
  OBVIOUS
<1>6. pc # "finalize"
  OBVIOUS
<1>7. status = IF purge.out[t] = "purged" THEN "success" ELSE "failure"
  OBVIOUS
<1> HIDE DEF pc, status
<1>8. /\ paudit' \in [Tenants -> {"none", "open", "success", "failure"}]
      /\ \A u \in Tenants : u # t => paudit'[u] = paudit[u]
      /\ paudit'[t] = paudit[t] \/ paudit'[t] = status
  BY <1>1, <1>2, <1>7 DEF PInv, PurgeOK
<1> HIDE DEF t, rest
<1>9. \A i \in 1..Len(rest) : rest[i] \in Tenants /\ rest[i] # t /\ paudit[rest[i]] \in {"none", "open"}
  <2>1. ASSUME NEW i \in 1..Len(rest) PROVE rest[i] \in Tenants /\ rest[i] # t /\ paudit[rest[i]] \in {"none", "open"}
    <3>1. i + 1 \in 1..Len(purge.todo) /\ i + 1 # 1 /\ rest[i] = purge.todo[i + 1]
      BY <1>2
    <3>2. /\ purge.todo \in Seq(Tenants) /\ paudit[purge.todo[i + 1]] \in {"none", "open"}
          /\ purge.todo[i + 1] = purge.todo[1] => i + 1 = 1
      BY Zenon, <3>1, <1>2 DEF PInv, PurgeOK
    <3>3. purge.todo[i + 1] \in Tenants
      BY <3>1, <3>2
    <3> QED
      BY ZenonT(60), <3>1, <3>2, <3>3, <1>2
  <2> QED
    BY Zenon, <2>1
<1>10. \A i, j \in 1..Len(rest) : rest[i] = rest[j] => i = j
  <2>1. ASSUME NEW i \in 1..Len(rest), NEW j \in 1..Len(rest), rest[i] = rest[j] PROVE i = j
    <3>1. \A k, l \in 1..Len(purge.todo) : purge.todo[k] = purge.todo[l] => k = l
      BY Zenon DEF PInv, PurgeOK
    <3>2. /\ i + 1 \in 1..Len(purge.todo) /\ rest[i] = purge.todo[i + 1]
          /\ j + 1 \in 1..Len(purge.todo) /\ rest[j] = purge.todo[j + 1]
      BY Zenon, <1>2
    <3>3. i + 1 = j + 1
      BY ZenonT(60), <2>1, <3>1, <3>2
    <3> QED
      BY SMTT(30), <3>3, <1>2
  <2> QED
    BY Zenon, <2>1
<1>11. \A u \in Tenants : /\ paudit'[u] = "success" => purge.out[u] = "purged"
                          /\ paudit'[u] = "failure" => purge.out[u] = "failed"
  BY <1>2, <1>4, <1>7, <1>8 DEF PInv, PurgeOK
<1>12. PurgeOK'
  <2>1. purge'.todo \in Seq(Tenants) /\ purge'.out \in [Tenants -> {"none", "purged", "failed"}] /\ DOMAIN purge'.saw = Tenants
    BY Zenon, <1>2, <1>3 DEF PInv, PurgeOK
  <2>2. \A i \in 1..Len(rest) : paudit'[rest[i]] \in {"none", "open"}
    BY Zenon, <1>8, <1>9
  <2>3. /\ purge'.pc = "200" => \A u \in Tenants : purge'.out[u] # "failed"
        /\ purge'.pc = "207" => \E u \in Tenants : purge'.out[u] = "failed"
        /\ purge'.pc # "finalize"
    BY Zenon, <1>3, <1>5, <1>6
  <2>4. /\ \A i, j \in 1..Len(purge'.todo) : purge'.todo[i] = purge'.todo[j] => i = j
        /\ \A i \in 1..Len(purge'.todo) : paudit'[purge'.todo[i]] \in {"none", "open"}
    BY Zenon, <2>2, <1>3, <1>10
  <2>5. \A u \in Tenants : /\ paudit'[u] = "success" => purge'.out[u] = "purged"
                           /\ paudit'[u] = "failure" => purge'.out[u] = "failed"
    BY Zenon, <1>3, <1>11
  <2>6. purge'.pc = "finalize" /\ purge'.todo # <<>> => purge'.out[Head(purge'.todo)] \in {"purged", "failed"}
    BY Zenon, <2>3
  <2>7. DOMAIN purge' = {"pc", "todo", "out", "saw"} /\ paudit' \in [Tenants -> {"none", "open", "success", "failure"}]
    BY Zenon, <1>3, <1>8
  <2> QED
    BY ZenonT(60), <2>1, <2>3, <2>4, <2>5, <2>6, <2>7 DEF PurgeOK
<1>13. RowsOK'
  BY ZenonT(60), <1>1, <1>3, PurgeOnly DEF PInv, RowsOK
<1> QED
  BY ZenonT(60), <1>1, <1>12, <1>13, PurgeOnly DEF PInv

-----------------------------------------------------------------------------
\* Every step keeps both invariants.
LEMMA Steps == EInv /\ PInv /\ [GNext]_gvars => EInv' /\ PInv'
<1> SUFFICES ASSUME EInv, PInv, [GNext]_gvars PROVE EInv' /\ PInv'
  OBVIOUS
<1>1. CASE TenancyStep
  <2>1. CASE \E r \in DOMAIN reqs :
               Arrive(r) \/ CheckHits(r) \/ CheckMisses(r) \/ CheckReads(r) \/ CheckStores(r) \/ Work(r)
    BY ZenonT(60), <2>1, ArriveKeeps, HitsKeeps, MissesKeeps, ReadsKeeps, StoresKeeps, WorkKeeps
  <2>2. CASE \E e \in DOMAIN events :
               SuppressionDelivered(e) \/ _handle_suppression_changed(e) \/ SuppressionRedelivered(e)
    BY Zenon, <2>2, EventsKeep
  <2> QED
    BY ZenonT(60), <1>1, <2>1, <2>2, ReplicatesKeeps, OpensKeeps, PurgeTenantKeeps, FinalizesKeeps, TickKeeps DEF TenancyStep
<1>2. CASE UNCHANGED tenancyVars
  BY Zenon, <1>2, Keep
<1> QED
  BY <1>1, <1>2 DEF GNext, gvars

(***************************************************************************)
(* For any tenants, processes, requests, events, TTLs and purges: no        *)
(* request is admitted to a tenant that the replica had shown suppressed    *)
(* for a whole TTL before its check began, unless a check of that tenant    *)
(* failed open within the error TTL, and the purge route's answer is true   *)
(* (is_tenant_suppressed, purge_org_data).                                  *)
(***************************************************************************)
THEOREM BoundaryHolds == GSpec => []TenantBoundary
<1>1. EInv => AdmissionFresh
  BY Zenon DEF EInv, Fit, AdmissionFresh
<1>2. PInv => PurgeAnswerTrue
  BY Zenon DEF PInv, PurgeOK, RowsOK, PurgeAnswerTrue
<1>3. EInv /\ PInv => TenantBoundary
  BY Zenon, <1>1, <1>2 DEF TenantBoundary
<1> QED
  BY <1>3, Begins, Steps, PTL DEF GSpec

-----------------------------------------------------------------------------
(* Settings.  An update that found the row holds its lock until it commits  *)
(* or rolls back, so that what it read is still there when it writes; an     *)
(* update that found no row read no override.                               *)

UpdPc == {"new", "valid", "refused", "txn", "committed", "publish", "done", "failed"}
Updates ==
    [pc : UpdPc, new : Overrides, w : Workers, base : Overrides, had : BOOLEAN]

SType ==
    /\ sset \in [there : BOOLEAN, val : Overrides]
    /\ slast \in Overrides
    /\ supd \in Seq(Updates)

\* What update u may rely on between its read and its write.
SGood(u) ==
    /\ supd[u].had /\ supd[u].pc = "txn" => slock = u /\ sset.there /\ supd[u].base = sset.val
    /\ ~supd[u].had => supd[u].base = NoOverrides

SInv ==
    /\ SType
    /\ slock # 0 => sset.there
    /\ ~sset.there => sset.val = NoOverrides /\ slast = NoOverrides
    /\ \A u \in 1..Len(supd) : SGood(u)
    /\ SettingsKept

\* The elements of a sequence.
LEMMA SeqElements ==
  ASSUME NEW S, NEW q \in Seq(S)
  PROVE  Len(q) \in Nat /\ \A i \in 1..Len(q) : q[i] \in S
OBVIOUS

\* A function on 1..n is a sequence of length n.
LEMMA FunctionIsSeq ==
  ASSUME NEW S, NEW n \in Nat, NEW f \in [1..n -> S]
  PROVE  f \in Seq(S) /\ Len(f) = n
OBVIOUS

\* A sequence with one entry replaced.
LEMMA SeqUpdate ==
  ASSUME NEW S, NEW q \in Seq(S), NEW i \in 1..Len(q), NEW e \in S
  PROVE  LET r == [q EXCEPT ![i] = e]
         IN  r \in Seq(S) /\ Len(r) = Len(q) /\ r[i] = e /\ \A j \in 1..Len(q) : j # i => r[j] = q[j]
OBVIOUS

\* No override is a set of overrides.
LEMMA NoOverridesType == NoOverrides \in Overrides
BY Zenon DEF NoOverrides, Overrides, Unset

\* deep_merge gives overrides.
LEMMA MergeType ==
  ASSUME NEW old \in Overrides, NEW new \in Overrides
  PROVE  deep_merge(old, new) \in Overrides
BY Zenon DEF deep_merge, Overrides

\* The database's || gives overrides.
LEMMA ConcatType ==
  ASSUME NEW left \in Overrides, NEW right \in Overrides
  PROVE  JsonbConcat(left, right) \in Overrides
BY Zenon DEF JsonbConcat, Overrides

(* The upsert over the value it was computed from is the merge itself. *)
LEMMA ConcatOfMerge ==
  ASSUME NEW old \in Overrides, NEW new \in Overrides, NEW s \in Sections, NEW l \in Leaves
  PROVE  JsonbConcat(old, deep_merge(old, new))[s][l] = deep_merge(old, new)[s][l]
BY Zenon DEF JsonbConcat, deep_merge, Overrides

(* The upsert of a merge with nothing leaves the sections it does not name. *)
LEMMA ConcatOfNew ==
  ASSUME NEW old \in Overrides, NEW new \in Overrides, NEW s \in Sections,
         \A l \in Leaves : new[s][l] = Unset
  PROVE  JsonbConcat(old, deep_merge(NoOverrides, new))[s] = old[s]
BY Zenon DEF JsonbConcat, deep_merge, Overrides, NoOverrides

\* No update under way.
LEMMA SInit == GInit => SInv
<1> SUFFICES ASSUME GInit PROVE SInv
  OBVIOUS
<1> gscene \in GScenes /\ SettingsInit(gscene)
  BY Zenon DEF GInit
<1>1. /\ gscene.settings \in [there : BOOLEAN, val : Overrides]
      /\ ~gscene.settings.there => gscene.settings.val = NoOverrides
      /\ gscene.updates \in Seq([w : Workers, new : Overrides])
  BY Zenon, SceneAssumption
<1>2. Len(gscene.updates) \in Nat /\ \A u \in 1..Len(gscene.updates) : gscene.updates[u] \in [w : Workers, new : Overrides]
  BY ZenonT(60), <1>1, SeqElements
<1>3. supd \in Seq(Updates) /\ Len(supd) = Len(gscene.updates)
  <2> DEFINE e(u) == [pc |-> "new", new |-> gscene.updates[u].new, w |-> gscene.updates[u].w,
                      base |-> NoOverrides, had |-> FALSE]
  <2>1. ASSUME NEW u \in 1..Len(gscene.updates) PROVE e(u) \in Updates
    BY Zenon, <1>2, NoOverridesType DEF Updates, UpdPc
  <2>2. supd = [u \in 1..Len(gscene.updates) |-> e(u)]
    BY Zenon DEF SettingsInit
  <2> HIDE DEF e
  <2>3. supd \in [1..Len(gscene.updates) -> Updates]
    BY Zenon, <2>1, <2>2
  <2> QED
    BY Zenon, <2>3, <1>2, FunctionIsSeq
<1>4. \A u \in 1..Len(supd) : supd[u].pc = "new" /\ supd[u].base = NoOverrides /\ supd[u].had = FALSE
  BY Zenon, <1>3, <1>2 DEF SettingsInit
<1>5. SType
  BY Zenon, <1>1, <1>3 DEF SType, SettingsInit
<1>6. \A u \in 1..Len(supd) : SGood(u)
  BY Zenon, <1>4 DEF SGood
<1>7. SettingsKept
  BY Zenon DEF SettingsKept, SettingsInit
<1> QED
  BY Zenon, <1>1, <1>5, <1>6, <1>7 DEF SInv, SettingsInit

(* A step of one update that leaves the row, the lock and the history.      *)
LEMMA SMoves ==
  ASSUME SInv, NEW u \in 1..Len(supd), NEW p \in UpdPc, supd[u].pc # "txn", p # "txn",
         supd' = [supd EXCEPT ![u].pc = p], UNCHANGED <<sset, slock, slast, sfirst>>
  PROVE  SInv'
<1> DEFINE r == [supd[u] EXCEPT !.pc = p]
<1>1. supd \in Seq(Updates) /\ supd[u] \in Updates
  BY Zenon, SeqElements DEF SInv, SType
<1>2. r \in Updates /\ r.pc = p /\ r.had = supd[u].had /\ r.base = supd[u].base
  BY Zenon, <1>1 DEF Updates
<1>3. /\ supd' \in Seq(Updates) /\ Len(supd') = Len(supd)
      /\ supd'[u] = r /\ \A v \in 1..Len(supd) : v # u => supd'[v] = supd[v]
  <2> HIDE DEF r
  <2>1. supd' = [supd EXCEPT ![u] = r]
    BY Zenon DEF r
  <2> QED
    BY SMTT(30), <2>1, <1>1, <1>2, SeqUpdate
<1> HIDE DEF r
<1>4. \A v \in 1..Len(supd') : SGood(v)'
  BY <1>2, <1>3 DEF SInv, SGood
<1>5. SettingsKept'
  BY Zenon DEF SInv, SettingsKept
<1> QED
  BY Zenon, <1>3, <1>4, <1>5 DEF SInv, SType

\* A step that leaves the settings alone.
LEMMA SStutters ==
  ASSUME SInv, UNCHANGED <<sset, slock, supd, slast, sfirst>>
  PROVE  SInv'
<1>1. \A u \in 1..Len(supd') : SGood(u)'
  BY Zenon DEF SInv, SGood
<1>2. SettingsKept'
  BY Zenon DEF SInv, SettingsKept
<1> QED
  BY Zenon, <1>1, <1>2 DEF SInv, SType

(* The transaction's commit: the one step that writes the row.              *)
LEMMA SCommits ==
  ASSUME SInv, NEW u \in 1..Len(supd), UpdCommits(u)
  PROVE  SInv'
<1> DEFINE old == sset.val
           new == supd[u].new
<1>1. /\ supd \in Seq(Updates) /\ supd[u] \in Updates
      /\ sset \in [there : BOOLEAN, val : Overrides] /\ slast \in Overrides
  BY Zenon, SeqElements DEF SInv, SType
<1>2. PICK p \in {"committed", "failed"} : supd' = [supd EXCEPT ![u].pc = p]
  BY Zenon DEF UpdCommits
<1> DEFINE r == [supd[u] EXCEPT !.pc = p]
<1>3. r \in Updates /\ r.pc # "txn" /\ r.had = supd[u].had /\ r.base = supd[u].base
  BY Zenon, <1>1, <1>2 DEF Updates, UpdPc
<1> HIDE DEF r
<1>4. /\ supd' \in Seq(Updates) /\ Len(supd') = Len(supd)
      /\ supd'[u] = r /\ \A v \in 1..Len(supd) : v # u => supd'[v] = supd[v]
  <2>1. supd' = [supd EXCEPT ![u] = r]
    BY Zenon, <1>2 DEF r
  <2> QED
    BY <2>1, <1>1, <1>3, SeqUpdate
<1>5. new \in Overrides /\ supd[u].base \in Overrides /\ supd[u].had \in BOOLEAN
  BY Zenon, <1>1 DEF Updates
<1>6. /\ sset' = Upserted(u) /\ slock' = 0 /\ slast' = deep_merge(slast, new) /\ slock \in {0, u}
      /\ supd[u].pc = "txn"
      /\ sfirst' = IF supd[u].had \/ ~sset.there THEN sfirst ELSE sfirst \cup {k[1] : k \in Keys(new)}
  BY Zenon DEF UpdCommits
<1>7. sset' \in [there : BOOLEAN, val : Overrides] /\ sset'.there /\ slast' \in Overrides
  BY Zenon, <1>1, <1>5, <1>6, MergeType, ConcatType DEF Upserted
<1>8. ASSUME NEW v \in 1..Len(supd) PROVE SGood(v)'
  <2>1. CASE v = u
    BY ZenonT(60), <2>1, <1>3, <1>4 DEF SInv, SGood
  <2>2. CASE v # u
    <3>1. ~(supd[v].had /\ supd[v].pc = "txn")
      <4>1. SGood(v) /\ slock \in {0, u}
        BY Zenon, <1>6 DEF SInv
      <4>2. v # 0
        OBVIOUS
      <4> QED
        BY Zenon, <4>1, <4>2, <2>2 DEF SGood
    <3>2. supd'[v] = supd[v]
      BY Zenon, <2>2, <1>4
    <3>3. SGood(v)
      BY Zenon DEF SInv
    <3> QED
      BY Zenon, <3>1, <3>2, <3>3 DEF SGood
  <2> QED
    BY Zenon, <2>1, <2>2
<1>9. ASSUME NEW s \in Sections, NEW l \in Leaves, s \notin sfirst'
      PROVE  sset'.val[s][l] = slast'[s][l]
  <2>1. s \notin sfirst
    BY ZenonT(60), <1>6, <1>9
  <2>2. old[s][l] = slast[s][l]
    <3>1. <<s, l>> \in Sections \X Leaves /\ <<s, l>>[1] = s /\ <<s, l>>[2] = l
      BY Zenon
    <3> QED
      BY Zenon, <2>1, <3>1 DEF SInv, SettingsKept
  <2>3. CASE supd[u].had
    <3>1. supd[u].base = old /\ sset.there
      BY Zenon, <2>3, <1>6 DEF SInv, SGood
    <3>2. sset'.val = JsonbConcat(old, deep_merge(old, new))
      BY ZenonT(60), <3>1, <1>6 DEF Upserted
    <3>3. sset'.val[s][l] = deep_merge(old, new)[s][l]
      <4>1. old \in Overrides /\ new \in Overrides
        BY Zenon, <1>1, <1>5
      <4> HIDE DEF old, new
      <4> QED
        BY SMT, <3>2, <4>1, ConcatOfMerge
    <3> QED
      BY Zenon, <3>3, <2>2, <1>6 DEF deep_merge
  <2>4. CASE ~supd[u].had /\ ~sset.there
    <3>1. supd[u].base = NoOverrides /\ slast = NoOverrides
      BY Zenon, <2>4, <1>6 DEF SInv, SGood
    <3> QED
      BY Zenon, <3>1, <2>4, <1>6 DEF Upserted
  <2>5. CASE ~supd[u].had /\ sset.there
    <3>1. supd[u].base = NoOverrides
      BY Zenon, <2>5 DEF SInv, SGood
    <3>2. \A m \in Leaves : new[s][m] = Unset
      <4> SUFFICES ASSUME NEW m \in Leaves, new[s][m] # Unset PROVE FALSE
        BY Zenon
      <4>1. <<s, m>> \in Keys(new) /\ <<s, m>>[1] = s
        BY Zenon DEF Keys
      <4> QED
        BY Zenon, <4>1, <1>6, <1>9, <2>5
    <3>3. sset'.val = JsonbConcat(old, deep_merge(NoOverrides, new))
      BY ZenonT(60), <3>1, <2>5, <1>6 DEF Upserted
    <3>4. sset'.val[s] = old[s]
      <4>1. old \in Overrides /\ new \in Overrides
        BY Zenon, <1>1, <1>5
      <4> HIDE DEF old, new
      <4> QED
        BY SMT, <3>2, <3>3, <4>1, ConcatOfNew
    <3> QED
      BY Zenon, <3>2, <3>4, <2>2, <1>6 DEF deep_merge
  <2> QED
    BY Zenon, <2>3, <2>4, <2>5, <1>1, <1>5
<1>10. SettingsKept'
  BY Zenon, <1>9 DEF SettingsKept
<1> QED
  BY Zenon, <1>4, <1>6, <1>7, <1>8, <1>10 DEF SInv, SType

(* The read that opens the transaction. *)
LEMMA SReads ==
  ASSUME SInv, NEW u \in 1..Len(supd), UpdReads(u)
  PROVE  SInv'
<1> DEFINE noop == diff_settings(sset.val, supd[u].new) = {}
           p == IF noop THEN "done" ELSE "txn"
           r == [supd[u] EXCEPT !.pc = p, !.base = sset.val, !.had = sset.there]
<1>1. /\ supd \in Seq(Updates) /\ supd[u] \in Updates
      /\ sset \in [there : BOOLEAN, val : Overrides]
  BY Zenon, SeqElements DEF SInv, SType
<1>2. /\ sset.there => slock = 0
      /\ supd' = [supd EXCEPT ![u].pc = p, ![u].base = sset.val, ![u].had = sset.there]
      /\ slock' = IF sset.there /\ ~noop THEN u ELSE slock
      /\ UNCHANGED <<sset, slast, sfirst>>
  BY Zenon DEF UpdReads
<1> HIDE DEF noop
<1>3. p \in UpdPc /\ (p = "txn" => ~noop)
  BY Zenon DEF UpdPc
<1> HIDE DEF p
<1>4. r \in Updates /\ r.pc = p /\ r.had = sset.there /\ r.base = sset.val
  BY Zenon, <1>1, <1>3 DEF Updates
<1>5. supd' = [supd EXCEPT ![u] = r]
  BY Zenon, <1>2
<1> HIDE DEF r
<1>6. /\ supd' \in Seq(Updates) /\ Len(supd') = Len(supd)
      /\ supd'[u] = r /\ \A v \in 1..Len(supd) : v # u => supd'[v] = supd[v]
  BY <1>1, <1>4, <1>5, SeqUpdate
<1>7. ASSUME NEW v \in 1..Len(supd) PROVE SGood(v)'
  <2>1. CASE v = u
    BY ZenonT(60), <2>1, <1>1, <1>2, <1>3, <1>4, <1>6 DEF SInv, SGood
  <2>2. CASE v # u /\ sset.there
    BY <2>2, <1>2, <1>6 DEF SInv, SGood
  <2>3. CASE v # u /\ ~sset.there
    BY Zenon, <2>3, <1>2, <1>6 DEF SInv, SGood
  <2> QED
    BY Zenon, <2>1, <2>2, <2>3, <1>1
<1>8. SettingsKept'
  BY Zenon, <1>2 DEF SInv, SettingsKept
<1> QED
  BY Zenon, <1>2, <1>6, <1>7, <1>8 DEF SInv, SType

\* An update rolls back.
LEMMA SRollsBack ==
  ASSUME SInv, NEW u \in 1..Len(supd), UpdRollsBack(u)
  PROVE  SInv'
<1> DEFINE r == [supd[u] EXCEPT !.pc = "failed"]
<1>1. /\ supd \in Seq(Updates) /\ supd[u] \in Updates
  BY SeqElements DEF SInv, SType
<1>2. /\ supd' = [supd EXCEPT ![u].pc = "failed"]
      /\ slock' = IF slock = u THEN 0 ELSE slock
      /\ UNCHANGED <<sset, slast, sfirst>>
  BY Zenon DEF UpdRollsBack
<1>3. r \in Updates /\ r.pc = "failed" /\ r.had = supd[u].had /\ r.base = supd[u].base
  BY <1>1 DEF Updates, UpdPc
<1>4. supd' = [supd EXCEPT ![u] = r]
  BY Zenon, <1>2
<1> HIDE DEF r
<1>5. /\ supd' \in Seq(Updates) /\ Len(supd') = Len(supd)
      /\ supd'[u] = r /\ \A v \in 1..Len(supd) : v # u => supd'[v] = supd[v]
  BY <1>1, <1>3, <1>4, SeqUpdate
<1>6. ASSUME NEW v \in 1..Len(supd) PROVE SGood(v)'
  BY ZenonT(60), <1>2, <1>3, <1>5 DEF SInv, SGood
<1>7. SettingsKept'
  BY Zenon, <1>2 DEF SInv, SettingsKept
<1> QED
  BY Zenon, <1>2, <1>5, <1>6, <1>7 DEF SInv, SType

(* A purge waits for the row's lock, so that no update is left with a base  *)
(* that is gone.                                                            *)
LEMMA SPurged ==
  ASSUME SInv, SettingsPurged, UNCHANGED <<slock, supd>>
  PROVE  SInv'
<1>1. SType'
  BY Zenon, NoOverridesType DEF SInv, SType, SettingsPurged
<1>2. ASSUME NEW u \in 1..Len(supd) PROVE SGood(u)'
  <2>1. SGood(u) /\ slock = 0 /\ supd' = supd
    BY Zenon DEF SInv, SettingsPurged
  <2>2. u # 0
    OBVIOUS
  <2> QED
    BY Zenon, <2>1, <2>2 DEF SGood
<1>3. SettingsKept'
  BY Zenon DEF SettingsKept, SettingsPurged
<1> QED
  BY Zenon, <1>1, <1>2, <1>3 DEF SInv, SettingsPurged

\* Every step keeps the invariant of the settings.
LEMMA SNext == SInv /\ [GNext]_gvars => SInv'
<1> SUFFICES ASSUME SInv, [GNext]_gvars PROVE SInv'
  OBVIOUS
<1> USE DEF settingsVars
<1>1. CASE SettingsStep
  <2>1. ASSUME NEW u \in 1..Len(supd), UpdValidates(u) PROVE SInv'
    BY Zenon, <2>1, SMoves DEF UpdValidates, UpdPc
  <2>2. ASSUME NEW u \in 1..Len(supd), UpdInvalidates(u) PROVE SInv'
    BY Zenon, <2>2, SMoves DEF UpdInvalidates, UpdPc
  <2>3. ASSUME NEW u \in 1..Len(supd), UpdPublishes(u) PROVE SInv'
    BY Zenon, <2>3, SMoves DEF UpdPublishes, UpdPc
  <2>4. ASSUME NEW w \in Workers,
               handle_org_settings_changed(w) \/ SettingsHit(w) \/ LoadAsks(w) \/ LoadCaches(w)
        PROVE  SInv'
    BY Zenon, <2>4, SStutters DEF handle_org_settings_changed, SettingsHit, LoadAsks, LoadCaches
  <2>5. CASE SettingsReplicate
    BY <2>5, SStutters DEF SettingsReplicate
  <2> QED
    BY ZenonT(60), <1>1, <2>1, <2>2, <2>3, <2>4, <2>5, SReads, SCommits, SRollsBack DEF SettingsStep
<1>2. CASE TenancyStep
  <2>1. CASE PurgeTenant
    <3>1. UNCHANGED <<slock, supd>>
      BY Zenon, <2>1 DEF PurgeTenant
    <3>2. SettingsPurged \/ UNCHANGED <<sset, slast, sfirst>>
      BY Zenon, <2>1 DEF PurgeTenant, purge_tenant_data
    <3> QED
      BY Zenon, <3>1, <3>2, SPurged, SStutters
  <2>2. CASE Tick
    BY Zenon, <2>2, SStutters DEF Tick
  <2>3. CASE PurgeOpensAudit \/ PurgeFinalizes
    BY Zenon, <2>3, SStutters DEF PurgeOpensAudit, PurgeFinalizes
  <2>4. ASSUME NEW r \in DOMAIN reqs,
               Arrive(r) \/ CheckHits(r) \/ CheckMisses(r) \/ CheckReads(r) \/ CheckStores(r) \/ Work(r)
        PROVE  SInv'
    BY Zenon, <2>4, SStutters DEF Arrive, CheckHits, CheckMisses, CheckReads, CheckStores, Work
  <2>5. ASSUME NEW e \in DOMAIN events,
               SuppressionDelivered(e) \/ _handle_suppression_changed(e) \/ SuppressionRedelivered(e)
        PROVE  SInv'
    BY Zenon, <2>5, SStutters DEF SuppressionDelivered, _handle_suppression_changed, SuppressionRedelivered
  <2>6. ASSUME NEW t \in Tenants, SuppressionReplicates(t) PROVE SInv'
    BY Zenon, <2>6, SStutters DEF SuppressionReplicates
  <2> QED
    BY Zenon, <1>2, <2>1, <2>2, <2>3, <2>4, <2>5, <2>6 DEF TenancyStep
<1>3. CASE UNCHANGED settingsVars
  BY Zenon, <1>3, SStutters
<1> QED
  BY Zenon, <1>1, <1>2, <1>3 DEF GNext, gvars

(* An override, once committed, stays until an update of the same leaf or a *)
(* purge, however many updates run against each other in however many       *)
(* processes (update_settings and the upsert of core-storage-api).          *)
THEOREM SettingsAreKept == GSpec => []SettingsKept
<1>1. SInv => SettingsKept
  BY Zenon DEF SInv
<1> QED
  BY <1>1, SInit, SNext, PTL DEF GSpec
=============================================================================
