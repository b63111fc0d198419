----------------------------- MODULE AuditChain -----------------------------
(***************************************************************************)
(* The tamper-evident audit log of core-storage-api: batches of events     *)
(* appended to a per-tenant hash chain under the audit_chain_head row lock, *)
(* with the retrying HTTP client that sends them and the verifier that     *)
(* walks the chain.                                                        *)
(*                                                                         *)
(* One attempt at a batch is one POST, hence one transaction: it takes the *)
(* head lock and reads the head and the already chained ids (Lock), then   *)
(* inserts and commits (Commit) or rolls back (Abort).  The client may     *)
(* have given up on an attempt that the server is still running, so two    *)
(* attempts at the same batch can overlap.                                 *)
(*                                                                         *)
(* SHA-256 is taken as injective: the hash of a row is the sequence of the *)
(* canonical events from genesis up to that row.                           *)
(***************************************************************************)
EXTENDS Naturals, Sequences, FiniteSets, Functions

CONSTANTS
    Tenants,
    Batches,      \* the POSTs that the writers want to make
    TenantOf,     \* the tenant of a batch
    EventsOf,     \* the events of a batch, a sequence of Events
    Bulk,         \* the batches of POST /audit-logs/bulk; the others are single events
    Secrets,      \* the sets of events that may carry a secret
    MaxAttempts,  \* RETRY_MAX_ATTEMPTS of common/http_retry.py
    MaxWalk,      \* the limit of audit_verify_chain
    MaxDamage,    \* bound: how many rows are lost or altered outside the application
    MaxPurges,    \* bound: how often a tenant is purged
    Free          \* nobody holds the head lock

ASSUME BatchAssumption ==
    /\ TenantOf \in [Batches -> Tenants]
    /\ Bulk \subseteq Batches
    /\ \A b \in Batches : EventsOf[b] # <<>> /\ IsInjective(EventsOf[b])
    /\ \A b, c \in Batches : b # c => Range(EventsOf[b]) \cap Range(EventsOf[c]) = {}
ASSUME BoundAssumption ==
    /\ MaxAttempts \in Nat \ {0} /\ MaxWalk \in Nat \ {0}
    /\ MaxDamage \in Nat /\ MaxPurges \in Nat

Events == UNION {Range(EventsOf[b]) : b \in Batches}

\* A single-event POST is retried only while nothing was sent, so it is sent once.
Attempts == {a \in Batches \X (1..MaxAttempts) : a[1] \in Bulk \/ a[2] = 1}

ASSUME LockAssumption == Free \notin Attempts

\* The events of a batch that are not among those already chained, in their order.
Survivors(b, chained) == SelectSeq(EventsOf[b], LAMBDA e : e \notin chained)

\* What the selection gives for the batches at hand.
ASSUME SurvivorsAssumption ==
    \A b \in Batches : \A chained \in SUBSET Range(EventsOf[b]) :
        /\ Survivors(b, chained) \in Seq(Events)
        /\ IsInjective(Survivors(b, chained))
        /\ Range(Survivors(b, chained)) = Range(EventsOf[b]) \ chained

VARIABLES
    rows,      \* audit_log of each tenant, in seq order
    head,      \* audit_chain_head of each tenant
    lock,      \* the attempt that holds the head row FOR UPDATE
    txn,       \* the server side of each attempt
    client,    \* the client side of each batch
    attempt,   \* the attempt a client is waiting for
    verifier,  \* the state of a verify request for each tenant
    damage,    \* history: rows lost or altered outside the application
    purges,    \* history: how often each tenant was purged
    unsafe     \* the events that assert_pii_safe refuses, fixed from the start

vars == <<rows, head, lock, txn, client, attempt, verifier, damage, purges, unsafe>>

-----------------------------------------------------------------------------
Genesis == <<>>
Origin == [last_seq |-> 0, last_hash |-> Genesis]

(***************************************************************************)
(* canonical_event.  The detail of an event may hold the integral float    *)
(* 1.0, which a JSONB column may give back as the integer 1, and the       *)
(* resource_id may be an upper-case UUID string, which the UUID column     *)
(* gives back in lower case.  The canonical form identifies both spellings. *)
(***************************************************************************)
\* An event as log_action builds it.
Written(e) == [event |-> e, detail |-> "1.0", resource_id |-> "UPPER"]

normalise_numbers(d) == IF d = "1.0" THEN "1" ELSE d
canonical_resource_id(r) == IF r = "UPPER" THEN "lower" ELSE r

\* Mutant: numbers are hashed as they are spelt.
CanonicalAsSpelt(ev, seq) == <<seq, ev.event, ev.detail, canonical_resource_id(ev.resource_id)>>

canonical_event(ev, seq) ==
    <<seq, ev.event, normalise_numbers(ev.detail), canonical_resource_id(ev.resource_id)>>

compute_event_hash(canonical, prev) == Append(prev, canonical)

-----------------------------------------------------------------------------
Idle == [pc |-> "idle", seq |-> 0, prev |-> Genesis, chained |-> {}]

Init ==
    /\ rows = [t \in Tenants |-> <<>>]
    /\ head = [t \in Tenants |-> Origin]
    /\ lock = [t \in Tenants |-> Free]
    /\ txn = [a \in Attempts |-> Idle]
    /\ client = [b \in Batches |-> "new"]
    /\ attempt = [b \in Batches |-> 0]
    /\ verifier = [t \in Tenants |-> [pc |-> "idle", rows |-> <<>>, head |-> head[t],
                                      verdict |-> "none"]]
    /\ damage = [t \in Tenants |-> 0]
    /\ purges = [t \in Tenants |-> 0]
    /\ unsafe \in Secrets

-----------------------------------------------------------------------------
\* The client posts the next attempt at a batch (with_retry, or the single POST).
Send(b) ==
    /\ client[b] \in {"new", "retry"}
    /\ <<b, attempt[b] + 1>> \in Attempts
    /\ attempt' = [attempt EXCEPT ![b] = @ + 1]
    /\ client' = [client EXCEPT ![b] = "waiting"]
    /\ txn' = [txn EXCEPT ![<<b, attempt[b] + 1>>].pc = "received"]
    /\ UNCHANGED <<rows, head, lock, verifier, damage, purges, unsafe>>

\* The client gets the answer to the attempt it waits for.  A 500 is not retried.
Receive(b) ==
    /\ client[b] = "waiting"
    /\ \/ txn[<<b, attempt[b]>>].pc = "committed" /\ client' = [client EXCEPT ![b] = "ok"]
       \/ txn[<<b, attempt[b]>>].pc = "aborted" /\ client' = [client EXCEPT ![b] = "failed"]
    /\ UNCHANGED <<rows, head, lock, txn, attempt, verifier, damage, purges, unsafe>>

\* Mutant: an attempt whose answer was lost is reported as written.
TimeoutAsSuccess(b) ==
    /\ client[b] = "waiting"
    /\ client' = [client EXCEPT ![b] =
                     IF <<b, attempt[b] + 1>> \in Attempts THEN "retry" ELSE "ok"]
    /\ UNCHANGED <<rows, head, lock, txn, attempt, verifier, damage, purges, unsafe>>

\* The client gives up on the attempt (ReadTimeout, 502-504) and retries if
\* it has attempts left; the server may already have committed, or do so later.
Timeout(b) ==
    /\ client[b] = "waiting"
    /\ client' = [client EXCEPT ![b] =
                     IF <<b, attempt[b] + 1>> \in Attempts THEN "retry" ELSE "failed"]
    /\ UNCHANGED <<rows, head, lock, txn, attempt, verifier, damage, purges, unsafe>>

-----------------------------------------------------------------------------
EventsIn(t) == {rows[t][i].ev.event : i \in DOMAIN rows[t]}

\* Mutant: the head row is selected without FOR UPDATE.
LockUnserialised(a) ==
    LET t == TenantOf[a[1]] IN
    /\ txn[a].pc = "received"
    /\ lock' = lock
    /\ txn' = [txn EXCEPT ![a] =
                  [pc |-> "locked", seq |-> head[t].last_seq, prev |-> head[t].last_hash,
                   chained |-> IF a[1] \in Bulk THEN EventsIn(t) \cap Range(EventsOf[a[1]])
                               ELSE {}]]
    /\ UNCHANGED <<rows, head, client, attempt, verifier, damage, purges, unsafe>>

\* INSERT head ON CONFLICT DO NOTHING; SELECT head FOR UPDATE; SELECT the
\* client_event_ids that are already chained.  Single events carry no id.
Lock(a) ==
    LET t == TenantOf[a[1]] IN
    /\ txn[a].pc = "received"
    /\ lock[t] = Free
    /\ lock' = [lock EXCEPT ![t] = a]
    /\ txn' = [txn EXCEPT ![a] =
                  [pc |-> "locked", seq |-> head[t].last_seq, prev |-> head[t].last_hash,
                   chained |-> IF a[1] \in Bulk THEN EventsIn(t) \cap Range(EventsOf[a[1]])
                               ELSE {}]]
    /\ UNCHANGED <<rows, head, client, attempt, verifier, damage, purges, unsafe>>

\* Mutant: the already chained events are not skipped.
FreshNoDedup(a) == EventsOf[a[1]]

\* The events that are not already chained; only they consume a seq.
Fresh(a) == Survivors(a[1], txn[a].chained)

\* The hash of the i-th fresh event: compute_event_hash once per event of the batch,
\* each time on the hash before it.
HashAt(a, i) ==
    txn[a].prev \o [k \in 1..i |-> canonical_event(Written(Fresh(a)[k]), txn[a].seq + k)]

\* prev_hash of the loop after i fresh events: the head's until there was one.
PrevAt(a, i) == IF i = 0 THEN txn[a].prev ELSE HashAt(a, i)

\* What the columns give back for a batch: one spelling per database.
Stored(batch) ==
    {[i \in DOMAIN batch |-> [event |-> batch[i], detail |-> d, resource_id |-> "lower"]] :
        d \in {"1.0", "1"}}

NewRow(a, i, stored) ==
    [seq |-> txn[a].seq + i, prev |-> PrevAt(a, i - 1), hash |-> HashAt(a, i), ev |-> stored]

\* Insert the fresh events with contiguous seqs, move the head, commit.
Commit(a) ==
    LET t == TenantOf[a[1]]
        n == Len(Fresh(a))
    IN  /\ txn[a].pc = "locked"
        /\ Range(Fresh(a)) \cap unsafe = {}
        /\ \E stored \in Stored(Fresh(a)) :
              rows' = [rows EXCEPT ![t] = @ \o [i \in 1..n |-> NewRow(a, i, stored[i])]]
        /\ head' = [head EXCEPT ![t] = [last_seq |-> txn[a].seq + n, last_hash |-> PrevAt(a, n)]]
        /\ txn' = [txn EXCEPT ![a] = [Idle EXCEPT !.pc = "committed"]]
        /\ lock' = [lock EXCEPT ![t] = IF @ = a THEN Free ELSE @]
        /\ UNCHANGED <<client, attempt, verifier, damage, purges, unsafe>>

\* A raw secret in the detail, a storage failure or a crash: the whole
\* transaction of this tenant rolls back and releases the lock.
Abort(a) ==
    LET t == TenantOf[a[1]] IN
    /\ txn[a].pc \in {"received", "locked"}
    /\ txn' = [txn EXCEPT ![a] = [Idle EXCEPT !.pc = "aborted"]]
    /\ lock' = [lock EXCEPT ![t] = IF @ = a THEN Free ELSE @]
    /\ UNCHANGED <<rows, head, client, attempt, verifier, damage, purges, unsafe>>

-----------------------------------------------------------------------------
\* purge_tenant_data deletes the tenant's audit_log rows; audit_chain_head is
\* not in _PURGE_TENANT_TABLES and stays.
Purge(t) ==
    /\ purges[t] < MaxPurges
    /\ rows' = [rows EXCEPT ![t] = <<>>]
    /\ purges' = [purges EXCEPT ![t] = @ + 1]
    /\ UNCHANGED <<head, lock, txn, client, attempt, verifier, damage, unsafe>>

Without(q, i) == SubSeq(q, 1, i - 1) \o SubSeq(q, i + 1, Len(q))

\* Outside the application a row is lost, or its event is altered in place.
Damage(t) ==
    /\ damage[t] < MaxDamage
    /\ damage' = [damage EXCEPT ![t] = @ + 1]
    /\ \E i \in DOMAIN rows[t] :
          \/ rows' = [rows EXCEPT ![t] = Without(@, i)]
          \/ rows' = [rows EXCEPT ![t][i].ev.detail = "altered"]
    /\ UNCHANGED <<head, lock, txn, client, attempt, verifier, purges, unsafe>>

-----------------------------------------------------------------------------
Broken(walk, i) ==
    CASE walk[i].seq # i -> "seq_gap"
      [] walk[i].prev # (IF i = 1 THEN Genesis ELSE walk[i - 1].hash) -> "prev_hash_mismatch"
      [] compute_event_hash(canonical_event(walk[i].ev, walk[i].seq), walk[i].prev) # walk[i].hash
            -> "event_hash_mismatch"
      [] OTHER -> "none"

\* Mutant: the walk is not compared with the head.
VerdictNoTailCheck(walk, tail) ==
    IF \E i \in DOMAIN walk : Broken(walk, i) # "none" THEN "broken"
    ELSE IF Len(walk) >= MaxWalk THEN "truncated" ELSE "valid"

\* _verify_audit_chain_rows: the walk, then the tail check against the head.
Verdict(walk, tail) ==
    IF \E i \in DOMAIN walk : Broken(walk, i) # "none" THEN "broken"
    ELSE IF Len(walk) >= MaxWalk THEN "truncated"
    ELSE IF tail = (IF walk = <<>> THEN Origin
                    ELSE [last_seq |-> walk[Len(walk)].seq, last_hash |-> walk[Len(walk)].hash])
         THEN "valid"
    ELSE "tail_truncated"

Walk(t) == SubSeq(rows[t], 1, IF Len(rows[t]) < MaxWalk THEN Len(rows[t]) ELSE MaxWalk)

\* The first statement of the REPEATABLE READ transaction fixes the snapshot.
VerifyReadRows(t) ==
    /\ verifier[t].pc = "idle"
    /\ verifier' = [verifier EXCEPT ![t] = [pc |-> "walked", rows |-> Walk(t), head |-> head[t],
                                           verdict |-> "none"]]
    /\ UNCHANGED <<rows, head, lock, txn, client, attempt, damage, purges, unsafe>>

\* Mutant: READ COMMITTED, the head is read as it is now.
VerifyReadHeadCommitted(t) ==
    /\ verifier[t].pc = "walked"
    /\ verifier' = [verifier EXCEPT ![t].pc = "done",
                                    ![t].verdict = Verdict(verifier[t].rows, head[t])]
    /\ UNCHANGED <<rows, head, lock, txn, client, attempt, damage, purges, unsafe>>

\* The second statement reads the head in the same snapshot; then the walk runs.
VerifyReadHead(t) ==
    /\ verifier[t].pc = "walked"
    /\ verifier' = [verifier EXCEPT ![t].pc = "done",
                                    ![t].verdict = Verdict(verifier[t].rows, verifier[t].head)]
    /\ UNCHANGED <<rows, head, lock, txn, client, attempt, damage, purges, unsafe>>

-----------------------------------------------------------------------------
Next ==
    \/ \E b \in Batches : Send(b) \/ Receive(b) \/ Timeout(b)
    \/ \E a \in Attempts : Lock(a) \/ Commit(a) \/ Abort(a)
    \/ \E t \in Tenants : Purge(t) \/ Damage(t) \/ VerifyReadRows(t) \/ VerifyReadHead(t)

Spec == Init /\ [][Next]_vars

-----------------------------------------------------------------------------
TypeOK ==
    /\ DOMAIN rows = Tenants
    /\ \A t \in Tenants : \A i \in DOMAIN rows[t] :
          /\ DOMAIN rows[t][i] = {"seq", "prev", "hash", "ev"}
          /\ rows[t][i].seq \in Nat /\ rows[t][i].ev.event \in Events
    /\ \A t \in Tenants : head[t].last_seq \in Nat
    /\ lock \in [Tenants -> Attempts \cup {Free}]
    /\ \A a \in Attempts : txn[a].pc \in {"idle", "received", "locked", "committed", "aborted"}
    /\ client \in [Batches -> {"new", "waiting", "retry", "ok", "failed"}]
    /\ attempt \in [Batches -> 0..MaxAttempts]
    /\ \A t \in Tenants : verifier[t].pc \in {"idle", "walked", "done"}
    /\ damage \in [Tenants -> 0..MaxDamage]
    /\ purges \in [Tenants -> 0..MaxPurges]
    /\ unsafe \in Secrets

Intact(t) == damage[t] = 0

(***************************************************************************)
(* The chain never forks and never skips: whatever concurrent attempts,    *)
(* aborts and purges did, the rows of a tenant carry consecutive seqs that *)
(* end at the head, each row holds the hash of the one before it, and the  *)
(* head holds the hash of the last row (_audit_chain_one_tenant).          *)
(***************************************************************************)
ChainLinked ==
    \A t \in Tenants : Intact(t) =>
        LET n == Len(rows[t]) IN
        /\ \A i \in 1..n : rows[t][i].seq + n = head[t].last_seq + i
        /\ \A i \in 2..n : rows[t][i].prev = rows[t][i - 1].hash
        /\ n > 0 => rows[t][n].hash = head[t].last_hash

(***************************************************************************)
(* A lost acknowledgement makes with_retry send the batch again, possibly  *)
(* while the first attempt still runs; no event is ever chained twice.     *)
(***************************************************************************)
ChainedOnce ==
    \A t \in Tenants : \A i, j \in DOMAIN rows[t] :
        rows[t][i].ev.event = rows[t][j].ev.event => i = j

(***************************************************************************)
(* The events of one POST are chained all or none: a secret in one of them *)
(* (assert_pii_safe raises) takes the whole slice of the tenant with it;   *)
(* and a batch the client was told is written is in the chain.             *)
(***************************************************************************)
BatchWhole ==
    \A b \in Batches : LET t == TenantOf[b] IN
        Intact(t) /\ purges[t] = 0 =>
            /\ Range(EventsOf[b]) \cap EventsIn(t) \in {{}, Range(EventsOf[b])}
            /\ client[b] = "ok" => Range(EventsOf[b]) \subseteq EventsIn(t)

(***************************************************************************)
(* What the chain is for, however the attempts of several writers, lost     *)
(* answers, refused events and purges interleave: one unbroken line of rows *)
(* that ends at the head, no event twice, no batch by halves.               *)
(***************************************************************************)
ChainSound == TypeOK /\ ChainLinked /\ ChainedOnce /\ BatchWhole

(***************************************************************************)
(* Verification raises no false alarm: on a chain that nobody damaged or   *)
(* purged the verdict is valid (or truncated at the walk's limit), even    *)
(* when writers commit while the verifier runs and whatever spelling of    *)
(* numbers and ids the columns give back.  And a row lost or altered       *)
(* anywhere within the walk, the last row included, is reported for ever   *)
(* after, whatever is appended behind it.                                  *)
(***************************************************************************)
VerdictTrue ==
    \A t \in Tenants : purges[t] = 0 =>
        IF Intact(t) THEN verifier[t].verdict \in {"none", "valid", "truncated"}
                     ELSE Verdict(Walk(t), head[t]) # "valid"
=============================================================================
