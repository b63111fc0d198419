---------------------------- MODULE Idempotency ----------------------------
(***************************************************************************)
(* The idempotency inbox: concurrent HTTP requests that carry the same     *)
(* Idempotency-Key (core-api middleware/idempotency.py) racing on the one  *)
(* idempotency_responses row of that (tenant, key) (core-storage-api       *)
(* postgres_service.py).  Every SQL statement filters on (tenant_id,       *)
(* idempotency_key), so one key is modelled and others cannot interfere.   *)
(*                                                                         *)
(* A request is a process.  Each call it makes on the storage API is one   *)
(* atomic step; between two calls every other request, the passing of a    *)
(* row's expires_at and the deletion of the row may intervene.  Expiry is  *)
(* an action of its own: it may happen at any moment, which covers every   *)
(* value of the two TTLs and any drift between application and database    *)
(* clocks.                                                                 *)
(***************************************************************************)
EXTENDS Naturals, FiniteSets

CONSTANTS
    Requests,   \* the requests that arrive with this key
    Hashes,     \* sha256 values of request bodies
    HashOf,     \* the body hash of each request
    MaxPolls,   \* _CLAIM_POLL_MAX_ATTEMPTS
    NoRow,      \* no row in the table
    NoBody      \* the empty response_body of a pending claim, and "no answer"

ASSUME HashAssumption == HashOf \in [Requests -> Hashes]
ASSUME PollAssumption == MaxPolls \in Nat \ {0}
ASSUME SentinelAssumption == NoBody \notin Requests

VARIABLES
    row,        \* the idempotency_responses row
    pc,         \* where each request is in idempotency_for / the route
    polls,      \* attempts left in _poll_until_complete
    answer,     \* the HTTP answer given to the client
    executed,   \* history: requests whose handler started
    degraded,   \* history: requests that run with no cache after a storage error
    lapsed      \* history: a live row has expired or was purged

vars == <<row, pc, polls, answer, executed, degraded, lapsed>>

(***************************************************************************)
(* The response a handler produces is identified with the request that     *)
(* executed it: two executions never produce the same response.            *)
(* row.claimant is a history field: whose claim or record wrote the row.   *)
(***************************************************************************)
Bodies == Requests \cup {NoBody}

Rows == [request_hash : Hashes, response_body : Bodies, is_pending : BOOLEAN,
         expired : BOOLEAN, claimant : Requests]

ASSUME NoRowAssumption == NoRow \notin Rows

PCs == {"lookup", "poll", "claim", "conflict", "handler",
        "record", "insert", "select", "done", "crashed"}

Kinds == {"none", "live", "replay", "failed", "409", "422", "503"}

Answer(kind, body) == [kind |-> kind, body |-> body]

TypeOK ==
    /\ row \in Rows \cup {NoRow}
    /\ pc \in [Requests -> PCs]
    /\ polls \in [Requests -> 0..MaxPolls]
    /\ answer \in [Requests -> [kind : Kinds, body : Bodies]]
    /\ executed \subseteq Requests
    /\ degraded \subseteq Requests
    /\ lapsed \in BOOLEAN

Init ==
    /\ row = NoRow
    /\ pc = [r \in Requests |-> "lookup"]
    /\ polls = [r \in Requests |-> MaxPolls]
    /\ answer = [r \in Requests |-> Answer("none", NoBody)]
    /\ executed = {}
    /\ degraded = {}
    /\ lapsed = FALSE

-----------------------------------------------------------------------------
\* idempotency_get returns only rows whose expires_at is in the future.
Live == row # NoRow /\ ~row.expired

Finish(r, kind, body) ==
    /\ pc' = [pc EXCEPT ![r] = "done"]
    /\ answer' = [answer EXCEPT ![r] = Answer(kind, body)]

Goto(r, label) ==
    /\ pc' = [pc EXCEPT ![r] = label]
    /\ answer' = answer

StartHandler(r) ==
    /\ Goto(r, "handler")
    /\ executed' = executed \cup {r}

\* Mutant: the hash comparison is dropped.
ReplayOrRejectNoHash(r) ==
    Finish(r, "replay", row.response_body)

\* A row another request left complete: replay it, or 422 when the hash differs.
ReplayOrReject(r) ==
    IF row.request_hash = HashOf[r]
    THEN Finish(r, "replay", row.response_body)
    ELSE Finish(r, "422", NoBody)

-----------------------------------------------------------------------------
\* The first get_idempotency of idempotency_for.
Lookup(r) ==
    /\ pc[r] = "lookup"
    /\ IF ~Live THEN Goto(r, "claim")
       ELSE IF row.is_pending /\ row.request_hash = HashOf[r] THEN Goto(r, "poll")
       ELSE ReplayOrReject(r)
    /\ UNCHANGED <<row, polls, executed, degraded, lapsed>>

\* Any storage error on lookup degrades to a guard without cache: the handler runs.
LookupFails(r) ==
    /\ pc[r] = "lookup"
    /\ StartHandler(r)
    /\ degraded' = degraded \cup {r}
    /\ UNCHANGED <<row, polls, lapsed>>

PendingRow(r) ==
    [request_hash |-> HashOf[r], response_body |-> NoBody, is_pending |-> TRUE,
     expired |-> FALSE, claimant |-> r]

\* Mutant: ON CONFLICT DO UPDATE loses its WHERE and takes over pending claims.
ClaimOverPending(r) ==
    /\ pc[r] = "claim"
    /\ IF Live /\ ~row.is_pending
       THEN /\ Goto(r, "conflict")
            /\ UNCHANGED <<row, executed>>
       ELSE /\ row' = PendingRow(r)
            /\ StartHandler(r)
    /\ UNCHANGED <<polls, degraded, lapsed>>

\* INSERT ... ON CONFLICT DO UPDATE WHERE expires_at <= now().
Claim(r) ==
    /\ pc[r] = "claim"
    /\ IF Live
       THEN /\ Goto(r, "conflict")
            /\ UNCHANGED <<row, executed>>
       ELSE /\ row' = PendingRow(r)
            /\ StartHandler(r)
    /\ UNCHANGED <<polls, degraded, lapsed>>

\* The claim call raises: never sent, or committed with the answer lost.
\* Either way the request runs its handler without a cache.
ClaimFails(r) ==
    /\ pc[r] = "claim"
    /\ row' \in IF Live THEN {row} ELSE {row, PendingRow(r)}
    /\ StartHandler(r)
    /\ degraded' = degraded \cup {r}
    /\ UNCHANGED <<polls, lapsed>>

\* claim_idempotency's router reads the row it lost to, in a transaction of its own.
ReadConflict(r) ==
    /\ pc[r] = "conflict"
    /\ IF Live /\ (row.request_hash # HashOf[r] \/ ~row.is_pending)
       THEN ReplayOrReject(r)
       ELSE Goto(r, "poll")
    /\ UNCHANGED <<row, polls, executed, degraded, lapsed>>

\* The read of the lost-to row raises: the whole claim call fails.
ReadConflictFails(r) ==
    /\ pc[r] = "conflict"
    /\ StartHandler(r)
    /\ degraded' = degraded \cup {r}
    /\ UNCHANGED <<row, polls, lapsed>>

\* Mutant: a request whose poll budget is spent runs the handler itself.
PollThenRun(r) ==
    /\ pc[r] = "poll"
    /\ polls' = [polls EXCEPT ![r] = @ - 1]
    /\ IF ~Live THEN Finish(r, "409", NoBody) /\ executed' = executed
       ELSE IF ~row.is_pending THEN ReplayOrReject(r) /\ executed' = executed
       ELSE IF polls[r] = 1 THEN StartHandler(r)
       ELSE Goto(r, "poll") /\ executed' = executed
    /\ UNCHANGED <<row, degraded, lapsed>>

\* Mutant: the poll has no budget.
PollForever(r) ==
    /\ pc[r] = "poll"
    /\ IF ~Live THEN Finish(r, "409", NoBody)
       ELSE IF ~row.is_pending THEN ReplayOrReject(r)
       ELSE Goto(r, "poll")
    /\ UNCHANGED <<row, polls, executed, degraded, lapsed>>

\* One iteration of _poll_until_complete.
Poll(r) ==
    /\ pc[r] = "poll"
    /\ IF ~Live THEN Finish(r, "409", NoBody) /\ polls' = polls
       ELSE IF ~row.is_pending THEN ReplayOrReject(r) /\ polls' = polls
       ELSE /\ polls' = [polls EXCEPT ![r] = @ - 1]
            /\ IF polls[r] = 1 THEN Finish(r, "409", NoBody) ELSE Goto(r, "poll")
    /\ UNCHANGED <<row, executed, degraded, lapsed>>

PollFails(r) ==
    /\ pc[r] = "poll"
    /\ Finish(r, "503", NoBody)
    /\ UNCHANGED <<row, polls, executed, degraded, lapsed>>

-----------------------------------------------------------------------------
\* The route's handler returns, and idem.record is called.
HandlerReturns(r) ==
    /\ pc[r] = "handler"
    /\ Goto(r, "record")
    /\ UNCHANGED <<row, polls, executed, degraded, lapsed>>

\* The handler raises (per-tenant slot 429, 403, pipeline error): nothing
\* releases the claim, which stays pending until it expires.
HandlerRaises(r) ==
    /\ pc[r] = "handler"
    /\ Finish(r, "failed", NoBody)
    /\ UNCHANGED <<row, polls, executed, degraded, lapsed>>

CompleteRow(r) ==
    [request_hash |-> HashOf[r], response_body |-> r, is_pending |-> FALSE,
     expired |-> FALSE, claimant |-> r]

\* Mutant: the UPDATE is not scoped to is_pending.
RecordUpdateAnyRow(r) ==
    /\ pc[r] = "record"
    /\ IF row # NoRow /\ row.request_hash = HashOf[r]
       THEN /\ row' = [row EXCEPT !.response_body = r, !.is_pending = FALSE,
                                  !.expired = FALSE]
            /\ Finish(r, "live", r)
       ELSE /\ Goto(r, "insert")
            /\ UNCHANGED row
    /\ UNCHANGED <<polls, executed, degraded, lapsed>>

\* idempotency_record, first statement: UPDATE ... WHERE hash matches AND is_pending.
\* It does not look at expires_at: an expired claim is completed and revived.
RecordUpdate(r) ==
    /\ pc[r] = "record"
    /\ IF row # NoRow /\ row.request_hash = HashOf[r] /\ row.is_pending
       THEN /\ row' = [row EXCEPT !.response_body = r, !.is_pending = FALSE,
                                  !.expired = FALSE]
            /\ Finish(r, "live", r)
       ELSE /\ Goto(r, "insert")
            /\ UNCHANGED row
    /\ UNCHANGED <<polls, executed, degraded, lapsed>>

\* Second statement: INSERT ... ON CONFLICT DO NOTHING (an expired row conflicts too).
RecordInsert(r) ==
    /\ pc[r] = "insert"
    /\ IF row = NoRow
       THEN /\ row' = CompleteRow(r)
            /\ Finish(r, "live", r)
       ELSE /\ Goto(r, "select")
            /\ UNCHANGED row
    /\ UNCHANGED <<polls, executed, degraded, lapsed>>

\* Third statement: SELECT the row that won.  A missing, pending or
\* foreign row raises, which record() logs and swallows; otherwise the row
\* is returned and ignored.  The client gets its own response every time.
RecordSelect(r) ==
    /\ pc[r] = "select"
    /\ Finish(r, "live", r)
    /\ UNCHANGED <<row, polls, executed, degraded, lapsed>>

\* The record call fails before it commits; record() swallows the error.
RecordFails(r) ==
    /\ pc[r] \in {"record", "insert", "select"}
    /\ Finish(r, "live", r)
    /\ UNCHANGED <<row, polls, executed, degraded, lapsed>>

-----------------------------------------------------------------------------
\* The core-api process dies, or the client's connection is torn down.
Crash(r) ==
    /\ pc[r] \notin {"done", "crashed"}
    /\ Goto(r, "crashed")
    /\ UNCHANGED <<row, polls, executed, degraded, lapsed>>

\* The row's expires_at passes (90 s while pending, 24 h once complete).
Expire ==
    /\ Live
    /\ row' = [row EXCEPT !.expired = TRUE]
    /\ lapsed' = TRUE
    /\ UNCHANGED <<pc, polls, answer, executed, degraded>>

\* The cleanup job deletes an expired row.
Prune ==
    /\ row # NoRow /\ row.expired
    /\ row' = NoRow
    /\ UNCHANGED <<pc, polls, answer, executed, degraded, lapsed>>

\* purge_tenant_data deletes the tenant's rows, live ones included.
Purge ==
    /\ row # NoRow
    /\ row' = NoRow
    /\ lapsed' = TRUE
    /\ UNCHANGED <<pc, polls, answer, executed, degraded>>

Step(r) ==
    \/ Lookup(r) \/ Claim(r) \/ ReadConflict(r) \/ Poll(r)
    \/ HandlerReturns(r)
    \/ RecordUpdate(r) \/ RecordInsert(r) \/ RecordSelect(r)

Failure(r) ==
    \/ LookupFails(r) \/ ClaimFails(r) \/ ReadConflictFails(r) \/ PollFails(r)
    \/ HandlerRaises(r) \/ RecordFails(r) \/ Crash(r)

Next ==
    \/ \E r \in Requests : Step(r) \/ Failure(r)
    \/ Expire
    \/ Prune
    \/ Purge

Spec == Init /\ [][Next]_vars

\* An accepted request keeps running: asyncio schedules it, and every
\* storage call ends in an answer or in the HTTP client's timeout.  No
\* failure is assumed to happen.
Fairness == \A r \in Requests : WF_vars(Step(r))

FairSpec == Spec /\ Fairness

-----------------------------------------------------------------------------
\* A replayed body was produced by a handler that really ran, for a request
\* with the same body hash: never the empty body of a pending claim, never
\* another request's response (the 422 checks of idempotency_for and the
\* hash filter of idempotency_record).
ReplayFaithful ==
    \A r \in Requests :
        answer[r].kind = "replay" =>
            /\ answer[r].body \in executed
            /\ HashOf[answer[r].body] = HashOf[r]

\* Unless the row expired or was purged, at most one request that was not
\* degraded by a storage error ever starts its handler (the race that
\* claim_idempotency closes), even when that handler crashes or raises.
OneExecution ==
    \A r, s \in executed \ degraded : r # s => lapsed

\* Without expiry and without storage errors, all successful answers under
\* one key carry the same response, whoever executed and whoever replayed.
AnswersAgree ==
    (~lapsed /\ degraded = {}) =>
        \A r, s \in Requests :
            (answer[r].kind \in {"live", "replay"} /\ answer[s].kind \in {"live", "replay"})
                => answer[r].body = answer[s].body

\* What a client with a key may rely on: at most one execution, every answer that execution's, and every replay the
\* response of a request with the same body.
InboxSound == TypeOK /\ ReplayFaithful /\ OneExecution /\ AnswersAgree

\* Every request is answered, or its process has died: the poll budget
\* bounds the wait behind a holder that never finishes.
EveryRequestEnds ==
    \A r \in Requests : <>(pc[r] \in {"done", "crashed"})

\* The cell as the row shows it, and what each request has been served from it.
Cell == IF Live /\ ~row.is_pending THEN row.response_body ELSE NoBody

Served ==
    [r \in Requests |-> IF answer[r].kind = "replay" THEN answer[r].body ELSE NoBody]

Cache == INSTANCE ResponseCache WITH cell <- Cell, served <- Served

\* The inbox implements the write-once cell of ResponseCache: a completed
\* live response is never overwritten, and replays come from the cell.
ImplementsCache == Cache!Spec

\* idempotency_record's docstring: a late record for an expired claim does
\* not touch the fresh claim that reclaimed the slot.  A pending row is
\* completed only by the request that claimed it.
LateRecordSparesFreshClaim ==
    [][\A r \in Requests :
         (RecordUpdate(r) /\ row' # row /\ ~row.expired) => row.claimant = r]_vars
=============================================================================
