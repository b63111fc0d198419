----------------------------- MODULE AuditQueue -----------------------------
(***************************************************************************)
(* The in-memory audit queue of core-api: log_action enqueues, one flusher *)
(* task drains the queue in chunks and posts each tenant's slice of a      *)
(* chunk concurrently, and lifespan shutdown stops it.  What a POST does to *)
(* the hash chain is AuditChain; here a slice is written, or it fails and  *)
(* may have been written all the same (a lost answer).                     *)
(***************************************************************************)
EXTENDS Naturals, Sequences, FiniteSets, Functions

CONSTANTS
    Logged,         \* the audit events of a run, each logged once
    TenantOfEvent,  \* the tenant of an event, or NoTenant
    Critical,       \* the events logged with critical=True
    NoTenant,
    max_queue_size,
    chunk_size

ASSUME QueueAssumption ==
    /\ max_queue_size \in Nat \ {0} /\ chunk_size \in Nat \ {0}
    /\ Critical \subseteq Logged /\ DOMAIN TenantOfEvent = Logged

VARIABLES
    phase,    \* of the application's lifespan
    queue,    \* asyncio.Queue
    flusher,  \* where the flusher task is
    drained,  \* events drained and not yet handed to the flush callable
    chunk,    \* the chunk being flushed
    slice,    \* the POST of each tenant of the chunk
    in_log,   \* events that are in the audit log
    dropped_count, flushed_count, failed_count,
    fate      \* history: what became of each event

queueVars == <<phase, queue, flusher, drained, chunk, slice, in_log,
          dropped_count, flushed_count, failed_count, fate>>

QueueTenants == Range(TenantOfEvent) \ {NoTenant}
Of(t) == {e \in Range(chunk) : TenantOfEvent[e] = t}
Sentinels == Of(NoTenant)
InFlight == {t \in QueueTenants : slice[t] = "pending"}
Settle(es, f) == [e \in Logged |-> IF e \in es THEN f ELSE fate[e]]

QueueInit ==
    /\ phase = "starting"
    /\ queue = <<>> /\ drained = <<>> /\ chunk = <<>>
    /\ flusher = "none"
    /\ slice = [t \in QueueTenants |-> "idle"]
    /\ in_log = {}
    /\ dropped_count = 0 /\ flushed_count = 0 /\ failed_count = 0
    /\ fate = [e \in Logged |-> "new"]

-----------------------------------------------------------------------------
(* log_action *)

Alive == phase # "closed"

\* The queue is not bound yet: every event is posted synchronously.
LogUnqueued(e) ==
    /\ phase = "starting" /\ fate[e] = "new"
    /\ fate' = [fate EXCEPT ![e] = "posting"]
    /\ UNCHANGED <<phase, queue, flusher, drained, chunk, slice, in_log,
                   dropped_count, flushed_count, failed_count>>

\* The singleton stays bound after stop(), so events are queued until the
\* process is gone.
Enqueue(e) ==
    /\ phase # "starting" /\ Alive /\ fate[e] = "new"
    /\ Len(queue) < max_queue_size
    /\ queue' = Append(queue, e)
    /\ fate' = [fate EXCEPT ![e] = "queued"]
    /\ UNCHANGED <<phase, flusher, drained, chunk, slice, in_log,
                   dropped_count, flushed_count, failed_count>>

\* Mutant: a full queue drops critical events like the others.
EnqueueFullDropsAll(e) ==
    /\ phase # "starting" /\ Alive /\ fate[e] = "new"
    /\ Len(queue) >= max_queue_size
    /\ fate' = [fate EXCEPT ![e] = "dropped"]
    /\ dropped_count' = dropped_count + 1
    /\ UNCHANGED <<phase, queue, flusher, drained, chunk, slice, in_log, flushed_count, failed_count>>

\* QueueFull: drop and count, or post a critical event synchronously.
EnqueueFull(e) ==
    /\ phase # "starting" /\ Alive /\ fate[e] = "new"
    /\ Len(queue) >= max_queue_size
    /\ \/ /\ e \in Critical
          /\ fate' = [fate EXCEPT ![e] = "posting"]
          /\ UNCHANGED dropped_count
       \/ /\ e \notin Critical
          /\ fate' = [fate EXCEPT ![e] = "dropped"]
          /\ dropped_count' = dropped_count + 1
    /\ UNCHANGED <<phase, queue, flusher, drained, chunk, slice, in_log, flushed_count, failed_count>>

\* _post_audit_sync returns, or fails: the caller logs the loss (or raises it
\* when the queue is not bound).
PostSync(e) ==
    /\ fate[e] = "posting"
    /\ \/ fate' = [fate EXCEPT ![e] = "posted"] /\ in_log' = in_log \cup {e}
       \/ /\ fate' = [fate EXCEPT ![e] = "post failed"]
          /\ \/ UNCHANGED in_log
             \/ in_log' = in_log \cup {e}
    /\ UNCHANGED <<phase, queue, flusher, drained, chunk, slice,
                   dropped_count, flushed_count, failed_count>>

-----------------------------------------------------------------------------
(* start, stop and the lifespan *)

\* set_audit_queue and start: the flusher task begins to wait.
QueueStart ==
    /\ phase = "starting"
    /\ phase' = "running" /\ flusher' = "waiting"
    /\ UNCHANGED <<queue, drained, chunk, slice, in_log,
                   dropped_count, flushed_count, failed_count, fate>>

\* stop() sets _stopping and waits for the flusher.
Stop ==
    /\ phase = "running"
    /\ phase' = "stopping"
    /\ UNCHANGED <<queue, flusher, drained, chunk, slice, in_log,
                   dropped_count, flushed_count, failed_count, fate>>

\* stop() returns; the event bus and the tracked tasks still run.
StopReturns ==
    /\ phase = "stopping" /\ flusher \in {"done", "cancelled"}
    /\ phase' = "stopped"
    /\ UNCHANGED <<queue, flusher, drained, chunk, slice, in_log,
                   dropped_count, flushed_count, failed_count, fate>>

\* The bus is stopped, the tasks are cancelled, the storage client is closed:
\* nobody is left who logs, or who waits for a synchronous POST.
Close ==
    /\ phase = "stopped"
    /\ \A e \in Logged : fate[e] # "posting"
    /\ phase' = "closed"
    /\ UNCHANGED <<queue, flusher, drained, chunk, slice, in_log,
                   dropped_count, flushed_count, failed_count, fate>>

-----------------------------------------------------------------------------
(* The flusher task *)

AfterDrain == IF phase = "stopping" THEN "final" ELSE "waiting"

\* The threshold was reached, the interval passed or stop() set the event:
\* drain the whole queue.
Wake ==
    /\ flusher = "waiting"
    /\ phase = "stopping" \/ queue # <<>>
    /\ drained' = queue /\ queue' = <<>>
    /\ flusher' = IF queue = <<>> THEN AfterDrain ELSE "flush"
    /\ UNCHANGED <<phase, chunk, slice, in_log,
                   dropped_count, flushed_count, failed_count, fate>>

\* The loop has seen _stopping: one last drain.
FinalDrain ==
    /\ flusher = "final"
    /\ drained' = queue /\ queue' = <<>>
    /\ flusher' = IF queue = <<>> THEN "done" ELSE "finalflush"
    /\ UNCHANGED <<phase, chunk, slice, in_log,
                   dropped_count, flushed_count, failed_count, fate>>

\* The next chunk goes to _flush_audit_batch: one POST per tenant; the events
\* without a tenant are set aside.
FlushChunk ==
    /\ flusher \in {"flush", "finalflush"}
    /\ chunk = <<>> /\ drained # <<>>
    /\ LET n == IF Len(drained) < chunk_size THEN Len(drained) ELSE chunk_size
           c == SubSeq(drained, 1, n)
       IN  /\ chunk' = c
           /\ drained' = SubSeq(drained, n + 1, Len(drained))
           /\ slice' = [t \in QueueTenants |->
                           IF t \in {TenantOfEvent[e] : e \in Range(c)} THEN "pending" ELSE "idle"]
    /\ UNCHANGED <<phase, queue, flusher, in_log, dropped_count, flushed_count, failed_count, fate>>

\* _flush_one_tenant returns or raises; a slice that raised may be stored.
FlushOneTenant(t) ==
    /\ slice[t] = "pending" /\ flusher \in {"flush", "finalflush"}
    /\ \/ slice' = [slice EXCEPT ![t] = "ok"] /\ in_log' = in_log \cup Of(t)
       \/ /\ slice' = [slice EXCEPT ![t] = "failed"]
          /\ \/ UNCHANGED in_log
             \/ in_log' = in_log \cup Of(t)
    /\ UNCHANGED <<phase, queue, flusher, drained, chunk,
                   dropped_count, flushed_count, failed_count, fate>>

Failed == {e \in Range(chunk) : TenantOfEvent[e] # NoTenant /\ slice[TenantOfEvent[e]] = "failed"}
Flushed == Range(chunk) \ (Failed \cup Sentinels)

ChunkDone ==
    /\ flusher \in {"flush", "finalflush"}
    /\ chunk # <<>> /\ InFlight = {}
    /\ chunk' = <<>>
    /\ slice' = [t \in QueueTenants |-> "idle"]
    /\ flusher' = IF drained # <<>> THEN flusher
             ELSE IF flusher = "finalflush" THEN "done" ELSE AfterDrain
    /\ fate' = [e \in Logged |-> IF e \in Failed THEN "failed"
                                 ELSE IF e \in Sentinels THEN "unattributed"
                                 ELSE IF e \in Flushed THEN "written" ELSE fate[e]]

\* Mutant: the events without a tenant are credited as flushed.
EndChunkCountsSentinels ==
    /\ ChunkDone
    /\ failed_count' = failed_count + Cardinality(Failed)
    /\ flushed_count' = flushed_count + Len(chunk) - Cardinality(Failed)
    /\ UNCHANGED <<phase, queue, drained, in_log, dropped_count>>

\* Every slice has ended: count, and go on with the next chunk or the loop.
EndChunk ==
    /\ ChunkDone
    /\ failed_count' = failed_count + Cardinality(Failed)
    /\ flushed_count' = (flushed_count + Len(chunk)) - Cardinality(Failed) - Cardinality(Sentinels)
    /\ UNCHANGED <<phase, queue, drained, in_log, dropped_count>>

\* stop()'s deadline passes: CancelledError reaches the await of the flush
\* callable without a failed_event_count, so nothing of the chunk is counted as
\* failed and all of it but the sentinels as flushed; the rest of the drain is
\* lost.  A POST that was under way is shielded and may still be written.
Cancel ==
    /\ phase = "stopping" /\ chunk # <<>> /\ InFlight # {}
    /\ flusher' = "cancelled"
    /\ flushed_count' = (flushed_count + Len(chunk)) - Cardinality(Sentinels)
    /\ \E late \in SUBSET InFlight : in_log' = in_log \cup UNION {Of(t) : t \in late}
    /\ fate' = Settle(Range(chunk) \cup Range(drained), "abandoned")
    /\ chunk' = <<>> /\ drained' = <<>>
    /\ slice' = [t \in QueueTenants |-> "idle"]
    /\ UNCHANGED <<phase, queue, dropped_count, failed_count>>

-----------------------------------------------------------------------------
Flusher ==
    \/ Wake \/ FinalDrain \/ FlushChunk \/ EndChunk
    \/ \E t \in QueueTenants : FlushOneTenant(t)

QueueNext ==
    \/ \E e \in Logged : LogUnqueued(e) \/ Enqueue(e) \/ EnqueueFull(e) \/ PostSync(e)
    \/ QueueStart \/ Stop \/ StopReturns \/ Close \/ Cancel
    \/ Flusher

QueueSpec == QueueInit /\ [][QueueNext]_queueVars

\* The event loop runs the flusher and the synchronous POSTs; every POST ends,
\* the storage client has a timeout.
QueueFairSpec == QueueSpec /\ WF_queueVars(Flusher) /\ \A e \in Logged : WF_queueVars(PostSync(e))

-----------------------------------------------------------------------------
Fates == {"new", "posting", "posted", "post failed", "queued", "dropped", "written", "failed",
          "unattributed", "abandoned"}

QueueTypeOK ==
    /\ phase \in {"starting", "running", "stopping", "stopped", "closed"}
    /\ queue \in Seq(Logged) /\ Len(queue) <= max_queue_size
    /\ flusher \in {"none", "waiting", "flush", "final", "finalflush", "done", "cancelled"}
    /\ drained \in Seq(Logged)
    /\ chunk \in Seq(Logged) /\ Len(chunk) <= chunk_size
    /\ slice \in [QueueTenants -> {"idle", "pending", "ok", "failed"}]
    /\ in_log \subseteq Logged
    /\ dropped_count \in Nat /\ flushed_count \in Nat /\ failed_count \in Nat
    /\ fate \in [Logged -> Fates]

Having(f) == {e \in Logged : fate[e] = f}
Queued == Range(queue) \cup Range(drained) \cup Range(chunk)

(***************************************************************************)
(* Until stop()'s deadline cancels the flusher the dashboard's counters    *)
(* tell the truth: every event taken by the queue is still held by it or   *)
(* is counted exactly once, as flushed (and then it is in the audit log)   *)
(* or as failed; the events without a tenant and the critical events that  *)
(* were posted synchronously are in neither, and a drop is a drop.  (The   *)
(* type invariant rides along.)                                            *)
(***************************************************************************)
CountersExact ==
    /\ QueueTypeOK
    /\ flusher # "cancelled" =>
        /\ Having("queued") = Queued
        /\ Len(queue) + Len(drained) + Len(chunk) = Cardinality(Queued)
        /\ dropped_count = Cardinality(Having("dropped"))
        /\ flushed_count = Cardinality(Having("written"))
        /\ failed_count = Cardinality(Having("failed"))
        /\ Having("written") \subseteq in_log

(***************************************************************************)
(* While the application runs, every logged event is settled: written, or  *)
(* its failure is logged and counted; an event that is not critical may be *)
(* dropped on overflow, a critical one never is.  Only the deadline of     *)
(* stop() may cut this short.                                              *)
(***************************************************************************)
EveryEventSettles ==
    \A e \in Logged :
        (phase = "running" /\ fate[e] # "new") ~>
            \/ fate[e] \in {"written", "failed", "unattributed", "posted", "post failed"}
            \/ fate[e] = "dropped" /\ e \notin Critical
            \/ flusher = "cancelled"
=============================================================================
