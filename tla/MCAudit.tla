------------------------------ MODULE MCAudit -------------------------------
(* The audit log: in each behaviour either the chain is at work or the       *)
(* queue in front of it.                                                     *)
(*                                                                           *)
(* The chain: one tenant and two batches, a bulk batch of two events, sent   *)
(* up to twice, the second event with or without a secret, and a single      *)
(* event with the synchronous POST.                                          *)
(*                                                                           *)
(* The queue: four events of two tenants, one of them critical and one       *)
(* without a tenant.  The queue holds three, so that it overflows; a chunk   *)
(* holds two, so that a chunk has slices of several tenants and a drain      *)
(* several chunks.                                                           *)
EXTENDS AuditChain, AuditQueue, TLC

CONSTANTS t1, b1, b2

MCTenantOf == [b \in Batches |-> t1]
MCEventsOf == (b1 :> <<"e1", "e2">>) @@ (b2 :> <<"e3">>)
MCSecrets == {{}, {"e2"}}
MCTenantOfEvent == [q1 |-> "tA", q2 |-> "tB", q3 |-> "tA", q4 |-> NoTenant]

VARIABLE part       \* "chain" or "queue", fixed from the start

AuditInit ==
    /\ part \in {"chain", "queue"}
    /\ Init /\ QueueInit
    /\ part = "queue" => unsafe = {}

AuditNext ==
    \/ part = "chain" /\ Next /\ UNCHANGED <<part, queueVars>>
    \/ part = "queue" /\ QueueNext /\ UNCHANGED <<part, vars>>

\* The fairness of AuditQueue, for its own behaviours.
AuditSpec ==
    /\ AuditInit /\ [][AuditNext]_<<part, vars, queueVars>>
    /\ WF_queueVars(part = "queue" /\ Flusher)
    /\ \A e \in Logged : WF_queueVars(part = "queue" /\ PostSync(e))

-----------------------------------------------------------------------------
\* While the application runs every event of the queue is settled, a critical one never by being dropped:
\* EveryEventSettles of AuditQueue.
AuditSettles == part = "queue" => EveryEventSettles
=============================================================================
