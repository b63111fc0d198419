----------------------------- MODULE MCLifecycle -----------------------------
(* One organization, its day cut into three, two deliveries at a time. *)
EXTENDS Lifecycle

MCStart == [k \in Kinds |-> IF k = "purge-soft-deleted" THEN 6 ELSE 0]

MCHorizon == [k \in Kinds |-> CASE k = "crystallize" -> 4
                               [] k = "purge-soft-deleted" -> 7
                               [] OTHER -> 1]

(* Purgeable under both retentions, under the shorter one, and live. *)
MCDeleted == {0, 3, None}
=============================================================================
