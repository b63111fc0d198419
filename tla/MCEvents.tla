------------------------------ MODULE MCEvents ------------------------------
(* The event bus and the deferred write path that runs over it.  In each     *)
(* behaviour either the bus comes up, publishes and goes down, or messages   *)
(* are delivered and handled.                                                *)
(*                                                                           *)
(* The bus: two calls of start(), two of stop() and two publishers, enough   *)
(* for a restart, for a stop() that overtakes a start() and for two callers  *)
(* that build a publisher at the same time.                                  *)
EXTENDS PubSubBus, MemoryPipeline

CONSTANTS p1, p2
MCPublishers == {p1, p2}

VARIABLE part       \* "bus" or "pipeline", fixed from the start

Calm == [copies |-> 1, repeated |-> {}, tries |-> 0, losses |-> 1, contents |-> 1,
         policies |-> {"off"}, modes |-> {"fast"}, redisFails |-> FALSE, lockExpires |-> FALSE]

\* Enrichment requests delivered twice under a drop policy; an edit of a flagged row; both write modes under
\* keep_private; a retried delivery while the lock is unreliable.
MCEnvs == {[Calm EXCEPT !.copies = 2, !.losses = 0, !.repeated = {"enrich"}, !.policies = {"drop"}],
           [Calm EXCEPT !.contents = 2, !.policies = {"flag"}],
           [Calm EXCEPT !.policies = {"private"}, !.modes = {"fast", "strong"}],
           [Calm EXCEPT !.tries = 1, !.modes = {"fast", "strong"}, !.redisFails = TRUE, !.lockExpires = TRUE]}

\* The one memory of the behaviours in which the bus is at work: nothing happens to it.
AtRest == [mode |-> "fast", agentSet |-> FALSE, enrichEnabled |-> FALSE, policy |-> "flag",
           env |-> [Calm EXCEPT !.contents = 2, !.policies = {"flag"}]]

EventsInit ==
    /\ part \in {"bus", "pipeline"}
    /\ BusInit /\ Init
    /\ part = "bus" => config = AtRest

EventsNext ==
    \/ part = "bus" /\ BusNext /\ UNCHANGED <<part, vars>>
    \/ part = "pipeline" /\ Next /\ UNCHANGED <<part, busVars>>

\* The fairness of PubSubBus and of MemoryPipeline, each for its own behaviours.
EventsSpec ==
    /\ EventsInit /\ [][EventsNext]_<<part, vars, busVars>>
    /\ WF_busVars(part = "bus" /\ BusStep) /\ WF_vars(part = "pipeline" /\ Handling)

-----------------------------------------------------------------------------
\* stop() comes to its end (StopEnds of PubSubBus), and embedding_pending ends: the vector lands, the row is deleted or
\* the request was lost for good (EmbeddingSettles of MemoryPipeline).
EventsSettle ==
    (IF part = "bus" THEN stop.pc # "idle" ELSE row.embPending) ~>
        (IF part = "bus" THEN stop.pc = "idle" ELSE ~row.embPending \/ ~row.live \/ "embed" \in ghost.lost)
=============================================================================
