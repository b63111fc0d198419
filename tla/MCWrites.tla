------------------------------ MODULE MCWrites ------------------------------
(* The write endpoints: in each behaviour either the idempotency inbox in    *)
(* front of a handler is at work, with three requests under one key, or the  *)
(* handlers of the write path are, in one of their worlds.                   *)
EXTENDS Idempotency, WritePath, TLC

CONSTANTS
    Parts,      \* which of the two a run looks at
    r1, r2, r3, h1, h2

VARIABLE part   \* "inbox" or "path", fixed from the start

-----------------------------------------------------------------------------
(* The inbox: two byte-identical retries and one other body under one key. *)
MCRequests == {r1, r2, r3}
MCHashes == {h1, h2}
MCHashOf == (r1 :> h1) @@ (r2 :> h1) @@ (r3 :> h2)

-----------------------------------------------------------------------------
(* The worlds of the write path.                                           *)
P(kind, mode, agent, items, attempt, facts) ==
  [kind |-> kind, mode |-> mode, agent |-> agent, items |-> items,
   attempt |-> attempt, facts |-> facts]

Bulk(items, attempt) == P("bulk", "fast", "ag1", items, attempt, <<>>)
One(mode, agent, c) == P("single", mode, agent, <<c>>, "-", <<>>)
Long(c, name, facts) == P("chunk", "strong", "ag1", <<c>>, name, facts)
Ingest(items) == P("ingest", "strong", "ag1", items, "run", <<>>)

World(reqs, policy, gate, nfaults, ndeletes) ==
  [reqs |-> reqs, policy |-> policy, gate |-> gate, faults |-> nfaults, deletes |-> ndeletes]

(* A batch with a repeated content, its retry and a rival batch.           *)
Retried ==
  World([r1 |-> Bulk(<<"a", "b", "a">>, "x"), r2 |-> Bulk(<<"a", "b", "a">>, "x"),
         r3 |-> Bulk(<<"b">>, "y")], "off", FALSE, 1, 1)
(* Masking makes two items equal; one item is too short.                   *)
Screened ==
  World([r1 |-> Bulk(<<"p", "m", "s">>, "x"), r2 |-> Bulk(<<"p", "m", "s">>, "x"),
         r3 |-> One("fast", "ag1", "p")], "mask", FALSE, 1, 0)
(* A policy that drops: a batch without a good item, and a mixed one.      *)
Refused ==
  World([r1 |-> Bulk(<<"p", "s">>, "x"), r2 |-> Bulk(<<"p", "m">>, "y"),
         r3 |-> One("fast", "ag1", "p")], "drop", FALSE, 1, 0)
(* Single writes of one content by one agent and by another.               *)
Singles ==
  World([r1 |-> One("fast", "ag1", "a"), r2 |-> One("strong", "ag1", "a"),
         r3 |-> One("strong", "ag2", "a")], "flag", TRUE, 1, 1)
(* Long texts that split, and one that does not.                           *)
Splitting ==
  World([r1 |-> Long("a", "k1", <<"b", "m">>), r2 |-> Long("a", "k2", <<"b", "m">>),
         r3 |-> Long("b", "k3", <<"b">>)], "off", FALSE, 1, 0)
(* An ingest run and its repetition.                                       *)
Ingested ==
  World([r1 |-> Ingest(<<"a", "b">>), r2 |-> Ingest(<<"a", "b">>)], "off", FALSE, 1, 2)

MCWorlds ==
  {Retried, Screened, Refused, Singles, Splitting, Ingested}
MCIngestWorlds == {Ingested}
MCContents == {"a", "b", "m", "p", "s"}
MCMasked == [c \in {"p"} |-> "m"]

-----------------------------------------------------------------------------
WritesInit ==
    /\ part \in Parts
    /\ Init /\ WriteInit
    /\ part = "inbox" => world = CHOOSE w \in Worlds : TRUE

WritesNext ==
    \/ part = "inbox" /\ Next /\ UNCHANGED <<part, writeVars>>
    \/ part = "path" /\ WriteNext /\ UNCHANGED <<part, vars>>

\* The fairness of Idempotency and of WritePath, each for its own behaviours.
WritesSpec ==
    /\ WritesInit /\ [][WritesNext]_<<part, vars, writeVars>>
    /\ \A r \in Requests : WF_vars(part = "inbox" /\ Step(r))
    /\ WF_writeVars(part = "path" /\ \E r \in Writes : Advance(r))

-----------------------------------------------------------------------------
\* Every request under the key is answered or its process has died: the poll budget bounds the wait behind a holder that
\* never finishes (EveryRequestEnds of Idempotency).  Nobody waits for ever for a storage slot (EveryRequestAnswered of
\* WritePath; requests come once, so it is enough that the moments without a pending request never end).
RequestsEnd ==
    []<>(IF part = "inbox" THEN \A r \in Requests : pc[r] \in {"done", "crashed"}
         ELSE \A r \in Writes : job[r].pc \in {"idle", "done"})
=============================================================================
