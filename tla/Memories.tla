------------------------------ MODULE Memories ------------------------------
(***************************************************************************)
(* The memories of tenant "t", and rows of other tenants where a search      *)
(* must tell them apart, as the services that reason over them see them.     *)
(* A row's id is its place in nmem, so a larger id is a newer row.           *)
(* nfault is what the scene still allows of crashes, refused calls and lost  *)
(* answers.  A read served by a lagging replica is the same read made        *)
(* earlier: every caller uses what it read only in a later step.             *)
(***************************************************************************)
EXTENDS Integers, Sequences, FiniteSets

CONSTANT NoFleet

VARIABLES
    nscene,     \* what this behaviour is about
    nmem,       \* the memory table
    nfault      \* faults left

memVars == <<nscene, nmem, nfault>>

MemIds == 1 .. Len(nmem)

\* Weights are hundredths.  aged: created over thirty days ago.  cold: not recalled for fourteen days, or never.
Fresh == [tenant |-> "t", owner |-> "none", fleet |-> NoFleet, kind |-> "fact", text |-> "none", status |-> "active",
          weight |-> 50, moved |-> 0, recalls |-> 0, aged |-> FALSE, cold |-> TRUE, vec |-> TRUE, sup |-> 0,
          subj |-> 0, val |-> 0, deleted |-> FALSE, checked |-> FALSE, vis |-> "team", expired |-> FALSE,
          focus |-> "none", scope |-> "none", cites |-> {}, link |-> 0]

Live(m) == ~nmem[m].deleted

Lowest(S, n) == {m \in S : Cardinality({o \in S : o < m}) < n}
Newest(S, n) == {m \in S : Cardinality({o \in S : o > m}) < n}
Latest(S) == IF S = {} THEN 0 ELSE CHOOSE m \in S : \A o \in S : o <= m

\* Every writer scopes its search for the same text to its own fleet and agent; the status plays no part.
find_by_content_hash(owner, fleet, text) ==
    {m \in MemIds : Live(m) /\ nmem[m].owner = owner /\ nmem[m].fleet = fleet /\ nmem[m].text = text}

\* The same for a bulk write: which of its texts are known, and the row that has each.
bulk_find_by_content_hashes(owner, fleet, texts) ==
    [t \in {u \in texts : find_by_content_hash(owner, fleet, u) # {}} |-> Latest(find_by_content_hash(owner, fleet, t))]

memory_add(row) == nmem' = Append(nmem, row)

update_status(S, s) == [m \in MemIds |-> IF m \in S THEN [nmem[m] EXCEPT !.status = s] ELSE nmem[m]]

soft_delete(m) ==
    /\ Live(m)
    /\ nmem' = [nmem EXCEPT ![m].deleted = TRUE, ![m].status = "deleted"]
    /\ UNCHANGED <<nscene, nfault>>

\* The table keeps its shape: weights stay in range, and an edge or a citation names a row that exists.
MemoriesTypeOK ==
    /\ nfault \in Nat
    /\ \A m \in MemIds :
          /\ DOMAIN nmem[m] = DOMAIN Fresh /\ nmem[m].weight \in 0..100 /\ nmem[m].recalls \in Nat
          /\ nmem[m].status \in {"active", "pending", "confirmed", "conflicted", "outdated", "archived", "deleted"}
          /\ nmem[m].cites \subseteq MemIds /\ {nmem[m].sup, nmem[m].link} \subseteq MemIds \cup {0}

Fault == nfault > 0 /\ nfault' = nfault - 1
Smooth == UNCHANGED nfault
=============================================================================
