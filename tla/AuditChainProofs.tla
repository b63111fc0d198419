-------------------------- MODULE AuditChainProofs --------------------------
(***************************************************************************)
(* The audit chain, for any number of tenants, batches and attempts: one    *)
(* unbroken line of rows that ends at the head, no event twice, no batch by  *)
(* halves.  The head's row lock carries the argument: whoever holds it has   *)
(* read a head that nobody moves before it commits.                          *)
(*                                                                           *)
(* Then its verifier: no false alarm on a chain that the application alone   *)
(* has written, and no clean verdict on one that lost or changed a row.      *)
(***************************************************************************)
EXTENDS AuditChain, TLAPS

-----------------------------------------------------------------------------
(* Sequences whose elements need no common type.                            *)

IsSeq(q) == \E S : q \in Seq(S)

\* A function on 1..n is a sequence of length n.
LEMMA FunctionIsSeq ==
  ASSUME NEW S, NEW n \in Nat, NEW f \in [1..n -> S]
  PROVE  f \in Seq(S) /\ Len(f) = n
OBVIOUS

\* The domain and the length of a sequence.
LEMMA SeqBasics ==
  ASSUME NEW q, IsSeq(q)
  PROVE  Len(q) \in Nat /\ DOMAIN q = 1..Len(q)
BY DEF IsSeq

\* A sequence over a set is one over any larger set.
LEMMA SeqWiden ==
  ASSUME NEW S, NEW T, NEW q \in Seq(S)
  PROVE  q \in Seq(S \cup T) /\ q \in Seq(T \cup S)
OBVIOUS

\* w is q followed by u.
Joined(w, q, u) ==
    /\ Len(q) \in Nat /\ Len(u) \in Nat /\ DOMAIN q = 1..Len(q) /\ DOMAIN u = 1..Len(u)
    /\ IsSeq(w) /\ Len(w) = Len(q) + Len(u) /\ DOMAIN w = 1..(Len(q) + Len(u))
    /\ \A i \in 1..Len(q) : w[i] = q[i]
    /\ \A j \in 1..Len(u) : w[Len(q) + j] = u[j]
    /\ \A k \in DOMAIN w : \/ k \in 1..Len(q) /\ w[k] = q[k]
                           \/ \E j \in 1..Len(u) : k = Len(q) + j /\ w[k] = u[j]

\* The entries of a concatenation.
LEMMA Concatenated ==
  ASSUME NEW q, NEW u, IsSeq(q), IsSeq(u)
  PROVE  Joined(q \o u, q, u)
<1>1. PICK S : q \in Seq(S)
  BY DEF IsSeq
<1>2. PICK T : u \in Seq(T)
  BY DEF IsSeq
<1> DEFINE U == S \cup T
<1>3. q \in Seq(U) /\ u \in Seq(U)
  BY <1>1, <1>2, SeqWiden
<1> HIDE DEF U
<1>4. q \o u \in Seq(U) /\ Len(q \o u) = Len(q) + Len(u) /\ Len(q) \in Nat /\ Len(u) \in Nat
  BY <1>3
<1>5. \A k \in 1..(Len(q) + Len(u)) : (q \o u)[k] = IF k <= Len(q) THEN q[k] ELSE u[k - Len(q)]
  BY <1>3
<1>6. DOMAIN (q \o u) = 1..(Len(q) + Len(u))
  BY <1>4
<1>7. ASSUME NEW k \in 1..(Len(q) + Len(u)), ~(k <= Len(q))
      PROVE  \E j \in 1..Len(u) : k = Len(q) + j /\ (q \o u)[k] = u[j]
  <2>1. k - Len(q) \in 1..Len(u) /\ k = Len(q) + (k - Len(q))
    BY <1>4, <1>7
  <2> QED
    BY <2>1, <1>5, <1>7
<1>8. \A i \in 1..Len(u) : Len(q) + i \in 1..(Len(q) + Len(u)) /\ ~(Len(q) + i <= Len(q)) /\ (Len(q) + i) - Len(q) = i
  BY <1>4
<1>9. \A k \in DOMAIN (q \o u) : \/ k \in 1..Len(q) /\ (q \o u)[k] = q[k]
                                 \/ \E j \in 1..Len(u) : k = Len(q) + j /\ (q \o u)[k] = u[j]
  <2>1. SUFFICES ASSUME NEW k \in 1..(Len(q) + Len(u))
                 PROVE  \/ k \in 1..Len(q) /\ (q \o u)[k] = q[k]
                        \/ \E j \in 1..Len(u) : k = Len(q) + j /\ (q \o u)[k] = u[j]
    BY Zenon, <1>6
  <2>2. CASE k <= Len(q)
    BY <2>2, <1>4, <1>5
  <2>3. CASE ~(k <= Len(q))
    BY Zenon, <2>3, <1>7
  <2> QED
    BY <2>2, <2>3
<1>10. DOMAIN q = 1..Len(q) /\ DOMAIN u = 1..Len(u) /\ IsSeq(q \o u)
  BY <1>3, <1>4 DEF IsSeq
<1>11. /\ \A i \in 1..Len(q) : (q \o u)[i] = q[i]
       /\ \A j \in 1..Len(u) : (q \o u)[Len(q) + j] = u[j]
  BY <1>4, <1>5, <1>8
<1> QED
  BY <1>4, <1>6, <1>9, <1>10, <1>11 DEF Joined

\* The entries of a sequence with one removed (a row deleted from the table).
LEMMA Removed ==
  ASSUME NEW q, IsSeq(q), NEW i \in DOMAIN q
  PROVE  /\ IsSeq(Without(q, i)) /\ Len(Without(q, i)) = Len(q) - 1
         /\ \A k \in DOMAIN Without(q, i) :
               LET m == IF k < i THEN k ELSE k + 1
               IN  m \in DOMAIN q /\ Without(q, i)[k] = q[m]
<1>1. PICK S : q \in Seq(S)
  BY DEF IsSeq
<1> DEFINE a == SubSeq(q, 1, i - 1)
           b == SubSeq(q, i + 1, Len(q))
<1>2. Len(q) \in Nat /\ i \in 1..Len(q)
  BY <1>1
<1>3. a \in Seq(S) /\ Len(a) = i - 1 /\ \A k \in 1..(i - 1) : a[k] = q[k]
  BY <1>1, <1>2
<1>4. b \in Seq(S) /\ Len(b) = Len(q) - i /\ \A k \in 1..(Len(q) - i) : b[k] = q[i + k]
  BY <1>1, <1>2
<1> HIDE DEF a, b
<1>5. IsSeq(a) /\ IsSeq(b)
  BY <1>3, <1>4 DEF IsSeq
<1>6. Without(q, i) = a \o b
  BY DEF Without, a, b
<1>7. ASSUME NEW k \in DOMAIN (a \o b)
      PROVE  LET m == IF k < i THEN k ELSE k + 1
             IN  m \in DOMAIN q /\ (a \o b)[k] = q[m]
  <2>1. CASE k \in 1..Len(a) /\ (a \o b)[k] = a[k]
    BY <2>1, <1>1, <1>2, <1>3
  <2>2. ASSUME NEW j \in 1..Len(b), k = Len(a) + j, (a \o b)[k] = b[j]
        PROVE  LET m == IF k < i THEN k ELSE k + 1
               IN  m \in DOMAIN q /\ (a \o b)[k] = q[m]
    <3>1. j \in Int /\ j >= 1 /\ j <= Len(q) - i
      BY <2>2, <1>2, <1>4
    <3>2. ~(k < i) /\ k + 1 \in 1..Len(q) /\ k + 1 = i + j
      <4>1. k = (i - 1) + j
        BY <2>2, <1>3
      <4>2. ~((i - 1) + j < i) /\ ((i - 1) + j) + 1 \in 1..Len(q) /\ ((i - 1) + j) + 1 = i + j
        BY SMTT(30), <3>1, <1>2
      <4> QED
        BY <4>1, <4>2
    <3>3. b[j] = q[k + 1]
      BY Zenon, <3>1, <3>2, <1>2, <1>4
    <3> QED
      BY <3>2, <3>3, <2>2, <1>1
  <2>3. Joined(a \o b, a, b)
    BY <1>5, Concatenated
  <2> QED
    BY <2>1, <2>2, <2>3 DEF Joined
<1>8. Joined(a \o b, a, b)
  BY <1>5, Concatenated
<1>9. Len(a \o b) = Len(q) - 1
  BY <1>2, <1>3, <1>4, <1>8 DEF Joined
<1> QED
  BY <1>6, <1>7, <1>8, <1>9 DEF Joined

-----------------------------------------------------------------------------
(* The inductive invariant.                                                 *)

Whole(b) == Range(EventsOf[b])
T(a) == TenantOf[a[1]]
Untouched(t) == Intact(t) /\ purges[t] = 0

RowOK(x) ==
    /\ DOMAIN x = {"seq", "prev", "hash", "ev"} /\ x.seq \in Nat
    /\ DOMAIN x.ev = {"event", "detail", "resource_id"} /\ x.ev.event \in Events

TableOK(q) ==
    /\ IsSeq(q)
    /\ \A i \in DOMAIN q : RowOK(q[i])
    /\ \A i, j \in DOMAIN q : q[i].ev.event = q[j].ev.event => i = j

LinkedTo(q, h) ==
    /\ \A i \in 1..Len(q) : q[i].seq + Len(q) = h.last_seq + i
    /\ \A i \in 2..Len(q) : q[i].prev = q[i - 1].hash
    /\ Len(q) > 0 => q[Len(q)].hash = h.last_hash

Shapes ==
    /\ DOMAIN rows = Tenants /\ DOMAIN head = Tenants /\ \A t \in Tenants : head[t].last_seq \in Nat
    /\ lock \in [Tenants -> Attempts \cup {Free}]
    /\ DOMAIN txn = Attempts
    /\ \A a \in Attempts :
          /\ DOMAIN txn[a] = {"pc", "seq", "prev", "chained"}
          /\ txn[a].pc \in {"idle", "received", "locked", "committed", "aborted"}
          /\ txn[a].chained \subseteq Whole(a[1])
    /\ client \in [Batches -> {"new", "waiting", "retry", "ok", "failed"}]
    /\ attempt \in [Batches -> 0..MaxAttempts]
    /\ DOMAIN verifier = Tenants
    /\ \A t \in Tenants : /\ DOMAIN verifier[t] = {"pc", "rows", "head", "verdict"}
                          /\ verifier[t].pc \in {"idle", "walked", "done"}
    /\ damage \in [Tenants -> 0..MaxDamage] /\ purges \in [Tenants -> 0..MaxPurges]
    /\ unsafe \in Secrets

\* The holder of the lock goes by the head as it is, and by the chained ids as they are.
HolderOK(a) ==
    /\ lock[T(a)] = a
    /\ txn[a].seq = head[T(a)].last_seq /\ txn[a].prev = head[T(a)].last_hash
    /\ a[1] \in Bulk => /\ EventsIn(T(a)) \cap Whole(a[1]) \subseteq txn[a].chained
                        /\ Untouched(T(a)) => txn[a].chained \subseteq EventsIn(T(a))
    /\ a[1] \notin Bulk => txn[a].chained = {}

AttemptOK(a) ==
    /\ txn[a].pc = "locked" => HolderOK(a)
    /\ txn[a].pc = "committed" /\ Untouched(T(a)) => Whole(a[1]) \subseteq EventsIn(T(a))

Committed(b) == \E a \in Attempts : a[1] = b /\ txn[a].pc = "committed"

\* The events that a table holds.
EventsHeld(q) == {q[i].ev.event : i \in DOMAIN q}

\* What is chained came from a committed attempt, and whole.
BatchOK(b) ==
    /\ \A t \in Tenants : EventsIn(t) \cap Whole(b) # {} => t = TenantOf[b] /\ Committed(b)
    /\ Untouched(TenantOf[b]) => Whole(b) \cap EventsIn(TenantOf[b]) \in {{}, Whole(b)}
    /\ client[b] = "ok" => Committed(b)
    /\ client[b] = "waiting" => <<b, attempt[b]>> \in Attempts
    /\ \A a \in Attempts : a[1] = b /\ a[2] > attempt[b] => txn[a].pc = "idle"

IInv ==
    /\ Shapes
    /\ \A t \in Tenants : TableOK(rows[t]) /\ (Intact(t) => LinkedTo(rows[t], head[t]))
    /\ \A a \in Attempts : AttemptOK(a)
    /\ \A b \in Batches : BatchOK(b)

-----------------------------------------------------------------------------
\* An attempt is a number of a batch, and has that batch's tenant.
LEMMA AttemptsType ==
  ASSUME NEW a \in Attempts
  PROVE  /\ a[1] \in Batches /\ a[2] \in 1..MaxAttempts /\ a = <<a[1], a[2]>> /\ T(a) \in Tenants
         /\ a[1] \notin Bulk => a[2] = 1
BY BatchAssumption DEF Attempts, T

\* The events of a batch are events.
LEMMA OfEvents ==
  ASSUME NEW b \in Batches
  PROVE  Whole(b) \subseteq Events
BY Zenon DEF Whole, Events

\* Empty tables, no attempt under way.
LEMMA IInvInit == Init => IInv
<1> SUFFICES ASSUME Init PROVE IInv
  OBVIOUS
<1>1. IsSeq(<<>>) /\ Len(<<>>) = 0 /\ DOMAIN <<>> = {}
  BY DEF IsSeq
<1>2. \A t \in Tenants : rows[t] = <<>> /\ EventsIn(t) = {}
  BY <1>1 DEF Init, EventsIn
<1>3. \A t \in Tenants : TableOK(rows[t]) /\ LinkedTo(rows[t], head[t])
  BY <1>1, <1>2 DEF TableOK, LinkedTo
<1>4. Shapes
  BY BoundAssumption DEF Init, Shapes, Idle, Origin
<1>5. \A a \in Attempts : txn[a].pc = "idle"
  BY Zenon DEF Init, Idle
<1>6. \A a \in Attempts : AttemptOK(a)
  BY Zenon, <1>5 DEF AttemptOK
<1>7. \A b \in Batches : client[b] = "new"
  BY DEF Init
<1>8. ASSUME NEW b \in Batches PROVE BatchOK(b)
  <2>1. TenantOf[b] \in Tenants
    BY BatchAssumption
  <2> QED
    BY <2>1, <1>2, <1>5, <1>7 DEF BatchOK
<1> QED
  BY <1>3, <1>4, <1>6, <1>8 DEF IInv

(* What the invariant says in the words of the specification. *)
LEMMA IInvSound == IInv => ChainSound
<1> SUFFICES ASSUME IInv PROVE ChainSound
  OBVIOUS
<1>1. TypeOK
  BY Zenon DEF IInv, Shapes, TableOK, RowOK, TypeOK
<1>2. ChainLinked
  BY Zenon DEF IInv, LinkedTo, ChainLinked
<1>3. ChainedOnce
  BY Zenon DEF IInv, TableOK, ChainedOnce
<1>4. ASSUME NEW b \in Batches, Intact(TenantOf[b]), purges[TenantOf[b]] = 0
      PROVE  /\ Range(EventsOf[b]) \cap EventsIn(TenantOf[b]) \in {{}, Range(EventsOf[b])}
             /\ client[b] = "ok" => Range(EventsOf[b]) \subseteq EventsIn(TenantOf[b])
  <2>1. BatchOK(b) /\ Untouched(TenantOf[b])
    BY <1>4 DEF IInv, Untouched
  <2>2. ASSUME client[b] = "ok" PROVE Whole(b) \subseteq EventsIn(TenantOf[b])
    <3>1. PICK a \in Attempts : a[1] = b /\ txn[a].pc = "committed"
      BY <2>1, <2>2 DEF BatchOK, Committed
    <3> QED
      BY <3>1, <2>1 DEF IInv, AttemptOK, T
  <2> QED
    BY <2>1, <2>2 DEF BatchOK, Whole
<1>5. BatchWhole
  BY <1>4 DEF BatchWhole
<1> QED
  BY <1>1, <1>2, <1>3, <1>5 DEF ChainSound

-----------------------------------------------------------------------------
(* Steps that leave the tables alone.                                       *)
LEMMA TablesKeep ==
  ASSUME IInv, UNCHANGED <<rows, head, damage, purges>>
  PROVE  /\ \A t \in Tenants : (TableOK(rows[t]) /\ (Intact(t) => LinkedTo(rows[t], head[t])))'
         /\ \A t : EventsIn(t)' = EventsIn(t) /\ Untouched(t)' = Untouched(t)
BY DEF IInv, Intact, EventsIn, Untouched

\* An attempt's own record stays in order when no table it depends on moves.
LEMMA AttemptsKeep ==
  ASSUME IInv, UNCHANGED <<rows, head, lock, txn, damage, purges>>
  PROVE  \A a \in Attempts : AttemptOK(a)'
<1> SUFFICES ASSUME NEW a \in Attempts PROVE AttemptOK(a)'
  OBVIOUS
<1>1. EventsIn(T(a))' = EventsIn(T(a)) /\ Untouched(T(a))' = Untouched(T(a))
  BY TablesKeep
<1>2. HolderOK(a)' = HolderOK(a)
  BY <1>1 DEF HolderOK
<1>3. AttemptOK(a)
  BY DEF IInv
<1> QED
  BY <1>1, <1>2, <1>3 DEF AttemptOK

\* The client learns an outcome; the tables and the transactions stay.
LEMMA KeepsClient ==
  ASSUME IInv, NEW b \in Batches, UNCHANGED <<rows, head, lock, txn, attempt, verifier, damage, purges, unsafe>>,
         NEW c \in {"retry", "failed", "ok"}, client' = [client EXCEPT ![b] = c],
         c = "ok" => Committed(b)
  PROVE  IInv'
<1>1. Shapes'
  BY Zenon DEF IInv, Shapes
<1>2. \A a \in Attempts : AttemptOK(a)'
  BY Zenon, AttemptsKeep
<1>3. ASSUME NEW d \in Batches PROVE BatchOK(d)'
  <2>1. client'[d] = IF d = b THEN c ELSE client[d]
    BY Zenon DEF IInv, Shapes
  <2>2. Committed(d)' = Committed(d)
    BY DEF Committed
  <2> QED
    BY Zenon, <2>1, <2>2, TablesKeep DEF IInv, BatchOK
<1> QED
  BY Zenon, <1>1, <1>2, <1>3, TablesKeep DEF IInv

\* The answer reaches the client (core_storage_client).
LEMMA ReceiveKeeps ==
  ASSUME IInv, NEW b \in Batches, Receive(b) PROVE IInv'
<1>1. UNCHANGED <<rows, head, lock, txn, attempt, verifier, damage, purges, unsafe>> /\ client[b] = "waiting"
  BY Zenon DEF Receive
<1>2. <<b, attempt[b]>> \in Attempts
  BY Zenon, <1>1 DEF IInv, BatchOK
<1>3. CASE txn[<<b, attempt[b]>>].pc = "committed" /\ client' = [client EXCEPT ![b] = "ok"]
  <2>1. Committed(b)
    BY Zenon, <1>2, <1>3 DEF Committed
  <2> QED
    BY Zenon, <1>1, <1>3, <2>1, KeepsClient
<1>4. CASE client' = [client EXCEPT ![b] = "failed"]
  BY Zenon, <1>1, <1>4, KeepsClient
<1> QED
  BY Zenon, <1>3, <1>4 DEF Receive

\* The client gives up waiting, whatever the server does.
LEMMA TimeoutKeeps ==
  ASSUME IInv, NEW b \in Batches, Timeout(b) PROVE IInv'
<1>1. UNCHANGED <<rows, head, lock, txn, attempt, verifier, damage, purges, unsafe>>
  BY Zenon DEF Timeout
<1>2. CASE client' = [client EXCEPT ![b] = "retry"]
  BY Zenon, <1>1, <1>2, KeepsClient
<1>3. CASE client' = [client EXCEPT ![b] = "failed"]
  BY Zenon, <1>1, <1>3, KeepsClient
<1> QED
  BY Zenon, <1>2, <1>3 DEF Timeout

\* The client sends its batch, for the first time or again.
LEMMA SendKeeps ==
  ASSUME IInv, NEW b \in Batches, Send(b) PROVE IInv'
<1> DEFINE x == <<b, attempt[b] + 1>>
<1>1. /\ x \in Attempts /\ x[1] = b /\ x[2] = attempt[b] + 1 /\ attempt[b] \in Nat
      /\ attempt[b] + 1 \in 1..MaxAttempts
  BY BoundAssumption, AttemptsType DEF Send, IInv, Shapes
<1>2. /\ UNCHANGED <<rows, head, lock, verifier, damage, purges, unsafe>>
      /\ client' = [client EXCEPT ![b] = "waiting"] /\ txn' = [txn EXCEPT ![x].pc = "received"]
      /\ attempt' = [attempt EXCEPT ![b] = attempt[b] + 1]
  BY Zenon DEF Send, IInv, Shapes
<1> HIDE DEF x
<1>3. txn[x].pc = "idle"
  <2>1. x[2] > attempt[b]
    BY <1>1
  <2> QED
    BY Zenon, <1>1, <2>1 DEF IInv, BatchOK
<1>4. \A a \in Attempts : a # x => txn'[a] = txn[a]
  BY Zenon, <1>1, <1>2 DEF IInv, Shapes
<1>5. txn'[x].pc = "received" /\ DOMAIN txn'[x] = DOMAIN txn[x] /\ txn'[x].chained = txn[x].chained
  BY ZenonT(60), <1>1, <1>2 DEF IInv, Shapes
<1>6. Shapes'
  <2>1. DOMAIN txn' = Attempts
    BY Zenon, <1>2 DEF IInv, Shapes
  <2>2. attempt' \in [Batches -> 0..MaxAttempts] /\ client' \in [Batches -> {"new", "waiting", "retry", "ok", "failed"}]
    BY <1>1, <1>2 DEF IInv, Shapes
  <2>3. \A a \in Attempts :
          /\ DOMAIN txn'[a] = {"pc", "seq", "prev", "chained"}
          /\ txn'[a].pc \in {"idle", "received", "locked", "committed", "aborted"}
          /\ txn'[a].chained \subseteq Whole(a[1])
    BY <1>4, <1>5, <1>1 DEF IInv, Shapes
  <2> QED
    BY Zenon, <1>2, <2>1, <2>2, <2>3 DEF IInv, Shapes
<1>7. ASSUME NEW a \in Attempts PROVE AttemptOK(a)'
  <2>1. CASE a = x
    BY Zenon, <2>1, <1>5 DEF AttemptOK
  <2>2. CASE a # x
    BY <2>2, <1>2, <1>4, TablesKeep DEF IInv, AttemptOK, HolderOK
  <2> QED
    BY Zenon, <2>1, <2>2
<1>8. ASSUME NEW d \in Batches PROVE BatchOK(d)'
  <2>1. Committed(d) => Committed(d)'
    BY Zenon, <1>3, <1>4 DEF Committed
  <2>2. CASE d = b
    <3>1. client'[b] = "waiting" /\ attempt'[b] = attempt[b] + 1
      BY Zenon, <1>2 DEF IInv, Shapes
    <3>2. <<b, attempt'[b]>> \in Attempts
      BY Zenon, <3>1, <1>1 DEF x
    <3>3. ASSUME NEW a \in Attempts, a[1] = b, a[2] > attempt[b] + 1 PROVE txn'[a].pc = "idle"
      <4>1. a # x /\ a[2] > attempt[b]
        BY <3>3, <1>1, AttemptsType
      <4> QED
        BY Zenon, <4>1, <3>3, <1>4 DEF IInv, BatchOK
    <3> QED
      BY ZenonT(60), <2>1, <2>2, <3>1, <3>2, <3>3, <1>2, TablesKeep DEF IInv, BatchOK
  <2>3. CASE d # b
    <3>1. client'[d] = client[d] /\ attempt'[d] = attempt[d]
      BY ZenonT(60), <2>3, <1>2 DEF IInv, Shapes
    <3>2. \A a \in Attempts : a[1] = d => txn'[a] = txn[a]
      BY Zenon, <2>3, <1>1, <1>4
    <3> QED
      BY Zenon, <2>1, <3>1, <3>2, <1>2, TablesKeep DEF IInv, BatchOK
  <2> QED
    BY Zenon, <2>2, <2>3
<1> QED
  BY Zenon, <1>2, <1>6, <1>7, <1>8, TablesKeep DEF IInv

(* A step of one attempt that neither begins nor undoes a commit.           *)
LEMMA OneAttempt ==
  ASSUME IInv, NEW x \in Attempts, UNCHANGED <<client, attempt, verifier, damage, purges, unsafe>>,
         NEW r, DOMAIN r = {"pc", "seq", "prev", "chained"},
         r.pc \in {"locked", "committed", "aborted"}, r.chained \subseteq Whole(x[1]),
         txn' = [txn EXCEPT ![x] = r], txn[x].pc \in {"received", "locked"}
  PROVE  /\ DOMAIN txn' = Attempts /\ txn'[x] = r /\ \A a \in Attempts : a # x => txn'[a] = txn[a]
         /\ \A b \in Batches : (Committed(b) => Committed(b)') /\ (r.pc # "committed" => Committed(b)' = Committed(b))
         /\ \A b \in Batches : /\ client'[b] = "ok" => Committed(b)'
                               /\ client'[b] = "waiting" => <<b, attempt'[b]>> \in Attempts
                               /\ \A a \in Attempts : a[1] = b /\ a[2] > attempt'[b] => txn'[a].pc = "idle"
         /\ DOMAIN rows' = Tenants /\ DOMAIN head' = Tenants
            /\ lock' \in [Tenants -> Attempts \cup {Free}]
            /\ (\A t \in Tenants : head'[t].last_seq \in Nat) => Shapes'
<1>1. DOMAIN txn' = Attempts /\ txn'[x] = r /\ \A a \in Attempts : a # x => txn'[a] = txn[a]
  BY Zenon DEF IInv, Shapes
<1>2. \A b \in Batches : (Committed(b) => Committed(b)') /\ (r.pc # "committed" => Committed(b)' = Committed(b))
  BY Zenon, <1>1 DEF Committed
<1>3. ASSUME NEW b \in Batches
      PROVE  /\ client'[b] = "ok" => Committed(b)'
             /\ client'[b] = "waiting" => <<b, attempt'[b]>> \in Attempts
             /\ \A a \in Attempts : a[1] = b /\ a[2] > attempt'[b] => txn'[a].pc = "idle"
  <2>1. BatchOK(b)
    BY DEF IInv
  <2>2. \A a \in Attempts : a[1] = b /\ a[2] > attempt[b] => a # x
    BY Zenon, <2>1 DEF BatchOK
  <2> QED
    BY Zenon, <2>1, <2>2, <1>1, <1>2 DEF BatchOK
<1>4. ASSUME DOMAIN rows' = Tenants, DOMAIN head' = Tenants, lock' \in [Tenants -> Attempts \cup {Free}],
             \A t \in Tenants : head'[t].last_seq \in Nat
      PROVE  Shapes'
  <2>1. \A a \in Attempts :
          /\ DOMAIN txn'[a] = {"pc", "seq", "prev", "chained"}
          /\ txn'[a].pc \in {"idle", "received", "locked", "committed", "aborted"}
          /\ txn'[a].chained \subseteq Whole(a[1])
    BY Zenon, <1>1 DEF IInv, Shapes
  <2> QED
    BY Zenon, <1>1, <1>4, <2>1 DEF IInv, Shapes
<1> QED
  BY Zenon, <1>1, <1>2, <1>3, <1>4

\* The transaction takes the tenant's head row with FOR UPDATE and reads it.
LEMMA LockKeeps ==
  ASSUME IInv, NEW x \in Attempts, Lock(x) PROVE IInv'
<1> DEFINE t == T(x)
           c == IF x[1] \in Bulk THEN EventsIn(t) \cap Whole(x[1]) ELSE {}
           r == [pc |-> "locked", seq |-> head[t].last_seq, prev |-> head[t].last_hash, chained |-> c]
<1>1. /\ txn[x].pc = "received" /\ lock[t] = Free /\ lock' = [lock EXCEPT ![t] = x]
      /\ txn' = [txn EXCEPT ![x] = r]
      /\ UNCHANGED <<rows, head, client, attempt, verifier, damage, purges, unsafe>>
  BY DEF Lock, T, Whole
<1>2. t \in Tenants /\ c \subseteq Whole(x[1])
  BY AttemptsType
<1>3. /\ DOMAIN r = {"pc", "seq", "prev", "chained"} /\ r.pc = "locked" /\ r.chained = c
      /\ r.seq = head[t].last_seq /\ r.prev = head[t].last_hash
  OBVIOUS
<1> HIDE DEF r
<1>4. /\ txn'[x] = r /\ \A a \in Attempts : a # x => txn'[a] = txn[a]
      /\ \A b \in Batches : Committed(b)' = Committed(b)
      /\ \A b \in Batches : /\ client'[b] = "ok" => Committed(b)'
                            /\ client'[b] = "waiting" => <<b, attempt'[b]>> \in Attempts
                            /\ \A a \in Attempts : a[1] = b /\ a[2] > attempt'[b] => txn'[a].pc = "idle"
      /\ Shapes'
  <2>1. lock' \in [Tenants -> Attempts \cup {Free}] /\ DOMAIN rows' = Tenants /\ DOMAIN head' = Tenants
        /\ \A u \in Tenants : head'[u].last_seq \in Nat
    BY Zenon, <1>1, <1>2 DEF IInv, Shapes
  <2> QED
    BY ZenonT(60), <2>1, <1>1, <1>2, <1>3, OneAttempt
<1>5. lock'[t] = x
  BY Zenon, <1>1, <1>2 DEF IInv, Shapes
<1>6. ASSUME NEW a \in Attempts PROVE AttemptOK(a)'
  <2>1. CASE a = x
    BY <2>1, <1>1, <1>3, <1>4, <1>5, TablesKeep DEF AttemptOK, HolderOK
  <2>2. CASE a # x
    <3>1. txn[a].pc = "locked" => T(a) # t
      BY <1>1, LockAssumption DEF IInv, AttemptOK, HolderOK
    <3>2. T(a) # t => lock'[T(a)] = lock[T(a)]
      BY Zenon, <1>1, AttemptsType DEF IInv, Shapes
    <3>3. AttemptOK(a) /\ EventsIn(T(a))' = EventsIn(T(a)) /\ Untouched(T(a))' = Untouched(T(a))
      BY Zenon, <1>1, TablesKeep DEF IInv
    <3>4. txn'[a] = txn[a] /\ head' = head
      BY Zenon, <1>1, <1>4, <2>2
    <3> QED
      BY Zenon, <3>1, <3>2, <3>3, <3>4 DEF AttemptOK, HolderOK
  <2> QED
    BY Zenon, <2>1, <2>2
<1>7. ASSUME NEW b \in Batches PROVE BatchOK(b)'
  <2>1. \A u : EventsIn(u)' = EventsIn(u) /\ Untouched(u)' = Untouched(u)
    BY Zenon, <1>1, TablesKeep
  <2>2. BatchOK(b)
    BY Zenon DEF IInv
  <2> QED
    BY Zenon, <2>1, <2>2, <1>4 DEF BatchOK
<1> QED
  BY Zenon, <1>1, <1>4, <1>6, <1>7, TablesKeep DEF IInv

\* The transaction rolls back, and frees the head row.
LEMMA AbortKeeps ==
  ASSUME IInv, NEW x \in Attempts, Abort(x) PROVE IInv'
<1> DEFINE t == T(x)
           r == [Idle EXCEPT !.pc = "aborted"]
<1>1. /\ txn[x].pc \in {"received", "locked"} /\ lock' = [lock EXCEPT ![t] = IF @ = x THEN Free ELSE @]
      /\ txn' = [txn EXCEPT ![x] = r]
      /\ UNCHANGED <<rows, head, client, attempt, verifier, damage, purges, unsafe>>
  BY Zenon DEF Abort, T
<1>2. t \in Tenants
  BY Zenon, AttemptsType
<1>3. DOMAIN r = {"pc", "seq", "prev", "chained"} /\ r.pc = "aborted" /\ r.chained = {}
  BY Zenon DEF Idle
<1> HIDE DEF r
<1>4. /\ txn'[x] = r /\ \A a \in Attempts : a # x => txn'[a] = txn[a]
      /\ \A b \in Batches : Committed(b)' = Committed(b)
      /\ \A b \in Batches : /\ client'[b] = "ok" => Committed(b)'
                            /\ client'[b] = "waiting" => <<b, attempt'[b]>> \in Attempts
                            /\ \A a \in Attempts : a[1] = b /\ a[2] > attempt'[b] => txn'[a].pc = "idle"
      /\ Shapes'
  <2>1. lock' \in [Tenants -> Attempts \cup {Free}] /\ DOMAIN rows' = Tenants /\ DOMAIN head' = Tenants
        /\ \A u \in Tenants : head'[u].last_seq \in Nat
    BY Zenon, <1>1, <1>2 DEF IInv, Shapes
  <2> QED
    BY ZenonT(60), <2>1, <1>1, <1>2, <1>3, OneAttempt
<1>6. ASSUME NEW a \in Attempts PROVE AttemptOK(a)'
  <2>1. CASE a = x
    BY Zenon, <2>1, <1>3, <1>4 DEF AttemptOK
  <2>2. CASE a # x
    <3>1. lock[T(a)] = a => lock'[T(a)] = a
      BY Zenon, <2>2, <1>1, AttemptsType DEF IInv, Shapes
    <3>2. AttemptOK(a) /\ EventsIn(T(a))' = EventsIn(T(a)) /\ Untouched(T(a))' = Untouched(T(a))
      BY Zenon, <1>1, TablesKeep DEF IInv
    <3>3. txn'[a] = txn[a] /\ head' = head
      BY Zenon, <1>1, <1>4, <2>2
    <3> QED
      BY Zenon, <3>1, <3>2, <3>3 DEF AttemptOK, HolderOK
  <2> QED
    BY Zenon, <2>1, <2>2
<1>7. ASSUME NEW b \in Batches PROVE BatchOK(b)'
  <2>1. \A u : EventsIn(u)' = EventsIn(u) /\ Untouched(u)' = Untouched(u)
    BY Zenon, <1>1, TablesKeep
  <2>2. BatchOK(b)
    BY Zenon DEF IInv
  <2> QED
    BY Zenon, <2>1, <2>2, <1>4 DEF BatchOK
<1> QED
  BY Zenon, <1>1, <1>4, <1>6, <1>7, TablesKeep DEF IInv

-----------------------------------------------------------------------------
\* A step that only moves the verifier on.
LEMMA VerifierKeeps ==
  ASSUME IInv, UNCHANGED <<rows, head, lock, txn, client, attempt, damage, purges, unsafe>>,
         NEW t \in Tenants, NEW r, DOMAIN r = {"pc", "rows", "head", "verdict"},
         r.pc \in {"idle", "walked", "done"}, verifier' = [verifier EXCEPT ![t] = r]
  PROVE  IInv'
<1>1. Shapes'
  BY Zenon DEF IInv, Shapes
<1>2. \A a \in Attempts : AttemptOK(a)'
  BY Zenon, AttemptsKeep
<1>3. \A b \in Batches : Committed(b)' = Committed(b)
  BY Zenon DEF Committed
<1>4. \A b \in Batches : BatchOK(b)'
  BY <1>3, TablesKeep DEF IInv, BatchOK
<1> QED
  BY Zenon, <1>1, <1>2, <1>4, TablesKeep DEF IInv

\* The verifier reads the rows.
LEMMA VerifyReadRowsKeeps ==
  ASSUME IInv, NEW t \in Tenants, VerifyReadRows(t) PROVE IInv'
<1> DEFINE r == [pc |-> "walked", rows |-> Walk(t), head |-> head[t], verdict |-> "none"]
<1>1. DOMAIN r = {"pc", "rows", "head", "verdict"} /\ r.pc = "walked"
  OBVIOUS
<1>2. /\ verifier' = [verifier EXCEPT ![t] = r]
      /\ UNCHANGED <<rows, head, lock, txn, client, attempt, damage, purges, unsafe>>
  BY Zenon DEF VerifyReadRows
<1> HIDE DEF r
<1> QED
  BY Zenon, <1>1, <1>2, VerifierKeeps

\* The verifier reads the head and gives its verdict.
LEMMA VerifyReadHeadKeeps ==
  ASSUME IInv, NEW t \in Tenants, VerifyReadHead(t) PROVE IInv'
<1> DEFINE v == Verdict(verifier[t].rows, verifier[t].head)
           r == [verifier[t] EXCEPT !.pc = "done", !.verdict = v]
<1> HIDE DEF v
<1>1. DOMAIN r = {"pc", "rows", "head", "verdict"} /\ r.pc = "done"
  BY ZenonT(60) DEF IInv, Shapes
<1>2. /\ verifier' = [verifier EXCEPT ![t] = r]
      /\ UNCHANGED <<rows, head, lock, txn, client, attempt, damage, purges, unsafe>>
  BY ZenonT(60) DEF VerifyReadHead, v
<1> HIDE DEF r
<1> QED
  BY Zenon, <1>1, <1>2, VerifierKeeps

-----------------------------------------------------------------------------
(* A step outside the protocol that takes rows of one tenant away, or      *)
(* alters them, and is on record.                                          *)
LEMMA LossKeeps ==
  ASSUME IInv, NEW t \in Tenants, UNCHANGED <<head, lock, txn, client, attempt, verifier, unsafe>>,
         NEW q, rows' = [rows EXCEPT ![t] = q], TableOK(q),
         {q[i].ev.event : i \in DOMAIN q} \subseteq EventsIn(t),
         damage' \in [Tenants -> 0..MaxDamage], purges' \in [Tenants -> 0..MaxPurges],
         \A u \in Tenants : u # t => damage'[u] = damage[u] /\ purges'[u] = purges[u],
         ~Untouched(t)', Intact(t)' => LinkedTo(q, head[t])
  PROVE  IInv'
<1>1. rows'[t] = q /\ \A u \in Tenants : u # t => rows'[u] = rows[u]
  BY Zenon DEF IInv, Shapes
<1>2. /\ EventsIn(t)' \subseteq EventsIn(t)
      /\ \A u \in Tenants : u # t => EventsIn(u)' = EventsIn(u) /\ Untouched(u)' = Untouched(u) /\ Intact(u)' = Intact(u)
  <2>1. EventsIn(t)' = {q[i].ev.event : i \in DOMAIN q}
    <3>1. EventsIn(t)' = EventsHeld(rows'[t])
      BY Zenon DEF EventsIn, EventsHeld
    <3>2. EventsIn(t)' = EventsHeld(q)
      BY Zenon, <1>1, <3>1
    <3> QED
      BY Zenon, <3>2 DEF EventsHeld
  <2>2. ASSUME NEW u \in Tenants, u # t PROVE EventsIn(u)' = EventsIn(u)
    <3>1. EventsIn(u)' = EventsHeld(rows'[u]) /\ EventsIn(u) = EventsHeld(rows[u])
      BY Zenon DEF EventsIn, EventsHeld
    <3> QED
      BY Zenon, <1>1, <2>2, <3>1
  <2>3. \A u \in Tenants : u # t => Untouched(u)' = Untouched(u) /\ Intact(u)' = Intact(u)
    BY Zenon DEF Untouched, Intact
  <2> QED
    BY Zenon, <2>1, <2>2, <2>3
<1>3. Shapes'
  BY ZenonT(60) DEF IInv, Shapes
<1>4. \A u \in Tenants : (TableOK(rows[u]) /\ (Intact(u) => LinkedTo(rows[u], head[u])))'
  BY ZenonT(60), <1>1, <1>2 DEF IInv
<1>5. ASSUME NEW a \in Attempts PROVE AttemptOK(a)'
  <2>1. T(a) \in Tenants /\ AttemptOK(a)
    BY Zenon, AttemptsType DEF IInv
  <2>2. CASE T(a) = t
    BY Zenon, <2>1, <2>2, <1>2 DEF AttemptOK, HolderOK
  <2>3. CASE T(a) # t
    BY Zenon, <2>1, <2>3, <1>2 DEF AttemptOK, HolderOK
  <2> QED
    BY Zenon, <2>2, <2>3
<1>6. \A b \in Batches : Committed(b)' = Committed(b)
  BY Zenon DEF Committed
<1>7. ASSUME NEW b \in Batches PROVE BatchOK(b)'
  <2>1. TenantOf[b] \in Tenants /\ BatchOK(b)
    BY Zenon, BatchAssumption DEF IInv
  <2>2. \A u \in Tenants : EventsIn(u)' \subseteq EventsIn(u)
    BY Zenon, <1>2
  <2>3. \A u \in Tenants : EventsIn(u)' \cap Whole(b) # {} => u = TenantOf[b] /\ Committed(b)'
    BY Zenon, <2>1, <2>2, <1>6 DEF BatchOK
  <2>4. Untouched(TenantOf[b])' => Whole(b) \cap EventsIn(TenantOf[b])' \in {{}, Whole(b)}
    BY Zenon, <2>1, <1>2 DEF BatchOK
  <2> QED
    BY Zenon, <2>1, <2>3, <2>4, <1>6 DEF BatchOK
<1> QED
  BY Zenon, <1>3, <1>4, <1>5, <1>7 DEF IInv

\* The retention purge deletes the tenant's rows.
LEMMA PurgeKeeps ==
  ASSUME IInv, NEW t \in Tenants, Purge(t) PROVE IInv'
<1>1. TableOK(<<>>) /\ LinkedTo(<<>>, head[t])
  <2>1. IsSeq(<<>>) /\ Len(<<>>) = 0 /\ DOMAIN <<>> = {}
    BY DEF IsSeq
  <2> QED
    BY <2>1 DEF TableOK, LinkedTo
<1>2. {<<>>[i].ev.event : i \in DOMAIN <<>>} \subseteq EventsIn(t)
  OBVIOUS
<1>3. /\ purges' \in [Tenants -> 0..MaxPurges] /\ damage' \in [Tenants -> 0..MaxDamage]
      /\ \A u \in Tenants : u # t => damage'[u] = damage[u] /\ purges'[u] = purges[u]
      /\ purges'[t] # 0
  BY BoundAssumption DEF Purge, IInv, Shapes
<1>4. ~Untouched(t)'
  BY <1>3 DEF Untouched
<1> QED
  BY Zenon, <1>1, <1>2, <1>3, <1>4, LossKeeps DEF Purge

\* A row is deleted or altered outside the protocol.
LEMMA DamageKeeps ==
  ASSUME IInv, NEW t \in Tenants, Damage(t) PROVE IInv'
<1> DEFINE p == rows[t]
<1>1. TableOK(p)
  BY Zenon DEF IInv
<1>2. /\ purges' \in [Tenants -> 0..MaxPurges] /\ damage' \in [Tenants -> 0..MaxDamage]
      /\ \A u \in Tenants : u # t => damage'[u] = damage[u] /\ purges'[u] = purges[u]
      /\ damage'[t] # 0
  BY BoundAssumption DEF Damage, IInv, Shapes
<1>3. ~Untouched(t)' /\ ~Intact(t)'
  BY <1>2 DEF Untouched, Intact
<1>4. PICK i \in DOMAIN p : \/ rows' = [rows EXCEPT ![t] = Without(@, i)]
                            \/ rows' = [rows EXCEPT ![t][i].ev.detail = "altered"]
  BY Zenon DEF Damage
<1>5. ASSUME NEW q, rows' = [rows EXCEPT ![t] = q], IsSeq(q), NEW f,
             \A k \in DOMAIN q : f[k] \in DOMAIN p /\ RowOK(q[k]) /\ q[k].ev.event = p[f[k]].ev.event,
             \A k, l \in DOMAIN q : f[k] = f[l] => k = l
      PROVE  IInv'
  <2>1. TableOK(q)
    BY <1>1, <1>5 DEF TableOK
  <2>2. {q[k].ev.event : k \in DOMAIN q} \subseteq EventsIn(t)
    BY <1>5 DEF EventsIn
  <2> QED
    BY Zenon, <2>1, <2>2, <1>2, <1>3, <1>5, LossKeeps DEF Damage
<1>6. CASE rows' = [rows EXCEPT ![t] = Without(@, i)]
  <2> DEFINE q == Without(p, i)
             f == [k \in DOMAIN q |-> IF k < i THEN k ELSE k + 1]
  <2>1. IsSeq(q) /\ \A k \in DOMAIN q : f[k] \in DOMAIN p /\ q[k] = p[f[k]]
    BY ZenonT(60), <1>1, <1>4, Removed DEF TableOK
  <2>2. \A k \in DOMAIN q : RowOK(q[k]) /\ q[k].ev.event = p[f[k]].ev.event
    BY Zenon, <1>1, <2>1 DEF TableOK
  <2>3. DOMAIN q \subseteq Nat /\ i \in Nat
    BY <1>1, <2>1, <1>4, SeqBasics DEF TableOK
  <2>4. \A k, l \in DOMAIN q : f[k] = f[l] => k = l
    BY <2>3
  <2> HIDE DEF q, f
  <2>5. rows' = [rows EXCEPT ![t] = q]
    BY <1>6 DEF q
  <2> QED
    BY ZenonT(60), <2>1, <2>2, <2>4, <2>5, <1>5
<1>7. CASE rows' = [rows EXCEPT ![t][i].ev.detail = "altered"]
  <2> DEFINE x == [p[i] EXCEPT !.ev.detail = "altered"]
             q == [p EXCEPT ![i] = x]
             f == [k \in DOMAIN p |-> k]
  <2>1. RowOK(x) /\ x.ev.event = p[i].ev.event
    BY ZenonT(60), <1>1, <1>4 DEF TableOK, RowOK
  <2>2. rows' = [rows EXCEPT ![t] = q]
    BY Zenon, <1>7
  <2> HIDE DEF x
  <2>3. PICK S : p \in Seq(S)
    BY Zenon, <1>1 DEF TableOK, IsSeq
  <2>4. q \in Seq(S \cup {x})
    <3>1. Len(p) \in Nat /\ p \in [1..Len(p) -> S]
      BY <2>3
    <3>2. q \in [1..Len(p) -> S \cup {x}]
      BY Zenon, <3>1
    <3> QED
      BY Zenon, <3>1, <3>2, FunctionIsSeq
  <2>5. IsSeq(q) /\ DOMAIN q = DOMAIN p
    BY Zenon, <2>4 DEF IsSeq
  <2>6. \A k \in DOMAIN q : f[k] \in DOMAIN p /\ RowOK(q[k]) /\ q[k].ev.event = p[f[k]].ev.event
    BY Zenon, <1>1, <2>1, <2>5 DEF TableOK
  <2>7. \A k, l \in DOMAIN q : f[k] = f[l] => k = l
    BY <2>5
  <2> HIDE DEF q, f
  <2> QED
    BY Zenon, <2>2, <2>5, <2>6, <2>7, <1>5
<1> QED
  BY Zenon, <1>4, <1>6, <1>7

-----------------------------------------------------------------------------
\* Numbers that count on from the head still do after n more rows.
LEMMA Shifted ==
  ASSUME NEW s \in Nat, NEW l \in Nat, NEW m \in Nat, NEW n \in Nat, NEW k \in Nat, s + m = l + k
  PROVE  s + (m + n) = (l + n) + k
OBVIOUS

(* A run of rows numbered and linked from the head prolongs the chain.     *)
LEMMA Prolonged ==
  ASSUME NEW q, NEW u, IsSeq(q), IsSeq(u), NEW h, h.last_seq \in Nat, LinkedTo(q, h),
         \A i \in DOMAIN q : q[i].seq \in Nat,
         NEW P, P[0] = h.last_hash,
         \A j \in 1..Len(u) : u[j].seq = h.last_seq + j /\ u[j].prev = P[j - 1] /\ u[j].hash = P[j]
  PROVE  LinkedTo(q \o u, [last_seq |-> h.last_seq + Len(u), last_hash |-> P[Len(u)]])
<1> DEFINE w == q \o u
           m == Len(q)
           n == Len(u)
<1>1. m \in Nat /\ n \in Nat /\ DOMAIN q = 1..m
  BY Zenon, SeqBasics
<1>2. /\ Len(w) = m + n /\ DOMAIN w = 1..(m + n)
      /\ \A i \in 1..m : w[i] = q[i]
      /\ \A j \in 1..n : w[m + j] = u[j]
      /\ \A k \in DOMAIN w : k \in 1..m \/ \E j \in 1..n : k = m + j
  <2>1. Joined(w, q, u)
    BY Zenon, Concatenated
  <2> HIDE DEF w
  <2> QED
    BY <2>1 DEF Joined
<1> HIDE DEF w
<1>3. ASSUME NEW k \in 1..(m + n) PROVE w[k].seq + (m + n) = (h.last_seq + n) + k
  <2>1. CASE k \in 1..m
    <3>1. w[k] = q[k] /\ q[k].seq \in Nat /\ q[k].seq + m = h.last_seq + k
      BY Zenon, <2>1, <1>1, <1>2 DEF LinkedTo
    <3>2. k \in Nat
      BY <2>1
    <3> HIDE DEF m, n
    <3> DEFINE s == q[k].seq
               l == h.last_seq
    <3>3. s \in Nat /\ l \in Nat /\ s + m = l + k
      BY <3>1
    <3> HIDE DEF s, l
    <3>4. s + (m + n) = (l + n) + k
      BY <3>2, <3>3, <1>1, Shifted
    <3> QED
      BY Zenon, <3>1, <3>4 DEF s, l
  <2>2. ASSUME NEW j \in 1..n, k = m + j PROVE w[k].seq + (m + n) = (h.last_seq + n) + k
    <3>1. w[k].seq = h.last_seq + j
      BY Zenon, <2>2, <1>2
    <3> HIDE DEF m, n
    <3> QED
      BY <3>1, <2>2, <1>1
  <2>3. k \in 1..m \/ \E j \in 1..n : k = m + j
    BY Zenon, <1>2
  <2> HIDE DEF m, n
  <2> QED
    BY Zenon, <2>1, <2>2, <2>3
<1>4. ASSUME NEW k \in 2..(m + n) PROVE w[k].prev = w[k - 1].hash
  <2>1. CASE k \in 1..m
    <3>1. k \in 2..m /\ k - 1 \in 1..m
      <4> HIDE DEF m, n
      <4> QED
        BY <2>1, <1>1
    <3> QED
      BY Zenon, <2>1, <3>1, <1>2 DEF LinkedTo
  <2>2. ASSUME NEW j \in 1..n, k = m + j, j > 1 PROVE w[k].prev = w[k - 1].hash
    <3>1. j - 1 \in 1..n /\ k - 1 = m + (j - 1)
      <4> HIDE DEF m, n
      <4> QED
        BY <2>2, <1>1
    <3>2. w[k] = u[j] /\ w[k - 1] = u[j - 1]
      BY Zenon, <3>1, <2>2, <1>2
    <3> QED
      BY Zenon, <3>1, <3>2
  <2>3. ASSUME NEW j \in 1..n, k = m + j, ~(j > 1) PROVE w[k].prev = w[k - 1].hash
    <3>1. j = 1 /\ k - 1 = m /\ m > 0 /\ m \in 1..m /\ j - 1 = 0
      <4> HIDE DEF m, n
      <4> QED
        BY <2>3, <1>1
    <3>2. w[k] = u[j] /\ w[k - 1] = q[m] /\ u[j].prev = P[j - 1] /\ q[m].hash = h.last_hash
      BY Zenon, <3>1, <2>3, <1>2 DEF LinkedTo
    <3> QED
      BY Zenon, <3>1, <3>2
  <2>4. k \in 1..(m + n)
    <3> HIDE DEF m, n
    <3> QED
      BY <1>1
  <2> QED
    BY ZenonT(60), <2>1, <2>2, <2>3, <2>4, <1>2
<1>5. ASSUME m + n > 0 PROVE w[m + n].hash = P[n]
  <2>1. CASE n = 0
    <3>1. m + n = m /\ m > 0 /\ m \in 1..m
      <4> HIDE DEF m, n
      <4> QED
        BY <2>1, <1>1, <1>5
    <3>2. w[m] = q[m] /\ q[m].hash = h.last_hash
      BY Zenon, <3>1, <1>2 DEF LinkedTo
    <3> QED
      BY Zenon, <3>1, <3>2, <2>1
  <2>2. CASE n # 0
    <3>1. n \in 1..n
      <4> HIDE DEF m, n
      <4> QED
        BY <2>2, <1>1
    <3> QED
      BY Zenon, <3>1, <1>2
  <2> QED
    BY Zenon, <2>1, <2>2
<1> QED
  BY Zenon, <1>2, <1>3, <1>4, <1>5 DEF LinkedTo, w

(* The rows that a commit appends. *)
LEMMA FreshRows ==
  ASSUME IInv, NEW x \in Attempts, txn[x].pc = "locked", NEW stored \in Stored(Fresh(x))
  PROVE  LET n == Len(Fresh(x))
             u == [i \in 1..n |-> NewRow(x, i, stored[i])]
         IN  /\ n \in Nat /\ IsSeq(u) /\ Len(u) = n
             /\ \A i \in 1..n : RowOK(u[i]) /\ u[i].ev.event = Fresh(x)[i]
             /\ \A i \in 1..n : u[i] = NewRow(x, i, stored[i])
<1> DEFINE f == Fresh(x)
           n == Len(f)
           u == [i \in 1..n |-> NewRow(x, i, stored[i])]
<1>1. f \in Seq(Events)
  <2>1. x[1] \in Batches /\ txn[x].chained \in SUBSET Range(EventsOf[x[1]])
    BY Zenon, AttemptsType DEF IInv, Shapes, Whole
  <2> QED
    BY Zenon, <2>1, SurvivorsAssumption DEF Fresh
<1>2. txn[x].seq \in Nat
  BY AttemptsType DEF IInv, AttemptOK, HolderOK, Shapes
<1> HIDE DEF f
<1>3. n \in Nat /\ DOMAIN f = 1..n /\ \A i \in 1..n : f[i] \in Events
  BY <1>1
<1>4. \A i \in 1..n : /\ DOMAIN stored[i] = {"event", "detail", "resource_id"}
                      /\ stored[i].event = f[i]
  BY <1>3 DEF Stored, f
<1>5. ASSUME NEW i \in 1..n PROVE RowOK(NewRow(x, i, stored[i])) /\ NewRow(x, i, stored[i]).ev.event = f[i]
  <2>1. txn[x].seq + i \in Nat
    BY <1>2, <1>3
  <2> QED
    BY Zenon, <2>1, <1>3, <1>4 DEF NewRow, RowOK
<1>6. u \in [1..n -> {NewRow(x, i, stored[i]) : i \in 1..n}]
  OBVIOUS
<1>7. IsSeq(u) /\ Len(u) = n
  <2> DEFINE S == {NewRow(x, i, stored[i]) : i \in 1..n}
  <2> HIDE DEF S, u, n
  <2>1. u \in [1..n -> S]
    BY Zenon, <1>6 DEF S
  <2>2. u \in Seq(S) /\ Len(u) = n
    BY Zenon, <2>1, <1>3, FunctionIsSeq
  <2> QED
    BY <2>2 DEF IsSeq
<1> QED
  BY Zenon, <1>3, <1>5, <1>7 DEF f

\* The commit appends the survivors and moves the head to the last of them.
LEMMA CommitKeeps ==
  ASSUME IInv, NEW x \in Attempts, Commit(x) PROVE IInv'
<1> DEFINE t == T(x)
           f == Fresh(x)
           n == Len(f)
           r == [Idle EXCEPT !.pc = "committed"]
           h == [last_seq |-> txn[x].seq + n, last_hash |-> PrevAt(x, n)]
<1>1. PICK stored \in Stored(f) :
         rows' = [rows EXCEPT ![t] = rows[t] \o [i \in 1..n |-> NewRow(x, i, stored[i])]]
  BY Zenon DEF Commit, T
<1>2. /\ txn[x].pc = "locked" /\ head' = [head EXCEPT ![t] = h] /\ txn' = [txn EXCEPT ![x] = r]
      /\ lock' = [lock EXCEPT ![t] = IF @ = x THEN Free ELSE @]
      /\ UNCHANGED <<client, attempt, verifier, damage, purges, unsafe>>
  BY Zenon DEF Commit, T
<1> DEFINE q == rows[t]
           u == [i \in 1..n |-> NewRow(x, i, stored[i])]
<1>3. t \in Tenants /\ x[1] \in Batches
  BY AttemptsType
<1>4. HolderOK(x) /\ TableOK(q) /\ txn[x].seq = head[t].last_seq /\ head[t].last_seq \in Nat
      /\ txn[x].prev = head[t].last_hash /\ txn[x].chained \subseteq Whole(x[1])
  BY Zenon, <1>2, <1>3 DEF IInv, AttemptOK, HolderOK, Shapes
<1>5. /\ n \in Nat /\ IsSeq(u) /\ Len(u) = n
      /\ \A i \in 1..n : RowOK(u[i]) /\ u[i].ev.event = f[i]
      /\ \A i \in 1..n : u[i] = NewRow(x, i, stored[i])
  BY <1>2, FreshRows
<1>6. /\ f \in Seq(Events) /\ DOMAIN f = 1..n
      /\ \A i, j \in 1..n : f[i] = f[j] => i = j
      /\ {f[i] : i \in 1..n} = Whole(x[1]) \ txn[x].chained
  <2>1. /\ f \in Seq(Events) /\ IsInjective(f)
        /\ Range(f) = Range(EventsOf[x[1]]) \ txn[x].chained
    BY <1>3, <1>4, SurvivorsAssumption DEF Fresh, Whole
  <2>2. DOMAIN f = 1..n
    BY <2>1
  <2> QED
    BY ZenonT(60), <2>1, <2>2 DEF IsInjective, Range, Whole
<1>7. EventsIn(t) \cap (Whole(x[1]) \ txn[x].chained) = {}
  <2>1. CASE x[1] \in Bulk
    BY <2>1, <1>4 DEF HolderOK
  <2>2. CASE x[1] \notin Bulk
    <3>1. ASSUME EventsIn(t) \cap Whole(x[1]) # {} PROVE FALSE
      <4>1. PICK a \in Attempts : a[1] = x[1] /\ txn[a].pc = "committed"
        <5>1. BatchOK(x[1])
          BY <1>3 DEF IInv
        <5> QED
          BY Zenon, <5>1, <3>1, <1>3 DEF BatchOK, Committed
      <4>2. a = x
        BY <4>1, <2>2, AttemptsType
      <4> QED
        BY Zenon, <4>1, <4>2, <1>2
    <3> QED
      BY <3>1
  <2> QED
    BY <2>1, <2>2
<1>8. r.pc = "committed" /\ r.chained = {} /\ DOMAIN r = {"pc", "seq", "prev", "chained"}
  BY Zenon DEF Idle
<1>9. h.last_seq \in Nat
  <2>1. txn[x].seq \in Nat /\ n \in Nat
    BY Zenon, <1>4, <1>5
  <2> HIDE DEF n
  <2> QED
    BY SMT, <2>1
<1> HIDE DEF r, f, u
<1>10. /\ rows'[t] = q \o u /\ head'[t] = h /\ DOMAIN rows' = Tenants /\ DOMAIN head' = Tenants
       /\ \A v \in Tenants : v # t => rows'[v] = rows[v] /\ head'[v] = head[v]
       /\ lock' \in [Tenants -> Attempts \cup {Free}]
       /\ \A v \in Tenants : lock'[v] = lock[v] \/ (v = t /\ lock[v] = x)
  BY ZenonT(60), <1>1, <1>2, <1>3 DEF IInv, Shapes, u
<1>11. /\ txn'[x] = r /\ \A a \in Attempts : a # x => txn'[a] = txn[a]
       /\ \A b \in Batches : Committed(b) => Committed(b)'
       /\ \A b \in Batches : /\ client'[b] = "ok" => Committed(b)'
                             /\ client'[b] = "waiting" => <<b, attempt'[b]>> \in Attempts
                             /\ \A a \in Attempts : a[1] = b /\ a[2] > attempt'[b] => txn'[a].pc = "idle"
       /\ Shapes'
  <2>1. \A v \in Tenants : head'[v].last_seq \in Nat
    BY ZenonT(60), <1>9, <1>10 DEF IInv, Shapes
  <2> QED
    BY ZenonT(60), <2>1, <1>2, <1>8, <1>10, OneAttempt
<1>12. EventsIn(t)' = EventsIn(t) \cup (Whole(x[1]) \ txn[x].chained)
  <2>1. EventsIn(t)' = {(q \o u)[k].ev.event : k \in DOMAIN (q \o u)}
    BY Zenon, <1>10 DEF EventsIn
  <2> DEFINE w == q \o u
  <2>2. /\ Len(q) \in Nat /\ DOMAIN q = 1..Len(q) /\ DOMAIN w = 1..(Len(q) + n)
        /\ \A i \in 1..Len(q) : w[i] = q[i]
        /\ \A i \in 1..n : w[Len(q) + i] = u[i]
        /\ \A k \in DOMAIN w : \/ k \in 1..Len(q) /\ w[k] = q[k]
                               \/ \E j \in 1..n : k = Len(q) + j /\ w[k] = u[j]
    <3>1. Joined(w, q, u)
      BY SMTT(30), <1>4, <1>5, Concatenated DEF TableOK
    <3> HIDE DEF w, q
    <3> QED
      BY ZenonT(60), <3>1, <1>5 DEF Joined
  <2> HIDE DEF w
  <2>3. \A i \in 1..Len(q) : i \in DOMAIN w
    BY <2>2, <1>5
  <2>4. \A i \in 1..n : Len(q) + i \in DOMAIN w
    BY <2>2, <1>5
  <2>5. {w[k].ev.event : k \in DOMAIN w} = EventsIn(t) \cup {f[i] : i \in 1..n}
    <3>1. ASSUME NEW k \in DOMAIN w PROVE w[k].ev.event \in EventsIn(t) \cup {f[i] : i \in 1..n}
      BY Zenon, <2>2, <1>5 DEF EventsIn
    <3>2. ASSUME NEW i \in DOMAIN q PROVE q[i].ev.event \in {w[k].ev.event : k \in DOMAIN w}
      BY Zenon, <2>2, <2>3
    <3>3. ASSUME NEW i \in 1..n PROVE f[i] \in {w[k].ev.event : k \in DOMAIN w}
      <4>1. f[i] = w[Len(q) + i].ev.event
        BY Zenon, <2>2, <1>5
      <4> QED
        BY Zenon, <4>1, <2>4
    <3> QED
      BY Zenon, <3>1, <3>2, <3>3 DEF EventsIn
  <2> QED
    BY Zenon, <2>1, <2>5, <1>6 DEF w
<1>13. TableOK(q \o u)
  <2> DEFINE w == q \o u
  <2>1. IsSeq(w)
    BY Zenon, <1>4, <1>5, Concatenated DEF TableOK, Joined
  <2>2. \A k \in DOMAIN w : \/ k \in DOMAIN q /\ w[k] = q[k]
                            \/ \E j \in 1..n : k = Len(q) + j /\ w[k] = u[j]
    <3>1. Joined(w, q, u)
      BY Zenon, <1>4, <1>5, Concatenated DEF TableOK
    <3> HIDE DEF w, q
    <3> QED
      BY Zenon, <3>1, <1>5 DEF Joined
  <2> HIDE DEF w
  <2>3. \A k \in DOMAIN w : RowOK(w[k])
    BY Zenon, <2>2, <1>4, <1>5 DEF TableOK
  <2>4. ASSUME NEW k \in DOMAIN w, NEW l \in DOMAIN w, w[k].ev.event = w[l].ev.event PROVE k = l
    <3>1. \A i \in DOMAIN q : q[i].ev.event \in EventsIn(t)
      BY Zenon DEF EventsIn
    <3>2. \A j \in 1..n : u[j].ev.event \notin EventsIn(t)
      <4>1. ASSUME NEW j \in 1..n PROVE u[j].ev.event \in {f[i] : i \in 1..n}
        BY Zenon, <1>5
      <4> QED
        BY Zenon, <4>1, <1>6, <1>7
    <3>3. CASE k \in DOMAIN q /\ w[k] = q[k] /\ l \in DOMAIN q /\ w[l] = q[l]
      BY Zenon, <3>3, <2>4, <1>4 DEF TableOK
    <3>4. ASSUME NEW i \in 1..n, NEW j \in 1..n, k = Len(q) + i, w[k] = u[i], l = Len(q) + j, w[l] = u[j]
          PROVE  k = l
      BY ZenonT(60), <3>4, <2>4, <1>5, <1>6
    <3>5. CASE k \in DOMAIN q /\ w[k] = q[k]
      BY <2>2, <2>4, <3>1, <3>2, <3>3, <3>5
    <3>6. CASE \E i \in 1..n : k = Len(q) + i /\ w[k] = u[i]
      BY Zenon, <2>2, <2>4, <3>1, <3>2, <3>4, <3>6
    <3> QED
      BY Zenon, <2>2, <3>5, <3>6
  <2> QED
    BY Zenon, <2>1, <2>3, <2>4 DEF TableOK, w
<1>14. Intact(t) => LinkedTo(q \o u, h)
  <2> DEFINE P == [k \in 0..n |-> PrevAt(x, k)]
  <2>1. 0 \in 0..n /\ n \in 0..n /\ \A j \in 1..n : j \in 0..n /\ j - 1 \in 0..n /\ j # 0
    <3>1. n \in Nat
      BY Zenon, <1>5
    <3> QED
      BY <3>1
  <2>2. P[0] = head[t].last_hash
    BY ZenonT(60), <2>1, <1>4 DEF PrevAt
  <2>3. \A j \in 1..n : /\ u[j].seq = head[t].last_seq + j /\ u[j].prev = PrevAt(x, j - 1)
                        /\ u[j].hash = PrevAt(x, j)
    <3>1. ASSUME NEW j \in 1..n
          PROVE  /\ u[j].seq = txn[x].seq + j /\ u[j].prev = PrevAt(x, j - 1) /\ u[j].hash = HashAt(x, j)
      <4>1. u[j] = NewRow(x, j, stored[j])
        BY <1>5
      <4> QED
        BY <4>1 DEF NewRow
    <3>2. \A j \in 1..n : PrevAt(x, j) = HashAt(x, j)
      BY Zenon, <2>1 DEF PrevAt
    <3> QED
      BY ZenonT(60), <3>1, <3>2, <1>4
  <2>4. \A j \in 1..n : u[j].seq = head[t].last_seq + j /\ u[j].prev = P[j - 1] /\ u[j].hash = P[j]
    BY Zenon, <2>1, <2>3
  <2>5. h = [last_seq |-> head[t].last_seq + Len(u), last_hash |-> P[Len(u)]]
    BY Zenon, <2>1, <1>4, <1>5
  <2>6. IsSeq(q) /\ \A i \in DOMAIN q : q[i].seq \in Nat
    BY Zenon, <1>4 DEF TableOK, RowOK
  <2> HIDE DEF P, h
  <2>7. Intact(t) => LinkedTo(q, head[t])
    BY ZenonT(60), <1>3 DEF IInv
  <2> QED
    BY ZenonT(60), <2>2, <2>4, <2>5, <2>6, <2>7, <1>4, <1>5, Prolonged
<1> HIDE DEF h
<1>15. /\ \A v \in Tenants : Intact(v)' = Intact(v) /\ Untouched(v)' = Untouched(v)
       /\ \A v \in Tenants : v # t => EventsIn(v)' = EventsIn(v)
  BY SMTT(30), <1>2, <1>10 DEF Intact, Untouched, EventsIn
<1>16. \A v \in Tenants : (TableOK(rows[v]) /\ (Intact(v) => LinkedTo(rows[v], head[v])))'
  BY ZenonT(60), <1>10, <1>13, <1>14, <1>15 DEF IInv
<1>17. Untouched(t) => Whole(x[1]) \subseteq EventsIn(t)'
  BY Zenon, <1>4, <1>12 DEF HolderOK
<1>18. ASSUME NEW a \in Attempts PROVE AttemptOK(a)'
  <2>1. T(a) \in Tenants /\ AttemptOK(a)
    BY Zenon, AttemptsType DEF IInv
  <2>2. CASE a = x
    BY Zenon, <2>2, <1>3, <1>8, <1>11, <1>15, <1>17 DEF AttemptOK
  <2>3. CASE a # x /\ T(a) = t
    <3>1. txn[a].pc # "locked"
      BY ZenonT(60), <2>1, <2>3, <1>4 DEF AttemptOK, HolderOK
    <3>2. EventsIn(t) \subseteq EventsIn(t)'
      BY Zenon, <1>12
    <3> QED
      BY Zenon, <2>1, <2>3, <3>1, <3>2, <1>11, <1>15 DEF AttemptOK
  <2>4. CASE a # x /\ T(a) # t
    BY Zenon, <2>1, <2>4, <1>10, <1>11, <1>15 DEF AttemptOK, HolderOK
  <2> QED
    BY Zenon, <2>2, <2>3, <2>4
<1>19. ASSUME NEW b \in Batches PROVE BatchOK(b)'
  <2>1. TenantOf[b] \in Tenants /\ BatchOK(b)
    BY Zenon, BatchAssumption DEF IInv
  <2>2. b # x[1] => Whole(b) \cap Whole(x[1]) = {}
    BY Zenon, BatchAssumption, <1>3 DEF Whole
  <2>3. Committed(x[1])'
    BY Zenon, <1>8, <1>11 DEF Committed
  <2>4. ASSUME NEW v \in Tenants, EventsIn(v)' \cap Whole(b) # {} PROVE v = TenantOf[b] /\ Committed(b)'
    <3>1. CASE v # t \/ b # x[1]
      <4>1. EventsIn(v) \cap Whole(b) # {}
        BY Zenon, <3>1, <2>2, <2>4, <1>12, <1>15
      <4> QED
        BY Zenon, <4>1, <2>1, <1>11 DEF BatchOK
    <3>2. CASE v = t /\ b = x[1]
      BY Zenon, <3>2, <2>3 DEF T
    <3> QED
      BY Zenon, <3>1, <3>2
  <2>5. Untouched(TenantOf[b])' => Whole(b) \cap EventsIn(TenantOf[b])' \in {{}, Whole(b)}
    <3>1. CASE b = x[1]
      <4>1. TenantOf[b] = t
        BY Zenon, <3>1 DEF T
      <4> QED
        BY Zenon, <3>1, <4>1, <1>3, <1>15, <1>17
    <3>2. CASE b # x[1]
      <4>1. Whole(b) \cap EventsIn(TenantOf[b])' = Whole(b) \cap EventsIn(TenantOf[b])
        BY Zenon, <3>2, <2>1, <2>2, <1>12, <1>15
      <4> QED
        BY ZenonT(60), <4>1, <2>1, <1>15 DEF BatchOK
    <3> QED
      BY Zenon, <3>1, <3>2
  <2> QED
    BY Zenon, <2>4, <2>5, <1>11 DEF BatchOK
<1> QED
  BY ZenonT(60), <1>11, <1>16, <1>18, <1>19 DEF IInv

-----------------------------------------------------------------------------
\* Every step keeps the invariant.
LEMMA IInvStep == IInv /\ [Next]_vars => IInv'
<1> SUFFICES ASSUME IInv, [Next]_vars PROVE IInv'
  OBVIOUS
<1>1. CASE \E b \in Batches : Send(b) \/ Receive(b) \/ Timeout(b)
  BY Zenon, <1>1, SendKeeps, ReceiveKeeps, TimeoutKeeps
<1>2. CASE \E a \in Attempts : Lock(a) \/ Commit(a) \/ Abort(a)
  BY Zenon, <1>2, LockKeeps, CommitKeeps, AbortKeeps
<1>3. CASE \E t \in Tenants : Purge(t) \/ Damage(t) \/ VerifyReadRows(t) \/ VerifyReadHead(t)
  BY Zenon, <1>3, PurgeKeeps, DamageKeeps, VerifyReadRowsKeeps, VerifyReadHeadKeeps
<1>4. CASE UNCHANGED vars
  <2>1. UNCHANGED <<rows, head, lock, txn, client, attempt, verifier, damage, purges, unsafe>>
    BY Zenon, <1>4 DEF vars
  <2>2. Shapes'
    BY Zenon, <2>1 DEF IInv, Shapes
  <2>3. \A a \in Attempts : AttemptOK(a)'
    BY Zenon, <2>1, AttemptsKeep
  <2>4. \A b \in Batches : Committed(b)' = Committed(b)
    BY Zenon, <2>1 DEF Committed
  <2>5. \A b \in Batches : BatchOK(b)'
    BY Zenon, <2>1, <2>4, TablesKeep DEF IInv, BatchOK
  <2> QED
    BY Zenon, <2>1, <2>2, <2>3, <2>5, TablesKeep DEF IInv
<1> QED
  BY Zenon, <1>1, <1>2, <1>3, <1>4 DEF Next

(***************************************************************************)
(* For any tenants, batches and attempts the chain of a tenant is one      *)
(* unbroken line that ends at its head, holds no event twice and no batch  *)
(* by halves, and holds every batch whose client was told so; rows lost or *)
(* altered outside the application, and purges, are the only exceptions    *)
(* (_audit_chain_one_tenant, audit_add_bulk, with_retry).                  *)
(***************************************************************************)
THEOREM ChainIsSound == Spec => []ChainSound
<1>1. Init => IInv
  BY IInvInit
<1>2. IInv /\ [Next]_vars => IInv'
  BY IInvStep
<1>3. IInv => ChainSound
  BY IInvSound
<1> QED
  BY <1>1, <1>2, <1>3, PTL DEF Spec

-----------------------------------------------------------------------------
(* What the hashes say of a row does not depend on what happened to its      *)
(* event since.                                                              *)

Canon(x) == <<x.seq, x.ev.event, "1", "lower">>
Canonical == Nat \X Events \X {"1"} \X {"lower"}

Sealed(x) ==
    /\ x.prev \in Seq(Canonical) /\ x.hash = Append(x.prev, Canon(x))
    /\ x.ev.detail \in {"1.0", "1", "altered"} /\ x.ev.resource_id = "lower"

HeadOK(h) == h = [last_seq |-> h.last_seq, last_hash |-> h.last_hash] /\ h.last_hash \in Seq(Canonical)

\* A chain that was never purged: the head counts the rows that were ever
\* written, and every damage leaves a row too few or a row that is altered.
Tally(q, h, intact) ==
    /\ Len(q) <= h.last_seq
    /\ intact => /\ Len(q) = h.last_seq
                 /\ \A i \in DOMAIN q : q[i].ev.detail # "altered"
                 /\ IF q = <<>> THEN h.last_hash = Genesis ELSE q[1].prev = Genesis
    /\ ~intact => Len(q) < h.last_seq \/ \E i \in DOMAIN q : q[i].ev.detail = "altered"

\* A walk in which the verifier finds nothing wrong.
Clean(walk, tail) ==
    /\ \A i \in DOMAIN walk : Broken(walk, i) = "none"
    /\ ~(Len(walk) >= MaxWalk) =>
          tail = (IF walk = <<>> THEN Origin
                  ELSE [last_seq |-> walk[Len(walk)].seq, last_hash |-> walk[Len(walk)].hash])

VerifierOK(v) ==
    /\ v.verdict \in {"none", "valid", "truncated"}
    /\ v.pc = "walked" => Clean(v.rows, v.head)

VInv ==
    /\ \A t \in Tenants : HeadOK(head[t]) /\ \A i \in DOMAIN rows[t] : Sealed(rows[t][i])
    /\ \A t \in Tenants : purges[t] = 0 =>
          Tally(rows[t], head[t], Intact(t)) /\ (Intact(t) => VerifierOK(verifier[t]))

\* Equal extensions of one sequence extend it by the same entry.
LEMMA LastAppended ==
  ASSUME NEW S, NEW p \in Seq(S), NEW a, NEW b, Append(p, a) = Append(p, b)
  PROVE  a = b
<1> DEFINE U == S \cup {a, b}
<1>1. p \in Seq(U) /\ a \in U /\ b \in U
  BY Zenon, SeqWiden
<1> HIDE DEF U
<1>2. Append(p, a)[Len(p) + 1] = a /\ Append(p, b)[Len(p) + 1] = b
  BY <1>1
<1> QED
  BY Zenon, <1>2

\* The verifier's recomputation agrees with the stored hash exactly when the
\* event is as it was written, in whatever spelling.
LEMMA Recomputed ==
  ASSUME NEW x, Sealed(x)
  PROVE  compute_event_hash(canonical_event(x.ev, x.seq), x.prev) = x.hash <=> x.ev.detail # "altered"
<1> DEFINE d == IF x.ev.detail = "altered" THEN "altered" ELSE "1"
<1>1. canonical_event(x.ev, x.seq) = <<x.seq, x.ev.event, d, "lower">>
  BY Zenon DEF Sealed, canonical_event, normalise_numbers, canonical_resource_id
<1>2. CASE x.ev.detail # "altered"
  BY Zenon, <1>1, <1>2 DEF Sealed, compute_event_hash, Canon
<1>3. CASE x.ev.detail = "altered"
  <2>1. canonical_event(x.ev, x.seq) # Canon(x)
    BY <1>1, <1>3 DEF Canon
  <2> QED
    BY ZenonT(60), <1>3, <2>1, LastAppended DEF Sealed, compute_event_hash
<1> QED
  BY Zenon, <1>2, <1>3

\* The verifier's walk is the table, or the first MaxWalk rows of it.
LEMMA WalkIsPrefix ==
  ASSUME IInv, NEW t \in Tenants
  PROVE  /\ Len(Walk(t)) \in Nat /\ DOMAIN Walk(t) = 1..Len(Walk(t))
         /\ Len(rows[t]) \in Nat /\ DOMAIN rows[t] = 1..Len(rows[t])
         /\ \A i \in DOMAIN Walk(t) : i \in DOMAIN rows[t] /\ Walk(t)[i] = rows[t][i]
         /\ Len(Walk(t)) < MaxWalk => Walk(t) = rows[t]
<1> DEFINE q == rows[t]
           m == IF Len(q) < MaxWalk THEN Len(q) ELSE MaxWalk
<1>1. PICK S : q \in Seq(S)
  BY DEF IInv, TableOK, IsSeq
<1>2. Len(q) \in Nat /\ m \in 0..Len(q) /\ (m < MaxWalk => m = Len(q)) /\ DOMAIN q = 1..Len(q)
  BY <1>1, BoundAssumption
<1>3. Walk(t) = SubSeq(q, 1, m)
  BY Zenon DEF Walk
<1> HIDE DEF q, m
<1>4. /\ SubSeq(q, 1, m) \in Seq(S) /\ Len(SubSeq(q, 1, m)) = m
      /\ DOMAIN SubSeq(q, 1, m) = 1..m /\ \A i \in 1..m : SubSeq(q, 1, m)[i] = q[i]
  BY <1>1, <1>2
<1>5. ASSUME m = Len(q) PROVE SubSeq(q, 1, m) = q
  BY <1>1, <1>2, <1>4, <1>5
<1> QED
  BY <1>2, <1>3, <1>4, <1>5 DEF q

\* On an intact chain no row of the walk breaks it, and the head agrees.
LEMMA CleanWalk ==
  ASSUME IInv, VInv, NEW t \in Tenants, purges[t] = 0, Intact(t)
  PROVE  Clean(Walk(t), head[t])
<1> DEFINE q == rows[t]
           w == Walk(t)
           h == head[t]
<1>1. /\ TableOK(q) /\ LinkedTo(q, h) /\ h.last_seq \in Nat
      /\ HeadOK(h) /\ \A i \in DOMAIN q : Sealed(q[i]) /\ RowOK(q[i])
      /\ Tally(q, h, TRUE)
  BY Zenon DEF IInv, VInv, TableOK, Shapes
<1>2. /\ Len(w) \in Nat /\ DOMAIN w = 1..Len(w) /\ Len(q) \in Nat /\ DOMAIN q = 1..Len(q)
      /\ \A i \in DOMAIN w : i \in DOMAIN q /\ w[i] = q[i]
      /\ Len(w) < MaxWalk => w = q
  BY Zenon, WalkIsPrefix
<1> HIDE DEF q, w, h
<1>3. \A i \in 1..Len(q) : q[i].seq = i
  <2> SUFFICES ASSUME NEW i \in 1..Len(q) PROVE q[i].seq = i
    OBVIOUS
  <2>1. q[i].seq \in Nat /\ q[i].seq + Len(q) = h.last_seq + i /\ Len(q) = h.last_seq
    BY Zenon, <1>1, <1>2 DEF LinkedTo, Tally, RowOK
  <2> QED
    BY <2>1, <1>2
<1>4. ASSUME NEW i \in DOMAIN w PROVE Broken(w, i) = "none"
  <2>1. i \in 1..Len(q) /\ w[i] = q[i] /\ q[i].seq = i
    BY Zenon, <1>2, <1>3
  <2>2. w[i].prev = (IF i = 1 THEN Genesis ELSE w[i - 1].hash)
    <3>1. CASE i = 1
      <4>1. q # <<>>
        BY <1>2, <2>1
      <4> QED
        BY Zenon, <1>1, <2>1, <3>1, <4>1 DEF Tally
    <3>2. CASE i # 1
      <4>1. i \in 2..Len(q) /\ i - 1 \in DOMAIN w
        BY <1>2, <2>1, <3>2
      <4>2. w[i - 1] = q[i - 1]
        BY <1>2, <4>1
      <4> QED
        BY Zenon, <1>1, <2>1, <3>2, <4>1, <4>2 DEF LinkedTo
    <3> QED
      BY <3>1, <3>2
  <2>3. compute_event_hash(canonical_event(w[i].ev, w[i].seq), w[i].prev) = w[i].hash
    <3>1. Sealed(q[i]) /\ q[i].ev.detail # "altered"
      BY <1>1, <1>2, <2>1 DEF Tally
    <3> QED
      BY ZenonT(60), <2>1, <3>1, Recomputed
  <2> QED
    BY <2>1, <2>2, <2>3 DEF Broken
<1>5. ASSUME ~(Len(w) >= MaxWalk)
      PROVE  h = (IF w = <<>> THEN Origin ELSE [last_seq |-> w[Len(w)].seq, last_hash |-> w[Len(w)].hash])
  <2>1. w = q
    BY <1>2, <1>5, BoundAssumption
  <2>2. CASE q = <<>>
    <3>1. h.last_seq = 0 /\ h.last_hash = Genesis
      BY <1>1, <2>2 DEF Tally
    <3> QED
      BY Zenon, <1>1, <2>1, <2>2, <3>1 DEF HeadOK, Origin
  <2>3. CASE q # <<>>
    <3>1. Len(q) > 0 /\ Len(q) \in 1..Len(q)
      <4>1. PICK S : q \in Seq(S)
        BY <1>1 DEF TableOK, IsSeq
      <4> QED
        BY <2>3, <4>1
    <3>2. q[Len(q)].seq = Len(q) /\ Len(q) = h.last_seq /\ q[Len(q)].hash = h.last_hash
      BY Zenon, <1>1, <1>3, <3>1 DEF LinkedTo, Tally
    <3> QED
      BY Zenon, <1>1, <2>1, <2>3, <3>2 DEF HeadOK
  <2> QED
    BY Zenon, <2>2, <2>3
<1> QED
  BY Zenon, <1>4, <1>5 DEF Clean, w, h

\* A damaged chain is never found valid.
LEMMA DamageSeen ==
  ASSUME IInv, VInv, NEW t \in Tenants, purges[t] = 0, ~Intact(t)
  PROVE  Verdict(Walk(t), head[t]) # "valid"
<1> DEFINE q == rows[t]
           w == Walk(t)
           h == head[t]
<1> SUFFICES ASSUME Verdict(w, h) = "valid" PROVE FALSE
  OBVIOUS
<1>1. /\ \A i \in DOMAIN w : Broken(w, i) = "none"
      /\ ~(Len(w) >= MaxWalk)
      /\ h = (IF w = <<>> THEN Origin ELSE [last_seq |-> w[Len(w)].seq, last_hash |-> w[Len(w)].hash])
  BY Zenon DEF Verdict
<1>2. /\ Len(w) \in Nat /\ Len(q) \in Nat /\ DOMAIN q = 1..Len(q) /\ (Len(w) < MaxWalk => w = q)
  BY Zenon, WalkIsPrefix
<1>3. w = q
  <2>1. Len(w) \in Nat /\ MaxWalk \in Nat /\ ~(Len(w) >= MaxWalk)
    BY Zenon, <1>1, <1>2, BoundAssumption
  <2> HIDE DEF w, q, h
  <2>2. Len(w) < MaxWalk
    BY <2>1
  <2> QED
    BY Zenon, <1>2, <2>2
<1>4. TableOK(q) /\ \A i \in DOMAIN q : Sealed(q[i])
  BY Zenon DEF IInv, VInv
<1>5. Len(q) < h.last_seq \/ \E i \in DOMAIN q : q[i].ev.detail = "altered"
  BY Zenon DEF VInv, Tally
<1> HIDE DEF q, w, h
<1>6. \A i \in DOMAIN q : /\ q[i].seq = i
                          /\ compute_event_hash(canonical_event(q[i].ev, q[i].seq), q[i].prev) = q[i].hash
  BY <1>1, <1>3 DEF Broken
<1>7. CASE Len(q) < h.last_seq
  <2>1. CASE q = <<>>
    BY <1>1, <1>3, <1>7, <2>1 DEF Origin
  <2>2. CASE q # <<>>
    <3>1. Len(q) \in DOMAIN q
      <4>1. PICK S : q \in Seq(S)
        BY <1>4 DEF TableOK, IsSeq
      <4> QED
        BY <2>2, <4>1
    <3> QED
      BY <1>1, <1>2, <1>3, <1>6, <1>7, <2>2, <3>1
  <2> QED
    BY Zenon, <2>1, <2>2
<1>8. CASE \E i \in DOMAIN q : q[i].ev.detail = "altered"
  BY Zenon, <1>4, <1>6, <1>8, Recomputed
<1> QED
  BY <1>5, <1>7, <1>8

\* The verdicts are true where both invariants hold.
LEMMA VSound == IInv /\ VInv => VerdictTrue
<1> SUFFICES ASSUME IInv, VInv, NEW t \in Tenants, purges[t] = 0
             PROVE  IF Intact(t) THEN verifier[t].verdict \in {"none", "valid", "truncated"}
                                 ELSE Verdict(Walk(t), head[t]) # "valid"
  BY DEF VerdictTrue
<1> QED
  BY Zenon, DamageSeen DEF VInv, VerifierOK

\* Empty tables, no verdict yet.
LEMMA VBegins == Init => VInv
<1> SUFFICES ASSUME Init PROVE VInv
  OBVIOUS
<1>1. <<>> \in Seq(Canonical) /\ DOMAIN <<>> = {} /\ Len(<<>>) = 0
  OBVIOUS
<1>2. ASSUME NEW t \in Tenants
      PROVE  /\ rows[t] = <<>> /\ head[t].last_seq = 0 /\ head[t].last_hash = Genesis
             /\ head[t] = Origin /\ Intact(t) /\ verifier[t].verdict = "none" /\ verifier[t].pc = "idle"
  BY Zenon DEF Init, Origin, Intact
<1>3. HeadOK(Origin)
  <2>1. Origin.last_seq = 0 /\ Origin.last_hash = <<>>
    BY DEF Origin, Genesis
  <2>2. Origin = [last_seq |-> Origin.last_seq, last_hash |-> Origin.last_hash]
    BY <2>1 DEF Origin, Genesis
  <2> QED
    BY Zenon, <1>1, <2>1, <2>2 DEF HeadOK
<1> QED
  BY <1>1, <1>2, <1>3 DEF VInv, Tally, VerifierOK

\* Steps that leave the tables and the verifier alone.
LEMMA VStays ==
  ASSUME VInv, UNCHANGED <<rows, head, verifier, damage, purges>>
  PROVE  VInv'
<1>1. \A t : Intact(t)' = Intact(t)
  BY Zenon DEF Intact
<1> QED
  BY <1>1 DEF VInv

\* The verifier's own steps.
LEMMA VVerifier ==
  ASSUME IInv, VInv, NEW t \in Tenants, VerifyReadRows(t) \/ VerifyReadHead(t)
  PROVE  VInv'
<1>1. UNCHANGED <<rows, head, damage, purges>> /\ DOMAIN verifier = Tenants
      /\ DOMAIN verifier[t] = {"pc", "rows", "head", "verdict"}
  BY Zenon DEF VerifyReadRows, VerifyReadHead, IInv, Shapes
<1>2. \A u \in Tenants : u # t => verifier'[u] = verifier[u]
  BY Zenon, <1>1 DEF VerifyReadRows, VerifyReadHead
<1>3. ASSUME purges[t] = 0, Intact(t) PROVE VerifierOK(verifier'[t])
  <2>1. CASE VerifyReadRows(t)
    <3>1. verifier'[t] = [pc |-> "walked", rows |-> Walk(t), head |-> head[t], verdict |-> "none"]
      BY Zenon, <1>1, <2>1 DEF VerifyReadRows
    <3>2. Clean(Walk(t), head[t])
      BY Zenon, <1>3, CleanWalk
    <3> DEFINE v == verifier'[t]
    <3>3. v.pc = "walked" /\ v.rows = Walk(t) /\ v.head = head[t] /\ v.verdict = "none"
      BY <3>1
    <3> HIDE DEF v
    <3>4. VerifierOK(v)
      BY Zenon, <3>2, <3>3 DEF VerifierOK
    <3> QED
      BY Zenon, <3>4 DEF v
  <2>2. CASE VerifyReadHead(t)
    <3> DEFINE v == Verdict(verifier[t].rows, verifier[t].head)
    <3>1. verifier[t].pc = "walked" /\ Clean(verifier[t].rows, verifier[t].head)
      BY Zenon, <1>3, <2>2 DEF VerifyReadHead, VInv, VerifierOK
    <3>2. v \in {"valid", "truncated"}
      BY Zenon, <3>1 DEF Clean, Verdict
    <3> HIDE DEF v
    <3>3. verifier'[t].verdict = v /\ verifier'[t].pc = "done"
      BY <1>1, <2>2 DEF VerifyReadHead, v
    <3> QED
      BY Zenon, <3>2, <3>3 DEF VerifierOK
  <2> QED
    BY Zenon, <2>1, <2>2
<1>4. \A u : Intact(u)' = Intact(u)
  BY <1>1 DEF Intact
<1> QED
  BY Zenon, <1>1, <1>2, <1>3, <1>4 DEF VInv

\* Steps outside the protocol.
LEMMA VLoss ==
  ASSUME IInv, VInv, NEW t \in Tenants, UNCHANGED <<head, verifier>>,
         NEW q, rows' = [rows EXCEPT ![t] = q], \A i \in DOMAIN q : Sealed(q[i]),
         \A u \in Tenants : u # t => damage'[u] = damage[u] /\ purges'[u] = purges[u],
         purges'[t] # 0 \/ (~Intact(t)' /\ Tally(q, head[t], FALSE))
  PROVE  VInv'
<1>1. rows'[t] = q /\ \A u \in Tenants : u # t => rows'[u] = rows[u]
  BY DEF IInv, Shapes
<1>2. \A u \in Tenants : u # t => Intact(u)' = Intact(u)
  BY Zenon DEF Intact
<1>3. ASSUME NEW u \in Tenants
      PROVE  (HeadOK(head[u]) /\ \A i \in DOMAIN rows[u] : Sealed(rows[u][i]))'
  BY Zenon, <1>1 DEF VInv
<1>4. ASSUME NEW u \in Tenants, purges'[u] = 0
      PROVE  (Tally(rows[u], head[u], Intact(u)) /\ (Intact(u) => VerifierOK(verifier[u])))'
  <2>1. CASE u = t
    BY ZenonT(60), <1>1, <1>4, <2>1 DEF Tally
  <2>2. CASE u # t
    BY <1>1, <1>2, <1>4, <2>2 DEF VInv
  <2> QED
    BY Zenon, <2>1, <2>2
<1> QED
  BY ZenonT(60), <1>3, <1>4 DEF VInv

\* After a purge nothing is claimed of the tenant.
LEMMA VPurge == ASSUME IInv, VInv, NEW t \in Tenants, Purge(t) PROVE VInv'
<1>1. /\ UNCHANGED <<head, verifier>> /\ rows' = [rows EXCEPT ![t] = <<>>]
      /\ \A u \in Tenants : u # t => damage'[u] = damage[u] /\ purges'[u] = purges[u]
      /\ purges'[t] # 0
  BY BoundAssumption DEF Purge, IInv, Shapes
<1>2. \A i \in DOMAIN <<>> : Sealed(<<>>[i])
  OBVIOUS
<1> QED
  BY Zenon, <1>1, <1>2, VLoss

\* A deleted or altered row leaves the count or the text wrong.
LEMMA VDamage == ASSUME IInv, VInv, NEW t \in Tenants, Damage(t) PROVE VInv'
<1> DEFINE p == rows[t]
<1>1. TableOK(p) /\ \A i \in DOMAIN p : Sealed(p[i])
  BY DEF IInv, VInv
<1>2. /\ UNCHANGED <<head, verifier, purges>> /\ ~Intact(t)'
      /\ \A u \in Tenants : u # t => damage'[u] = damage[u] /\ purges'[u] = purges[u]
  BY BoundAssumption DEF Damage, IInv, Shapes, Intact
<1>3. PICK i \in DOMAIN p : \/ rows' = [rows EXCEPT ![t] = Without(@, i)]
                            \/ rows' = [rows EXCEPT ![t][i].ev.detail = "altered"]
  BY Zenon DEF Damage
<1>4. Len(p) \in Nat /\ DOMAIN p = 1..Len(p) /\ head[t].last_seq \in Nat
  BY Zenon, <1>1, SeqBasics DEF TableOK, IInv, Shapes
<1>5. purges[t] = 0 => Len(p) <= head[t].last_seq
  BY DEF VInv, Tally
<1>6. CASE rows' = [rows EXCEPT ![t] = Without(@, i)]
  <2> DEFINE q == Without(p, i)
             f == [k \in DOMAIN q |-> IF k < i THEN k ELSE k + 1]
  <2>1. Len(q) = Len(p) - 1 /\ \A k \in DOMAIN q : f[k] \in DOMAIN p /\ q[k] = p[f[k]]
    BY ZenonT(60), <1>1, <1>3, Removed DEF TableOK
  <2>2. rows' = [rows EXCEPT ![t] = q]
    BY Zenon, <1>6
  <2> HIDE DEF q, f
  <2>3. \A k \in DOMAIN q : Sealed(q[k])
    BY Zenon, <1>1, <2>1
  <2>4. purges[t] = 0 => Tally(q, head[t], FALSE)
    BY <1>4, <1>5, <2>1 DEF Tally
  <2> QED
    BY Zenon, <1>2, <2>2, <2>3, <2>4, VLoss
<1>7. CASE rows' = [rows EXCEPT ![t][i].ev.detail = "altered"]
  <2> DEFINE x == [p[i] EXCEPT !.ev.detail = "altered"]
             q == [p EXCEPT ![i] = x]
  <2>1. /\ x.prev = p[i].prev /\ x.hash = p[i].hash /\ x.seq = p[i].seq
        /\ x.ev.event = p[i].ev.event /\ x.ev.resource_id = p[i].ev.resource_id /\ x.ev.detail = "altered"
    BY ZenonT(60), <1>1, <1>3 DEF TableOK, RowOK
  <2>2. rows' = [rows EXCEPT ![t] = q]
    BY ZenonT(60), <1>7
  <2> HIDE DEF x
  <2>3. Sealed(x)
    BY Zenon, <1>1, <1>3, <2>1 DEF Sealed, Canon
  <2>4. PICK S : p \in Seq(S)
    BY Zenon, <1>1 DEF TableOK, IsSeq
  <2>5. q \in Seq(S \cup {x}) /\ Len(q) = Len(p) /\ DOMAIN q = DOMAIN p
    <3>1. Len(p) \in Nat /\ p \in [1..Len(p) -> S]
      BY <2>4
    <3>2. q \in [1..Len(p) -> S \cup {x}]
      BY Zenon, <3>1
    <3> QED
      BY <3>1, <3>2, FunctionIsSeq
  <2>6. q[i] = x /\ \A k \in DOMAIN q : Sealed(q[k])
    BY Zenon, <1>1, <1>3, <2>3, <2>5
  <2> HIDE DEF q
  <2>7. purges[t] = 0 => Tally(q, head[t], FALSE)
    BY Zenon, <1>3, <1>5, <2>1, <2>5, <2>6 DEF Tally
  <2> QED
    BY Zenon, <1>2, <2>2, <2>6, <2>7, VLoss
<1> QED
  BY ZenonT(60), <1>3, <1>6, <1>7

\* The hash after i events with the canonical forms c, from the hash p.
HashOf(p, c, i) == p \o [k \in 1..i |-> c[k]]

\* The hash of a run of events is that of the run before its last, with the last added.
LEMMA Hashed ==
  ASSUME NEW S, NEW p \in Seq(S), NEW c, NEW i \in Nat \ {0}, \A k \in 1..i : c[k] \in S
  PROVE  /\ HashOf(p, c, i) \in Seq(S)
         /\ HashOf(p, c, i) = Append(IF i - 1 = 0 THEN p ELSE HashOf(p, c, i - 1), c[i])
<1> DEFINE a == [k \in 1..i |-> c[k]]
           b == [k \in 1..(i - 1) |-> c[k]]
           l == IF i - 1 = 0 THEN p ELSE p \o b
<1>1. i - 1 \in Nat /\ i = (i - 1) + 1 /\ i \in 1..i /\ \A k \in 1..(i - 1) : k \in 1..i
  OBVIOUS
<1>2. a \in [1..i -> S] /\ b \in [1..(i - 1) -> S]
  BY Zenon, <1>1
<1>3. a \in Seq(S) /\ Len(a) = i /\ b \in Seq(S) /\ Len(b) = i - 1
  BY <1>1, <1>2, FunctionIsSeq
<1>4. a[i] = c[i] /\ c[i] \in S /\ \A k \in 1..(i - 1) : a[k] = c[k] /\ b[k] = c[k]
  BY Zenon, <1>1
<1> HIDE DEF a, b
<1>5. /\ l \in Seq(S) /\ Len(l) = Len(p) + (i - 1) /\ Len(p) \in Nat
      /\ \A k \in 1..Len(p) : l[k] = p[k]
      /\ \A k \in 1..(i - 1) : l[Len(p) + k] = b[k]
  BY <1>1, <1>3
<1> HIDE DEF l
<1>6. /\ Append(l, c[i]) \in Seq(S) /\ Len(Append(l, c[i])) = Len(p) + i
      /\ Append(l, c[i])[Len(p) + i] = c[i]
      /\ \A k \in 1..(Len(p) + (i - 1)) : Append(l, c[i])[k] = l[k]
  BY <1>1, <1>4, <1>5
<1>7. /\ p \o a \in Seq(S) /\ Len(p \o a) = Len(p) + i
      /\ \A k \in 1..Len(p) : (p \o a)[k] = p[k]
      /\ \A k \in 1..i : (p \o a)[Len(p) + k] = a[k]
  BY SMTT(30), <1>1, <1>3
<1>8. ASSUME NEW k \in 1..(Len(p) + i) PROVE (p \o a)[k] = Append(l, c[i])[k]
  <2>1. CASE k \in 1..Len(p)
    <3>1. k \in 1..(Len(p) + (i - 1))
      BY <2>1, <1>1, <1>5
    <3> QED
      BY Zenon, <2>1, <3>1, <1>5, <1>6, <1>7
  <2>2. CASE k = Len(p) + i
    BY Zenon, <2>2, <1>1, <1>4, <1>6, <1>7
  <2>3. CASE k \notin 1..Len(p) /\ k # Len(p) + i
    <3>1. PICK j \in 1..(i - 1) : k = Len(p) + j
      <4>1. k - Len(p) \in 1..(i - 1) /\ k = Len(p) + (k - Len(p))
        BY <2>3, <1>1, <1>5
      <4> QED
        BY Zenon, <4>1
    <3>2. k \in 1..(Len(p) + (i - 1)) /\ j \in 1..i
      BY <3>1, <1>1, <1>5
    <3> QED
      BY <3>1, <3>2, <1>4, <1>5, <1>6, <1>7
  <2> QED
    BY Zenon, <2>1, <2>2, <2>3
<1>9. p \o a = Append(l, c[i])
  BY <1>6, <1>7, <1>8
<1> QED
  BY Zenon, <1>7, <1>9 DEF a, b, l, HashOf

\* The hashes of the rows that a commit appends.
LEMMA FreshSealed ==
  ASSUME IInv, VInv, NEW x \in Attempts, txn[x].pc = "locked", NEW stored \in Stored(Fresh(x))
  PROVE  /\ \A i \in 1..Len(Fresh(x)) : /\ Sealed(NewRow(x, i, stored[i]))
                                        /\ NewRow(x, i, stored[i]).ev.detail # "altered"
         /\ PrevAt(x, Len(Fresh(x))) \in Seq(Canonical)
<1> DEFINE f == Fresh(x)
           n == Len(f)
           p == txn[x].prev
           c == [k \in 1..n |-> <<txn[x].seq + k, f[k], "1", "lower">>]
<1>1. p \in Seq(Canonical) /\ txn[x].seq \in Nat
  <2>1. T(x) \in Tenants /\ HolderOK(x)
    BY Zenon, AttemptsType DEF IInv, AttemptOK
  <2> QED
    BY Zenon, <2>1 DEF HolderOK, VInv, HeadOK, IInv, Shapes
<1>2. n \in Nat /\ \A i \in 1..n : f[i] \in Events
  <2>1. x[1] \in Batches /\ txn[x].chained \in SUBSET Range(EventsOf[x[1]])
    BY Zenon, AttemptsType DEF IInv, Shapes, Whole
  <2>2. f \in Seq(Events)
    BY Zenon, <2>1, SurvivorsAssumption DEF Fresh
  <2> QED
    BY <2>2
<1>3. \A k \in 1..n : c[k] \in Canonical /\ c[k] = canonical_event(Written(f[k]), txn[x].seq + k)
  BY SMTT(30), <1>1, <1>2 DEF Canonical, canonical_event, Written, normalise_numbers, canonical_resource_id
<1>4. ASSUME NEW i \in 1..n PROVE HashAt(x, i) = HashOf(p, c, i)
  <2>1. \A k \in 1..i : k \in 1..n
    BY <1>2
  <2>2. [k \in 1..i |-> canonical_event(Written(Fresh(x)[k]), txn[x].seq + k)] = [k \in 1..i |-> c[k]]
    BY Zenon, <2>1, <1>3
  <2> QED
    BY Zenon, <2>2 DEF HashAt, HashOf
<1> HIDE DEF c, p
<1>5. ASSUME NEW i \in 1..n
      PROVE  HashOf(p, c, i) \in Seq(Canonical) /\ HashOf(p, c, i) = Append(IF i - 1 = 0 THEN p ELSE HashOf(p, c, i - 1), c[i])
  <2>1. i \in Nat \ {0} /\ \A k \in 1..i : k \in 1..n
    BY <1>2
  <2>2. \A k \in 1..i : c[k] \in Canonical
    BY Zenon, <2>1, <1>3
  <2> QED
    BY SMTT(30), <2>1, <2>2, <1>1, Hashed
<1>6. ASSUME NEW i \in 1..n
      PROVE  PrevAt(x, i - 1) \in Seq(Canonical) /\ HashAt(x, i) = Append(PrevAt(x, i - 1), c[i])
  <2>1. CASE i - 1 = 0
    BY Zenon, <2>1, <1>1, <1>4, <1>5 DEF PrevAt, p
  <2>2. CASE i - 1 # 0
    <3>1. i - 1 \in 1..n
      BY <2>2, <1>2
    <3>2. PrevAt(x, i - 1) = HashOf(p, c, i - 1)
      BY Zenon, <2>2, <3>1, <1>4 DEF PrevAt
    <3> QED
      BY Zenon, <2>2, <3>1, <3>2, <1>4, <1>5
  <2> QED
    BY Zenon, <2>1, <2>2
<1>7. ASSUME NEW i \in 1..n
      PROVE  Sealed(NewRow(x, i, stored[i])) /\ NewRow(x, i, stored[i]).ev.detail # "altered"
  <2>1. /\ stored[i].event = f[i] /\ stored[i].detail \in {"1.0", "1"} /\ stored[i].resource_id = "lower"
    <3>1. i \in DOMAIN f
      <4>1. x[1] \in Batches /\ txn[x].chained \in SUBSET Range(EventsOf[x[1]])
        BY Zenon, AttemptsType DEF IInv, Shapes, Whole
      <4>2. f \in Seq(Events)
        BY Zenon, <4>1, SurvivorsAssumption DEF Fresh
      <4> QED
        BY <4>2
    <3> QED
      BY <3>1 DEF Stored
  <2>2. c[i] = <<txn[x].seq + i, f[i], "1", "lower">>
    BY Zenon DEF c
  <2> QED
    BY ZenonT(60), <2>1, <2>2, <1>6 DEF Sealed, NewRow, Canon
<1>8. PrevAt(x, n) \in Seq(Canonical)
  <2>1. CASE n = 0
    BY Zenon, <2>1, <1>1 DEF PrevAt, p
  <2>2. CASE n # 0
    <3>1. n \in Nat
      BY Zenon, <1>2
    <3> HIDE DEF n
    <3>2. n \in 1..n
      BY <2>2, <3>1
    <3> QED
      BY Zenon, <2>2, <3>2, <1>4, <1>5 DEF PrevAt
  <2> QED
    BY Zenon, <2>1, <2>2
<1> QED
  BY ZenonT(60), <1>7, <1>8

\* The commit extends a chain that the verifier accepts to one it accepts.
LEMMA VCommit == ASSUME IInv, VInv, NEW x \in Attempts, Commit(x) PROVE VInv'
<1> DEFINE t == T(x)
           f == Fresh(x)
           n == Len(f)
           q == rows[t]
           g == head[t]
           h == [last_seq |-> txn[x].seq + n, last_hash |-> PrevAt(x, n)]
<1>1. PICK stored \in Stored(f) :
         rows' = [rows EXCEPT ![t] = q \o [i \in 1..n |-> NewRow(x, i, stored[i])]]
  BY Zenon DEF Commit, T
<1> DEFINE u == [i \in 1..n |-> NewRow(x, i, stored[i])]
           w == q \o u
<1>2. /\ txn[x].pc = "locked" /\ head' = [head EXCEPT ![t] = h]
      /\ UNCHANGED <<verifier, damage, purges>>
  BY Zenon DEF Commit, T
<1>3. t \in Tenants
  BY Zenon, AttemptsType
<1>4. /\ TableOK(q) /\ txn[x].seq = g.last_seq /\ g.last_seq \in Nat /\ txn[x].prev = g.last_hash
      /\ \A i \in DOMAIN q : Sealed(q[i])
      /\ purges[t] = 0 => Tally(q, g, Intact(t))
  BY ZenonT(60), <1>2, <1>3 DEF IInv, AttemptOK, HolderOK, Shapes, VInv
<1>5. n \in Nat /\ IsSeq(u) /\ Len(u) = n /\ \A i \in 1..n : u[i] = NewRow(x, i, stored[i])
  BY Zenon, <1>2, FreshRows
<1>6. /\ \A i \in 1..n : Sealed(u[i]) /\ u[i].ev.detail # "altered"
      /\ PrevAt(x, n) \in Seq(Canonical)
  BY Zenon, <1>2, <1>5, FreshSealed
<1>7. ASSUME n # 0 PROVE 1 \in 1..n /\ u[1].prev = g.last_hash
  <2>1. 1 \in 1..n /\ 1 - 1 = 0
    BY <1>5, <1>7
  <2>2. u[1] = NewRow(x, 1, stored[1])
    BY Zenon, <2>1, <1>5
  <2> QED
    BY Zenon, <2>1, <2>2, <1>4 DEF NewRow, PrevAt
<1>8. n = 0 => h.last_hash = g.last_hash
  BY Zenon, <1>4 DEF PrevAt
<1>9. h.last_seq = g.last_seq + n /\ HeadOK(h)
  BY Zenon, <1>4, <1>6 DEF HeadOK
<1>10. /\ rows'[t] = w /\ head'[t] = h
       /\ \A v \in Tenants : v # t => rows'[v] = rows[v] /\ head'[v] = head[v]
       /\ \A v \in Tenants : Intact(v)' = Intact(v)
  BY ZenonT(60), <1>1, <1>2, <1>3 DEF IInv, Shapes, Intact
<1> HIDE DEF u, n, f
<1>11. Joined(w, q, u)
  BY Zenon, <1>4, <1>5, Concatenated DEF TableOK
<1>12. \A k \in DOMAIN w : Sealed(w[k])
  <2> HIDE DEF w, q
  <2> QED
    BY Zenon, <1>4, <1>5, <1>6, <1>11 DEF Joined
<1>13. ASSUME purges[t] = 0 PROVE Tally(w, h, Intact(t))
  <2>1. Tally(q, g, Intact(t))
    BY <1>4, <1>13
  <2> HIDE DEF w, q, h, g
  <2>2. Len(q) \in Nat /\ Len(w) = Len(q) + n /\ DOMAIN q = 1..Len(q) /\ DOMAIN w = 1..(Len(q) + n)
    BY Zenon, <1>5, <1>11 DEF Joined
  <2>3. Len(w) <= h.last_seq /\ (Intact(t) => Len(w) = h.last_seq) /\ (Len(q) < g.last_seq => Len(w) < h.last_seq)
    <3>1. Len(q) <= g.last_seq /\ (Intact(t) => Len(q) = g.last_seq)
      BY Zenon, <2>1 DEF Tally
    <3>2. /\ h.last_seq = g.last_seq + n /\ g.last_seq \in Nat /\ n \in Nat
          /\ Len(q) \in Nat /\ Len(w) = Len(q) + n
      BY Zenon, <1>4, <1>5, <1>9, <2>2
    <3> QED
      BY <3>1, <3>2
  <2>4. ASSUME Intact(t), NEW k \in DOMAIN w PROVE w[k].ev.detail # "altered"
    BY ZenonT(60), <2>1, <2>2, <2>4, <1>5, <1>6, <1>11 DEF Tally, Joined
  <2>5. ASSUME NEW k \in DOMAIN q, q[k].ev.detail = "altered" PROVE \E i \in DOMAIN w : w[i].ev.detail = "altered"
    <3>1. k \in DOMAIN w
      BY <2>2, <1>5
    <3>2. w[k] = q[k]
      BY <2>2, <1>11 DEF Joined
    <3> QED
      BY Zenon, <3>1, <3>2, <2>5
  <2>6. ASSUME Intact(t) PROVE IF w = <<>> THEN h.last_hash = Genesis ELSE w[1].prev = Genesis
    <3>1. \A s : IsSeq(s) => (s = <<>> <=> Len(s) = 0)
      BY DEF IsSeq
    <3>2. (q = <<>> <=> Len(q) = 0) /\ (w = <<>> <=> Len(w) = 0)
      BY ZenonT(60), <3>1, <1>4, <1>11 DEF Joined, TableOK
    <3>3. CASE q = <<>> /\ n = 0
      BY <3>2, <3>3, <2>1, <2>2, <2>6, <1>8 DEF Tally
    <3>4. CASE q = <<>> /\ n # 0
      <4>1. w # <<>> /\ Len(q) + 1 = 1
        BY <3>2, <3>4, <2>2, <1>5
      <4>2. w[1] = u[1]
        BY <4>1, <3>4, <1>5, <1>7, <1>11 DEF Joined
      <4> QED
        BY <4>1, <4>2, <3>4, <2>1, <2>6, <1>7 DEF Tally
    <3>5. CASE q # <<>>
      <4>1. w # <<>> /\ 1 \in 1..Len(q)
        BY <3>2, <3>5, <2>2, <1>5
      <4>2. w[1] = q[1]
        BY Zenon, <4>1, <1>11 DEF Joined
      <4> QED
        BY Zenon, <4>1, <4>2, <3>5, <2>1, <2>6 DEF Tally
    <3> QED
      BY <3>3, <3>4, <3>5
  <2> QED
    BY ZenonT(60), <2>1, <2>3, <2>4, <2>5, <2>6 DEF Tally
<1> HIDE DEF w, h, q
<1>14. ASSUME NEW v \in Tenants
       PROVE  (HeadOK(head[v]) /\ \A i \in DOMAIN rows[v] : Sealed(rows[v][i]))'
  BY Zenon, <1>9, <1>10, <1>12 DEF VInv
<1>15. ASSUME NEW v \in Tenants, purges[v] = 0
       PROVE  (Tally(rows[v], head[v], Intact(v)) /\ (Intact(v) => VerifierOK(verifier[v])))'
  BY Zenon, <1>2, <1>10, <1>13, <1>15 DEF VInv
<1> QED
  BY Zenon, <1>2, <1>14, <1>15 DEF VInv

\* Every step keeps the invariant of the verdicts.
LEMMA VKeeps == IInv /\ VInv /\ [Next]_vars => VInv'
<1> SUFFICES ASSUME IInv, VInv, [Next]_vars PROVE VInv'
  OBVIOUS
<1>1. CASE \E b \in Batches : Send(b) \/ Receive(b) \/ Timeout(b)
  BY <1>1, VStays DEF Send, Receive, Timeout
<1>2. CASE \E a \in Attempts : Lock(a) \/ Abort(a)
  BY Zenon, <1>2, VStays DEF Lock, Abort
<1>3. CASE \E a \in Attempts : Commit(a)
  BY <1>3, VCommit
<1>4. CASE \E t \in Tenants : Purge(t) \/ Damage(t) \/ VerifyReadRows(t) \/ VerifyReadHead(t)
  BY <1>4, VPurge, VDamage, VVerifier
<1>5. CASE UNCHANGED vars
  BY Zenon, <1>5, VStays DEF vars
<1> QED
  BY Zenon, <1>1, <1>2, <1>3, <1>4, <1>5 DEF Next

(***************************************************************************)
(* For any tenants, batches and limits, the verifier (audit_verify_chain)  *)
(* never reports a break in a chain that the application alone has written, *)
(* however its walk interleaves with appends, and a chain that lost or     *)
(* changed a row never passes as valid, whatever was appended afterwards.  *)
(* A purged tenant is the exception: its rows go and its head stays.       *)
(***************************************************************************)
THEOREM VerdictIsTrue == Spec => []VerdictTrue
<1>1. Init => IInv /\ VInv
  BY Zenon, IInvInit, VBegins
<1>2. IInv /\ VInv /\ [Next]_vars => IInv' /\ VInv'
  BY IInvStep, VKeeps
<1>3. IInv /\ VInv => VerdictTrue
  BY VSound
<1> QED
  BY <1>1, <1>2, <1>3, PTL DEF Spec
=============================================================================
