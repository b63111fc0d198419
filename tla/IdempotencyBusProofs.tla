------------------------ MODULE IdempotencyBusProofs ------------------------
(***************************************************************************)
(* Safety of the idempotency inbox, for any set of requests, any hashes and  *)
(* any poll budget, and of the lifecycle of the event bus, for any           *)
(* publishers and any number of starts and stops.                            *)
(***************************************************************************)
EXTENDS Idempotency, PubSubBus, TLAPS

-----------------------------------------------------------------------------
(* The inbox.                                                                *)

\* A request past its claim has started its handler.
RunnersExecuted ==
    \A r \in Requests :
        pc[r] \in {"handler", "record", "insert", "select"} => r \in executed

\* A complete row carries the response of an executed request of its own hash.
RowFaithful ==
    (row # NoRow /\ ~row.is_pending) =>
        /\ row.response_body \in executed
        /\ HashOf[row.response_body] = row.request_hash

\* A live answer is the response of the request that executed.
LiveFaithful ==
    \A r \in Requests :
        answer[r].kind = "live" => answer[r].body = r /\ r \in executed

\* A request that may still poll has budget left.
PollBudget ==
    \A r \in Requests : pc[r] \in {"lookup", "claim", "conflict", "poll"} => polls[r] > 0

\* Only a finished request has an answer.
Unanswered ==
    \A r \in Requests : pc[r] \notin {"done", "crashed"} => answer[r].kind = "none"

\* Until a row lapses, every undegraded executor is the claimant of the row.
ClaimantExecuted ==
    ~lapsed =>
        /\ row # NoRow => ~row.expired
        /\ \A r \in executed \ degraded : row # NoRow /\ row.claimant = r

IInv ==
    /\ TypeOK
    /\ PollBudget
    /\ Unanswered
    /\ RunnersExecuted
    /\ RowFaithful
    /\ LiveFaithful
    /\ ReplayFaithful
    /\ ClaimantExecuted

-----------------------------------------------------------------------------
\* An empty table, no request under way.
LEMMA InitIInv == Init => IInv
<1> SUFFICES ASSUME Init PROVE IInv
  OBVIOUS
<1>1. TypeOK
  <2>1. answer \in [Requests -> [kind : Kinds, body : Bodies]]
    BY DEF Init, Answer, Bodies, Kinds
  <2>2. pc \in [Requests -> PCs] /\ polls \in [Requests -> 0..MaxPolls]
    BY PollAssumption DEF Init, PCs
  <2> QED
    BY Zenon, <2>1, <2>2 DEF Init, TypeOK
<1>2. RunnersExecuted /\ LiveFaithful /\ ReplayFaithful /\ PollBudget /\ Unanswered
  BY PollAssumption DEF Init, PollBudget, Unanswered, RunnersExecuted, LiveFaithful, ReplayFaithful, Answer
<1>3. RowFaithful /\ ClaimantExecuted
  BY DEF Init, RowFaithful, ClaimantExecuted
<1> QED
  BY <1>1, <1>2, <1>3 DEF IInv

\* What the claim and the record's INSERT write.
LEMMA WrittenRows ==
    ASSUME NEW r \in Requests
    PROVE  /\ PendingRow(r) \in Rows /\ PendingRow(r) # NoRow
           /\ PendingRow(r).is_pending /\ ~PendingRow(r).expired
           /\ PendingRow(r).claimant = r
           /\ CompleteRow(r) \in Rows /\ CompleteRow(r) # NoRow
           /\ ~CompleteRow(r).is_pending /\ ~CompleteRow(r).expired
           /\ CompleteRow(r).claimant = r
           /\ CompleteRow(r).response_body = r /\ CompleteRow(r).request_hash = HashOf[r]
<1>1. PendingRow(r) \in Rows /\ CompleteRow(r) \in Rows
  BY HashAssumption DEF PendingRow, CompleteRow, Rows, Bodies
<1> QED
  BY Zenon, <1>1, NoRowAssumption DEF PendingRow, CompleteRow

\* Expiry changes nothing else of a row.
LEMMA ExpiredRow ==
    ASSUME NEW old \in Rows, NEW new, new = [old EXCEPT !.expired = TRUE]
    PROVE  /\ new \in Rows /\ new # NoRow
           /\ new.is_pending = old.is_pending
           /\ new.response_body = old.response_body
           /\ new.request_hash = old.request_hash
<1>1. new \in Rows
  BY Zenon DEF Rows
<1> QED
  BY Zenon, <1>1, NoRowAssumption DEF Rows

\* The fields of a row.
LEMMA RowFields ==
    ASSUME NEW old \in Rows
    PROVE  /\ old.request_hash \in Hashes /\ old.response_body \in Bodies
           /\ old.is_pending \in BOOLEAN /\ old.expired \in BOOLEAN /\ old.claimant \in Requests
  BY DEF Rows

\* A request is given an answer that is none of a handler that ran for it.
LEMMA OneAnswer ==
    ASSUME IInv, NEW r \in Requests, NEW a, answer' = [answer EXCEPT ![r] = a], executed' = executed,
           a.kind # "live",
           a.kind = "replay" => a.body \in executed /\ HashOf[a.body] = HashOf[r]
    PROVE  LiveFaithful' /\ ReplayFaithful'
<1>1. answer'[r] = a /\ \A s \in Requests : s # r => answer'[s] = answer[s]
  BY Zenon DEF IInv, TypeOK
<1>2. ASSUME NEW s \in Requests
      PROVE  /\ answer'[s].kind = "live" => answer'[s].body = s /\ s \in executed'
             /\ answer'[s].kind = "replay" =>
                   answer'[s].body \in executed' /\ HashOf[answer'[s].body] = HashOf[s]
  <2>1. CASE s = r
    BY <1>1, <2>1
  <2>2. CASE s # r
    <3>1. answer'[s] = answer[s]
      BY Zenon, <1>1, <2>2
    <3> QED
      BY <3>1 DEF IInv, LiveFaithful, ReplayFaithful
  <2> QED
    BY Zenon, <2>1, <2>2
<1> QED
  BY Zenon, <1>2 DEF LiveFaithful, ReplayFaithful

\* The answer that a row already holds, or that a wait for it ends with
\* (lookup, the read after a lost claim, and poll).
LEMMA AnswersFaithful ==
    ASSUME IInv, NEW r \in Requests, Lookup(r) \/ ReadConflict(r) \/ Poll(r)
    PROVE  LiveFaithful' /\ ReplayFaithful'
<1>1. executed' = executed
  BY Zenon DEF Lookup, ReadConflict, Poll
<1>2. \/ answer' = answer
      \/ answer' = [answer EXCEPT ![r] = Answer("409", NoBody)]
      \/ row # NoRow /\ (row.is_pending => row.request_hash # HashOf[r]) /\ ReplayOrReject(r)
  BY Zenon DEF Lookup, ReadConflict, Poll, Goto, Finish, Live
<1>3. CASE answer' = answer
  BY Zenon, <1>1, <1>3 DEF IInv, LiveFaithful, ReplayFaithful
<1>4. CASE answer' = [answer EXCEPT ![r] = Answer("409", NoBody)]
  <2>1. Answer("409", NoBody).kind = "409"
    BY DEF Answer
  <2> QED
    BY Zenon, <1>1, <1>4, <2>1, OneAnswer
<1>5. CASE row # NoRow /\ (row.is_pending => row.request_hash # HashOf[r]) /\ ReplayOrReject(r)
  <2>1. CASE row.request_hash = HashOf[r]
    <3> DEFINE a == Answer("replay", row.response_body)
    <3>1. a.kind = "replay" /\ a.body = row.response_body
      BY DEF Answer
    <3>2. answer' = [answer EXCEPT ![r] = a]
      BY Zenon, <1>5, <2>1 DEF ReplayOrReject, Finish
    <3>3. row.response_body \in executed /\ HashOf[row.response_body] = HashOf[r]
      BY Zenon, <1>5, <2>1 DEF IInv, RowFaithful
    <3> HIDE DEF a
    <3> QED
      BY Zenon, <1>1, <3>1, <3>2, <3>3, OneAnswer
  <2>2. CASE row.request_hash # HashOf[r]
    <3>1. Answer("422", NoBody).kind = "422"
      BY DEF Answer
    <3>2. answer' = [answer EXCEPT ![r] = Answer("422", NoBody)]
      BY Zenon, <1>5, <2>2 DEF ReplayOrReject, Finish
    <3> QED
      BY Zenon, <1>1, <3>1, <3>2, OneAnswer
  <2> QED
    BY Zenon, <2>1, <2>2
<1> QED
  BY Zenon, <1>2, <1>3, <1>4, <1>5

-----------------------------------------------------------------------------
\* The inductive step, one case per action.
LEMMA NextIInv == IInv /\ [Next]_vars => IInv'
<1> SUFFICES ASSUME IInv, [Next]_vars PROVE IInv'
  OBVIOUS
<1> USE HashAssumption, PollAssumption, SentinelAssumption
<1>0. row = NoRow \/ row \in Rows
  BY DEF IInv, TypeOK
<1> USE DEF IInv, TypeOK, PollBudget, Unanswered, RunnersExecuted, RowFaithful, LiveFaithful,
      ReplayFaithful, ClaimantExecuted, Answer, Bodies, PCs, Kinds, Live, Finish, Goto,
      StartHandler, ReplayOrReject
<1>1. ASSUME NEW r \in Requests, Lookup(r) PROVE IInv'
  <2>1. TypeOK'
    <3>1. row' \in Rows \cup {NoRow}
      BY Zenon, <1>0, <1>1, RowFields DEF Lookup
    <3>2. pc' \in [Requests -> PCs]
      BY SMTT(30), <1>1 DEF Lookup
    <3>3. answer' \in [Requests -> [kind : Kinds, body : Bodies]]
      BY <1>0, <1>1, RowFields DEF Lookup
    <3>4. /\ polls' \in [Requests -> 0..MaxPolls] /\ executed' \subseteq Requests
          /\ degraded' \subseteq Requests /\ lapsed' \in BOOLEAN
      BY Zenon, <1>1 DEF Lookup
    <3> QED
      BY Zenon, <3>1, <3>2, <3>3, <3>4
  <2>2. PollBudget' /\ Unanswered' /\ RunnersExecuted'
    BY <1>1 DEF Lookup
  <2>3. RowFaithful'
    BY Zenon, <1>0, <1>1, RowFields DEF Lookup
  <2>4. LiveFaithful' /\ ReplayFaithful'
    <3> HIDE DEF IInv, LiveFaithful, ReplayFaithful
    <3> QED
      BY Zenon, <1>1, AnswersFaithful
  <2>5. ClaimantExecuted'
    BY Zenon, <1>0, <1>1, RowFields DEF Lookup
  <2> HIDE DEF TypeOK, PollBudget, Unanswered, RunnersExecuted, RowFaithful, LiveFaithful,
        ReplayFaithful, ClaimantExecuted
  <2> QED
    BY <2>1, <2>2, <2>3, <2>4, <2>5
<1>2. ASSUME NEW r \in Requests, LookupFails(r) PROVE IInv'
  BY <1>0, <1>2 DEF LookupFails
<1>3. ASSUME NEW r \in Requests, Claim(r) PROVE IInv'
  <2>1. TypeOK'
    <3>1. row' \in Rows \cup {NoRow}
      BY <1>0, <1>3, WrittenRows DEF Claim
    <3>2. pc' \in [Requests -> PCs] /\ answer' \in [Requests -> [kind : Kinds, body : Bodies]]
      BY <1>0, <1>3, WrittenRows DEF Claim
    <3>3. /\ polls' \in [Requests -> 0..MaxPolls] /\ executed' \subseteq Requests
          /\ degraded' \subseteq Requests /\ lapsed' \in BOOLEAN
      BY <1>3 DEF Claim
    <3> QED
      BY Zenon, <3>1, <3>2, <3>3
  <2>2. PollBudget' /\ Unanswered' /\ RunnersExecuted'
    BY <1>3 DEF Claim
  <2>3. RowFaithful'
    BY <1>0, <1>3, WrittenRows DEF Claim
  <2>4. LiveFaithful' /\ ReplayFaithful'
    BY <1>0, <1>3, WrittenRows DEF Claim
  <2>5. ClaimantExecuted'
    BY <1>0, <1>3, WrittenRows DEF Claim
  <2> HIDE DEF TypeOK, PollBudget, Unanswered, RunnersExecuted, RowFaithful, LiveFaithful,
        ReplayFaithful, ClaimantExecuted
  <2> QED
    BY <2>1, <2>2, <2>3, <2>4, <2>5
<1>4. ASSUME NEW r \in Requests, ClaimFails(r) PROVE IInv'
  <2>1. TypeOK'
    <3>1. row' \in Rows \cup {NoRow}
      BY <1>0, <1>4, WrittenRows DEF ClaimFails
    <3>2. pc' \in [Requests -> PCs] /\ answer' \in [Requests -> [kind : Kinds, body : Bodies]]
      BY Zenon, <1>0, <1>4, WrittenRows DEF ClaimFails
    <3>3. /\ polls' \in [Requests -> 0..MaxPolls] /\ executed' \subseteq Requests
          /\ degraded' \subseteq Requests /\ lapsed' \in BOOLEAN
      BY Zenon, <1>4 DEF ClaimFails
    <3> QED
      BY Zenon, <3>1, <3>2, <3>3
  <2>2. PollBudget' /\ Unanswered' /\ RunnersExecuted'
    BY <1>4 DEF ClaimFails
  <2>3. RowFaithful'
    BY <1>0, <1>4, WrittenRows DEF ClaimFails
  <2>4. LiveFaithful' /\ ReplayFaithful'
    BY Zenon, <1>0, <1>4, WrittenRows DEF ClaimFails
  <2>5. ClaimantExecuted'
    BY <1>0, <1>4, WrittenRows DEF ClaimFails
  <2> HIDE DEF TypeOK, PollBudget, Unanswered, RunnersExecuted, RowFaithful, LiveFaithful,
        ReplayFaithful, ClaimantExecuted
  <2> QED
    BY <2>1, <2>2, <2>3, <2>4, <2>5
<1>5. ASSUME NEW r \in Requests, ReadConflict(r) PROVE IInv'
  <2>1. TypeOK'
    <3>1. row' \in Rows \cup {NoRow}
      BY Zenon, <1>0, <1>5, RowFields DEF ReadConflict
    <3>2. pc' \in [Requests -> PCs] /\ answer' \in [Requests -> [kind : Kinds, body : Bodies]]
      BY <1>0, <1>5, RowFields DEF ReadConflict
    <3>3. /\ polls' \in [Requests -> 0..MaxPolls] /\ executed' \subseteq Requests
          /\ degraded' \subseteq Requests /\ lapsed' \in BOOLEAN
      BY Zenon, <1>5 DEF ReadConflict
    <3> QED
      BY Zenon, <3>1, <3>2, <3>3
  <2>2. PollBudget' /\ Unanswered' /\ RunnersExecuted'
    BY SMTT(30), <1>5 DEF ReadConflict
  <2>3. RowFaithful'
    BY Zenon, <1>0, <1>5, RowFields DEF ReadConflict
  <2>4. LiveFaithful' /\ ReplayFaithful'
    <3> HIDE DEF IInv, LiveFaithful, ReplayFaithful
    <3> QED
      BY Zenon, <1>5, AnswersFaithful
  <2>5. ClaimantExecuted'
    BY Zenon, <1>0, <1>5, RowFields DEF ReadConflict
  <2> HIDE DEF TypeOK, PollBudget, Unanswered, RunnersExecuted, RowFaithful, LiveFaithful,
        ReplayFaithful, ClaimantExecuted
  <2> QED
    BY <2>1, <2>2, <2>3, <2>4, <2>5
<1>6. ASSUME NEW r \in Requests, ReadConflictFails(r) PROVE IInv'
  BY <1>0, <1>6 DEF ReadConflictFails
<1>7. ASSUME NEW r \in Requests, Poll(r) PROVE IInv'
  <2>1. TypeOK'
    <3>1. row' \in Rows \cup {NoRow}
      BY Zenon, <1>0, <1>7, RowFields DEF Poll
    <3>2. pc' \in [Requests -> PCs] /\ answer' \in [Requests -> [kind : Kinds, body : Bodies]]
      BY <1>0, <1>7, RowFields DEF Poll
    <3>3. /\ polls' \in [Requests -> 0..MaxPolls] /\ executed' \subseteq Requests
          /\ degraded' \subseteq Requests /\ lapsed' \in BOOLEAN
      BY <1>7 DEF Poll
    <3> QED
      BY Zenon, <3>1, <3>2, <3>3
  <2>2. PollBudget' /\ Unanswered' /\ RunnersExecuted'
    BY <1>7 DEF Poll
  <2>3. RowFaithful'
    BY Zenon, <1>0, <1>7, RowFields DEF Poll
  <2>4. LiveFaithful' /\ ReplayFaithful'
    <3> HIDE DEF IInv, LiveFaithful, ReplayFaithful
    <3> QED
      BY Zenon, <1>7, AnswersFaithful
  <2>5. ClaimantExecuted'
    BY Zenon, <1>0, <1>7, RowFields DEF Poll
  <2> HIDE DEF TypeOK, PollBudget, Unanswered, RunnersExecuted, RowFaithful, LiveFaithful,
        ReplayFaithful, ClaimantExecuted
  <2> QED
    BY <2>1, <2>2, <2>3, <2>4, <2>5
<1>8. ASSUME NEW r \in Requests, PollFails(r) PROVE IInv'
  BY <1>0, <1>8 DEF PollFails
<1>9. ASSUME NEW r \in Requests, HandlerReturns(r) PROVE IInv'
  BY <1>0, <1>9 DEF HandlerReturns
<1>10. ASSUME NEW r \in Requests, HandlerRaises(r) PROVE IInv'
  BY <1>0, <1>10 DEF HandlerRaises
<1>11. ASSUME NEW r \in Requests, RecordUpdate(r) PROVE IInv'
  <2>1. CASE row # NoRow /\ row.request_hash = HashOf[r] /\ row.is_pending
    <3>1. row \in Rows /\ Finish(r, "live", r) /\ r \in executed
      BY Zenon, <1>0, <1>11, <2>1 DEF RecordUpdate
    <3>2. row' = [row EXCEPT !.response_body = r, !.is_pending = FALSE, !.expired = FALSE]
      BY <1>11, <2>1 DEF RecordUpdate
    <3>3. /\ row' \in Rows /\ row' # NoRow /\ ~row'.is_pending /\ ~row'.expired
          /\ row'.claimant = row.claimant /\ row'.response_body = r
          /\ row'.request_hash = row.request_hash
      <4>1. row' \in Rows
        BY Zenon, <3>1, <3>2 DEF Rows
      <4> QED
        BY Zenon, <3>1, <3>2, <4>1, NoRowAssumption DEF Rows
    <3> QED
      BY <1>11, <2>1, <3>1, <3>3 DEF RecordUpdate
  <2>2. CASE ~(row # NoRow /\ row.request_hash = HashOf[r] /\ row.is_pending)
    BY SMTT(30), <1>0, <1>11, <2>2 DEF RecordUpdate
  <2> QED
    BY Zenon, <2>1, <2>2
<1>12. ASSUME NEW r \in Requests, RecordInsert(r) PROVE IInv'
  <2>1. TypeOK'
    <3>1. row' \in Rows \cup {NoRow}
      BY <1>0, <1>12, WrittenRows DEF RecordInsert
    <3>2. pc' \in [Requests -> PCs] /\ answer' \in [Requests -> [kind : Kinds, body : Bodies]]
      BY SMTT(30), <1>12 DEF RecordInsert
    <3>3. /\ polls' \in [Requests -> 0..MaxPolls] /\ executed' \subseteq Requests
          /\ degraded' \subseteq Requests /\ lapsed' \in BOOLEAN
      BY Zenon, <1>12 DEF RecordInsert
    <3> QED
      BY Zenon, <3>1, <3>2, <3>3
  <2>2. PollBudget' /\ Unanswered' /\ RunnersExecuted'
    BY SMTT(30), <1>12 DEF RecordInsert
  <2>3. RowFaithful'
    BY <1>0, <1>12, WrittenRows DEF RecordInsert
  <2>4. LiveFaithful' /\ ReplayFaithful'
    BY SMTT(30), <1>12 DEF RecordInsert
  <2>5. ClaimantExecuted'
    BY <1>0, <1>12, WrittenRows DEF RecordInsert
  <2> HIDE DEF TypeOK, PollBudget, Unanswered, RunnersExecuted, RowFaithful, LiveFaithful,
        ReplayFaithful, ClaimantExecuted
  <2> QED
    BY Zenon, <2>1, <2>2, <2>3, <2>4, <2>5
<1>13. ASSUME NEW r \in Requests, RecordSelect(r) PROVE IInv'
  BY <1>0, <1>13 DEF RecordSelect
<1>14. ASSUME NEW r \in Requests, RecordFails(r) PROVE IInv'
  BY <1>0, <1>14 DEF RecordFails
<1>15. ASSUME NEW r \in Requests, Crash(r) PROVE IInv'
  BY <1>0, <1>15 DEF Crash
<1>16. CASE Expire
  BY <1>0, <1>16, ExpiredRow DEF Expire
<1>17. CASE Prune
  BY Zenon, <1>17 DEF Prune
<1>18. CASE Purge
  BY Zenon, <1>18 DEF Purge
<1>19. CASE UNCHANGED vars
  BY Zenon, <1>19 DEF vars
<1> QED
  BY ZenonT(60), <1>1, <1>2, <1>3, <1>4, <1>5, <1>6, <1>7, <1>8, <1>9, <1>10, <1>11, <1>12,
     <1>13, <1>14, <1>15, <1>16, <1>17, <1>18, <1>19 DEF Next, Step, Failure

\* The strengthened invariant holds in every reachable state.
THEOREM Invariance == Spec => []IInv
  BY InitIInv, NextIInv, PTL DEF Spec

\* Every variable of the inbox keeps its type.
THEOREM TypeCorrect == Spec => []TypeOK
  BY Invariance, PTL DEF IInv

\* Replays return a response really produced for the same body hash
\* (idempotency_for's 422 checks, idempotency_record's hash filter).
THEOREM ReplaysFaithful == Spec => []ReplayFaithful
  BY Invariance, PTL DEF IInv

\* Without expiry or purge, claim_idempotency admits one undegraded executor.
THEOREM ExecutesOnce == Spec => []OneExecution
<1>1. IInv => OneExecution
  BY DEF IInv, ClaimantExecuted, OneExecution
<1> QED
  BY <1>1, Invariance, PTL

\* Without expiry, purge or storage errors, all successful answers agree.
THEOREM AnswersAlwaysAgree == Spec => []AnswersAgree
<1>1. IInv => AnswersAgree
  BY DEF IInv, TypeOK, ClaimantExecuted, LiveFaithful, ReplayFaithful, AnswersAgree
<1> QED
  BY <1>1, Invariance, PTL

\* What the runs check of the inbox in one invariant: faithful replays, one
\* execution and agreeing answers hold together in every reachable state.
THEOREM InboxIsSound == Spec => []InboxSound
  BY TypeCorrect, ReplaysFaithful, ExecutesOnce, AnswersAlwaysAgree, PTL DEF InboxSound

-----------------------------------------------------------------------------
\* The first state of the inbox is the empty, unserved cell.
LEMMA InitCache == Init => Cache!Init
  BY DEF Init, Cache!Init, Cell, Served, Live, Answer

\* A request that finishes without a replay leaves the served responses alone.
LEMMA ServedUnchanged ==
    ASSUME TypeOK, NEW r \in Requests, NEW kind, NEW body,
           answer[r].kind # "replay", kind # "replay", Finish(r, kind, body)
    PROVE  Served' = Served
  BY Zenon DEF TypeOK, Finish, Served, Answer

\* A replay serves the content of the cell.
LEMMA ReplayServes ==
    ASSUME IInv, NEW r \in Requests, answer[r].kind = "none",
           Live, ~row.is_pending \/ row.request_hash # HashOf[r],
           ReplayOrReject(r), row' = row
    PROVE  Cache!Next \/ UNCHANGED <<Cell, Served>>
<1>1. Cell' = Cell
  BY DEF Cell, Live
<1>2. CASE row.request_hash # HashOf[r]
  BY <1>1, <1>2, ServedUnchanged DEF ReplayOrReject, IInv
<1>3. CASE row.request_hash = HashOf[r]
  <2>1. ~row.is_pending /\ row # NoRow
    BY Zenon, <1>3 DEF Live
  <2>2. Cell = row.response_body /\ Cell \in executed /\ HashOf[Cell] = HashOf[r]
    BY <1>3, <2>1 DEF Cell, IInv, RowFaithful, Live
  <2>3. Cell # NoBody
    BY <2>2, SentinelAssumption DEF IInv, TypeOK
  <2>4. answer' = [answer EXCEPT ![r] = Answer("replay", Cell)]
    BY <1>3, <2>2 DEF ReplayOrReject, Finish
  <2>5. Served[r] = NoBody /\ Served' = [Served EXCEPT ![r] = Cell]
    BY Zenon, <2>4 DEF Served, Answer, IInv, TypeOK
  <2> QED
    BY Zenon, <1>1, <2>2, <2>3, <2>5 DEF Cache!Next, Cache!Serve
<1> QED
  BY <1>2, <1>3

\* Every step of the inbox is a step of the cell, or leaves it unchanged.
LEMMA NextCache == IInv /\ IInv' /\ [Next]_vars => [Cache!Next]_<<Cell, Served>>
<1> SUFFICES ASSUME IInv, IInv', [Next]_vars
             PROVE  Cache!Next \/ UNCHANGED <<Cell, Served>>
  OBVIOUS
<1>0. ASSUME row' = row PROVE Cell' = Cell
  BY <1>0 DEF Cell, Live
<1>1. ASSUME answer' = answer PROVE Served' = Served
  BY <1>1 DEF Served
<1>2. ASSUME NEW r \in Requests, pc[r] \notin {"done", "crashed"}
      PROVE  answer[r].kind = "none"
  BY <1>2 DEF IInv, Unanswered
<1>3. ASSUME NEW r \in Requests, Lookup(r) \/ ReadConflict(r) \/ Poll(r)
      PROVE  Cache!Next \/ UNCHANGED <<Cell, Served>>
  <2>1. answer[r].kind = "none" /\ row' = row
    BY <1>2, <1>3 DEF Lookup, ReadConflict, Poll
  <2>2. CASE /\ Live /\ (~row.is_pending \/ row.request_hash # HashOf[r])
             /\ ReplayOrReject(r)
    BY <2>1, <2>2, ReplayServes
  <2>3. CASE answer' = answer
    BY <1>0, <1>1, <2>1, <2>3
  <2>4. CASE Finish(r, "409", NoBody)
    BY <1>0, <2>1, <2>4, ServedUnchanged DEF IInv
  <2> QED
    BY Zenon, <1>3, <2>2, <2>3, <2>4 DEF Lookup, ReadConflict, Poll, Goto
<1>4. ASSUME NEW r \in Requests, LookupFails(r) \/ ReadConflictFails(r) \/ HandlerReturns(r) \/ Crash(r)
      PROVE  UNCHANGED <<Cell, Served>>
  BY Zenon, <1>0, <1>1, <1>4 DEF LookupFails, ReadConflictFails, HandlerReturns, Crash, StartHandler, Goto
<1>5. ASSUME NEW r \in Requests, Claim(r) \/ ClaimFails(r)
      PROVE  UNCHANGED <<Cell, Served>>
  <2>1. answer' = answer
    BY <1>5 DEF Claim, ClaimFails, StartHandler, Goto
  <2>2. CASE row' = row
    BY <1>0, <1>1, <2>1, <2>2
  <2>3. CASE ~Live /\ row' = PendingRow(r)
    BY Zenon, <1>1, <2>1, <2>3, WrittenRows DEF Cell, Live
  <2> QED
    BY Zenon, <1>5, <2>2, <2>3 DEF Claim, ClaimFails
<1>6. ASSUME NEW r \in Requests,
             PollFails(r) \/ HandlerRaises(r) \/ RecordSelect(r) \/ RecordFails(r)
      PROVE  UNCHANGED <<Cell, Served>>
  <2>1. answer[r].kind = "none" /\ row' = row
    BY Zenon, <1>2, <1>6 DEF PollFails, HandlerRaises, RecordSelect, RecordFails
  <2>2. \/ Finish(r, "503", NoBody) \/ Finish(r, "failed", NoBody) \/ Finish(r, "live", r)
    BY Zenon, <1>6 DEF PollFails, HandlerRaises, RecordSelect, RecordFails
  <2> QED
    BY <1>0, <2>1, <2>2, ServedUnchanged DEF IInv
<1>7. ASSUME NEW r \in Requests, RecordUpdate(r) \/ RecordInsert(r)
      PROVE  Cache!Next \/ UNCHANGED <<Cell, Served>>
  <2>1. answer[r].kind = "none"
    BY <1>2, <1>7 DEF RecordUpdate, RecordInsert
  <2>2. CASE row' = row /\ answer' = answer
    BY <1>0, <1>1, <2>2
  <2>3. ASSUME Finish(r, "live", r), Cell = NoBody, Cell' = r
        PROVE  Cache!Next
    BY <2>1, <2>3, ServedUnchanged DEF Cache!Next, Cache!Fill, IInv
  <2>4. CASE row = NoRow /\ row' = CompleteRow(r) /\ Finish(r, "live", r)
    BY <2>3, <2>4, WrittenRows DEF Cell, Live
  <2>5. CASE /\ row # NoRow /\ row.is_pending /\ Finish(r, "live", r)
             /\ row' = [row EXCEPT !.response_body = r, !.is_pending = FALSE, !.expired = FALSE]
    <3>1. row \in Rows
      BY Zenon, <2>5 DEF IInv, TypeOK
    <3>2. row' \in Rows
      BY Zenon, <2>5, <3>1 DEF Rows, Bodies
    <3>3. Cell = NoBody /\ Cell' = r
      BY Zenon, <2>5, <3>1, <3>2, NoRowAssumption DEF Cell, Live, Rows
    <3> QED
      BY Zenon, <2>3, <2>5, <3>3
  <2> QED
    BY Zenon, <1>7, <2>2, <2>4, <2>5 DEF RecordUpdate, RecordInsert, Goto
<1>8. CASE Expire \/ Prune \/ Purge
  <2>1. Served' = Served
    BY <1>1, <1>8 DEF Expire, Prune, Purge
  <2>2. Cell' = NoBody
    <3>1. CASE row' = NoRow
      BY <3>1 DEF Cell, Live
    <3>2. CASE Expire
      BY Zenon, <3>2 DEF Expire, Cell, Live, IInv, TypeOK, Rows
    <3> QED
      BY <1>8, <3>1, <3>2 DEF Prune, Purge
  <2> QED
    BY <2>1, <2>2 DEF Cache!Next, Cache!Forget
<1>9. CASE UNCHANGED vars
  BY <1>0, <1>1, <1>9 DEF vars
<1> QED
  BY Zenon, <1>3, <1>4, <1>5, <1>6, <1>7, <1>8, <1>9 DEF Next, Step, Failure

\* The inbox implements the write-once response cell: a completed, unexpired
\* response is never overwritten and every replay comes from it.
THEOREM InboxImplementsCache == Spec => ImplementsCache
<1>1. Init => Cache!Init
  BY InitCache
<1>2. IInv /\ IInv' /\ [Next]_vars => [Cache!Next]_(Cache!cacheVars)
  BY Zenon, NextCache DEF Cache!cacheVars
<1> QED
  BY <1>1, <1>2, Invariance, PTL DEF Spec, ImplementsCache, Cache!Spec

-----------------------------------------------------------------------------
(* The bus.  A client that holds a channel has one party that closes it; the *)
(* invariant says which, how far start() and stop() are, and that a client   *)
(* nobody installed is one that no call sends with.                          *)

TeardownStages == {"delete", "close", "gather", "pullexec", "pubexec", "flush", "drain"}
Detached == {"close", "gather", "pullexec", "pubexec", "flush", "drain"}

\* The shapes of the state that the type invariant leaves open.
BShapes ==
    /\ start = [pc |-> start.pc, gen |-> start.gen, result |-> start.result]
    /\ start.gen \in Nat /\ start.gen <= generation
    /\ stop = [pc |-> stop.pc, closing |-> stop.closing]
    /\ DOMAIN pub = Publishers
    /\ \A p \in Publishers : /\ pub[p] = [pc |-> pub[p].pc, gen |-> pub[p].gen, client |-> pub[p].client]
                             /\ pub[p].client \in PubClients \cup {None}
                             /\ pub[p].pc \in {"sending", "returned"} => pub[p].client # None
    /\ batch \in [PubClients -> SUBSET Publishers]
    /\ background \subseteq ({"sub"} \X SubClients) \cup ({"pub"} \X PubClients)
    /\ generation = stops
    /\ start.pc # "idle" => starts \in SubClients /\ start.result = "none"

\* How far start() and stop() are.
BLifecycle ==
    /\ started => start.pc = "idle"
    /\ stop.pc # "idle" => stopped /\ stopping
    /\ subscriber # None => started \/ start.pc = "ensure" \/ start.result = "cancelled"
    /\ start.pc \in {"construct", "abort"} => subscriber = None
    /\ stop.pc \in Detached => subscriber = None
    /\ stop.pc \in {"flush", "drain"} => publisher = None
    /\ stop.pc = "close" => stop.closing \in SubClients
    /\ stop.pc = "flush" => stop.closing \in PubClients
    /\ stop.pc \notin {"close", "flush"} => stop.closing = None

\* Every open client has someone who closes it.
BOwned ==
    \A c \in open :
        \/ c \in {subscriber, publisher, stop.closing}
        \/ start.pc = "abort" /\ c = starts
        \/ \E kind \in {"sub", "pub"} : <<kind, c>> \in background

\* A client that a background task closes was never installed, and nobody sends with it.
BDropped ==
    /\ \A n \in SubClients : <<"sub", n>> \in background =>
          n # subscriber /\ n <= starts /\ (n = starts => start.pc = "idle")
    /\ \A c \in PubClients : <<"pub", c>> \in background \/ pub[c].pc \in {"idle", "construct"} =>
          /\ c # publisher /\ c # stop.closing /\ batch[c] = {}
          /\ \A p \in Publishers : pub[p].client # c
    /\ \A c \in PubClients : <<"pub", c>> \in background => pub[c].pc \notin {"idle", "construct"}

\* The start() that no stop() has overtaken: its client is installed and open,
\* and the pull task of the plain topic has it or will take it.
BOperational ==
    start.gen = generation /\ (started \/ start.pc = "ensure") =>
        /\ ~stopped /\ ~stopping /\ stop.pc = "idle"
        /\ starts \in SubClients /\ subscriber = starts /\ starts \in open /\ pull_executor
        /\ LET l == loops[<<"plain", starts>>]
           IN  \/ l.pc = "new"
               \/ l.pc = "pulling" /\ l.client = starts
               \/ l.pc = "halted" /\ "plain" \in failed

\* Nothing consumes behind the back of start() and stop().
BQuiet ==
    /\ \A l \in Loops : loops[l].pc \in {"pulling", "halted"} =>
          started \/ start.pc = "ensure" \/ start.result = "cancelled"
    /\ stop.pc = "drain" => \A l \in Loops : loops[l].pc \notin {"pulling", "halted"}

\* A message that was accepted is transmitted, or batched in a client that is open.
BKept ==
    \A p \in Publishers : pub[p].pc = "returned" =>
        p \in sent \/ (pub[p].client \in open /\ p \in batch[pub[p].client])

BInv == BusTypeOK /\ BShapes /\ BLifecycle /\ BOwned /\ BDropped /\ BOperational /\ BQuiet /\ BKept

-----------------------------------------------------------------------------
\* The bus is consistent where the invariant holds.
LEMMA BSound == BInv => BusConsistent
<1> SUFFICES ASSUME BInv PROVE BusConsistent
  OBVIOUS
<1>1. NoOrphanClient
  BY DEF BInv, BOwned, NoOrphanClient
<1>2. ASSUME is_healthy, generation = start.gen
      PROVE  \E n \in 1..MaxStarts : LET l == loops[<<"plain", n>>] IN
            \/ l.pc = "new" /\ subscriber \in open
            \/ l.pc = "pulling" /\ l.client \in open
  <2>1. /\ starts \in 1..MaxStarts /\ subscriber = starts /\ starts \in open
        /\ LET l == loops[<<"plain", starts>>]
           IN  l.pc = "new" \/ (l.pc = "pulling" /\ l.client = starts)
    BY Zenon, <1>2 DEF BInv, BOperational, is_healthy, SubClients
  <2> QED
    BY <2>1
<1>3. ASSUME ~started, stop.pc = "idle", start.pc = "idle", start.result # "cancelled", NEW l \in Loops
      PROVE  loops[l].pc \in {"none", "ended"} \cup (IF subscriber = None THEN {"new"} ELSE {})
  <2>1. subscriber = None /\ loops[l].pc \notin {"pulling", "halted"}
    BY Zenon, <1>3 DEF BInv, BLifecycle, BQuiet
  <2>2. loops[l].pc \in {"none", "new", "pulling", "halted", "ended"}
    BY Zenon DEF BInv, BusTypeOK
  <2> QED
    BY Zenon, <2>1, <2>2
<1>4. StopFlushesBatches
  BY Zenon DEF BInv, BKept, StopFlushesBatches
<1> QED
  BY Zenon, <1>1, <1>2, <1>3, <1>4 DEF BusConsistent, LoopsMatchState

\* A bus that was never started.
LEMMA BBegins == BusInit => BInv
<1> SUFFICES ASSUME BusInit PROVE BInv
  OBVIOUS
<1>1. BusTypeOK
  <2>1. loops \in [Loops -> [pc : {"none", "new", "pulling", "halted", "ended"}, client : SubClients \cup {None}]]
    BY Zenon DEF BusInit
  <2>2. 0 \in 0..MaxStops /\ 0 \in 0..MaxStarts
    BY BusAssumption
  <2>3. /\ start.pc = "idle" /\ stop.pc = "idle" /\ \A p \in Publishers : pub[p].pc = "idle"
        /\ generation = 0 /\ starts = 0 /\ stops = 0
    BY Zenon DEF BusInit
  <2>4. {started, stopped, stopping, pull_executor, publish_executor, broadcast_subs} \subseteq BOOLEAN
    BY Zenon DEF BusInit
  <2>5. subscriber = None /\ publisher = None /\ failed = {} /\ open = {} /\ background = {} /\ sent = {}
    BY DEF BusInit
  <2> QED
    BY <2>1, <2>2, <2>3, <2>4, <2>5 DEF BusTypeOK
<1>2. BShapes
  BY BusAssumption DEF BusInit, BShapes, PubClients
<1>3. BLifecycle
  BY DEF BusInit, BLifecycle, Detached
<1>4. BOwned /\ BKept
  BY Zenon DEF BusInit, BOwned, BKept
<1>5. BDropped
  BY Zenon, BusAssumption DEF BusInit, BDropped, PubClients
<1>6. BOperational /\ BQuiet
  BY Zenon DEF BusInit, BOperational, BQuiet
<1> QED
  BY <1>1, <1>2, <1>3, <1>4, <1>5, <1>6 DEF BInv

-----------------------------------------------------------------------------
(* start() *)

\* The next start() is one more of the calls that are counted.
LEMMA NextStart ==
  ASSUME NEW n \in 0..MaxStarts, n < MaxStarts
  PROVE  /\ n + 1 \in 0..MaxStarts /\ n + 1 \in SubClients
         /\ \A m \in SubClients : m <= n => m <= n + 1 /\ m # n + 1
BY BusAssumption DEF SubClients

\* The generations are numbers.
LEMMA GenerationsAreNumbers == \A g \in 0..MaxStops : g \in Nat /\ g <= g
BY BusAssumption

\* start is called.
LEMMA StartBeginKeeps == ASSUME BInv, StartBegin PROVE BInv'
<1>0. /\ starts' \in 0..MaxStarts /\ starts' \in SubClients
      /\ \A m \in SubClients : m <= starts => m <= starts' /\ m # starts'
  <2>1. starts \in 0..MaxStarts /\ starts < MaxStarts /\ starts' = starts + 1
    BY Zenon DEF BInv, BusTypeOK, StartBegin
  <2> QED
    BY Zenon, <2>1, NextStart
<1> USE DEF BInv, StartBegin, flags, clients
<1>1. BusTypeOK'
  BY Zenon, <1>0 DEF BusTypeOK
<1>2. BShapes'
  <2>1. generation \in Nat /\ generation <= generation
    BY Zenon, GenerationsAreNumbers DEF BusTypeOK
  <2> QED
    BY Zenon, <1>0, <2>1 DEF BShapes
<1>3. BLifecycle'
  BY Zenon DEF BLifecycle
<1>4. BOwned' /\ BKept'
  BY ZenonT(60) DEF BOwned, BKept
<1>5. BDropped'
  BY Zenon, <1>0 DEF BDropped
<1>6. BOperational'
  BY ZenonT(60) DEF BOperational
<1>7. BQuiet'
  BY DEF BQuiet
<1> QED
  BY SMTT(30), <1>1, <1>2, <1>3, <1>4, <1>5, <1>6, <1>7

\* start has its clients.
LEMMA StartConstructedKeeps == ASSUME BInv, StartConstructed PROVE BInv'
<1> USE DEF BInv, StartConstructed, flags, clients
<1>1. starts \in SubClients /\ starts \notin PubClients /\ subscriber = None /\ ~started /\ <<"plain", starts>> \in Loops
  BY Zenon, BusAssumption DEF BShapes, BLifecycle, SubClients, PubClients, Loops, BusTopics
<1>2. BusTypeOK'
  <2>1. loops' \in [Loops -> [pc : {"none", "new", "pulling", "halted", "ended"}, client : SubClients \cup {None}]]
    BY SMTT(30), <1>1 DEF BusTypeOK
  <2>2. subscriber' \in SubClients \cup {None} /\ start'.pc \in {"idle", "construct", "abort", "ensure"}
        /\ pull_executor' \in BOOLEAN
    BY ZenonT(60), <1>1 DEF BusTypeOK, BShapes
  <2> QED
    BY Zenon, <1>1, <2>1, <2>2 DEF BusTypeOK
<1>3. BShapes'
  BY Zenon, <1>1 DEF BShapes
<1>4. BLifecycle'
  <2>1. CASE Overtaken(start.gen)
    BY Zenon, <1>1, <2>1 DEF BLifecycle, BShapes
  <2>2. CASE ~Overtaken(start.gen)
    <3>1. stop.pc = "idle"
      BY <2>2 DEF Overtaken, BLifecycle
    <3> QED
      BY Zenon, <1>1, <2>2, <3>1 DEF BLifecycle, BShapes, Detached
  <2> QED
    BY <2>1, <2>2
<1>5. BOwned'
  <2>1. None \notin open
    BY Zenon, BusAssumption DEF BusTypeOK, SubClients, PubClients
  <2>2. ASSUME NEW c \in open, c # starts PROVE c \in {publisher, stop.closing} \/ \E kind \in {"sub", "pub"} : <<kind, c>> \in background
    BY Zenon, <1>1, <2>1, <2>2 DEF BOwned
  <2>3. starts = subscriber' \/ start'.pc = "abort"
    BY Zenon DEF BShapes
  <2> QED
    BY Zenon, <1>1, <2>2, <2>3 DEF BOwned
<1>6. BKept'
  BY Zenon DEF BKept
<1>7. BDropped'
  BY Zenon, <1>1, BusAssumption DEF BDropped, SubClients
<1>8. BOperational'
  <2>1. CASE Overtaken(start.gen)
    BY Zenon, <1>1, <2>1 DEF BOperational, BShapes
  <2>2. CASE ~Overtaken(start.gen)
    <3>1. loops'[<<"plain", starts>>].pc = "new"
      BY ZenonT(60), <1>1, <2>2 DEF BusTypeOK
    <3> QED
      BY <1>1, <2>2, <3>1 DEF BOperational, Overtaken, BLifecycle
  <2> QED
    BY Zenon, <2>1, <2>2
<1>9. BQuiet'
  BY Zenon, <1>1 DEF BQuiet, BusTypeOK, BShapes, Overtaken, BLifecycle
<1> QED
  BY Zenon, <1>2, <1>3, <1>4, <1>5, <1>6, <1>7, <1>8, <1>9

\* start fails and tears down what it made.
LEMMA StartAbortedKeeps == ASSUME BInv, StartAborted PROVE BInv'
<1> USE DEF BInv, StartAborted, flags, clients
<1>1. starts \in SubClients /\ starts \notin PubClients /\ subscriber = None /\ ~started
  BY Zenon, BusAssumption DEF BShapes, BLifecycle, SubClients, PubClients
<1>2. BusTypeOK'
  BY Zenon DEF BusTypeOK, BShapes
<1>3. BShapes'
  BY Zenon DEF BShapes
<1>4. BLifecycle'
  BY Zenon, <1>1 DEF BLifecycle, BShapes
<1>5. BOwned'
  BY Zenon DEF BOwned
<1>6. BKept'
  BY Zenon, <1>1 DEF BKept, BShapes
<1>7. BDropped'
  BY Zenon DEF BDropped, BShapes
<1>8. BOperational'
  BY Zenon, <1>1 DEF BOperational, BShapes
<1>9. BQuiet'
  BY Zenon, <1>1 DEF BQuiet, BShapes
<1> QED
  BY <1>2, <1>3, <1>4, <1>5, <1>6, <1>7, <1>8, <1>9

\* start is cancelled at an await.
LEMMA StartCancelledKeeps == ASSUME BInv, StartCancelled PROVE BInv'
<1> USE DEF BInv, StartCancelled, flags, clients
<1>1. starts \in SubClients /\ starts \notin PubClients /\ ~started /\ (start.pc = "construct" => subscriber = None)
  BY Zenon, BusAssumption DEF BShapes, BLifecycle, SubClients, PubClients
<1>2. BusTypeOK'
  BY <1>1 DEF BusTypeOK, BShapes
<1>3. BShapes'
  <2>1. background' \subseteq background \cup {<<"sub", starts>>} /\ <<"sub", starts>> \in {"sub"} \X SubClients
    BY <1>1
  <2>2. background' \subseteq ({"sub"} \X SubClients) \cup ({"pub"} \X PubClients)
    BY Zenon, <2>1 DEF BShapes
  <2> QED
    BY Zenon, <1>1, <2>2 DEF BShapes
<1>4. BLifecycle'
  BY Zenon, <1>1 DEF BLifecycle, BShapes
<1>5. BOwned'
  BY Zenon, <1>1 DEF BOwned
<1>6. BKept'
  BY ZenonT(60), <1>1 DEF BKept, BShapes
<1>7. BDropped'
  BY <1>1, BusAssumption DEF BDropped, BShapes, BusTypeOK, SubClients
<1>8. BOperational'
  BY Zenon, <1>1 DEF BOperational, BShapes
<1>9. BQuiet'
  BY Zenon, <1>1 DEF BQuiet, BShapes
<1> QED
  BY <1>2, <1>3, <1>4, <1>5, <1>6, <1>7, <1>8, <1>9

\* start has its subscriptions and spawns the loops.
LEMMA StartEnsuredKeeps == ASSUME BInv, StartEnsured PROVE BInv'
<1> USE DEF BInv, StartEnsured, flags, clients
<1>1. starts \in SubClients /\ <<"broadcast", starts>> \in Loops /\ <<"plain", starts>> \in Loops
      /\ <<"broadcast", starts>> # <<"plain", starts>>
  BY Zenon, BusAssumption DEF BShapes, SubClients, Loops, BusTopics
<1>2. BusTypeOK'
  <2>1. loops' \in [Loops -> [pc : {"none", "new", "pulling", "halted", "ended"}, client : SubClients \cup {None}]]
    <3> DEFINE Loop == [pc : {"none", "new", "pulling", "halted", "ended"}, client : SubClients \cup {None}]
               k == <<"broadcast", starts>>
    <3>1. loops \in [Loops -> Loop] /\ k \in Loops
      BY Zenon, <1>1 DEF BusTypeOK
    <3>2. loops' = loops \/ loops' = [loops EXCEPT ![k].pc = "new"]
      BY Zenon
    <3> HIDE DEF k
    <3>3. [loops[k] EXCEPT !.pc = "new"] \in Loop
      BY Zenon, <3>1
    <3> HIDE DEF Loop
    <3>4. loops' \in [Loops -> Loop]
      BY Zenon, <3>1, <3>2, <3>3
    <3> QED
      BY Zenon, <3>4 DEF Loop
  <2> QED
    BY Zenon, <2>1 DEF BusTypeOK, BShapes
<1>3. BShapes'
  BY Zenon, <1>1 DEF BShapes
<1>4. BLifecycle'
  BY Zenon, <1>1 DEF BLifecycle, BShapes
<1>5. BOwned'
  BY Zenon, <1>1 DEF BOwned
<1>6. BKept'
  BY Zenon, <1>1 DEF BKept, BShapes
<1>7. BDropped'
  BY Zenon, <1>1 DEF BDropped, BShapes
<1>8. BOperational'
  BY Zenon, <1>1 DEF BOperational, BShapes, BusTypeOK
<1>9. BQuiet'
  <2>1. ASSUME NEW l \in Loops PROVE loops'[l].pc \in {loops[l].pc, "new"}
    BY ZenonT(60), <1>1 DEF BusTypeOK
  <2> QED
    BY Zenon, <2>1 DEF BQuiet
<1> QED
  BY Zenon, <1>2, <1>3, <1>4, <1>5, <1>6, <1>7, <1>8, <1>9

-----------------------------------------------------------------------------
(* The pull tasks *)

LoopShapes(ls) == ls \in [Loops -> [pc : {"none", "new", "pulling", "halted", "ended"}, client : SubClients \cup {None}]]

\* A step that only moves the pull loops.
LEMMA OneLoop ==
  ASSUME BInv, LoopShapes(loops'), failed' \subseteq BusTopics,
         UNCHANGED <<flags, clients, broadcast_subs, start, starts, stop, stops, pub, open, background, batch, sent>>,
         BOperational', BQuiet'
  PROVE  BInv'
<1> USE DEF BInv, flags, clients
<1>1. BusTypeOK'
  BY Zenon DEF BusTypeOK, LoopShapes
<1>2. BShapes' /\ BLifecycle'
  BY Zenon DEF BShapes, BLifecycle
<1>3. BOwned' /\ BDropped' /\ BKept'
  BY Zenon DEF BOwned, BDropped, BKept
<1> QED
  BY Zenon, <1>1, <1>2, <1>3

\* A pull loop begins.
LEMMA LoopBeginKeeps == ASSUME BInv, NEW l \in Loops, LoopBegin(l) PROVE BInv'
<1> DEFINE x == IF stopped \/ subscriber = None \/ ~pull_executor
                THEN [pc |-> "ended", client |-> None] ELSE [pc |-> "pulling", client |-> subscriber]
<1>1. /\ UNCHANGED <<flags, clients, broadcast_subs, failed, start, starts, stop, stops, pub, open, background, batch, sent>>
      /\ loops' = [loops EXCEPT ![l] = x]
  BY Zenon DEF LoopBegin
<1>2. LoopShapes(loops) /\ subscriber \in SubClients \cup {None} /\ failed \subseteq BusTopics
  BY Zenon DEF BInv, BusTypeOK, LoopShapes
<1>3. /\ LoopShapes(loops') /\ loops'[l] = x /\ \A m \in Loops : m # l => loops'[m] = loops[m]
  BY ZenonT(60), <1>1, <1>2 DEF LoopShapes
<1>4. BOperational'
  <2> SUFFICES ASSUME start.gen = generation, started \/ start.pc = "ensure" PROVE BOperational'
    BY Zenon, <1>1 DEF BOperational, flags
  <2>1. /\ ~stopped /\ ~stopping /\ stop.pc = "idle" /\ starts \in SubClients /\ subscriber = starts
        /\ starts \in open /\ pull_executor
        /\ LET k == loops[<<"plain", starts>>]
           IN  k.pc = "new" \/ (k.pc = "pulling" /\ k.client = starts) \/ (k.pc = "halted" /\ "plain" \in failed)
    BY DEF BInv, BOperational
  <2>2. <<"plain", starts>> \in Loops /\ starts # None
    BY <2>1, BusAssumption DEF Loops, BusTopics, SubClients
  <2>3. x = [pc |-> "pulling", client |-> starts]
    BY <2>1, <2>2
  <2> HIDE DEF x
  <2> QED
    BY <1>1, <1>3, <2>1, <2>2, <2>3 DEF BOperational, flags, clients
<1>5. BQuiet'
  <2>1. x.pc = "pulling" => subscriber # None
    OBVIOUS
  <2>2. x.pc \in {"pulling", "ended"}
    OBVIOUS
  <2> HIDE DEF x
  <2>3. x.pc = "pulling" => started \/ start.pc = "ensure" \/ start.result = "cancelled"
    BY <2>1 DEF BInv, BLifecycle
  <2>4. stop.pc = "drain" => x.pc = "ended"
    BY <2>1, <2>2 DEF BInv, BLifecycle, Detached
  <2> QED
    BY Zenon, <1>1, <1>3, <2>2, <2>3, <2>4 DEF BInv, BQuiet, flags
<1> QED
  BY Zenon, <1>1, <1>2, <1>3, <1>4, <1>5, OneLoop

\* A pull loop gives up for good.
LEMMA LoopHaltsKeeps == ASSUME BInv, NEW l \in Loops, LoopHalts(l) PROVE BInv'
<1>1. /\ UNCHANGED <<flags, clients, broadcast_subs, start, starts, stop, stops, pub, open, background, batch, sent>>
      /\ loops[l].pc = "pulling" /\ ~stopping
      /\ loops' = [loops EXCEPT ![l].pc = "halted"] /\ failed' = failed \cup {l[1]}
  BY Zenon DEF LoopHalts
<1>2. LoopShapes(loops) /\ failed \subseteq BusTopics /\ l[1] \in BusTopics
  BY Zenon DEF BInv, BusTypeOK, LoopShapes, Loops
<1>3. /\ LoopShapes(loops') /\ loops'[l].pc = "halted" /\ \A m \in Loops : m # l => loops'[m] = loops[m]
  BY <1>1, <1>2 DEF LoopShapes
<1>4. BOperational'
  <2> SUFFICES ASSUME start.gen = generation, started \/ start.pc = "ensure" PROVE BOperational'
    BY Zenon, <1>1 DEF BOperational, flags
  <2>1. /\ ~stopped /\ ~stopping /\ stop.pc = "idle" /\ starts \in SubClients /\ subscriber = starts
        /\ starts \in open /\ pull_executor
        /\ LET k == loops[<<"plain", starts>>]
           IN  k.pc = "new" \/ (k.pc = "pulling" /\ k.client = starts) \/ (k.pc = "halted" /\ "plain" \in failed)
    BY Zenon DEF BInv, BOperational
  <2>2. <<"plain", starts>> \in Loops
    BY <2>1 DEF Loops, BusTopics, SubClients
  <2>3. <<"plain", starts>> = l => "plain" \in failed'
    BY <1>1
  <2> QED
    BY Zenon, <1>1, <1>3, <2>1, <2>2, <2>3 DEF BOperational, flags, clients
<1>5. BQuiet'
  <2>1. stop.pc # "drain"
    BY Zenon, <1>1 DEF BInv, BLifecycle
  <2> QED
    BY Zenon, <1>1, <1>3, <2>1 DEF BInv, BQuiet, flags
<1> QED
  BY Zenon, <1>1, <1>2, <1>3, <1>4, <1>5, OneLoop

\* A pull loop sees the stop.
LEMMA LoopStopsKeeps == ASSUME BInv, NEW l \in Loops, LoopStops(l) PROVE BInv'
<1>1. /\ UNCHANGED <<flags, clients, broadcast_subs, failed, start, starts, stop, stops, pub, open, background, batch, sent>>
      /\ stopping /\ loops' = [loops EXCEPT ![l].pc = "ended"]
  BY DEF LoopStops
<1>2. LoopShapes(loops) /\ failed \subseteq BusTopics
  BY Zenon DEF BInv, BusTypeOK, LoopShapes
<1>3. /\ LoopShapes(loops') /\ loops'[l].pc = "ended" /\ \A m \in Loops : m # l => loops'[m] = loops[m]
  BY Zenon, <1>1, <1>2 DEF LoopShapes
<1>4. BOperational'
  BY Zenon, <1>1 DEF BInv, BOperational, flags
<1>5. BQuiet'
  BY Zenon, <1>1, <1>3 DEF BInv, BQuiet, flags
<1> QED
  BY Zenon, <1>1, <1>2, <1>3, <1>4, <1>5, OneLoop

-----------------------------------------------------------------------------
(* stop().  Whatever stages are skipped, the next one finds detached what    *)
(* the stages before it tear down.                                           *)

\* The stages of stop, in their order.
LEMMA TeardownOrder ==
  /\ DOMAIN Teardown = 1..7
  /\ Teardown[1] = "delete" /\ Teardown[2] = "close" /\ Teardown[3] = "gather" /\ Teardown[4] = "pullexec"
  /\ Teardown[5] = "pubexec" /\ Teardown[6] = "flush" /\ Teardown[7] = "drain"
BY DEF Teardown

\* A stage is the one of its number.
LEMMA StageNumber ==
  ASSUME NEW s \in TeardownStages
  PROVE  StageNo(s) \in 1..7 /\ Teardown[StageNo(s)] = s
<1>1. \E i \in DOMAIN Teardown : Teardown[i] = s
  BY TeardownOrder DEF TeardownStages
<1> QED
  BY Zenon, <1>1, TeardownOrder DEF StageNo

IsAfter(i, j) == /\ j > i /\ Needed(Teardown[j])
                 /\ \A k \in (i + 1)..(j - 1) : ~Needed(Teardown[k])

\* Some later stage always applies.
LEMMA AfterExists == ASSUME NEW i \in 0..6 PROVE \E j \in 1..7 : IsAfter(i, j)
<1> DEFINE Idle(n) == n > i /\ \A k \in (i + 1)..(n - 1) : ~Needed(Teardown[k])
           Found == \E j \in 1..7 : IsAfter(i, j)
<1>1. Needed(Teardown[7])
  BY Zenon, TeardownOrder DEF Needed
<1>2. Idle(7) => Found
  BY <1>1 DEF IsAfter
<1>3. ASSUME NEW n \in 1..6, Idle(n), Idle(n + 1) => Found PROVE Found
  <2>1. CASE Needed(Teardown[n])
    BY <2>1, <1>3 DEF IsAfter
  <2>2. CASE ~Needed(Teardown[n])
    <3>1. n + 1 > i
      BY <1>3
    <3>2. ASSUME NEW k \in (i + 1)..(n + 1 - 1) PROVE ~Needed(Teardown[k])
      <4>1. k = n \/ k \in (i + 1)..(n - 1)
        OBVIOUS
      <4> QED
        BY Zenon, <4>1, <1>3, <2>2
    <3> QED
      BY <3>1, <3>2, <1>3
  <2> QED
    BY Zenon, <2>1, <2>2
<1> HIDE DEF Found
<1>4. \A n \in 1..6 : (Idle(n + 1) => Found) => (Idle(n) => Found)
  BY Zenon, <1>3
<1> HIDE DEF Idle
<1>5. /\ 6 \in 1..6 /\ 5 \in 1..6 /\ 4 \in 1..6 /\ 3 \in 1..6 /\ 2 \in 1..6 /\ 1 \in 1..6
      /\ 6 + 1 = 7 /\ 5 + 1 = 6 /\ 4 + 1 = 5 /\ 3 + 1 = 4 /\ 2 + 1 = 3 /\ 1 + 1 = 2
  OBVIOUS
<1>6. Idle(6) => Found
  BY <1>2, <1>4, <1>5
<1>7. Idle(5) => Found
  BY ZenonT(60), <1>6, <1>4, <1>5
<1>8. Idle(4) => Found
  BY ZenonT(60), <1>7, <1>4, <1>5
<1>9. Idle(3) => Found
  BY ZenonT(60), <1>8, <1>4, <1>5
<1>10. Idle(2) => Found
  BY <1>9, <1>4, <1>5
<1>11. Idle(1) => Found
  BY ZenonT(60), <1>10, <1>4, <1>5
<1>12. Idle(i + 1)
  BY DEF Idle
<1>13. i + 1 \in {1, 2, 3, 4, 5, 6, 7}
  OBVIOUS
<1>14. Found
  BY <1>2, <1>6, <1>7, <1>8, <1>9, <1>10, <1>11, <1>12, <1>13
<1> QED
  BY <1>14 DEF Found

\* What the bus holds when the teardown comes to stage s.
Fits(s) ==
    /\ s = "close" => subscriber # None
    /\ s = "flush" => publisher # None
    /\ s \in Detached \ {"close"} => subscriber = None
    /\ s = "drain" => publisher = None

\* The stage stop goes on with is the first that still applies.
LEMMA NextStage ==
  ASSUME BInv, NEW i \in 0..6, stop.pc = IF i = 0 THEN "idle" ELSE Teardown[i]
  PROVE  Teardown[After(i)] \in TeardownStages /\ Fits(Teardown[After(i)])
<1> DEFINE j == After(i)
<1>1. j \in 1..7 /\ IsAfter(i, j)
  BY Zenon, AfterExists, TeardownOrder DEF After, IsAfter
<1> HIDE DEF j
<1>2. ASSUME NEW k \in 1..7, i < k, k < j PROVE ~Needed(Teardown[k])
  BY <1>1, <1>2 DEF IsAfter
<1>3. i >= 2 \/ j <= 2 \/ subscriber = None
  BY <1>1, <1>2, TeardownOrder DEF Needed
<1>4. i >= 2 => subscriber = None
  BY TeardownOrder DEF BInv, BLifecycle, Detached
<1>5. i >= 6 \/ j <= 6 \/ publisher = None
  BY <1>1, <1>2, TeardownOrder DEF Needed
<1>6. i >= 6 => publisher = None
  BY TeardownOrder DEF BInv, BLifecycle
<1>7. (j = 2 => subscriber # None) /\ (j = 6 => publisher # None)
  BY <1>1, TeardownOrder DEF IsAfter, Needed
<1>8. j \in {1, 2, 3, 4, 5, 6, 7}
  BY <1>1
<1>9. Teardown[j] \in TeardownStages
  BY <1>8, TeardownOrder DEF TeardownStages
<1>10. Fits(Teardown[j])
  BY <1>3, <1>4, <1>5, <1>6, <1>7, <1>8, TeardownOrder DEF Fits, Detached
<1> QED
  BY <1>9, <1>10 DEF j

\* Clients of the two kinds are told apart.
LEMMA Apart ==
  /\ None \notin SubClients /\ None \notin PubClients
  /\ \A n \in SubClients : n \notin PubClients
BY BusAssumption DEF SubClients, PubClients

\* The loops after gather: none of them runs.
LEMMA EndedLoops ==
  ASSUME LoopShapes(loops)
  PROVE  LoopShapes(Ended(loops)) /\ \A l \in Loops : Ended(loops)[l].pc \in {"none", "ended"}
BY Zenon DEF LoopShapes, Ended

\* Entering a stage hands what it detaches to the stage.
LEMMA Entering ==
  ASSUME BInv, NEW s \in TeardownStages, Fits(s), Enter(s)
  PROVE  /\ stop' = [pc |-> s, closing |-> stop'.closing] /\ stop'.pc = s
         /\ subscriber' \in {subscriber, None} /\ publisher' \in {publisher, None}
         /\ s \in Detached => subscriber' = None
         /\ s \in {"flush", "drain"} => publisher' = None
         /\ s = "close" => stop'.closing \in SubClients
         /\ s = "flush" => stop'.closing \in PubClients
         /\ s \notin {"close", "flush"} => stop'.closing = None
         /\ stop'.closing \in {subscriber, publisher, None}
         /\ {subscriber, publisher} \subseteq {subscriber', publisher', stop'.closing, None}
         /\ {pull_executor', publish_executor'} \subseteq BOOLEAN
         /\ LoopShapes(loops')
         /\ \A l \in Loops : loops'[l].pc \in {loops[l].pc, "none", "ended"}
         /\ s = "drain" => \A l \in Loops : loops'[l].pc \in {"none", "ended"}
<1>1. subscriber \in SubClients \cup {None} /\ publisher \in PubClients \cup {None} /\ LoopShapes(loops)
      /\ {pull_executor, publish_executor} \subseteq BOOLEAN
  BY Zenon DEF BInv, BusTypeOK, LoopShapes
<1>2. LoopShapes(loops') /\ (\A l \in Loops : loops'[l].pc \in {loops[l].pc, "none", "ended"})
      /\ (s = "drain" => \A l \in Loops : loops'[l].pc \in {"none", "ended"})
  <2>1. loops' \in {loops, Ended(loops)} /\ (s = "drain" => loops' = Ended(loops))
    BY DEF Enter
  <2> QED
    BY Zenon, <2>1, <1>1, EndedLoops
<1>3. {pull_executor', publish_executor'} \subseteq BOOLEAN
  BY <1>1 DEF Enter
<1>4. stop' = [pc |-> s, closing |-> stop'.closing] /\ stop'.pc = s
      /\ stop'.closing = IF s = "close" THEN subscriber ELSE IF s = "flush" THEN publisher ELSE None
  BY DEF Enter
<1>5. subscriber' = (IF s = "close" THEN None ELSE subscriber) /\ publisher' = (IF s = "flush" THEN None ELSE publisher)
  BY Zenon DEF Enter
<1> QED
  BY Zenon, <1>1, <1>2, <1>3, <1>4, <1>5 DEF Fits, Detached

\* What a stage of stop() closes is not a client that a background task closes.
LEMMA ClosingApart ==
  ASSUME BInv, subscriber' \in {subscriber, None}, publisher' \in {publisher, None},
         stop'.closing \in {subscriber, publisher, None},
         \A c \in PubClients : batch[c] = {} => batch'[c] = {},
         UNCHANGED <<background, pub, start, starts>>
  PROVE  BDropped'
<1>1. subscriber \in SubClients \cup {None}
  BY Zenon DEF BInv, BusTypeOK
<1>2. \A n \in SubClients : n # subscriber => n # subscriber'
  BY Zenon, Apart
<1>3. \A c \in PubClients : c # publisher => c # publisher' /\ c # stop'.closing
  BY <1>1, Apart
<1> QED
  BY Zenon, <1>2, <1>3 DEF BInv, BDropped

\* stop clears its flags and begins.
LEMMA StopBeginKeeps == ASSUME BInv, StopBegin PROVE BInv'
<1> DEFINE s == Teardown[After(0)]
<1>1. s \in TeardownStages /\ Fits(s) /\ Enter(s)
  BY NextStage DEF StopBegin
<1> HIDE DEF s
<1>2. /\ stop.pc = "idle" /\ stops < MaxStops /\ stops' = stops + 1
      /\ stopped' = TRUE /\ stopping' = TRUE /\ generation' = generation + 1
      /\ UNCHANGED <<started, broadcast_subs, failed, start, starts, pub, open, background, batch, sent>>
  BY Zenon DEF StopBegin
<1>3. stop.closing = None /\ generation = stops /\ stops \in 0..MaxStops /\ MaxStops \in Nat
  BY Zenon, <1>2, BusAssumption DEF BInv, BLifecycle, BShapes, BusTypeOK
<1>4. BusTypeOK'
  <2>1. stop'.pc \in {"idle"} \cup {Teardown[i] : i \in DOMAIN Teardown}
    BY <1>1, Entering, TeardownOrder DEF TeardownStages
  <2>2. generation' \in 0..MaxStops /\ stops' \in 0..MaxStops
    <3>1. stops < MaxStops /\ stops' = stops + 1 /\ generation' = stops + 1
      BY Zenon, <1>2, <1>3
    <3> QED
      BY <3>1, <1>3
  <2>3. /\ subscriber' \in SubClients \cup {None} /\ publisher' \in PubClients \cup {None}
        /\ {pull_executor', publish_executor'} \subseteq BOOLEAN /\ LoopShapes(loops')
    BY Zenon, <1>1, Entering DEF BInv, BusTypeOK
  <2> QED
    BY ZenonT(60), <1>2, <2>1, <2>2, <2>3 DEF BInv, BusTypeOK, LoopShapes
<1>5. BShapes'
  <2>1. stop' = [pc |-> stop'.pc, closing |-> stop'.closing]
    BY ZenonT(60), <1>1, Entering
  <2>2. start.gen \in Nat /\ start.gen <= generation'
    BY SMTT(30), <1>2, <1>3 DEF BInv, BShapes
  <2> QED
    BY Zenon, <1>2, <1>3, <2>1, <2>2 DEF BInv, BShapes
<1>6. BLifecycle'
  BY Zenon, <1>1, <1>2, Entering DEF BInv, BLifecycle
<1>7. BOwned'
  <2>1. \A c \in open : c # None
    BY Zenon, Apart DEF BInv, BusTypeOK
  <2>2. {subscriber, publisher} \subseteq {subscriber', publisher', stop'.closing, None}
    BY Zenon, <1>1, Entering
  <2> QED
    BY Zenon, <1>2, <1>3, <2>1, <2>2 DEF BInv, BOwned
<1>8. BDropped'
  BY ZenonT(60), <1>1, <1>2, Entering, ClosingApart
<1>9. BOperational'
  BY <1>2, <1>3 DEF BInv, BShapes, BOperational
<1>10. BQuiet'
  BY Zenon, <1>1, <1>2, Entering DEF BInv, BQuiet
<1>11. BKept'
  BY Zenon, <1>2 DEF BInv, BKept
<1> QED
  BY ZenonT(60), <1>4, <1>5, <1>6, <1>7, <1>8, <1>9, <1>10, <1>11 DEF BInv

\* A stage that ends closes what it detached; the batch of a publisher is
\* transmitted first.
Closes ==
    /\ open' = open \ {stop.closing}
    /\ IF stop.pc = "flush"
       THEN sent' = sent \cup batch[stop.closing] /\ batch' = [batch EXCEPT ![stop.closing] = {}]
       ELSE UNCHANGED <<batch, sent>>
    /\ UNCHANGED pub

\* A client is closed: nothing is opened, and no batch filled.
LEMMA Closed ==
  ASSUME BInv, Closes
  PROVE  /\ open' \subseteq open /\ sent' \subseteq Publishers
         /\ batch' \in [PubClients -> SUBSET Publishers]
         /\ \A c \in PubClients : batch[c] = {} => batch'[c] = {}
         /\ BKept'
<1>1. batch \in [PubClients -> SUBSET Publishers] /\ sent \subseteq Publishers
  BY Zenon DEF BInv, BShapes, BusTypeOK
<1>2. CASE stop.pc = "flush"
  <2>1. stop.closing \in PubClients
    BY <1>2 DEF BInv, BLifecycle
  <2>2. /\ batch' \in [PubClients -> SUBSET Publishers] /\ batch'[stop.closing] = {}
        /\ \A c \in PubClients : c # stop.closing => batch'[c] = batch[c]
    BY Zenon, <1>1, <1>2, <2>1 DEF Closes
  <2>3. sent' = sent \cup batch[stop.closing] /\ sent' \subseteq Publishers
    BY ZenonT(60), <1>1, <1>2, <2>1 DEF Closes
  <2>4. BKept'
    <3> SUFFICES ASSUME NEW p \in Publishers, pub[p].pc = "returned"
                 PROVE  p \in sent' \/ (pub[p].client \in open' /\ p \in batch'[pub[p].client])
      BY Zenon DEF BKept, Closes
    <3>1. pub[p].client \in PubClients /\ (p \in sent \/ (pub[p].client \in open /\ p \in batch[pub[p].client]))
      BY Zenon DEF BInv, BShapes, BKept
    <3> QED
      BY Zenon, <2>2, <2>3, <3>1 DEF Closes
  <2> QED
    BY Zenon, <2>2, <2>3, <2>4 DEF Closes
<1>3. CASE stop.pc # "flush"
  <2>1. stop.closing \notin PubClients
    BY Zenon, <1>3, Apart DEF BInv, BLifecycle
  <2>2. batch' = batch /\ sent' = sent /\ open' = open \ {stop.closing} /\ pub' = pub
    BY Zenon, <1>3 DEF Closes
  <2>3. BKept'
    BY Zenon, <2>1, <2>2 DEF BInv, BShapes, BKept
  <2> QED
    BY Zenon, <1>1, <2>2, <2>3
<1> QED
  BY Zenon, <1>2, <1>3

\* stop does a stage.
LEMMA StopStepKeeps == ASSUME BInv, StopStep PROVE BInv'
<1> DEFINE i == StageNo(stop.pc)
           s == Teardown[After(i)]
<1>1. stop.pc \in TeardownStages /\ stop.pc \notin {"idle", "drain"}
  <2>1. stop.pc \notin {"idle", "drain"}
    BY DEF StopStep
  <2>2. stop.pc \in {"idle"} \cup {Teardown[k] : k \in DOMAIN Teardown}
    BY Zenon DEF BInv, BusTypeOK
  <2>3. \A k \in DOMAIN Teardown : Teardown[k] \in TeardownStages
    BY TeardownOrder DEF TeardownStages
  <2> QED
    BY Zenon, <2>1, <2>2, <2>3
<1>2. i \in 1..7 /\ Teardown[i] = stop.pc
  BY Zenon, <1>1, StageNumber
<1>3. i \in 0..6 /\ i # 0
  BY <1>1, <1>2, TeardownOrder
<1>4. Enter(s)
  BY Zenon DEF StopStep
<1> HIDE DEF i
<1>5. s \in TeardownStages /\ Fits(s)
  BY Zenon, <1>2, <1>3, NextStage
<1> HIDE DEF s
<1>6. Closes /\ UNCHANGED <<flags, failed, start, starts, stops, background>>
      /\ broadcast_subs' = (broadcast_subs /\ stop.pc # "delete")
  BY Zenon DEF StopStep, Closes
<1>7. BusTypeOK'
  <2>1. stop'.pc \in {"idle"} \cup {Teardown[k] : k \in DOMAIN Teardown}
    BY SMTT(30), <1>4, <1>5, Entering, TeardownOrder DEF TeardownStages
  <2>2. /\ subscriber' \in SubClients \cup {None} /\ publisher' \in PubClients \cup {None}
        /\ {pull_executor', publish_executor'} \subseteq BOOLEAN /\ LoopShapes(loops')
    BY Zenon, <1>4, <1>5, Entering DEF BInv, BusTypeOK
  <2>3. open' \subseteq open /\ sent' \subseteq Publishers /\ pub' = pub
    BY <1>6, Closed DEF Closes
  <2>4. broadcast_subs' \in BOOLEAN
    BY Zenon, <1>6
  <2> QED
    BY Zenon, <1>6, <2>1, <2>2, <2>3, <2>4 DEF BInv, BusTypeOK, LoopShapes, flags
<1>8. BShapes'
  <2>1. stop' = [pc |-> stop'.pc, closing |-> stop'.closing]
    BY Zenon, <1>4, <1>5, Entering
  <2>2. batch' \in [PubClients -> SUBSET Publishers] /\ pub' = pub
    BY Zenon, <1>6, Closed DEF Closes
  <2> QED
    BY Zenon, <1>6, <2>1, <2>2 DEF BInv, BShapes, flags
<1>9. BLifecycle'
  <2>1. stopped /\ stopping
    BY Zenon, <1>1 DEF BInv, BLifecycle
  <2> QED
    BY Zenon, <1>4, <1>5, <1>6, <2>1, Entering DEF BInv, BLifecycle, flags
<1>10. BOwned'
  <2>1. \A c \in open : c # None
    BY Zenon, Apart DEF BInv, BusTypeOK
  <2>2. {subscriber, publisher} \subseteq {subscriber', publisher', stop'.closing, None}
    BY Zenon, <1>4, <1>5, Entering
  <2> QED
    BY ZenonT(60), <1>6, <2>1, <2>2 DEF BInv, BOwned, Closes
<1>11. BDropped'
  <2>1. \A c \in PubClients : batch[c] = {} => batch'[c] = {}
    BY Zenon, <1>6, Closed
  <2> QED
    BY Zenon, <1>4, <1>5, <1>6, <2>1, Entering, ClosingApart DEF Closes
<1>12. BOperational'
  BY Zenon, <1>1, <1>6 DEF BInv, BOperational, flags
<1>13. BQuiet'
  BY Zenon, <1>4, <1>5, <1>6, Entering DEF BInv, BQuiet, flags
<1>14. BKept'
  BY Zenon, <1>6, Closed
<1> QED
  BY Zenon, <1>7, <1>8, <1>9, <1>10, <1>11, <1>12, <1>13, <1>14 DEF BInv

\* stop is through.
LEMMA StopReturnsKeeps == ASSUME BInv, StopReturns PROVE BInv'
<1>1. /\ stop.pc = "drain" /\ stop' = [pc |-> "idle", closing |-> None] /\ failed' = {}
      /\ stopped' = FALSE /\ stopping' = FALSE /\ started' = FALSE
      /\ start' = [start EXCEPT !.result = "none"]
      /\ UNCHANGED <<generation, clients, broadcast_subs, loops, starts, stops, pub, open, background, batch, sent>>
  BY Zenon DEF StopReturns
<1>2. subscriber = None /\ stop.closing = None
  BY <1>1 DEF BInv, BLifecycle, Detached
<1>3. start' = [pc |-> start.pc, gen |-> start.gen, result |-> "none"]
  BY Zenon, <1>1 DEF BInv, BShapes
<1>4. BusTypeOK'
  BY ZenonT(60), <1>1, <1>3 DEF BInv, BusTypeOK, clients
<1>5. BShapes'
  BY Zenon, <1>1, <1>3 DEF BInv, BShapes
<1>6. BLifecycle'
  BY Zenon, <1>1, <1>2, <1>3 DEF BInv, BLifecycle, clients, Detached
<1>7. BOwned'
  BY Zenon, <1>1, <1>2, <1>3 DEF BInv, BOwned, clients
<1>8. BDropped'
  <2>1. \A c \in PubClients : c # stop'.closing
    BY Zenon, <1>1, Apart
  <2> QED
    BY Zenon, <1>1, <1>3, <2>1 DEF BInv, BDropped, clients
<1>9. BOperational'
  BY Zenon, <1>1, <1>3 DEF BInv, BOperational
<1>10. BQuiet' /\ BKept'
  BY Zenon, <1>1 DEF BInv, BQuiet, BKept
<1> QED
  BY <1>4, <1>5, <1>6, <1>7, <1>8, <1>9, <1>10 DEF BInv

\* stop is cancelled at an await.
LEMMA StopCancelledKeeps == ASSUME BInv, StopCancelled PROVE BInv'
<1>1. /\ stop.pc \notin {"idle", "drain"} /\ stop' = [pc |-> "idle", closing |-> None] /\ failed' = {}
      /\ loops' = Ended(loops) /\ stopping' = FALSE /\ Closes
      /\ UNCHANGED <<started, stopped, generation, clients, broadcast_subs, start, starts, stops, background>>
  BY Zenon DEF StopCancelled, Closes
<1>2. LoopShapes(loops') /\ \A l \in Loops : loops'[l].pc \in {"none", "ended"}
  BY Zenon, <1>1, EndedLoops DEF BInv, BusTypeOK, LoopShapes
<1>3. /\ open' \subseteq open /\ sent' \subseteq Publishers /\ pub' = pub
      /\ batch' \in [PubClients -> SUBSET Publishers]
      /\ \A c \in PubClients : batch[c] = {} => batch'[c] = {}
  BY Zenon, <1>1, Closed DEF Closes
<1>4. BusTypeOK'
  BY Zenon, <1>1, <1>2, <1>3 DEF BInv, BusTypeOK, LoopShapes, clients
<1>5. BShapes'
  BY ZenonT(60), <1>1, <1>3 DEF BInv, BShapes
<1>6. BLifecycle'
  BY <1>1 DEF BInv, BLifecycle, clients, Detached
<1>7. BOwned'
  BY ZenonT(60), <1>1 DEF BInv, BOwned, clients, Closes
<1>8. BDropped'
  BY ZenonT(60), <1>1, <1>3, ClosingApart DEF clients
<1>9. BOperational'
  BY Zenon, <1>1 DEF BInv, BOperational
<1>10. BQuiet'
  BY Zenon, <1>1, <1>2 DEF BQuiet
<1>11. BKept'
  BY Zenon, <1>1, Closed
<1> QED
  BY Zenon, <1>4, <1>5, <1>6, <1>7, <1>8, <1>9, <1>10, <1>11 DEF BInv

-----------------------------------------------------------------------------
(* publish().  A call that has not installed its client, and a client that   *)
(* a background task closes, are unknown to every other call.                *)

Call(x) ==
    /\ x = [pc |-> x.pc, gen |-> x.gen, client |-> x.client]
    /\ x.pc \in {"idle", "construct", "sending", "returned", "raised"}
    /\ x.client \in PubClients \cup {None}
    /\ x.pc \in {"sending", "returned"} => x.client # None

restVars == <<flags, subscriber, pull_executor, broadcast_subs, failed, loops, start, starts, stop, stops, sent>>

\* What publish() and the background tasks must see to.
LEMMA CallsKeep ==
  ASSUME BInv, UNCHANGED restVars,
         publisher' \in PubClients \cup {None}, publish_executor' \in BOOLEAN,
         publisher' = publisher \/ stop.pc = "idle",
         DOMAIN pub' = Publishers, \A p \in Publishers : Call(pub'[p]),
         batch' \in [PubClients -> SUBSET Publishers],
         open' \subseteq SubClients \cup PubClients,
         background' \subseteq ({"sub"} \X SubClients) \cup ({"pub"} \X PubClients),
         subscriber \in open => subscriber \in open',
         BOwned', BDropped', BKept'
  PROVE  BInv'
<1>1. BusTypeOK'
  <2>1. \A p \in Publishers : pub'[p].pc \in {"idle", "construct", "sending", "returned", "raised"}
    BY Zenon DEF Call
  <2>2. ({"sub"} \X SubClients) \cup ({"pub"} \X PubClients)
          \subseteq {"sub", "pub"} \X (SubClients \cup PubClients)
    OBVIOUS
  <2>3. background' \subseteq ({"sub"} \X SubClients) \cup ({"pub"} \X PubClients)
    OBVIOUS
  <2>4. background' \subseteq {"sub", "pub"} \X (SubClients \cup PubClients)
    BY ZenonT(60), <2>2, <2>3
  <2>5. UNCHANGED <<started, stopped, stopping, generation, subscriber, pull_executor, broadcast_subs,
                    failed, loops, start, starts, stop, stops, sent>>
    BY Zenon DEF restVars, flags
  <2>6. BusTypeOK
    BY Zenon DEF BInv
  <2>7. {started', stopped', stopping', pull_executor', publish_executor', broadcast_subs'} \subseteq BOOLEAN
    BY Zenon, <2>5, <2>6 DEF BusTypeOK
  <2> QED
    BY Zenon, <2>1, <2>4, <2>5, <2>6, <2>7 DEF BusTypeOK
<1>2. BShapes'
  BY ZenonT(60) DEF BInv, BShapes, Call, restVars, flags
<1>3. BLifecycle'
  BY Zenon DEF BInv, BLifecycle, restVars, flags
<1>4. BOperational'
  BY Zenon DEF BInv, BOperational, restVars, flags
<1>5. BQuiet'
  BY ZenonT(60) DEF BInv, BQuiet, restVars, flags
<1> QED
  BY Zenon, <1>1, <1>2, <1>3, <1>4, <1>5 DEF BInv

\* The types of the publishing side.
LEMMA BusTypes ==
  ASSUME BInv
  PROVE  /\ publisher \in PubClients \cup {None} /\ publish_executor \in BOOLEAN
         /\ DOMAIN pub = Publishers /\ \A p \in Publishers : Call(pub[p])
         /\ batch \in [PubClients -> SUBSET Publishers] /\ open \subseteq SubClients \cup PubClients
         /\ background \subseteq ({"sub"} \X SubClients) \cup ({"pub"} \X PubClients)
         /\ sent \subseteq Publishers
BY Zenon DEF BInv, BusTypeOK, BShapes, Call

\* The call of one publisher moves on.
Moves(p, x) ==
    /\ Call(x) /\ DOMAIN pub' = Publishers /\ pub'[p] = x
    /\ \A q \in Publishers : q # p => pub'[q] = pub[q]

\* publish finds its client, or sets about making one.
LEMMA PublishBeginKeeps == ASSUME BInv, NEW p \in Publishers, PublishBegin(p) PROVE BInv'
<1>1. /\ pub[p].pc = "idle" /\ UNCHANGED <<restVars, publisher, open, background, batch>>
  BY DEF PublishBegin, restVars
<1>2. \E x : Moves(p, x) /\ x.pc \in {"raised", "sending", "construct"} /\ x.client \in {pub[p].client, publisher}
  <2>1. Call(pub[p]) /\ DOMAIN pub = Publishers /\ publisher \in PubClients \cup {None}
    BY Zenon, BusTypes
  <2>2. CASE pub' = [pub EXCEPT ![p].pc = "raised"]
    <3>1. Moves(p, [pc |-> "raised", gen |-> pub[p].gen, client |-> pub[p].client])
      BY Zenon, <2>1, <2>2 DEF Moves, Call
    <3> QED
      BY <3>1
  <2>3. CASE publisher # None /\ pub' = [pub EXCEPT ![p] = [@ EXCEPT !.pc = "sending", !.client = publisher]]
    <3>1. Moves(p, [pc |-> "sending", gen |-> pub[p].gen, client |-> publisher])
      BY Zenon, <2>1, <2>3 DEF Moves, Call
    <3> QED
      BY <3>1
  <2>4. CASE pub' = [pub EXCEPT ![p] = [@ EXCEPT !.pc = "construct", !.gen = generation]]
    <3>1. Moves(p, [pc |-> "construct", gen |-> generation, client |-> pub[p].client])
      BY Zenon, <2>1, <2>4 DEF Moves, Call
    <3> QED
      BY <3>1
  <2> QED
    BY Zenon, <2>2, <2>3, <2>4 DEF PublishBegin, SendWith
<1>3. publish_executor' \in BOOLEAN
  BY ZenonT(60), BusTypes DEF PublishBegin, SendWith
<1>4. PICK x : Moves(p, x) /\ x.pc \in {"raised", "sending", "construct"} /\ x.client \in {pub[p].client, publisher}
  BY Zenon, <1>2
<1>5. BOwned'
  BY ZenonT(60), <1>1 DEF BInv, BOwned, restVars
<1>6. BDropped'
  <2>1. \A n \in SubClients : <<"sub", n>> \in background' =>
          n # subscriber' /\ n <= starts' /\ (n = starts' => start'.pc = "idle")
    BY Zenon, <1>1 DEF BInv, BDropped, restVars
  <2>2. ASSUME NEW c \in PubClients, <<"pub", c>> \in background \/ pub'[c].pc \in {"idle", "construct"}
        PROVE  /\ c # publisher /\ c # stop.closing /\ batch[c] = {}
               /\ \A q \in Publishers : pub'[q].client # c
    <3>1. <<"pub", c>> \in background \/ pub[c].pc \in {"idle", "construct"}
      BY Zenon, <1>1, <1>4, <2>2 DEF Moves, PubClients
    <3>2. /\ c # publisher /\ c # stop.closing /\ batch[c] = {} /\ \A q \in Publishers : pub[q].client # c
      BY Zenon, <3>1 DEF BInv, BDropped
    <3> QED
      BY Zenon, <3>2, <1>4 DEF Moves
  <2>3. \A c \in PubClients : <<"pub", c>> \in background => pub'[c].pc \notin {"idle", "construct"}
    BY Zenon, <1>1, <1>4 DEF BInv, BDropped, Moves, PubClients
  <2> QED
    BY Zenon, <1>1, <2>1, <2>2, <2>3 DEF BDropped, restVars
<1>7. BKept'
  BY ZenonT(60), <1>1, <1>4 DEF BInv, BKept, Moves, restVars
<1>8. \A q \in Publishers : Call(pub'[q])
  BY Zenon, <1>4, BusTypes DEF Moves
<1>9. /\ publisher' \in PubClients \cup {None} /\ publisher' = publisher
      /\ subscriber \in open => subscriber \in open'
      /\ batch' \in [PubClients -> SUBSET Publishers] /\ DOMAIN pub' = Publishers
      /\ open' \subseteq SubClients \cup PubClients
      /\ background' \subseteq ({"sub"} \X SubClients) \cup ({"pub"} \X PubClients)
  BY Zenon, <1>1, <1>4, BusTypes DEF Moves
<1> QED
  BY Zenon, <1>1, <1>3, <1>5, <1>6, <1>7, <1>8, <1>9, CallsKeep

\* The client of a call that is building one is dropped: a background task closes it.
LEMMA Drops ==
  ASSUME BInv, NEW p \in Publishers, pub[p].pc = "construct", NEW x, Moves(p, x),
         x.pc \in {"raised", "sending"}, x.client \in {pub[p].client, publisher},
         open' = open \cup {p}, background' = background \cup {<<"pub", p>>},
         UNCHANGED <<restVars, publisher, batch>>, publish_executor' \in BOOLEAN
  PROVE  BInv'
<1>1. p \in PubClients /\ open' \subseteq SubClients \cup PubClients
  <2>1. p \in PubClients
    BY Zenon DEF PubClients
  <2>2. open \subseteq SubClients \cup PubClients /\ open' = open \cup {p}
    BY ZenonT(60), BusTypes
  <2> QED
    BY Zenon, <2>1, <2>2
<1>2. background' \subseteq ({"sub"} \X SubClients) \cup ({"pub"} \X PubClients)
  <2>1. <<"pub", p>> \in {"pub"} \X PubClients
    BY <1>1
  <2> QED
    BY <2>1, BusTypes
<1>3. BOwned'
  BY ZenonT(60) DEF BInv, BOwned, restVars
<1>4. BDropped'
  <2>1. \A n \in SubClients : <<"sub", n>> \in background' => <<"sub", n>> \in background
    BY Zenon
  <2>2. \A n \in SubClients : <<"sub", n>> \in background' =>
          n # subscriber' /\ n <= starts' /\ (n = starts' => start'.pc = "idle")
    BY Zenon, <2>1 DEF BInv, BDropped, restVars
  <2>3. ASSUME NEW c \in PubClients, <<"pub", c>> \in background' \/ pub'[c].pc \in {"idle", "construct"}
        PROVE  /\ c # publisher /\ c # stop.closing /\ batch[c] = {}
               /\ \A q \in Publishers : pub'[q].client # c
    <3>1. <<"pub", c>> \in background \/ pub[c].pc \in {"idle", "construct"}
      BY ZenonT(60), <2>3 DEF Moves, PubClients
    <3>2. /\ c # publisher /\ c # stop.closing /\ batch[c] = {} /\ \A q \in Publishers : pub[q].client # c
      BY Zenon, <3>1 DEF BInv, BDropped
    <3> QED
      BY Zenon, <3>2 DEF Moves
  <2>4. \A c \in PubClients : <<"pub", c>> \in background' => pub'[c].pc \notin {"idle", "construct"}
    BY Zenon DEF BInv, BDropped, Moves, PubClients
  <2> QED
    BY ZenonT(60), <2>2, <2>3, <2>4 DEF BDropped, restVars
<1>5. BKept'
  BY ZenonT(60) DEF BInv, BKept, Moves, restVars
<1>6. \A q \in Publishers : Call(pub'[q])
  BY Zenon, BusTypes DEF Moves
<1>7. /\ publisher' \in PubClients \cup {None} /\ publisher' = publisher
      /\ subscriber \in open => subscriber \in open'
      /\ batch' \in [PubClients -> SUBSET Publishers] /\ DOMAIN pub' = Publishers
  BY BusTypes DEF Moves
<1>8. /\ UNCHANGED restVars /\ publish_executor' \in BOOLEAN
      /\ publisher' = publisher \/ stop.pc = "idle"
      /\ open' \subseteq SubClients \cup PubClients
  BY Zenon, <1>1, <1>7
<1> QED
  BY ZenonT(60), <1>2, <1>3, <1>4, <1>5, <1>6, <1>7, <1>8, CallsKeep

\* publish has made its client.
LEMMA PublishConstructedKeeps == ASSUME BInv, NEW p \in Publishers, PublishConstructed(p) PROVE BInv'
<1>1. /\ pub[p].pc = "construct" /\ open' = open \cup {p} /\ UNCHANGED <<restVars, batch>>
  BY Zenon DEF PublishConstructed, restVars
<1>2. Call(pub[p]) /\ DOMAIN pub = Publishers /\ publisher \in PubClients \cup {None} /\ publish_executor \in BOOLEAN
      /\ p \in PubClients
  BY BusTypes DEF PubClients
<1>3. CASE Overtaken(pub[p].gen)
  <2>1. /\ pub' = [pub EXCEPT ![p].pc = "raised"] /\ background' = background \cup {<<"pub", p>>}
        /\ UNCHANGED <<publisher, publish_executor>>
    BY Zenon, <1>3 DEF PublishConstructed
  <2> DEFINE x == [pc |-> "raised", gen |-> pub[p].gen, client |-> pub[p].client]
  <2>2. Moves(p, x) /\ x.pc = "raised" /\ x.client = pub[p].client
    BY Zenon, <1>2, <2>1 DEF Moves, Call
  <2> HIDE DEF x
  <2> QED
    BY Zenon, <1>1, <1>2, <2>1, <2>2, Drops
<1>4. CASE ~Overtaken(pub[p].gen) /\ publisher # None
  <2>1. /\ pub' = [pub EXCEPT ![p] = [@ EXCEPT !.pc = "sending", !.client = publisher]]
        /\ background' = background \cup {<<"pub", p>>} /\ publisher' = publisher /\ publish_executor' = TRUE
    BY <1>4 DEF PublishConstructed, Overtaken, SendWith
  <2> DEFINE x == [pc |-> "sending", gen |-> pub[p].gen, client |-> publisher]
  <2>2. Moves(p, x) /\ x.pc = "sending" /\ x.client = publisher
    BY Zenon, <1>2, <1>4, <2>1 DEF Moves, Call
  <2> HIDE DEF x
  <2> QED
    BY <1>1, <1>2, <2>1, <2>2, Drops
<1>5. CASE ~Overtaken(pub[p].gen) /\ publisher = None
  <2>1. /\ pub' = [pub EXCEPT ![p] = [@ EXCEPT !.pc = "sending", !.client = p]]
        /\ background' = background /\ publisher' = p /\ publish_executor' = TRUE
    BY Zenon, <1>5 DEF PublishConstructed, Overtaken, SendWith
  <2> DEFINE x == [pc |-> "sending", gen |-> pub[p].gen, client |-> p]
  <2>2. Moves(p, x) /\ x.pc = "sending" /\ x.client = p
    BY ZenonT(60), <1>2, <2>1, Apart DEF Moves, Call
  <2> HIDE DEF x
  <2>3. stop.pc = "idle"
    BY <1>5 DEF Overtaken, BInv, BLifecycle
  <2>4. BOwned'
    <3>1. \A c \in open : c # publisher
      BY Zenon, <1>5, Apart DEF BInv, BusTypeOK
    <3> QED
      BY ZenonT(60), <1>1, <2>1, <3>1 DEF BInv, BOwned, restVars
  <2>5. BDropped'
    <3>1. \A n \in SubClients : <<"sub", n>> \in background' =>
            n # subscriber' /\ n <= starts' /\ (n = starts' => start'.pc = "idle")
      BY Zenon, <1>1, <2>1 DEF BInv, BDropped, restVars
    <3>2. <<"pub", p>> \notin background
      BY Zenon, <1>1, <1>2 DEF BInv, BDropped
    <3>3. ASSUME NEW c \in PubClients, <<"pub", c>> \in background \/ pub'[c].pc \in {"idle", "construct"}
          PROVE  /\ c # p /\ c # stop.closing /\ batch[c] = {}
                 /\ \A q \in Publishers : pub'[q].client # c
      <4>1. c # p /\ (<<"pub", c>> \in background \/ pub[c].pc \in {"idle", "construct"})
        BY Zenon, <2>2, <3>2, <3>3 DEF Moves, PubClients
      <4>2. /\ c # stop.closing /\ batch[c] = {} /\ \A q \in Publishers : pub[q].client # c
        BY Zenon, <4>1 DEF BInv, BDropped
      <4> QED
        BY ZenonT(60), <4>1, <4>2, <2>2 DEF Moves
    <3>4. \A c \in PubClients : <<"pub", c>> \in background => pub'[c].pc \notin {"idle", "construct"}
      BY Zenon, <2>2, <3>2 DEF BInv, BDropped, Moves, PubClients
    <3> QED
      BY Zenon, <1>1, <2>1, <3>1, <3>3, <3>4 DEF BDropped, restVars
  <2>6. BKept'
    BY Zenon, <1>1, <2>2 DEF BInv, BKept, Moves, restVars
  <2>7. \A q \in Publishers : Call(pub'[q])
    BY ZenonT(60), <2>2, BusTypes DEF Moves
  <2>8. open' \subseteq SubClients \cup PubClients
    BY <1>1, <1>2, BusTypes
  <2>9. /\ publisher' \in PubClients \cup {None} /\ publish_executor' \in BOOLEAN
        /\ subscriber \in open => subscriber \in open'
        /\ batch' \in [PubClients -> SUBSET Publishers] /\ DOMAIN pub' = Publishers
        /\ background' \subseteq ({"sub"} \X SubClients) \cup ({"pub"} \X PubClients)
    BY Zenon, <1>1, <1>2, <2>1, <2>2, BusTypes DEF Moves
  <2> QED
    BY Zenon, <1>1, <2>3, <2>4, <2>5, <2>6, <2>7, <2>8, <2>9, CallsKeep
<1> QED
  BY <1>3, <1>4, <1>5

\* publish is cancelled at an await.
LEMMA PublishCancelledKeeps == ASSUME BInv, NEW p \in Publishers, PublishCancelled(p) PROVE BInv'
<1>1. /\ pub[p].pc = "construct" /\ pub' = [pub EXCEPT ![p].pc = "raised"]
      /\ open' = open \cup {p} /\ background' = background \cup {<<"pub", p>>}
      /\ UNCHANGED <<restVars, publisher, publish_executor, batch>>
  BY DEF PublishCancelled, restVars, clients
<1>2. Call(pub[p]) /\ DOMAIN pub = Publishers /\ publish_executor \in BOOLEAN
  BY BusTypes
<1> DEFINE x == [pc |-> "raised", gen |-> pub[p].gen, client |-> pub[p].client]
<1>3. Moves(p, x) /\ x.pc = "raised" /\ x.client = pub[p].client
  BY Zenon, <1>1, <1>2 DEF Moves, Call
<1> HIDE DEF x
<1> QED
  BY Zenon, <1>1, <1>2, <1>3, Drops

\* publish returns.
LEMMA PublishReturnsKeeps == ASSUME BInv, NEW p \in Publishers, PublishReturns(p) PROVE BInv'
<1> DEFINE c == pub[p].client
           e == IF c \in open THEN "returned" ELSE "raised"
           x == [pc |-> e, gen |-> pub[p].gen, client |-> c]
<1>1. /\ pub[p].pc = "sending" /\ pub' = [pub EXCEPT ![p].pc = e]
      /\ batch' = IF c \in open THEN [batch EXCEPT ![c] = @ \cup {p}] ELSE batch
      /\ UNCHANGED <<restVars, publisher, publish_executor, open, background>>
  BY Zenon DEF PublishReturns, restVars, clients
<1>2. /\ Call(pub[p]) /\ DOMAIN pub = Publishers /\ publish_executor \in BOOLEAN /\ c \in PubClients
      /\ batch \in [PubClients -> SUBSET Publishers]
  BY Zenon, <1>1, BusTypes DEF Call
<1>3. Moves(p, x) /\ x.pc = e /\ x.client = c
  BY Zenon, <1>1, <1>2 DEF Moves, Call
<1>4. /\ batch' \in [PubClients -> SUBSET Publishers] /\ (c \in open => p \in batch'[c])
      /\ \A d \in PubClients : batch[d] \subseteq batch'[d] /\ (d # c => batch'[d] = batch[d])
  BY Zenon, <1>1, <1>2
<1>5. e \in {"returned", "raised"} /\ (e = "returned" => c \in open)
  OBVIOUS
<1> HIDE DEF x, e
<1>6. BOwned'
  BY Zenon, <1>1 DEF BInv, BOwned, restVars
<1>7. BDropped'
  <2>1. \A n \in SubClients : <<"sub", n>> \in background' =>
          n # subscriber' /\ n <= starts' /\ (n = starts' => start'.pc = "idle")
    BY Zenon, <1>1 DEF BInv, BDropped, restVars
  <2>2. ASSUME NEW d \in PubClients, <<"pub", d>> \in background \/ pub'[d].pc \in {"idle", "construct"}
        PROVE  /\ d # publisher /\ d # stop.closing /\ batch'[d] = {}
               /\ \A q \in Publishers : pub'[q].client # d
    <3>1. <<"pub", d>> \in background \/ pub[d].pc \in {"idle", "construct"}
      BY Zenon, <1>3, <1>5, <2>2 DEF Moves, PubClients
    <3>2. /\ d # publisher /\ d # stop.closing /\ batch[d] = {} /\ \A q \in Publishers : pub[q].client # d
      BY Zenon, <3>1 DEF BInv, BDropped
    <3> QED
      BY Zenon, <3>2, <1>3, <1>4 DEF Moves
  <2>3. \A d \in PubClients : <<"pub", d>> \in background => pub'[d].pc \notin {"idle", "construct"}
    BY Zenon, <1>3, <1>5 DEF BInv, BDropped, Moves, PubClients
  <2> QED
    BY Zenon, <1>1, <2>1, <2>2, <2>3 DEF BDropped, restVars
<1>8. BKept'
  <2> SUFFICES ASSUME NEW q \in Publishers, pub'[q].pc = "returned"
               PROVE  q \in sent \/ (pub'[q].client \in open /\ q \in batch'[pub'[q].client])
    BY Zenon, <1>1 DEF BKept, restVars
  <2>1. CASE q = p
    BY Zenon, <2>1, <1>3, <1>4, <1>5 DEF Moves
  <2>2. CASE q # p
    <3>1. pub'[q] = pub[q] /\ pub[q].client \in PubClients
      BY Zenon, <2>2, <1>3, BusTypes DEF Moves, Call
    <3>2. q \in sent \/ (pub[q].client \in open /\ q \in batch[pub[q].client])
      BY ZenonT(60), <3>1 DEF BInv, BKept
    <3> QED
      BY Zenon, <3>1, <3>2, <1>4
  <2> QED
    BY Zenon, <2>1, <2>2
<1>9. \A q \in Publishers : Call(pub'[q])
  BY Zenon, <1>3, BusTypes DEF Moves
<1>10. /\ publisher' \in PubClients \cup {None} /\ publisher' = publisher /\ publish_executor' \in BOOLEAN
       /\ subscriber \in open => subscriber \in open'
       /\ open' \subseteq SubClients \cup PubClients /\ DOMAIN pub' = Publishers
       /\ background' \subseteq ({"sub"} \X SubClients) \cup ({"pub"} \X PubClients)
  BY Zenon, <1>1, <1>2, <1>3, BusTypes DEF Moves
<1> QED
  BY Zenon, <1>1, <1>4, <1>6, <1>7, <1>8, <1>9, <1>10, CallsKeep

\* A client sends its batch.
LEMMA TransmitKeeps == ASSUME BInv, NEW c \in PubClients, Transmit(c) PROVE BInv'
<1>1. /\ sent' = sent \cup batch[c] /\ batch' = [batch EXCEPT ![c] = {}]
      /\ UNCHANGED <<flags, clients, broadcast_subs, failed, loops, start, starts, stop, stops, pub, open, background>>
  BY Zenon DEF Transmit
<1>2. /\ batch \in [PubClients -> SUBSET Publishers] /\ sent \subseteq Publishers
      /\ \A p \in Publishers : Call(pub[p])
  BY BusTypes
<1>3. /\ batch' \in [PubClients -> SUBSET Publishers] /\ sent' \subseteq Publishers /\ batch'[c] = {}
      /\ \A d \in PubClients : d # c => batch'[d] = batch[d]
  BY Zenon, <1>1, <1>2
<1>4. BusTypeOK'
  BY ZenonT(60), <1>1, <1>3 DEF BInv, BusTypeOK, flags, clients
<1>5. BShapes' /\ BLifecycle'
  BY ZenonT(60), <1>1, <1>3 DEF BInv, BShapes, BLifecycle, flags, clients
<1>6. BOwned' /\ BOperational' /\ BQuiet'
  BY ZenonT(60), <1>1 DEF BInv, BOwned, BOperational, BQuiet, flags, clients
<1>7. BDropped'
  <2>1. \A d \in PubClients : batch[d] = {} => batch'[d] = {}
    BY Zenon, <1>3
  <2> QED
    BY Zenon, <1>1, <2>1 DEF BInv, BDropped, flags, clients
<1>8. BKept'
  <2> SUFFICES ASSUME NEW p \in Publishers, pub[p].pc = "returned"
               PROVE  p \in sent' \/ (pub[p].client \in open /\ p \in batch'[pub[p].client])
    BY ZenonT(60), <1>1 DEF BKept
  <2>1. pub[p].client \in PubClients /\ (p \in sent \/ (pub[p].client \in open /\ p \in batch[pub[p].client]))
    BY Zenon, <1>2 DEF BInv, BKept, Call
  <2> QED
    BY ZenonT(60), <2>1, <1>1, <1>3
<1> QED
  BY <1>4, <1>5, <1>6, <1>7, <1>8 DEF BInv

\* A close that was left to a background task.
LEMMA BackgroundCloseKeeps == ASSUME BInv, NEW b \in background, BackgroundClose(b) PROVE BInv'
<1>1. /\ background' = background \ {b} /\ open' = open \ {b[2]}
      /\ UNCHANGED <<restVars, publisher, publish_executor, pub, batch>>
  BY DEF BackgroundClose, restVars, clients
<1>2. b \in ({"sub"} \X SubClients) \cup ({"pub"} \X PubClients)
  BY BusTypes
<1>3. \/ b = <<"sub", b[2]>> /\ b[2] \in SubClients
      \/ b = <<"pub", b[2]>> /\ b[2] \in PubClients
  BY <1>2
<1>4. BOwned'
  <2>1. ASSUME NEW c \in open', NEW kind \in {"sub", "pub"}, <<kind, c>> \in background
        PROVE  <<kind, c>> \in background'
    <3>1. <<kind, c>>[2] = c /\ c # b[2]
      BY Zenon, <1>1
    <3> QED
      BY Zenon, <1>1, <2>1, <3>1
  <2> QED
    BY Zenon, <1>1, <2>1 DEF BInv, BOwned, restVars
<1>5. BDropped'
  BY Zenon, <1>1 DEF BInv, BDropped, restVars
<1>6. BKept'
  <2> SUFFICES ASSUME NEW p \in Publishers, pub[p].pc = "returned"
               PROVE  p \in sent \/ (pub[p].client \in open' /\ p \in batch[pub[p].client])
    BY Zenon, <1>1 DEF BKept, restVars
  <2>1. pub[p].client \in PubClients /\ (p \in sent \/ (pub[p].client \in open /\ p \in batch[pub[p].client]))
    BY Zenon, BusTypes DEF BInv, BKept, Call
  <2>2. pub[p].client # b[2]
    BY ZenonT(60), <1>3, <2>1, Apart DEF BInv, BDropped
  <2> QED
    BY ZenonT(60), <1>1, <2>1, <2>2
<1>7. subscriber \in open => subscriber \in open'
  <2>1. subscriber \in SubClients \cup {None} /\ None \notin open
    BY ZenonT(60), Apart DEF BInv, BusTypeOK
  <2>2. subscriber \in SubClients => subscriber # b[2]
    BY Zenon, <1>3, Apart DEF BInv, BDropped
  <2> QED
    BY <1>1, <2>1, <2>2
<1>8. /\ background' \subseteq ({"sub"} \X SubClients) \cup ({"pub"} \X PubClients)
      /\ open' \subseteq SubClients \cup PubClients
  BY <1>1, BusTypes
<1>9. /\ publisher' \in PubClients \cup {None} /\ publisher' = publisher /\ publish_executor' \in BOOLEAN
      /\ batch' \in [PubClients -> SUBSET Publishers] /\ DOMAIN pub' = Publishers
      /\ \A p \in Publishers : Call(pub'[p])
  BY <1>1, BusTypes
<1> QED
  BY Zenon, <1>1, <1>4, <1>5, <1>6, <1>7, <1>8, <1>9, CallsKeep

\* A stuttering step.
LEMMA BStutters == ASSUME BInv, UNCHANGED busVars PROVE BInv'
<1> USE DEF BInv, busVars, flags, clients
<1>1. BusTypeOK' /\ BShapes'
  BY ZenonT(60) DEF BusTypeOK, BShapes
<1>2. BLifecycle' /\ BOwned' /\ BDropped'
  BY ZenonT(60) DEF BLifecycle, BOwned, BDropped
<1>3. BOperational' /\ BQuiet' /\ BKept'
  BY Zenon DEF BOperational, BQuiet, BKept
<1> QED
  BY Zenon, <1>1, <1>2, <1>3

\* Every step keeps the invariant of the bus.
LEMMA BKeeps == BInv /\ [BusNext]_busVars => BInv'
<1> SUFFICES ASSUME BInv, [BusNext]_busVars PROVE BInv'
  OBVIOUS
<1>1. CASE StartBegin \/ StartStep \/ StartCancelled
  BY Zenon, <1>1, StartBeginKeeps, StartConstructedKeeps, StartAbortedKeeps, StartEnsuredKeeps, StartCancelledKeeps
     DEF StartStep
<1>2. CASE LoopStep \/ \E l \in Loops : LoopHalts(l)
  BY Zenon, <1>2, LoopBeginKeeps, LoopStopsKeeps, LoopHaltsKeeps DEF LoopStep
<1>3. CASE StopBegin \/ StopStep \/ StopReturns \/ StopCancelled
  BY <1>3, StopBeginKeeps, StopStepKeeps, StopReturnsKeeps, StopCancelledKeeps
<1>4. CASE \E p \in Publishers : PublishBegin(p) \/ PublishStep(p) \/ PublishCancelled(p)
  BY <1>4, PublishBeginKeeps, PublishConstructedKeeps, PublishReturnsKeeps, PublishCancelledKeeps DEF PublishStep
<1>5. CASE \E c \in PubClients : Transmit(c)
  BY <1>5, TransmitKeeps
<1>6. CASE CloseStep
  BY <1>6, BackgroundCloseKeeps DEF CloseStep
<1>7. CASE UNCHANGED busVars
  BY <1>7, BStutters
<1> QED
  BY Zenon, <1>1, <1>2, <1>3, <1>4, <1>5, <1>6, <1>7 DEF BusNext

(***************************************************************************)
(* For any publishers and any number of starts and stops: however start(),   *)
(* stop(), publish() and their cancellations overtake each other, no SDK     *)
(* client is leaked, a bus that says it is healthy consumes and one that was *)
(* stopped does not, and no message whose publish() returned is lost in a    *)
(* batch (PubSubEventBus).                                                   *)
(***************************************************************************)
THEOREM BusIsConsistent == BusSpec => []BusConsistent
<1> QED
  BY BBegins, BKeeps, BSound, PTL DEF BusSpec
=============================================================================
