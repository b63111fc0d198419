--------------------------- MODULE ResponseCache ---------------------------
(***************************************************************************)
(* What the idempotency inbox promises for one key: a cell that holds at   *)
(* most one response.  It is filled once with the response of an executed  *)
(* request, answers every request with the same body hash by that          *)
(* response, is never overwritten, and may be forgotten (TTL, purge).      *)
(***************************************************************************)
CONSTANTS Requests, HashOf, NoBody

VARIABLES
    cell,       \* the request whose response is held, or NoBody
    served      \* the response replayed to each request, or NoBody

cacheVars == <<cell, served>>

Init ==
    /\ cell = NoBody
    /\ served = [r \in Requests |-> NoBody]

Fill(r) ==
    /\ cell = NoBody
    /\ cell' = r
    /\ UNCHANGED served

Serve(r) ==
    /\ cell # NoBody
    /\ served[r] = NoBody
    /\ HashOf[cell] = HashOf[r]
    /\ served' = [served EXCEPT ![r] = cell]
    /\ UNCHANGED cell

Forget ==
    /\ cell' = NoBody
    /\ UNCHANGED served

Next ==
    \/ \E r \in Requests : Fill(r) \/ Serve(r)
    \/ Forget

Spec == Init /\ [][Next]_cacheVars
=============================================================================
