----------------------------- MODULE Knowledge -----------------------------
(***************************************************************************)
(* The services that reason over a tenant's memories, on one table: insight  *)
(* generation, outcome reports, entity extraction and linking,                *)
(* crystallization, short-term notes, search and recall.  A scene says what   *)
(* is in the table and which of them run.                                     *)
(***************************************************************************)
EXTENDS Crystallizer, Search

CONSTANT NScenes

knowledgeVars == <<memVars, insightVars, evolveVars, entityVars, crystalVars, stmVars, searchVars>>

Init ==
    /\ nscene \in NScenes /\ nmem = nscene.mem /\ nfault = nscene.faults
    /\ InsightsInit(nscene) /\ EvolveInit(nscene) /\ ExtractionInit(nscene) /\ LinkingInit(nscene) /\ CrystalInit(nscene)
    /\ StmInit(nscene) /\ SearchInit(nscene)

Next ==
    \/ InsightStep /\ UNCHANGED <<evolveVars, entityVars, crystalVars, stmVars, searchVars>>
    \/ EvolveStep /\ UNCHANGED <<insightVars, entityVars, crystalVars, stmVars, searchVars>>
    \/ ExtractionStep /\ UNCHANGED <<insightVars, evolveVars, crystalVars, stmVars, searchVars>>
    \/ LinkingStep /\ UNCHANGED <<insightVars, evolveVars, crystalVars, stmVars, searchVars>>
    \/ CrystalStep /\ UNCHANGED <<insightVars, evolveVars, entityVars, stmVars, searchVars>>
    \/ SearchStep /\ UNCHANGED <<insightVars, evolveVars, crystalVars>>

Spec == Init /\ [][Next]_knowledgeVars
=============================================================================
