----------------------------- MODULE Governance -----------------------------
(***************************************************************************)
(* The tenant boundary, the organization's settings, the agents and the     *)
(* keystone rules together.  A scene gives each part its work; agents and    *)
(* keystones meet in the trust level an operator changes under a caller.     *)
(***************************************************************************)
EXTENDS Keystones

CONSTANT GScenes

Registrations ==
    [broker : BOOLEAN, install : Installs \cup {NoInstall}, instId : Installs \cup {NoInstall},
     name : Ids, fleet : Fleets \cup {Unassigned}, approval : BOOLEAN]
AgentCalls ==
    [kind : STRING, name : Ids, level : Nat, fleet : Fleets \cup {Unassigned}, fields : SUBSET STRING]
Rules == [scope : {"none", "tenant", "fleet", "agent"}, target : Ids \cup {"none"}]
KeyCalls ==
    [via : {"rest", "mcp"}, op : {"set", "delete"}, caller : Ids \cup STRING, verified : BOOLEAN, new : Rules]

ASSUME LabelAssumption ==
    /\ NoInstall \notin Installs
    /\ \A i, j \in Installs : Label(i) = Label(j) => i = j

ASSUME SceneAssumption ==
    /\ DefaultTrust \in Nat
    /\ \A sc \in GScenes :
          /\ sc.settings \in [there : BOOLEAN, val : Overrides]
          /\ ~sc.settings.there => sc.settings.val = NoOverrides
          /\ sc.updates \in Seq([w : Workers, new : Overrides])
          /\ sc.known \subseteq Ids /\ sc.trust \in Nat
          /\ sc.regs \in Seq(Registrations) /\ sc.aops \in Seq(AgentCalls)
          /\ sc.rule \in Rules /\ sc.kops \in Seq(KeyCalls)

\* Requests and purges that the routes accept: purge_org_data refuses duplicates.  The
\* selection of the other readable tenants gives tenants.
ASSUME BoundaryAssumption ==
    /\ Local \in Tenants
    /\ \A home \in Tenants : Others(home, <<>>) \in Seq(Tenants)
    /\ \A sc \in GScenes :
          /\ sc.purge \in Seq(Tenants)
          /\ \A i, j \in 1..Len(sc.purge) : sc.purge[i] = sc.purge[j] => i = j
          /\ \A r \in 1..Len(sc.reqs) :
                /\ sc.reqs[r].w \in Workers /\ sc.reqs[r].home \in Tenants \cup {NoTenant}
                /\ \A home \in Tenants : Others(home, sc.reqs[r].readable) \in Seq(Tenants)

gvars == <<gscene, settingsVars, tenancyVars, agentVars, keyVars>>

GInit ==
    /\ gscene \in GScenes
    /\ SettingsInit(gscene) /\ TenancyInit(gscene) /\ AgentsInit(gscene) /\ KeystonesInit(gscene)

Progress ==
    \/ SettingsProgress /\ UNCHANGED <<tenancyVars, agentVars, keyVars>>
    \/ TenancyProgress /\ UNCHANGED <<agentVars, keyVars>>

GNext ==
    \/ SettingsStep /\ UNCHANGED <<tenancyVars, agentVars, keyVars>>
    \/ TenancyStep /\ UNCHANGED <<agentVars, keyVars>>
    \/ AgentStep /\ UNCHANGED <<settingsVars, tenancyVars, keyVars>>
    \/ KeyStep /\ UNCHANGED <<settingsVars, tenancyVars, agentVars>>

\* Loads recur as entries expire, so they are not part of Progress, which runs dry.
Loading == (\E w \in Workers : LoadCaches(w)) /\ UNCHANGED <<tenancyVars, agentVars, keyVars>>

GSpec == GInit /\ [][GNext]_gvars /\ WF_gvars(Progress) /\ WF_gvars(Loading)
               /\ WF_gvars(Tick /\ UNCHANGED <<agentVars, keyVars>>)
=============================================================================
