----------------------------- MODULE OrgSettings -----------------------------
(***************************************************************************)
(* The overrides of one organization: the transactional upsert of          *)
(* core-storage-api, the per-process TTL cache of core-api in front of the  *)
(* replica, and the settings-changed broadcast that empties it             *)
(* (services/organization_settings.py).                                     *)
(*                                                                         *)
(* Overrides are a JSON object of sections of leaves; a section is present  *)
(* when one of its leaves is.  Time passes in Age steps, in which a cache   *)
(* entry gets one tick closer to its expiry.                               *)
(***************************************************************************)
EXTENDS Naturals, Sequences, FiniteSets

CONSTANTS
    Workers,              \* core-api processes
    Sections, Leaves,     \* the keys of DEFAULT_SETTINGS
    SetVals, SetDefault,  \* the values a leaf accepts, and its default
    SetTTL                \* the TTL of _settings_cache

Unset == 0
ASSUME SettingsAssumption == SetTTL \in Nat \ {0} /\ SetVals \subseteq Nat \ {Unset}
                                                    /\ SetDefault \in SetVals

VARIABLES
    gscene,   \* what the scene still allows
    sset,     \* the row of organization_settings on the primary: [there, val]
    srep,     \* the overrides the replica shows
    slock,    \* the update that holds the row lock, 0 for none
    supd,     \* the updates under way
    scache,   \* _settings_cache of each worker: [val, ttl], expired at ttl 0
    sload,    \* a load under way in each worker
    sbus,     \* workers with an undelivered settings-changed event
    slast,    \* the value each leaf was last committed with
    sfirst    \* sections written by an update that began before the row existed
              \* and found it there when it wrote

settingsVars == <<sset, srep, slock, supd, scache, sload, sbus, slast, sfirst>>

Overrides == [Sections -> [Leaves -> Nat]]
NoOverrides == [s \in Sections |-> [l \in Leaves |-> Unset]]
GFault == gscene.faults > 0 /\ gscene' = [gscene EXCEPT !.faults = @ - 1]

SettingsInit(sc) ==
    /\ sset = sc.settings
    /\ srep = sset.val /\ slast = sset.val
    /\ slock = 0 /\ sfirst = {} /\ sbus = {}
    /\ supd = [u \in 1..Len(sc.updates) |->
                 [pc |-> "new", new |-> sc.updates[u].new, w |-> sc.updates[u].w,
                  base |-> NoOverrides, had |-> FALSE]]
    /\ scache = [w \in Workers |-> [val |-> NoOverrides, ttl |-> 0]]
    /\ sload = [w \in Workers |-> [pc |-> "idle", val |-> NoOverrides]]

-----------------------------------------------------------------------------
(* What the update computes.                                               *)

Keys(o) == {k \in Sections \X Leaves : o[k[1]][k[2]] # Unset}

deep_merge(old, new) ==
    [s \in Sections |-> [l \in Leaves |-> IF new[s][l] # Unset THEN new[s][l] ELSE old[s][l]]]

\* Only leaves the payload names, and only those whose value differs.
diff_settings(old, new) ==
    {k \in Keys(new) : new[k[1]][k[2]] # old[k[1]][k[2]]}

\* organization_settings.settings || EXCLUDED.settings: a section that the right
\* side has replaces the whole section on the left.
JsonbConcat(left, right) ==
    [s \in Sections |-> IF \E l \in Leaves : right[s][l] # Unset THEN right[s] ELSE left[s]]

\* The validators in front of the update refuse what the schema does not know:
\* keys, leaf types, governance enums, search profiles out of range, a bad cron.
_check_keys(p) == DOMAIN p \subseteq Sections /\ \A s \in DOMAIN p : DOMAIN p[s] \subseteq Leaves
_LEAF_RANGES == SetVals \cup {Unset}
_validate_leaf_types(p) == \A s \in DOMAIN p : \A l \in DOMAIN p[s] : p[s][l] \in Nat /\ p[s][l] \in _LEAF_RANGES
_validate_governance_enums(p) == \A s \in DOMAIN p : \A l \in DOMAIN p[s] : p[s][l] \in SetVals \cup {Unset}

\* The schema with its defaults, and what a caller resolves: the organization's
\* override, else the default.
DEFAULT_SETTINGS == [s \in Sections |-> [l \in Leaves |-> SetDefault]]
OrDefault(v, default) == IF v # Unset THEN v ELSE default
ResolvedConfig(raw) == [s \in Sections |-> [l \in Leaves |-> OrDefault(raw[s][l], DEFAULT_SETTINGS[s][l])]]

-----------------------------------------------------------------------------
(* update_settings and the transaction behind it.                          *)

UpdValidates(u) ==
    /\ supd[u].pc = "new"
    /\ LET p == supd[u].new
       IN supd' = [supd EXCEPT ![u].pc =
                     IF _check_keys(p) /\ _validate_leaf_types(p) /\ _validate_governance_enums(p)
                     THEN "valid" ELSE "refused"]
    /\ UNCHANGED <<gscene, sset, srep, slock, scache, sload, sbus, slast, sfirst>>

UnlockedRead(u) ==
    /\ supd[u].pc = "valid"
    /\ supd' = [supd EXCEPT ![u].pc = IF diff_settings(sset.val, supd[u].new) = {} THEN "done" ELSE "txn",
                            ![u].base = sset.val, ![u].had = sset.there]
    /\ UNCHANGED <<gscene, sset, srep, slock, scache, sload, sbus, slast, sfirst>>

\* SELECT ... FOR UPDATE: it waits for the row's lock, and locks nothing when there
\* is no row.  An empty diff ends the transaction with changed = FALSE.
UpdReads(u) ==
    /\ supd[u].pc = "valid"
    /\ sset.there => slock = 0
    /\ LET noop == diff_settings(sset.val, supd[u].new) = {}
       IN /\ supd' = [supd EXCEPT ![u].pc = IF noop THEN "done" ELSE "txn",
                                  ![u].base = sset.val, ![u].had = sset.there]
          /\ slock' = IF sset.there /\ ~noop THEN u ELSE slock
    /\ UNCHANGED <<gscene, sset, srep, scache, sload, sbus, slast, sfirst>>

Upserted(u) ==
    LET merged == deep_merge(supd[u].base, supd[u].new)
    IN [there |-> TRUE, val |-> IF sset.there THEN JsonbConcat(sset.val, merged) ELSE merged]

\* The upsert, the audit row and the commit.  An upsert that meets a row somebody
\* else holds waits for it.  The answer may get lost after the commit: POST is not
\* replayed, and the caller invalidates nothing.
UpdCommits(u) ==
    /\ supd[u].pc = "txn"
    /\ slock \in {0, u}
    /\ \/ supd' = [supd EXCEPT ![u].pc = "committed"] /\ UNCHANGED gscene
       \/ supd' = [supd EXCEPT ![u].pc = "failed"] /\ GFault
    /\ sset' = Upserted(u)
    /\ slock' = 0
    /\ slast' = deep_merge(slast, supd[u].new)
    /\ sfirst' = IF supd[u].had \/ ~sset.there THEN sfirst
                 ELSE sfirst \cup {k[1] : k \in Keys(supd[u].new)}
    /\ UNCHANGED <<srep, scache, sload, sbus>>

UpdRollsBack(u) ==
    /\ supd[u].pc = "txn"
    /\ GFault
    /\ supd' = [supd EXCEPT ![u].pc = "failed"]
    /\ slock' = IF slock = u THEN 0 ELSE slock
    /\ UNCHANGED <<sset, srep, scache, sload, sbus, slast, sfirst>>

Dropped(w) == scache' = [scache EXCEPT ![w].ttl = 0]

\* invalidate_cache in the process that made the update, then the broadcast, whose
\* failure is only logged.
UpdInvalidates(u) ==
    /\ supd[u].pc = "committed"
    /\ Dropped(supd[u].w)
    /\ supd' = [supd EXCEPT ![u].pc = "publish"]
    /\ UNCHANGED <<gscene, sset, srep, slock, sload, sbus, slast, sfirst>>

UpdPublishes(u) ==
    /\ supd[u].pc = "publish"
    /\ \/ sbus' = Workers /\ UNCHANGED gscene
       \/ GFault /\ UNCHANGED sbus
    /\ supd' = [supd EXCEPT ![u].pc = "done"]
    /\ UNCHANGED <<sset, srep, slock, scache, sload, slast, sfirst>>

handle_org_settings_changed(w) ==
    /\ w \in sbus
    /\ sbus' = sbus \ {w}
    /\ Dropped(w)
    /\ UNCHANGED <<gscene, sset, srep, slock, supd, sload, slast, sfirst>>

-----------------------------------------------------------------------------
(* get_raw_settings: a hit, or a load through the replica.                 *)

Slides(w) ==
    /\ scache[w].ttl > 0
    /\ scache' = [scache EXCEPT ![w].ttl = SetTTL]
    /\ UNCHANGED <<gscene, sset, srep, slock, supd, sload, sbus, slast, sfirst>>

SettingsHit(w) ==
    /\ scache[w].ttl > 0
    /\ UNCHANGED <<gscene, settingsVars>>

LoadAsks(w) ==
    /\ gscene.readers /\ scache[w].ttl = 0 /\ sload[w].pc = "idle"
    /\ sload' = [sload EXCEPT ![w] = [pc |-> "read", val |-> srep]]
    /\ UNCHANGED <<gscene, sset, srep, slock, supd, scache, sbus, slast, sfirst>>

\* _load_and_cache stores whatever it read, invalidated in between or not; a failed
\* call caches nothing.
LoadCaches(w) ==
    /\ sload[w].pc = "read"
    /\ sload' = [sload EXCEPT ![w] = [pc |-> "idle", val |-> NoOverrides]]
    /\ \/ scache' = [scache EXCEPT ![w] = [val |-> sload[w].val, ttl |-> SetTTL]] /\ UNCHANGED gscene
       \/ GFault /\ UNCHANGED scache
    /\ UNCHANGED <<sset, srep, slock, supd, sbus, slast, sfirst>>

\* External: the replica catches up.
SettingsReplicate ==
    /\ srep # sset.val
    /\ srep' = sset.val
    /\ UNCHANGED <<gscene, sset, slock, supd, scache, sload, sbus, slast, sfirst>>

\* External: TTLCache ages its entries.
Aged == [w \in Workers |-> [scache[w] EXCEPT !.ttl = IF @ = 0 THEN 0 ELSE @ - 1]]

\* purge_tenant_data deletes the row, and the cache is not told.
SettingsPurged ==
    /\ slock = 0
    /\ sset' = [there |-> FALSE, val |-> NoOverrides]
    /\ slast' = NoOverrides
    /\ sfirst' = {}

SettingsStep ==
    \/ \E u \in 1..Len(supd) :
          \/ UpdValidates(u) \/ UpdReads(u) \/ UpdCommits(u) \/ UpdRollsBack(u)
          \/ UpdInvalidates(u) \/ UpdPublishes(u)
    \/ \E w \in Workers :
          handle_org_settings_changed(w) \/ SettingsHit(w) \/ LoadAsks(w) \/ LoadCaches(w)
    \/ SettingsReplicate

\* What the workers owe: every call returns, events and replication arrive.
SettingsProgress ==
    \/ \E u \in 1..Len(supd) :
          UpdValidates(u) \/ UpdReads(u) \/ UpdCommits(u) \/ UpdInvalidates(u) \/ UpdPublishes(u)
    \/ \E w \in Workers : handle_org_settings_changed(w)
    \/ SettingsReplicate

-----------------------------------------------------------------------------
(* An override, once committed, stays until an update of the same leaf or a *)
(* purge.  FOR UPDATE serialises the read-merge-write of updates that find  *)
(* the row; what is excepted are sections that an update wrote which began  *)
(* before the row existed: there the shallow || replaces the section.       *)
SettingsKept ==
    \A k \in Sections \X Leaves :
        k[1] \in sfirst \/ sset.val[k[1]][k[2]] = slast[k[1]][k[2]]

\* However loads, invalidations, lost answers, failed broadcasts and the lag of the
\* replica interleave, each process ends up resolving the stored overrides: a load
\* that read before the update and cached after the invalidation lives for one TTL.
SettingsConverge ==
    <>[](\A w \in Workers : scache[w].ttl > 0 =>
            ResolvedConfig(scache[w].val) = ResolvedConfig(sset.val))
=============================================================================
