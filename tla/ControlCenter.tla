---------------------------- MODULE ControlCenter ----------------------------
(***************************************************************************)
(* The tenant control center (TenantControlCenter.tsx): which modules a    *)
(* tenant has, and a panel for each with what the tenant has of it.        *)
(*                                                                         *)
(* Choosing a tenant loads its modules and aborts the load before; what is *)
(* shown stays until the answer.  An aborted load still ends, and clears   *)
(* the flag that says modules are loading, whoever has set it.             *)
(***************************************************************************)
EXTENDS TenantBase

CONSTANT Modules

VARIABLES
  enabled,  \* the modules of each tenant, at the server
  tenants,  \* the list of tenants: "loading", "shown" or "failed"
  chosen,   \* the tenant selected
  known,    \* the modules as the page has them
  wanted,   \* the modules as they are checked
  loading,  \* modules are said to be loading
  loads,    \* the loads under way
  saving,   \* the save under way
  panel,    \* the tenant each module's panel loads and the one it shows
  origin,   \* history: the tenant whose modules were last shown
  choices,  \* bound: how often a tenant may still be chosen
  loose     \* history: the tenant was chosen during a load or a save, or one has failed since

controlVars == <<enabled, tenants, chosen, known, wanted, loading, loads, saving, panel, origin, choices,
                 loose>>

AModule == SUBSET Modules
ALoad   == [of : Tenants, aborted : BOOLEAN, served : BOOLEAN, gave : AModule]
ASave   == [of : Tenants, modules : AModule, served : BOOLEAN,
            origin : Tenants \cup {Nothing}, loose : BOOLEAN]
Idle    == [busy |-> Nothing, of |-> Nothing]

ASSUME ControlAssumption == Nothing \notin ASave

ControlInit(first, bound) ==
  /\ enabled = first
  /\ tenants = "loading" /\ chosen = Nothing
  /\ known = {} /\ wanted = {} /\ loading = FALSE /\ loads = {} /\ saving = Nothing
  /\ panel = [m \in Modules |-> Idle]
  /\ origin = Nothing /\ choices = bound /\ loose = FALSE

-----------------------------------------------------------------------------
\* Mutant: a panel does not follow the tenant.
Refetch_Lazy(t, mods) ==
  panel' = [m \in Modules |->
    IF m \in mods <=> m \in known THEN panel[m]
    ELSE IF m \in mods THEN [panel[m] EXCEPT !.busy = t]
    ELSE Idle]

\* A panel loads again when the tenant changes or the module comes or goes; it keeps what it shows
\* until the answer.
Refetch(t, mods) ==
  panel' = [m \in Modules |->
    IF t = chosen /\ (m \in mods <=> m \in known) THEN panel[m]
    ELSE IF m \in mods THEN [panel[m] EXCEPT !.busy = t]
    ELSE Idle]

\* The effect that loads the modules of the tenant chosen.
LoadModules(t) ==
  /\ loads' = {[l EXCEPT !.aborted = TRUE] : l \in loads}
              \cup {[of |-> t, aborted |-> FALSE, served |-> FALSE, gave |-> {}]}
  /\ loading' = TRUE
  /\ Refetch(t, known)
  /\ chosen' = t

TenantsArrive(t) ==
  /\ tenants = "loading" /\ tenants' = "shown"
  /\ LoadModules(t)
  /\ UNCHANGED <<enabled, known, wanted, saving, origin, loose, choices>>

TenantsFail ==
  /\ tenants = "loading" /\ tenants' = "failed"
  /\ UNCHANGED <<enabled, chosen, known, wanted, loading, loads, saving, panel, origin, loose, choices>>

SelectTenant(t) ==
  /\ tenants = "shown" /\ t # chosen
  /\ choices > 0 /\ choices' = choices - 1
  /\ LoadModules(t)
  /\ loose' = (loads # {} \/ saving # Nothing)
  /\ UNCHANGED <<enabled, tenants, known, wanted, saving, origin>>

ShowModules(mods) ==
  /\ known' = mods /\ wanted' = mods
  /\ Refetch(chosen, mods)

\* The server reads the modules of the load's tenant.
ServeModules(l) ==
  /\ ~l.served
  /\ loads' = (loads \ {l}) \cup {[l EXCEPT !.served = TRUE, !.gave = enabled[l.of]]}
  /\ UNCHANGED <<enabled, tenants, chosen, known, wanted, loading, saving, panel, origin, loose, choices>>

ModulesArrive(l) ==
  /\ l.served /\ ~l.aborted
  /\ loads' = loads \ {l}
  /\ loading' = FALSE
  /\ ShowModules(l.gave)
  /\ origin' = l.of
  /\ UNCHANGED <<enabled, tenants, chosen, saving, loose, choices>>

ModulesFail(l) ==
  /\ ~l.aborted
  /\ loads' = loads \ {l}
  /\ loading' = FALSE
  /\ ShowModules({})
  /\ origin' = Nothing /\ loose' = TRUE
  /\ UNCHANGED <<enabled, tenants, chosen, saving, choices>>

AbortSettles(l) ==
  /\ l.aborted
  /\ loads' = loads \ {l}
  /\ loading' = FALSE
  /\ UNCHANGED <<enabled, tenants, chosen, known, wanted, saving, panel, origin, loose, choices>>

\* handleToggleModule: the boxes are disabled while modules load or are saved.
ToggleModule(m) ==
  /\ ~loading /\ saving = Nothing
  /\ wanted' = IF m \in wanted THEN wanted \ {m} ELSE wanted \cup {m}
  /\ UNCHANGED <<enabled, tenants, chosen, known, loading, loads, saving, panel, origin, loose, choices>>

DirtyModuleSelection == wanted # known

\* handleSaveModules: what is checked is sent for the tenant chosen.
SaveModules ==
  /\ chosen # Nothing /\ DirtyModuleSelection /\ ~loading /\ saving = Nothing
  /\ saving' = [of |-> chosen, modules |-> wanted, served |-> FALSE,
                origin |-> origin, loose |-> loose]
  /\ UNCHANGED <<enabled, tenants, chosen, known, wanted, loading, loads, panel, origin, loose, choices>>

SetTenantModules ==
  /\ saving # Nothing /\ ~saving.served
  /\ enabled' = [enabled EXCEPT ![saving.of] = saving.modules]
  /\ saving' = [saving EXCEPT !.served = TRUE]
  /\ UNCHANGED <<tenants, chosen, known, wanted, loading, loads, panel, origin, loose, choices>>

\* The answer is shown whichever tenant is chosen by then.
SaveArrives ==
  /\ saving # Nothing /\ saving.served
  /\ saving' = Nothing
  /\ ShowModules(saving.modules)
  /\ origin' = saving.of
  /\ UNCHANGED <<enabled, tenants, chosen, loading, loads, loose, choices>>

SaveFails ==
  /\ saving # Nothing
  /\ saving' = Nothing /\ loose' = TRUE
  /\ UNCHANGED <<enabled, tenants, chosen, known, wanted, loading, loads, panel, origin, choices>>

PanelArrives(m) ==
  /\ panel[m].busy # Nothing
  /\ panel' = [panel EXCEPT ![m] = [busy |-> Nothing, of |-> @.busy]]
  /\ UNCHANGED <<enabled, tenants, chosen, known, wanted, loading, loads, saving, origin, loose, choices>>

PanelFails(m) ==
  /\ panel[m].busy # Nothing
  /\ panel' = [panel EXCEPT ![m] = Idle]
  /\ UNCHANGED <<enabled, tenants, chosen, known, wanted, loading, loads, saving, origin, loose, choices>>

\* The panels and the figures above them that are on the page.
Visible == {m \in known : panel[m].of # Nothing}

ControlNext ==
  \/ \E t \in Tenants : TenantsArrive(t) \/ SelectTenant(t)
  \/ TenantsFail
  \/ \E l \in loads : ServeModules(l) \/ ModulesArrive(l) \/ ModulesFail(l) \/ AbortSettles(l)
  \/ \E m \in Modules : ToggleModule(m) \/ PanelArrives(m) \/ PanelFails(m)
  \/ SaveModules \/ SetTenantModules \/ SaveArrives \/ SaveFails

-----------------------------------------------------------------------------
ControlTypeOK ==
  /\ enabled \in [Tenants -> AModule]
  /\ tenants \in {"loading", "shown", "failed"} /\ chosen \in Tenants \cup {Nothing}
  /\ known \in AModule /\ wanted \in AModule /\ loading \in BOOLEAN
  /\ loads \subseteq ALoad /\ saving \in ASave \cup {Nothing}
  /\ panel \in [Modules -> [busy : Tenants \cup {Nothing}, of : Tenants \cup {Nothing}]]
  /\ origin \in Tenants \cup {Nothing} /\ choices \in Nat /\ loose \in BOOLEAN

\* TenantControlCenter: modules are saved for the tenant they were loaded for, and the page shows
\* what that tenant has, unless it was chosen during a load or a save, or one has failed since; a
\* panel that is not loading always shows the tenant chosen.
TenantsKeptApart ==
  /\ saving # Nothing => saving.loose \/ saving.origin = saving.of
  /\ chosen # Nothing /\ loads = {} /\ saving = Nothing /\ ~loose => known = enabled[chosen]
  /\ \A m \in Visible : panel[m].busy = Nothing => panel[m].of = chosen
=============================================================================
