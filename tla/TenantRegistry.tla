--------------------------- MODULE TenantRegistry ---------------------------
(***************************************************************************)
(* gaia_server/tenancy/tenant_registry.py: the table of tenants.  Every    *)
(* method holds the lock from its first to its last line, so a call is one *)
(* step.  Namespace, isolation mode and metadata are written once and read *)
(* by nothing; a record is absent, active or inactive.                     *)
(***************************************************************************)
EXTENDS Naturals, FiniteSets

CONSTANTS
  TenantIds,
  MaxTenants   \* config.max_tenants

ASSUME TenantAssumption == IsFiniteSet(TenantIds) /\ MaxTenants \in Nat

VARIABLES
  tenants,   \* _tenants
  outcome    \* what the last call returned or raised

tenantVars == <<tenants, outcome>>

TenantInit == tenants = [i \in TenantIds |-> "absent"] /\ outcome = "none"

\* list_tenants: the ids it returns; deregistered ones are not among them.
ListTenants == {i \in TenantIds : tenants[i] = "active"}

\* Mutant of Register: the capacity is compared with > instead of >=.
RegisterOneMore(i) ==
  \/ /\ Cardinality(ListTenants) > MaxTenants
     /\ outcome' = "full" /\ UNCHANGED tenants
  \/ /\ Cardinality(ListTenants) <= MaxTenants /\ tenants[i] # "absent"
     /\ outcome' = tenants[i] /\ UNCHANGED tenants
  \/ /\ Cardinality(ListTenants) <= MaxTenants /\ tenants[i] = "absent"
     /\ outcome' = "active" /\ tenants' = [tenants EXCEPT ![i] = "active"]

\* The capacity is looked at first, then the id: a known tenant is refused when
\* the registry is full, and a deregistered one is returned as it is.
Register(i) ==
  \/ /\ Cardinality(ListTenants) >= MaxTenants
     /\ outcome' = "full" /\ UNCHANGED tenants
  \/ /\ Cardinality(ListTenants) < MaxTenants /\ tenants[i] # "absent"
     /\ outcome' = tenants[i] /\ UNCHANGED tenants
  \/ /\ Cardinality(ListTenants) < MaxTenants /\ tenants[i] = "absent"
     /\ outcome' = "active" /\ tenants' = [tenants EXCEPT ![i] = "active"]

Deregister(i) ==
  \/ tenants[i] = "absent" /\ outcome' = "unknown" /\ UNCHANGED tenants
  \/ /\ tenants[i] # "absent"
     /\ outcome' = "done" /\ tenants' = [tenants EXCEPT ![i] = "inactive"]

\* get: the record as it is, deregistered or not.
GetTenant(i) ==
  /\ outcome' = IF tenants[i] = "absent" THEN "unknown" ELSE tenants[i]
  /\ UNCHANGED tenants

TenantNext == \E i \in TenantIds : Register(i) \/ Deregister(i) \/ GetTenant(i)

TenantSpec == TenantInit /\ [][TenantNext]_tenantVars

-----------------------------------------------------------------------------
TenantTypes ==
  /\ tenants \in [TenantIds -> {"absent", "active", "inactive"}]
  /\ outcome \in {"none", "full", "unknown", "done", "active", "inactive"}

(***************************************************************************)
(* The rules of the class docstring, over any sequence of calls: no more   *)
(* than max_tenants are active, a deregistered tenant stays on record, and *)
(* no call makes it active again -- register least of all, whose answer    *)
(* "inactive" is the only sign that nothing was registered.                *)
(***************************************************************************)
RegistryRules ==
  [][/\ Cardinality(ListTenants') <= MaxTenants
     /\ \A i \in TenantIds :
          /\ tenants[i] # "absent" => tenants'[i] # "absent"
          /\ tenants[i] = "inactive" => tenants'[i] = "inactive"]_tenantVars
=============================================================================
