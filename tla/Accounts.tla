------------------------------- MODULE Accounts -------------------------------
(***************************************************************************)
(* What registration promises (docs/openapi.yaml:281): the first user      *)
(* becomes super_admin, every later one the tenant_admin of a tenant of    *)
(* their own, and an e-mail address registers once.  An account appears in *)
(* one step, with its tenant, or not at all.  Registration implements this *)
(* specification.                                                          *)
(***************************************************************************)

CONSTANTS
  Email,    \* normalised e-mail addresses
  Tenant,   \* tenant_id values
  Default,  \* the tenant of accounts taken over from an earlier release
  None      \* no tenant

VARIABLES
  role,      \* role[e]: the role of the account of e, "none": no account
  tenantOf,  \* tenantOf[e]: its tenant
  tenants    \* tenants that exist

vars == <<role, tenantOf, tenants>>

Role == {"none", "super_admin", "tenant_admin"}

Registered(e) == role[e] # "none"

(* No accounts, or those of an earlier release, in the default tenant. *)
Init ==
  /\ role \in [Email -> {"none", "tenant_admin"}]
  /\ tenantOf = [e \in Email |-> IF Registered(e) THEN Default ELSE None]
  /\ tenants = {Default}

RegisterFirst(e) ==
  /\ \A f \in Email : ~Registered(f)
  /\ role' = [role EXCEPT ![e] = "super_admin"]
  /\ UNCHANGED <<tenantOf, tenants>>

RegisterNext(e, t) ==
  /\ ~Registered(e)
  /\ \E f \in Email : Registered(f)
  /\ t \notin tenants
  /\ role' = [role EXCEPT ![e] = "tenant_admin"]
  /\ tenantOf' = [tenantOf EXCEPT ![e] = t]
  /\ tenants' = tenants \cup {t}

(* An operator makes an existing account super_admin. *)
Promote(e) ==
  /\ Registered(e)
  /\ role' = [role EXCEPT ![e] = "super_admin"]
  /\ tenantOf' = [tenantOf EXCEPT ![e] = None]
  /\ UNCHANGED tenants

Next ==
  \E e \in Email :
    \/ RegisterFirst(e)
    \/ \E t \in Tenant : RegisterNext(e, t)
    \/ Promote(e)

Spec == Init /\ [][Next]_vars

=============================================================================
