-------------------------- MODULE MCDeviceLifecycle --------------------------
(* Instances of DeviceLifecycle for TLC. *)
EXTENDS DeviceLifecycle

CONSTANTS
  admin1,   \* a tenant_admin of tenant1
  user1,    \* a tenant_user of tenant2
  tenant1, tenant2

MCTenantOf ==
  [u \in User |-> IF u = user1 THEN tenant2 ELSE tenant1]

=============================================================================
