SPECIFICATION LiveSpec
CONSTANTS
  None = None
  admin1 = admin1
  user1 = user1
  tenant1 = tenant1
  tenant2 = tenant2
  Tenant = {tenant1, tenant2}
  TenantOf <- MCTenantOf
  Admin = {admin1}
  User = {admin1, user1}
  Device = {d1}
  Secret = {s1, s2}
  Claimer = {c1, c2}
  Getter = {g1, g2}
  Hook = {h1}
  MaxLost = 1
INVARIANTS
  OneTimeDelivery
  RowConsistent
  SecretWasCommitted
  StaleOnlyAfterReset
  ClaimableAgain
PROPERTIES
  CustodySpec
  RequestsEnd
  OwnershipTransfer
