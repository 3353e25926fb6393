----------------------------- MODULE DeviceQuota -----------------------------
(***************************************************************************)
(* The device quota of a tenant (go-api/handlers/quota.go), as claims and  *)
(* provisionings (devices.go) pass it, while an administrator changes it   *)
(* (tenant_admin.go) and devices are reset.  The quota is read, the rows   *)
(* are counted and the new row is written by three separate statements     *)
(* outside any common transaction.                                         *)
(***************************************************************************)
EXTENDS Naturals, FiniteSets

CONSTANTS
  Tenant,      \* tenant_id values
  Request,     \* goroutines that add a device: claim or provision
  Quotas,      \* quota_devices values an administrator sets; 0 = no limit
  MaxDevices,  \* bound: rows a tenant can have in the model
  None

ASSUME QuotaAssumption == Quotas \subseteq Nat /\ MaxDevices \in Nat
ASSUME RequestAssumption == IsFiniteSet(Request) /\ Request # {}
ASSUME TenantAssumption == None \notin Tenant

VARIABLES
  quota,      \* quota[t]: tenants.quota_devices
  owned,      \* owned[t]: number of rows of devices with that tenant_id
  req,        \* req[r]: local state of a request
  peak,       \* peak[t]: the largest quota t ever had (history)
  unlimited   \* tenants that ever had quota 0 (history)

vars == <<quota, owned, req, peak, unlimited>>

NoReq == [pc |-> "idle", tenant |-> None, quota |-> 0]

ReqState == [pc: {"idle", "count", "write"}, tenant: Tenant \cup {None},
             quota: Nat]

Init ==
  /\ quota \in [Tenant -> Quotas]
  /\ owned = [t \in Tenant |-> 0]
  /\ req = [r \in Request |-> NoReq]
  /\ peak = quota
  /\ unlimited = {t \in Tenant : quota[t] = 0}

(* fetchTenantQuota; quota_devices = 0 skips the count. *)
ReadQuota(r, t) ==
  /\ req[r].pc = "idle"
  /\ req' = [req EXCEPT ![r] =
       [pc |-> IF quota[t] = 0 THEN "write" ELSE "count",
        tenant |-> t, quota |-> quota[t]]]
  /\ UNCHANGED <<quota, owned, peak, unlimited>>

(* Mutant of CountDevices: total > quota instead of total >= quota. *)
CountDevicesOffByOne(r) ==
  /\ req[r].pc = "count"
  /\ req' = [req EXCEPT ![r] =
       IF owned[req[r].tenant] > req[r].quota
       THEN NoReq ELSE [@ EXCEPT !.pc = "write"]]
  /\ UNCHANGED <<quota, owned, peak, unlimited>>

(* SELECT COUNT( * ), then deny with 429 when total >= quota. *)
CountDevices(r) ==
  /\ req[r].pc = "count"
  /\ req' = [req EXCEPT ![r] =
       IF owned[req[r].tenant] >= req[r].quota
       THEN NoReq ELSE [@ EXCEPT !.pc = "write"]]
  /\ UNCHANGED <<quota, owned, peak, unlimited>>

(* The INSERT of ProvisionDevice or the COMMIT of ClaimDevice succeeds. *)
WriteDevice(r) ==
  LET t == req[r].tenant
  IN  /\ req[r].pc = "write"
      /\ owned[t] < MaxDevices
      /\ owned' = [owned EXCEPT ![t] = @ + 1]
      /\ req' = [req EXCEPT ![r] = NoReq]
      /\ UNCHANGED <<quota, peak, unlimited>>

(* The request ends without a row: taken, wrong code, an error, a crash. *)
FailRequest(r) ==
  /\ req[r].pc # "idle"
  /\ req' = [req EXCEPT ![r] = NoReq]
  /\ UNCHANGED <<quota, owned, peak, unlimited>>

(* ResetDevice clears tenant_id of one row. *)
ResetDevice(t) ==
  /\ owned[t] > 0
  /\ owned' = [owned EXCEPT ![t] = @ - 1]
  /\ UNCHANGED <<quota, req, peak, unlimited>>

(* PatchTenantQuotas: any value >= 0, also one below the present count. *)
PatchQuota(t, q) ==
  /\ q # quota[t]
  /\ quota' = [quota EXCEPT ![t] = q]
  /\ peak' = [peak EXCEPT ![t] = IF q > @ THEN q ELSE @]
  /\ unlimited' = IF q = 0 THEN unlimited \cup {t} ELSE unlimited
  /\ UNCHANGED <<owned, req>>

Next ==
  \/ \E r \in Request, t \in Tenant : ReadQuota(r, t)
  \/ \E r \in Request : CountDevices(r)
  \/ \E r \in Request : WriteDevice(r)
  \/ \E r \in Request : FailRequest(r)
  \/ \E t \in Tenant : ResetDevice(t)
  \/ \E t \in Tenant, q \in Quotas : PatchQuota(t, q)

Spec == Init /\ [][Next]_vars

-----------------------------------------------------------------------------
(* Properties *)

Writers(t) == {r \in Request : req[r].pc = "write" /\ req[r].tenant = t}
Limited(t) == t \notin unlimited

(* The types, and that a request that counts has read a quota other than 0. *)
TypeOK ==
  /\ quota \in [Tenant -> Quotas]
  /\ owned \in [Tenant -> Nat]
  /\ req \in [Request -> ReqState]
  /\ peak \in [Tenant -> Nat]
  /\ unlimited \subseteq Tenant
  /\ \A r \in Request :
       /\ req[r].pc # "idle" => req[r].tenant # None
       /\ req[r].pc = "count" => req[r].quota > 0

(* What the check-then-act of enforceDeviceQuota still guarantees: a tenant *)
(* that always had a limit exceeds the largest limit it had by less than    *)
(* the number of concurrent requests.                                       *)
OvershootBound ==
  \A t \in Tenant : Limited(t) => owned[t] < peak[t] + Cardinality(Request)

(* OvershootBound made inductive: the requests past the count have their    *)
(* place reserved, and no request works with a quota above the peak.        *)
ReservedBound ==
  /\ \A t \in Tenant : Limited(t) =>
       owned[t] + Cardinality(Writers(t)) < peak[t] + Cardinality(Request)
  /\ \A r \in Request : req[r].pc # "idle" /\ Limited(req[r].tenant) =>
       /\ req[r].quota <= peak[req[r].tenant]
       /\ req[r].quota > 0
  /\ \A t \in Tenant : quota[t] <= peak[t] /\ (quota[t] = 0 => t \in unlimited)

=============================================================================
