---------------------------- MODULE MCDeviceQuota ----------------------------
(* Instances of DeviceQuota for TLC. *)
EXTENDS DeviceQuota, TLC

MCSymmetry == Permutations(Request) \cup Permutations(Tenant)

=============================================================================
