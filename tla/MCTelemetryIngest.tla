-------------------------- MODULE MCTelemetryIngest --------------------------
(* Instances of TelemetryIngest for TLC. *)
EXTENDS TelemetryIngest, TLC

MCSymmetry ==
  Permutations(Hook) \cup Permutations(Tenant) \cup Permutations(Sample)

=============================================================================
