-------------------------- MODULE MCRefreshRotation --------------------------
(* Instances of RefreshRotation for TLC. *)
EXTENDS RefreshRotation, TLC

MCSymmetry == Permutations(Request) \cup Permutations(Token \ Legacy)

=============================================================================
