------------------------------ MODULE MCConnPool ------------------------------
(* Instances of ConnPool for TLC. *)
EXTENDS ConnPool, TLC

MCSymmetry == Permutations(Lister) \cup Permutations(Other)

=============================================================================
