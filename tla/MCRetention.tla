------------------------------ MODULE MCRetention ------------------------------
(* Instances of Retention for TLC. *)
EXTENDS Retention, TLC

MCSymmetry == Permutations(Row) \cup Permutations(Tenant) \cup
              Permutations(Place) \cup Permutations(Script)

=============================================================================
