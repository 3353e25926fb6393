------------------------------- MODULE Releases -------------------------------
(***************************************************************************)
(* A release, as one operator makes it on the host: the scripts of         *)
(* Migrations and Images, one at a time, in any order, each stopped        *)
(* anywhere.                                                               *)
(***************************************************************************)
EXTENDS Migrations, Images

CONSTANT MaxRuns   \* bound on the scripts the operator starts

ASSUME ReleasesAssumption == MaxRuns \in Nat

VARIABLE runs      \* scripts started

vars == <<mvars, ivars, runs>>

TypeOK == MTypeOK /\ ITypeOK /\ runs \in 0..MaxRuns

Init == MInit /\ IInit /\ runs = 0

Idle == mpc = "idle" /\ ipc \in {"idle", "rolled_back"}

Start ==
  /\ Idle /\ runs < MaxRuns
  /\ runs' = runs + 1
  /\ \/ StartMigrate /\ UNCHANGED ivars
     \/ IStart /\ UNCHANGED mvars

Step ==
  /\ \/ MStep /\ UNCHANGED ivars
     \/ IStep /\ UNCHANGED mvars
  /\ UNCHANGED runs

Next == Start \/ Step

Spec == Init /\ [][Next]_vars

-----------------------------------------------------------------------------
(* The inductive invariant *)
IInv == TypeOK /\ MIInv /\ IIInv
=============================================================================
