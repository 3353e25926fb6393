------------------------------ MODULE Migrations ------------------------------
(***************************************************************************)
(* database/migrate.sh over the Postgres migrations 002 to 006.  A file is *)
(* applied by one psql and recorded in schema_migrations by a second one,  *)
(* so a stop between the two makes the next run apply it again.  The data  *)
(* that tells a repeated file from a first one is a tenant's quota_devices *)
(* (006) and the claim code of a device provisioned without one (003).     *)
(***************************************************************************)
EXTENDS Integers

File == 2..6

(* The statements psql commits one by one; 002 is a transaction, and the   *)
(* statements of a file that cannot be told apart count as one.            *)
Statements == [f \in File |-> IF f \in {3, 6} THEN 2 ELSE 1]

VARIABLES
  mpc,        \* the command migrate.sh executes next
  at,         \* the file it is at
  baseline,   \* --baseline
  stmts,      \* statements of that file executed by this run
  ended,      \* how the last run over the present files ended
  text,       \* text[f]: version of the file (its checksum)
  recorded,   \* recorded[f]: checksum in schema_migrations; 0: no row
  applied,    \* files all of whose statements have been executed
  quota,      \* quota_devices of a tenant that has 1000
  device,     \* claim_code_hash of a device provisioned without a code
  cut,        \* a run stopped after a statement and before the record (history)
  assumed     \* files recorded by --baseline (history)

mvars == <<mpc, at, baseline, stmts, ended, text, recorded, applied, quota,
           device, cut, assumed>>
run == <<mpc, at, baseline, stmts, ended>>
data == <<applied, quota, device>>
history == <<cut, assumed>>

MTypeOK ==
  /\ mpc \in {"idle", "look", "apply", "record"}
  /\ at \in File /\ baseline \in BOOLEAN
  /\ stmts \in 0..2 /\ stmts <= Statements[at]
  /\ ended \in {"none", "ok", "failed", "repeated"}
  /\ text \in [File -> 1..2] /\ recorded \in [File -> 0..2]
  /\ applied \subseteq File /\ assumed \subseteq File
  /\ quota \in {"default", "unlimited", "chosen", "lost"}
  /\ device \in {"absent", "no_code", "label"}
  /\ cut \in BOOLEAN

MInit ==
  /\ mpc = "idle" /\ at = 2 /\ baseline = FALSE /\ stmts = 0
  /\ ended = "none"
  /\ text = [f \in File |-> 1]
  /\ recorded = [f \in File |-> 0]
  /\ applied = {} /\ assumed = {}
  /\ quota = "default" /\ device = "absent"
  /\ cut = FALSE

(* apply_dir, after its CREATE TABLE IF NOT EXISTS. *)
StartMigrate ==
  /\ mpc = "idle"
  /\ mpc' = "look"
  /\ baseline' \in BOOLEAN
  /\ UNCHANGED <<at, stmts, ended, text, recorded, data, history>>

(* The run ends, and its variables with it. *)
EndMigrate(how) ==
  /\ mpc' = "idle" /\ ended' = how
  /\ at' = 2 /\ baseline' = FALSE /\ stmts' = 0

NextFile ==
  IF at = 6 THEN EndMigrate("ok")
  ELSE /\ mpc' = "look" /\ at' = at + 1 /\ stmts' = 0
       /\ UNCHANGED <<baseline, ended>>

(* Mutant of Look: a recorded file is not compared with its checksum. *)
LookUnchecked ==
  /\ mpc = "look"
  /\ IF recorded[at] # 0 THEN NextFile
     ELSE /\ mpc' = IF baseline THEN "record" ELSE "apply"
          /\ UNCHANGED <<at, baseline, stmts, ended>>
  /\ UNCHANGED <<text, recorded, data, history>>

(* The SELECT of the checksum: skip, mismatch, or the file is to be done. *)
Look ==
  /\ mpc = "look"
  /\ IF recorded[at] # 0
     THEN IF recorded[at] = text[at] THEN NextFile ELSE EndMigrate("failed")
     ELSE /\ mpc' = IF baseline THEN "record" ELSE "apply"
          /\ UNCHANGED <<at, baseline, stmts, ended>>
  /\ UNCHANGED <<text, recorded, data, history>>

(* What the n-th statement of file f does to the data: 003 sets a claim    *)
(* code (the label) where there is none, 006 takes 1000 for the old        *)
(* default and makes it 0.  004 never finds the NULL it looks for.         *)
Effect(f, n) ==
  /\ device' = IF f = 3 /\ n = 2 /\ device = "no_code" THEN "label" ELSE device
  /\ quota' = IF f = 6 /\ n = 2
              THEN CASE quota = "default" -> "unlimited"
                     [] quota = "chosen" -> "lost" [] OTHER -> quota
              ELSE quota

(* ON_ERROR_STOP: 002 creates types and tables that must not be there. *)
Apply ==
  /\ mpc = "apply"
  /\ IF at = 2 /\ 2 \in applied
     THEN EndMigrate("repeated") /\ UNCHANGED data
     ELSE /\ stmts' = stmts + 1
          /\ Effect(at, stmts + 1)
          /\ mpc' = IF stmts' = Statements[at] THEN "record" ELSE "apply"
          /\ applied' = IF stmts' = Statements[at] THEN applied \cup {at} ELSE applied
          /\ UNCHANGED <<at, baseline, ended>>
  /\ UNCHANGED <<text, recorded, history>>

(* Mutant of RecordFile: recorded at the end of the run only, with 006. *)
RecordLate ==
  /\ mpc = "record"
  /\ recorded' = [f \in File |->
       IF at = 6 \/ (f = at /\ baseline) THEN text[f] ELSE recorded[f]]
  /\ assumed' = IF baseline THEN assumed \cup ({at} \ applied) ELSE assumed
  /\ NextFile
  /\ UNCHANGED <<text, data, cut>>

(* The INSERT, with the checksum taken before the file was applied. *)
RecordFile ==
  /\ mpc = "record"
  /\ recorded' = [recorded EXCEPT ![at] = text[at]]
  /\ assumed' = IF baseline THEN assumed \cup ({at} \ applied) ELSE assumed
  /\ NextFile
  /\ UNCHANGED <<text, data, cut>>

(* A psql that fails (connection, container, disk) or a killed script. *)
StopMigrate ==
  /\ mpc # "idle"
  /\ EndMigrate("failed")
  /\ cut' = (cut \/ stmts > 0)
  /\ UNCHANGED <<text, recorded, data, assumed>>

-----------------------------------------------------------------------------
(* Between two runs *)

(* A file that was applied is edited (bound: one file, once). *)
EditFile(f) ==
  /\ mpc = "idle" /\ recorded[f] # 0
  /\ \A g \in File : text[g] = 1
  /\ text' = [text EXCEPT ![f] = 2]
  /\ ended' = "none"
  /\ UNCHANGED <<mpc, at, baseline, stmts, recorded, data, history>>

(* The API works with the migrated schema: an admin gives the tenant 1000  *)
(* devices (quota_devices = 1000), a device is provisioned for its owner   *)
(* without a claim code.                                                   *)
UseApi ==
  /\ mpc = "idle" /\ applied = File
  /\ \/ quota # "chosen" /\ quota' = "chosen" /\ device' = device
     \/ device = "absent" /\ device' = "no_code" /\ quota' = quota
  /\ UNCHANGED <<run, text, recorded, applied, history>>

MStep == Look \/ Apply \/ RecordFile \/ StopMigrate
         \/ UseApi \/ \E f \in File : EditFile(f)

-----------------------------------------------------------------------------
(* A run that ends well leaves every file recorded with the text it has,   *)
(* and executed; only a run with --baseline, which declares files applied, *)
(* records one that was not.                                               *)
OkMeansApplied ==
  ended = "ok" =>
    \A f \in File : recorded[f] = text[f] /\ f \in applied \cup assumed

(* No file has its effects twice, unless a run stopped between a statement *)
(* of the file and its record.  Twice means: 006 takes the quota an admin  *)
(* chose for the old default, 003 gives a device its label for a claim     *)
(* code, and 002 fails, in every later run.                                *)
RepeatsOnlyAfterStop ==
  quota = "lost" \/ device = "label" \/ ended = "repeated" => cut

(* The inductive invariant of both: what a run has passed is recorded as it *)
(* is, a row stands for a file that was executed or assumed, and a file     *)
(* executed without a row was cut, unless this run is about to write it.    *)
RecordsTrue ==
  /\ \A f \in File : recorded[f] # 0 => f \in applied \cup assumed
  /\ mpc # "idle" => \A f \in File : f < at => recorded[f] = text[f]
  /\ mpc \in {"apply", "record"} => recorded[at] = 0
  /\ mpc = "record" => baseline \/ at \in applied

AppliedRecorded ==
  /\ \A f \in applied :
       recorded[f] # 0 \/ cut \/ (mpc = "record" /\ at = f /\ stmts > 0)
  /\ quota \in {"chosen", "lost"} \/ device # "absent" => applied = File
  /\ mpc \in {"idle", "look"} => stmts = 0
  /\ mpc = "idle" => at = 2
  /\ mpc = "apply" => stmts < Statements[at]

MIInv == MTypeOK /\ RecordsTrue /\ AppliedRecorded /\ OkMeansApplied
         /\ RepeatsOnlyAfterStop
=============================================================================
