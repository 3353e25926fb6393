------------------------------- MODULE Backups -------------------------------
(***************************************************************************)
(* database/backup_restore.sh and the scripts the timers start             *)
(* (scripts/ops/run_backup_daily.sh, sync_backup_offsite.sh and            *)
(* run_restore_drill_weekly.sh), next to an operator who takes a backup or *)
(* verifies one by hand.  The scripts share backups/db, whose newest       *)
(* directory is taken for the last backup, and the two temporary databases *)
(* a backup is restored into.                                              *)
(***************************************************************************)
EXTENDS Naturals, FiniteSets

CONSTANTS
  Dir,         \* names of directories in backups/db (the second of the start)
  None,
  MaxAtOnce    \* bound: scripts that run at the same time

ASSUME BackupsAssumption == None \notin Dir /\ MaxAtOnce \in Nat

(* What is on disk of a backup: nothing, the directory and postgres.sql    *)
(* opened, timescale.sql opened (and postgres.sql complete), SHA256SUMS    *)
(* (and both dumps complete), MANIFEST.txt.                                *)
Stage == 0..4
BothThere == 2   \* both files exist: all require_file asks
Whole == 4

Writer == {"daily", "manual"}
Verifier == {"drill", "check"}
Copier == {"daily", "offsite"}
Script == Writer \cup Verifier \cup Copier
Label == {"idle", "write", "latest", "sync", "copy", "record", "require",
          "droppg", "loadpg", "dropts", "loadts", "tables", "report"}

VARIABLES
  mode,      \* OFFSITE_BACKUP_MODE
  pc,        \* pc[s]: the command script s executes next
  dir,       \* dir[s]: the directory it works on
  stage,     \* stage[d]: what is on disk of backup d
  newest,    \* the directory of backups/db with the newest mtime (ls -1dt | head)
  offsite,   \* offsite[d]: what the remote copy of d holds
  sent,      \* sent[s]: what a copy under way and those beside it found locally
  status,    \* last_backup.status: the directory it names, status=ok
  drill,     \* last_restore_drill.status
  temp,      \* temp[db]: whose dump the temporary database holds; None: empty
  alone,     \* alone[s]: no script has disturbed s (history)
  sure       \* the run that wrote status was not disturbed (history)

bvars == <<mode, pc, dir, stage, newest, offsite, sent, status, drill, temp,
          alone, sure>>
disk == <<stage, newest>>
remote == <<offsite, sent>>
reports == <<remote, status, drill, sure>>

(* The directories that are there. *)
Present == {d \in Dir : stage[d] > 0}

AtRest(s) == pc[s] = "idle"
MayStart(s) == AtRest(s) /\ Cardinality({t \in Script : ~AtRest(t)}) < MaxAtOnce
Goto(s, l) == pc' = [pc EXCEPT ![s] = l]

(* Script s ends, and its variables with it; or it goes on at l. *)
End(s) ==
  /\ Goto(s, "idle")
  /\ dir' = [dir EXCEPT ![s] = None]
  /\ alone' = [alone EXCEPT ![s] = TRUE]
GoOn(s, l) == Goto(s, l) /\ UNCHANGED <<dir, alone>>

(* A backup by hand disturbs the daily run (what else does is in Sync),    *)
(* and the two verifications each other.                                   *)
Disturbs(s) == CASE s = "daily" -> {"manual"}
                 [] s \in Verifier -> Verifier \ {s}
                 [] OTHER -> {}

(* The start of s: it runs alone unless those that disturb it are at work, *)
(* and those it disturbs no longer do.                                     *)
Beside(s) == alone' = [t \in Script |->
  IF t = s THEN \A u \in Disturbs(s) : AtRest(u)
  ELSE alone[t] /\ (AtRest(t) \/ s \notin Disturbs(t))]

BTypeOK ==
  /\ mode \in {"disabled", "rsync", "invalid"}
  /\ pc \in [Script -> Label]
  /\ dir \in [Script -> Dir \cup {None}]
  /\ stage \in [Dir -> Stage] /\ offsite \in [Dir -> Stage]
  /\ sent \in [Copier -> SUBSET Stage]
  /\ newest \in Dir \cup {None} /\ (newest = None <=> Present = {})
  /\ status \in Dir \cup {None}
  /\ drill \in {"none", "ok", "failed"}
  /\ temp \in [{"pg", "ts"} -> Dir \cup {None}]
  /\ alone \in [Script -> BOOLEAN] /\ sure \in BOOLEAN

BInit ==
  /\ mode \in {"disabled", "rsync", "invalid"}
  /\ pc = [s \in Script |-> "idle"]
  /\ dir = [s \in Script |-> None]
  /\ stage = [d \in Dir |-> 0] /\ offsite = [d \in Dir |-> 0]
  /\ sent = [s \in Copier |-> {}]
  /\ newest = None
  /\ status = None
  /\ drill = "none"
  /\ temp = [db \in {"pg", "ts"} |-> None]
  /\ alone = [s \in Script |-> TRUE] /\ sure = TRUE

-----------------------------------------------------------------------------
(* backup *)

(* d reaches stage n: the new entry makes it the newest directory. *)
Write(d, n) ==
  /\ stage' = [stage EXCEPT ![d] = n]
  /\ newest' = d

(* The directory is named after the second the backup starts in. *)
StartBackup(s) ==
  /\ s \in Writer /\ MayStart(s)
  /\ \E d \in Dir : /\ stage[d] = 0
                    /\ Write(d, 1)
                    /\ dir' = [dir EXCEPT ![s] = d]
  /\ Goto(s, "write")
  /\ Beside(s)
  /\ UNCHANGED <<mode, reports, temp>>

WriteNext(s) ==
  /\ pc[s] = "write"
  /\ LET n == stage[dir[s]] + 1 IN
     /\ Write(dir[s], n)
     /\ IF n = Whole /\ s = "manual" THEN End(s)
        ELSE GoOn(s, IF n < Whole THEN "write" ELSE "latest")
  /\ UNCHANGED <<mode, reports, temp>>

(* A command fails (set -e), or the script is killed: nothing is cleaned   *)
(* up and no status is written.  The drill goes on after a verification    *)
(* that fails: set -e does not act in the condition of an if.              *)
Stop(s) ==
  /\ ~AtRest(s) /\ pc[s] # "copy"
  /\ \/ End(s)
     \/ s = "drill" /\ GoOn(s, "report")
  /\ UNCHANGED <<mode, disk, reports, temp>>

-----------------------------------------------------------------------------
(* run_backup_daily.sh after the backup, and sync_backup_offsite.sh *)

(* Mutant of Latest: any directory (ls -1d, by name). *)
LatestByName ==
  /\ pc["daily"] = "latest"
  /\ \E d \in Present : dir' = [dir EXCEPT !["daily"] = d]
  /\ Goto("daily", "sync")
  /\ UNCHANGED <<mode, disk, reports, temp, alone>>

(* LATEST_BACKUP of the daily run: the newest directory, whoever wrote it. *)
Latest ==
  /\ pc["daily"] = "latest"
  /\ dir' = [dir EXCEPT !["daily"] = newest]
  /\ Goto("daily", "sync")
  /\ UNCHANGED <<mode, disk, reports, temp, alone>>

(* The timer of the offsite script: it ends at once without a backup. *)
StartOffsite ==
  /\ MayStart("offsite") /\ newest # None
  /\ dir' = [dir EXCEPT !["offsite"] = newest]
  /\ Goto("offsite", "sync")
  /\ UNCHANGED <<mode, disk, reports, temp, alone>>

(* rsync --delete (or rclone sync) begins with what the directory holds.   *)
(* It disturbs the daily run if that has not finished the directory.       *)
(* Without offsite copies the daily run goes on; an invalid mode ends the  *)
(* script and, in the daily run, its caller.                               *)
Sync(s) ==
  LET d == dir[s]
      beside == {t \in Copier : pc[t] = "copy" /\ dir[t] = d}
      found == {stage[d]} \cup UNION {sent[t] : t \in beside}
  IN
  /\ pc[s] = "sync"
  /\ CASE mode = "rsync" ->
            /\ Goto(s, "copy")
            /\ sent' = [t \in Copier |-> IF t \in beside \cup {s} THEN found
                                        ELSE sent[t]]
            /\ alone' = [alone EXCEPT !["daily"] =
                           @ /\ ~(pc["daily"] = "write" /\ dir["daily"] = d)]
            /\ UNCHANGED dir
       [] mode = "disabled" /\ s = "daily" -> GoOn(s, "record") /\ UNCHANGED sent
       [] OTHER -> End(s) /\ UNCHANGED sent
  /\ UNCHANGED <<mode, disk, offsite, status, drill, sure, temp>>

(* What the remote may hold when these have been copied, each in part.     *)
Between(found) == {n \in Stage : \E k, m \in found : k <= n /\ n <= m}

(* The copy is done: the remote holds what it found when it began, or what *)
(* it and the copies beside it made of that.                               *)
SyncDone(s) ==
  /\ pc[s] = "copy"
  /\ \E n \in Between(sent[s]) : offsite' = [offsite EXCEPT ![dir[s]] = n]
  /\ sent' = [sent EXCEPT ![s] = {}]
  /\ IF s = "daily" THEN GoOn(s, "record") ELSE End(s)
  /\ UNCHANGED <<mode, disk, status, drill, sure, temp>>

(* It fails or is killed part of the way, and so does its caller. *)
SyncStop(s) ==
  /\ pc[s] = "copy"
  /\ \E n \in Between(sent[s] \cup {offsite[dir[s]]}) :
       offsite' = [offsite EXCEPT ![dir[s]] = n]
  /\ sent' = [sent EXCEPT ![s] = {}]
  /\ End(s)
  /\ UNCHANGED <<mode, disk, status, drill, sure, temp>>

(* last_backup.status: status=ok, backup_dir and offsite_mode. *)
Record ==
  /\ pc["daily"] = "record"
  /\ status' = dir["daily"]
  /\ sure' = alone["daily"]
  /\ End("daily")
  /\ UNCHANGED <<mode, disk, remote, drill, temp>>

-----------------------------------------------------------------------------
(* verify, by an operator or by run_restore_drill_weekly.sh *)

(* The operator names a directory; the drill takes the newest one, and     *)
(* reports a failure without any.                                          *)
StartVerify(s) ==
  /\ s \in Verifier /\ MayStart(s)
  /\ IF newest = None
     THEN /\ s = "drill" /\ drill' = "failed"
          /\ UNCHANGED <<pc, dir, alone>>
     ELSE /\ \E d \in IF s = "drill" THEN {newest} ELSE Present :
               dir' = [dir EXCEPT ![s] = d]
          /\ Goto(s, "require")
          /\ Beside(s)
          /\ drill' = drill
  /\ UNCHANGED <<mode, disk, remote, status, sure, temp>>

RequireFiles(s) ==
  /\ pc[s] = "require"
  /\ stage[dir[s]] >= BothThere
  /\ Goto(s, "droppg")
  /\ UNCHANGED <<mode, dir, disk, reports, temp, alone>>

(* Mutant of Restore: the databases are not dropped, and a load over other *)
(* tables goes on.                                                         *)
RestoreOver(s) ==
  \E step \in {<<"droppg", "pg", "dropts">>, <<"dropts", "ts", "tables">>} :
    /\ pc[s] = step[1]
    /\ temp' = [temp EXCEPT ![step[2]] = IF @ = None THEN dir[s] ELSE @]
    /\ Goto(s, step[3])
    /\ UNCHANGED <<mode, dir, disk, reports, alone>>

(* Each temporary database is dropped and created, and the dump loaded     *)
(* with ON_ERROR_STOP: tables that are there by then stop it (Stop).       *)
Restore(s) ==
  \E step \in {<<"droppg", "pg", "loadpg">>, <<"loadpg", "pg", "dropts">>,
               <<"dropts", "ts", "loadts">>, <<"loadts", "ts", "tables">>} :
    LET load == step[1] \in {"loadpg", "loadts"} IN
    /\ pc[s] = step[1]
    /\ load => temp[step[2]] = None
    /\ temp' = [temp EXCEPT ![step[2]] = IF load THEN dir[s] ELSE None]
    /\ Goto(s, step[3])
    /\ UNCHANGED <<mode, dir, disk, reports, alone>>

(* The tables are there: "Restore verified successfully". *)
CheckTables(s) ==
  /\ pc[s] = "tables"
  /\ \A db \in {"pg", "ts"} : temp[db] # None
  /\ IF s = "drill" THEN GoOn(s, "report") ELSE End(s)
  /\ UNCHANGED <<mode, disk, reports, temp>>

(* The block of the drill ends with an echo: only a log that cannot be     *)
(* written (tee) makes the report a failure.                               *)
Report ==
  /\ pc["drill"] = "report"
  /\ drill' \in {"ok", "failed"}
  /\ End("drill")
  /\ UNCHANGED <<mode, disk, remote, status, sure, temp>>

BNext ==
  \/ \E s \in Script : \/ StartBackup(s) \/ WriteNext(s) \/ Stop(s)
                       \/ Sync(s) \/ SyncDone(s) \/ SyncStop(s)
                       \/ StartVerify(s) \/ RequireFiles(s) \/ Restore(s)
                       \/ CheckTables(s)
  \/ Latest \/ StartOffsite \/ Record \/ Report

BSpec == BInit /\ [][BNext]_bvars
-----------------------------------------------------------------------------
(* status=ok names a backup that is whole and, with rsync, whole and stays *)
(* whole at the remote too.  Two things can spoil that: a backup taken     *)
(* beside the daily one, since run_backup_daily.sh takes the newest        *)
(* directory for its own; and an offsite copy by the timer that began      *)
(* before the directory was finished, since it may end after the copy of   *)
(* the daily run and leave less.                                           *)
StatusTrue ==
  status # None /\ sure =>
    stage[status] = Whole /\ (mode = "rsync" => offsite[status] = Whole)

(* The tables a verification looks at are those of the backup it was asked *)
(* about, unless two verifications ran at once: the temporary databases    *)
(* have one name for all of them.                                          *)
VerifiesItsOwn ==
  \A s \in Verifier : pc[s] = "tables" /\ alone[s] =>
    \A db \in {"pg", "ts"} : temp[db] = dir[s]

-----------------------------------------------------------------------------
(* The inductive invariant *)

(* The directory a script works on, and a backup under way: no other writes *)
(* into it.                                                                 *)
AtWork ==
  /\ \A s \in Script :
       /\ ~AtRest(s) => dir[s] \in Dir
       /\ pc[s] = "write" => s \in Writer /\ stage[dir[s]] \in 1..Whole-1
       /\ pc[s] \in {"latest", "record"} => s = "daily"
       /\ pc[s] \in {"sync", "copy"} => s \in Copier
       /\ pc[s] \notin {"idle", "write", "latest", "record", "sync", "copy"} =>
            s \in Verifier
  /\ \A s \in Copier : pc[s] \in {"sync", "copy"} => stage[dir[s]] > 0
  /\ newest # None => stage[newest] > 0
  /\ \A s, t \in Writer :
       s # t /\ pc[s] = "write" /\ pc[t] = "write" => dir[s] # dir[t]

(* A script that is alone has none beside it that disturbs it. *)
Undisturbed ==
  \A s \in Script : alone[s] /\ ~AtRest(s) => \A u \in Disturbs(s) : AtRest(u)

(* Whatever is on its way to the remote copy of d is all of it. *)
WholeComes(d) ==
  \A s \in Copier : pc[s] = "copy" /\ dir[s] = d => sent[s] = {Whole}

(* The daily run, from its backup to its status. *)
DailyOwn ==
  /\ pc["daily"] = "latest" => stage[dir["daily"]] = Whole
  /\ alone["daily"] /\ ~AtRest("daily") =>
       /\ pc["daily"] \in {"write", "latest"} => newest = dir["daily"]
       /\ pc["daily"] # "write" => stage[dir["daily"]] = Whole
       /\ pc["daily"] = "record" /\ mode = "rsync" => offsite[dir["daily"]] = Whole
       /\ WholeComes(dir["daily"])

(* A status that can be relied on will not be spoilt later. *)
StatusStays == status # None /\ sure => WholeComes(status)

(* What a verification that is alone has loaded. *)
Loaded ==
  \A s \in Verifier : alone[s] =>
    /\ pc[s] \in {"dropts", "loadts", "tables"} => temp["pg"] = dir[s]
    /\ pc[s] = "tables" => temp["ts"] = dir[s]

BIInv ==
  BTypeOK /\ AtWork /\ Undisturbed /\ DailyOwn /\ StatusStays /\ Loaded /\ StatusTrue
=============================================================================
