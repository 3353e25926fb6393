--------------------------- MODULE OperationsProofs ---------------------------
(***************************************************************************)
(* The scripts on the host, for any number of runs, deployments, backups,  *)
(* keys and calls: those of a release, those of the backups, and the loop  *)
(* that gives EMQX its access to the webhook.                              *)
(***************************************************************************)
EXTENDS Releases, Backups, WebhookAccess, TLAPS

-----------------------------------------------------------------------------
(* Migrations *)

LEMMA InitMigrations == MInit => MIInv
<1> SUFFICES ASSUME MInit PROVE MIInv
  OBVIOUS
<1>1. 2 \in File /\ Statements[2] = 1
  BY DEF File, Statements
<1>2. baseline \in BOOLEAN /\ cut \in BOOLEAN
  BY DEF MInit
<1>3. MTypeOK
  BY <1>1, <1>2 DEF MInit, MTypeOK
<1> QED BY <1>1, <1>3 DEF MInit, MIInv, RecordsTrue, AppliedRecorded,
                         OkMeansApplied, RepeatsOnlyAfterStop

LEMMA StartMigrateStep ==
  ASSUME MIInv, StartMigrate
  PROVE  MIInv'
<1> USE DEF StartMigrate, MIInv, data, history
<1>1. MTypeOK'
  <2>1. baseline' \in BOOLEAN /\ cut' \in BOOLEAN
    BY DEF MTypeOK
  <2> QED BY <2>1 DEF MTypeOK
<1>2. RecordsTrue'
  BY DEF RecordsTrue, AppliedRecorded, MTypeOK, File
<1>3. AppliedRecorded'
  BY DEF AppliedRecorded
<1> QED BY <1>1, <1>2, <1>3 DEF OkMeansApplied, RepeatsOnlyAfterStop

(* A run passes the file it is at, which is recorded as it is and executed  *)
(* or assumed: it goes on to the next one, or ends well.                    *)
Passes ==
  /\ mpc \in {"look", "record"} /\ NextFile
  /\ UNCHANGED <<text, applied, quota, device, cut>>
  /\ recorded' \in [File -> 0..2] /\ recorded'[at] = text[at]
  /\ \A f \in File : f # at => recorded'[f] = recorded[f]
  /\ assumed \subseteq assumed' /\ assumed' \subseteq File
  /\ at \in applied \cup assumed'

LEMMA PassesStep ==
  ASSUME MIInv, Passes
  PROVE  MIInv'
<1> USE DEF MIInv, Passes
<1>1. \A f \in File : text[f] # 0 /\ recorded'[f] \in 0..2
  BY DEF MTypeOK
<1>2. \A f \in File : recorded'[f] # 0 => f \in applied' \cup assumed'
  BY DEF RecordsTrue
<1>3. \A f \in File : f < at => recorded'[f] = text[f]
  BY DEF RecordsTrue
<1>4. \A f \in applied' : recorded'[f] # 0 \/ cut'
  <2> SUFFICES ASSUME NEW f \in applied PROVE recorded'[f] # 0 \/ cut
    OBVIOUS
  <2>1. f \in File
    BY DEF MTypeOK
  <2>2. CASE f = at
    BY <1>1, <2>1, <2>2
  <2>3. CASE f # at
    BY <2>1, <2>3 DEF AppliedRecorded
  <2> QED BY <2>2, <2>3
<1>5. CASE at = 6
  <2>1. EndMigrate("ok")
    BY <1>5 DEF NextFile
  <2>2. \A f \in File : recorded'[f] = text[f]
    BY <1>3, <1>5 DEF File
  <2>3. OkMeansApplied'
    BY <1>1, <1>2, <2>2 DEF OkMeansApplied
  <2>4. baseline' \in BOOLEAN /\ cut' \in BOOLEAN
    BY <2>1 DEF EndMigrate, MTypeOK
  <2>5. 2 \in File /\ 0 <= Statements[2]
    BY DEF File, Statements
  <2>6. MTypeOK'
    BY <2>1, <2>4, <2>5 DEF EndMigrate, MTypeOK
  <2>7. RecordsTrue' /\ AppliedRecorded' /\ RepeatsOnlyAfterStop'
    BY <1>2, <1>4, <2>1 DEF EndMigrate, RecordsTrue, AppliedRecorded,
                            RepeatsOnlyAfterStop
  <2> QED BY <2>3, <2>6, <2>7
<1>6. CASE at # 6
  <2>1. /\ mpc' = "look" /\ at' = at + 1 /\ stmts' = 0
        /\ UNCHANGED <<baseline, ended>>
    BY <1>6 DEF NextFile
  <2>2. at' \in File /\ 0 <= Statements[at']
    BY <1>6, <2>1 DEF MTypeOK, File, Statements
  <2>3. \A f \in File : f < at' => recorded'[f] = text[f]
    BY <1>3, <2>1 DEF MTypeOK, File
  <2>4. baseline' \in BOOLEAN /\ cut' \in BOOLEAN
    BY <2>1 DEF MTypeOK
  <2>5. MTypeOK'
    BY <2>1, <2>2, <2>4 DEF MTypeOK
  <2>6. RecordsTrue' /\ AppliedRecorded'
    BY <1>2, <1>4, <2>1, <2>3 DEF RecordsTrue, AppliedRecorded
  <2>7. ASSUME ended = "ok" PROVE OkMeansApplied'
    <3>1. \A f \in File : recorded'[f] = text[f]
      BY <2>7 DEF OkMeansApplied
    <3> QED BY <1>1, <1>2, <3>1 DEF OkMeansApplied
  <2>8. OkMeansApplied' /\ RepeatsOnlyAfterStop'
    BY <2>1, <2>7 DEF OkMeansApplied, RepeatsOnlyAfterStop
  <2> QED BY <2>5, <2>6, <2>8
<1> QED BY <1>5, <1>6

(* A run ends early: a statement executed by then was cut from its record.  *)
Ends(how) ==
  /\ EndMigrate(how) /\ UNCHANGED <<text, recorded, data, assumed>>
  /\ cut' \in BOOLEAN /\ (cut' <=> cut \/ stmts > 0)

LEMMA EndsStep ==
  ASSUME MIInv, Ends("failed") \/ (Ends("repeated") /\ cut)
  PROVE  MIInv'
<1> USE DEF MIInv
<1>1. /\ mpc' = "idle" /\ at' = 2 /\ baseline' = FALSE /\ stmts' = 0
      /\ ended' \in {"failed", "repeated"} /\ (ended' = "repeated" => cut)
      /\ text' = text /\ recorded' = recorded /\ applied' = applied
      /\ quota' = quota /\ device' = device /\ assumed' = assumed
  BY DEF Ends, EndMigrate, data
<1>2. cut' \in BOOLEAN /\ (cut' <=> cut \/ stmts > 0)
  BY DEF Ends
<1>3. baseline' \in BOOLEAN
  BY <1>1
<1>4. 2 \in File /\ 0 <= Statements[2]
  BY DEF File, Statements
<1>5. MTypeOK'
  BY <1>1, <1>2, <1>3, <1>4 DEF MTypeOK
<1>6. RecordsTrue'
  BY <1>1 DEF RecordsTrue
<1>7. AppliedRecorded'
  BY <1>1, <1>2 DEF AppliedRecorded
<1>8. OkMeansApplied' /\ RepeatsOnlyAfterStop'
  BY <1>1, <1>2 DEF OkMeansApplied, RepeatsOnlyAfterStop
<1> QED BY <1>5, <1>6, <1>7, <1>8

LEMMA LookStep ==
  ASSUME MIInv, Look
  PROVE  MIInv'
<1>1. /\ mpc = "look" /\ stmts = 0
      /\ text' = text /\ recorded' = recorded /\ applied' = applied
      /\ quota' = quota /\ device' = device /\ cut' = cut /\ assumed' = assumed
  BY DEF Look, data, history, MIInv, AppliedRecorded
<1>2. CASE recorded[at] # 0 /\ recorded[at] = text[at]
  <2>1. NextFile
    BY <1>2 DEF Look
  <2>2. Passes
    BY <1>1, <1>2, <2>1 DEF Passes, MIInv, MTypeOK, RecordsTrue
  <2> QED BY <2>2, PassesStep
<1>3. CASE recorded[at] # 0 /\ recorded[at] # text[at]
  <2>1. EndMigrate("failed")
    BY <1>3 DEF Look
  <2>2. cut' \in BOOLEAN
    BY <1>1 DEF MIInv, MTypeOK
  <2>3. Ends("failed")
    BY <1>1, <2>1, <2>2 DEF Ends, data
  <2> QED BY <2>3, EndsStep
<1>4. CASE recorded[at] = 0
  <2> USE DEF MIInv
  <2>1. /\ mpc' = IF baseline THEN "record" ELSE "apply"
        /\ UNCHANGED <<at, baseline, stmts, ended>>
    BY <1>4 DEF Look
  <2>2. mpc' \in {"record", "apply"}
    BY <2>1
  <2>3. baseline' \in BOOLEAN /\ cut' \in BOOLEAN
    BY <1>1, <2>1 DEF MTypeOK
  <2>4. MTypeOK'
    BY <1>1, <2>1, <2>2, <2>3 DEF MTypeOK
  <2>5. RecordsTrue'
    BY <1>1, <1>4, <2>1, <2>2 DEF RecordsTrue
  <2>6. stmts < Statements[at]
    BY <1>1 DEF MTypeOK, File, Statements
  <2>7. AppliedRecorded'
    BY <1>1, <2>1, <2>2, <2>6 DEF AppliedRecorded
  <2> QED BY <1>1, <2>1, <2>4, <2>5, <2>7 DEF OkMeansApplied, RepeatsOnlyAfterStop
<1> QED BY <1>2, <1>3, <1>4

(* A statement has its effect twice only on a file that a run left without  *)
(* its record.                                                              *)
LEMMA ApplyStep ==
  ASSUME MIInv, Apply
  PROVE  MIInv'
<1> USE DEF MIInv
<1>1. /\ mpc = "apply" /\ at \in File /\ recorded[at] = 0
      /\ text' = text /\ recorded' = recorded /\ cut' = cut /\ assumed' = assumed
  BY DEF Apply, history, MTypeOK, RecordsTrue
<1>2. at \in applied => cut
  BY <1>1 DEF AppliedRecorded
<1>3. CASE at = 2 /\ 2 \in applied
  <2>1. EndMigrate("repeated") /\ UNCHANGED data
    BY <1>3 DEF Apply
  <2>2. cut' \in BOOLEAN /\ (cut' <=> cut \/ stmts > 0)
    BY <1>1, <1>2, <1>3 DEF MTypeOK
  <2>3. Ends("repeated")
    BY <1>1, <2>1, <2>2 DEF Ends
  <2> QED BY <1>2, <1>3, <2>3, EndsStep
<1>4. CASE ~(at = 2 /\ 2 \in applied)
  <2>1. /\ stmts' = stmts + 1
        /\ Effect(at, stmts + 1)
        /\ mpc' = IF stmts' = Statements[at] THEN "record" ELSE "apply"
        /\ applied' = IF stmts' = Statements[at] THEN applied \cup {at} ELSE applied
        /\ at' = at /\ baseline' = baseline /\ ended' = ended
    BY <1>4 DEF Apply
  <2>2. stmts \in 0..2 /\ Statements[at] \in 1..2 /\ stmts < Statements[at]
    BY <1>1 DEF MTypeOK, AppliedRecorded, Statements, File
  <2>3. device' = device \/ (device' = "label" /\ device = "no_code" /\ at = 3)
    BY <2>1 DEF Effect
  <2>4. \/ quota' = quota \/ (quota' = "unlimited" /\ quota = "default")
        \/ (quota' = "lost" /\ quota = "chosen" /\ at = 6)
    BY <2>1 DEF Effect
  <2>5. applied \subseteq applied' /\ applied' \subseteq applied \cup {at}
    BY <2>1
  <2>6. applied = File => applied' = File
    BY <1>1, <2>5
  <2>7. (device' = "label" => device = "label" \/ cut) /\ (quota' = "lost" => quota = "lost" \/ cut)
    BY <1>1, <1>2, <2>3, <2>4 DEF AppliedRecorded
  <2>8. baseline' \in BOOLEAN /\ cut' \in BOOLEAN
    BY <1>1, <2>1 DEF MTypeOK
  <2>9. MTypeOK'
    BY <1>1, <2>1, <2>2, <2>3, <2>4, <2>5, <2>8 DEF MTypeOK
  <2>10. RecordsTrue'
    BY <1>1, <2>1, <2>5 DEF RecordsTrue
  <2>11. \A f \in applied' :
           recorded'[f] # 0 \/ cut' \/ (mpc' = "record" /\ at' = f /\ stmts' > 0)
    <3> SUFFICES ASSUME NEW f \in applied', ~cut
                 PROVE  recorded[f] # 0 \/ (mpc' = "record" /\ at = f /\ stmts' > 0)
      BY <1>1, <2>1
    <3>1. CASE f \in applied
      BY <1>1, <3>1 DEF AppliedRecorded
    <3>2. CASE f \notin applied
      BY <2>1, <2>2, <3>2
    <3> QED BY <3>1, <3>2
  <2>12. AppliedRecorded'
    BY <2>1, <2>2, <2>3, <2>4, <2>6, <2>11 DEF AppliedRecorded
  <2>13. OkMeansApplied' /\ RepeatsOnlyAfterStop'
    BY <1>1, <2>1, <2>5, <2>7 DEF OkMeansApplied, RepeatsOnlyAfterStop
  <2> QED BY <2>9, <2>10, <2>12, <2>13
<1> QED BY <1>3, <1>4

LEMMA RecordFileStep ==
  ASSUME MIInv, RecordFile
  PROVE  MIInv'
<1>1. MTypeOK /\ at \in File
  BY DEF MIInv, MTypeOK
<1>2. recorded' \in [File -> 0..2] /\ recorded'[at] = text[at]
  BY <1>1 DEF RecordFile, MTypeOK
<1>3. \A f \in File : f # at => recorded'[f] = recorded[f]
  BY <1>1 DEF RecordFile, MTypeOK
<1>4. baseline \/ at \in applied
  BY DEF MIInv, RecordsTrue, RecordFile
<1>5. /\ assumed \subseteq assumed' /\ assumed' \subseteq File
      /\ at \in applied \cup assumed'
  BY <1>1, <1>4 DEF RecordFile, MTypeOK
<1>6. Passes
  BY <1>2, <1>3, <1>5 DEF Passes, RecordFile, data
<1> QED BY <1>6, PassesStep

LEMMA StopMigrateStep ==
  ASSUME MIInv, StopMigrate
  PROVE  MIInv'
<1>1. cut' \in BOOLEAN /\ (cut' <=> cut \/ stmts > 0)
  BY DEF StopMigrate
<1>2. Ends("failed")
  BY <1>1 DEF Ends, StopMigrate
<1> QED BY <1>2, EndsStep

(* Between two runs *)
LEMMA EditFileStep ==
  ASSUME MIInv, NEW f \in File, EditFile(f)
  PROVE  MIInv'
<1> USE DEF MIInv, EditFile, data, history
<1>1. text' \in [File -> 1..2]
  BY DEF MTypeOK
<1>2. baseline' \in BOOLEAN /\ cut' \in BOOLEAN
  BY DEF MTypeOK
<1>3. MTypeOK'
  BY <1>1, <1>2 DEF MTypeOK
<1>4. RecordsTrue' /\ AppliedRecorded'
  BY DEF RecordsTrue, AppliedRecorded
<1> QED BY <1>3, <1>4 DEF OkMeansApplied, RepeatsOnlyAfterStop

LEMMA UseApiStep ==
  ASSUME MIInv, UseApi
  PROVE  MIInv'
<1> USE DEF MIInv, UseApi, run, history
<1>1. baseline' \in BOOLEAN /\ cut' \in BOOLEAN
  BY DEF MTypeOK
<1>2. MTypeOK'
  BY <1>1 DEF MTypeOK
<1>3. RecordsTrue' /\ AppliedRecorded'
  BY DEF RecordsTrue, AppliedRecorded
<1> QED BY <1>2, <1>3 DEF OkMeansApplied, RepeatsOnlyAfterStop

LEMMA MigrationsStep ==
  ASSUME MIInv, StartMigrate \/ MStep \/ UNCHANGED mvars
  PROVE  MIInv'
<1>1. CASE UNCHANGED mvars
  <2> USE <1>1 DEF mvars, MIInv
  <2>1. baseline' \in BOOLEAN /\ cut' \in BOOLEAN
    BY DEF MTypeOK
  <2>2. MTypeOK'
    BY <2>1 DEF MTypeOK
  <2> QED BY <2>2 DEF RecordsTrue, AppliedRecorded, OkMeansApplied,
                      RepeatsOnlyAfterStop
<1> QED BY <1>1, StartMigrateStep, LookStep, ApplyStep, RecordFileStep,
           StopMigrateStep, EditFileStep, UseApiStep DEF MStep

-----------------------------------------------------------------------------
(* Images *)

LEMMA InitImages == IInit => IIInv
<1> SUFFICES ASSUME IInit PROVE IIInv
  OBVIOUS
<1> USE ImagesAssumption DEF IInit, NoImages, NoImage
<1>1. 0 \in Deployment /\ 0 \in Image /\ NoImage \in Image
  BY DEF Deployment, Image
<1>2. halted \in BOOLEAN
  OBVIOUS
<1>3. ITypeOK
  BY <1>1, <1>2 DEF ITypeOK
<1> QED BY <1>3 DEF IIInv, TagsTrue, Rolling, RollbackRestores

LEMMA StartDeployStep ==
  ASSUME IIInv, StartDeploy
  PROVE  IIInv'
<1> USE ImagesAssumption DEF StartDeploy, IIInv
<1>1. last + 1 \in Deployment /\ last \in Nat /\ saved \in Nat /\ saved <= last
  BY DEF ITypeOK, Deployment
<1>2. halted' \in BOOLEAN
  BY DEF ITypeOK
<1>3. ITypeOK'
  BY <1>1, <1>2 DEF ITypeOK
<1>4. before'[last'] = running' /\ before'[saved] = before[saved]
  BY <1>1 DEF ITypeOK
<1>5. TagsTrue'
  BY <1>4 DEF TagsTrue
<1>6. Rolling' /\ RollbackRestores'
  BY <1>1 DEF Rolling, RollbackRestores
<1> QED BY <1>3, <1>5, <1>6

LEMMA TagImagesStep ==
  ASSUME IIInv, TagImages
  PROVE  IIInv'
<1> USE DEF TagImages, IIInv
<1>1. halted' \in BOOLEAN
  BY DEF ITypeOK
<1>2. ITypeOK'
  BY <1>1 DEF ITypeOK
<1>3. saved # last /\ tags'[last] = latest /\ tags'[saved] = tags[saved]
  BY DEF ITypeOK, Rolling, Deployment
<1>4. TagsTrue'
  BY <1>3 DEF TagsTrue
<1>5. Rolling' /\ RollbackRestores'
  BY DEF Rolling, RollbackRestores
<1> QED BY <1>2, <1>4, <1>5

LEMMA SaveStep ==
  ASSUME IIInv, Save
  PROVE  IIInv'
<1> USE DEF Save, IIInv
<1>1. halted' \in BOOLEAN
  BY DEF ITypeOK
<1>2. ITypeOK'
  BY <1>1 DEF ITypeOK, Deployment
<1> QED BY <1>2 DEF TagsTrue, Rolling, RollbackRestores

LEMMA BuildStep ==
  ASSUME IIInv, NEW s \in Service, Build(s)
  PROVE  IIInv'
<1> USE DEF Build, IIInv
<1>1. halted' \in BOOLEAN /\ last \in Image
  BY DEF ITypeOK, Image
<1>2. ITypeOK'
  BY <1>1 DEF ITypeOK
<1> QED BY <1>2 DEF TagsTrue, Rolling, RollbackRestores

LEMMA UpStep ==
  ASSUME IIInv, NEW s \in Service, Up(s)
  PROVE  IIInv'
<1> USE DEF Up, IIInv
<1>1. halted' \in BOOLEAN
  BY DEF ITypeOK
<1>2. ITypeOK'
  BY <1>1 DEF ITypeOK
<1> QED BY <1>2 DEF TagsTrue, Rolling, RollbackRestores

(* After a rollback both containers run what the tags name.                 *)
LEMMA UpDoneStep ==
  ASSUME IIInv, UpDone
  PROVE  IIInv'
<1> USE DEF UpDone, IIInv
<1>1. halted' \in BOOLEAN
  BY DEF ITypeOK
<1>2. ITypeOK'
  BY <1>1 DEF ITypeOK
<1>3. TagsTrue' /\ Rolling'
  BY DEF TagsTrue, Rolling
<1>4. ASSUME ipc = "up_rollback", ~halted PROVE running = before[saved]
  <2>1. saved > 0 /\ \A s \in Service : latest[s] = tags[saved][s]
    BY <1>4 DEF Rolling, Service
  <2>2. latest \in [Service -> Image] /\ tags[saved] \in [Service -> Image]
    BY DEF ITypeOK
  <2>3. latest = tags[saved]
    BY <2>1, <2>2
  <2> QED BY <1>4, <2>1, <2>3 DEF TagsTrue
<1>5. RollbackRestores'
  BY <1>4 DEF RollbackRestores
<1> QED BY <1>2, <1>3, <1>5

LEMMA RollbackStep ==
  ASSUME IIInv, Rollback \/ RollbackBot
  PROVE  IIInv'
<1> USE DEF IIInv, Service
<1>1. tags[saved]["go_api"] \in Image /\ tags[saved]["telegram_ops_bot"] \in Image
  BY DEF ITypeOK
<1>2. CASE Rollback
  <2> USE <1>2 DEF Rollback
  <2>1. halted' \in BOOLEAN
    BY DEF ITypeOK
  <2>2. ITypeOK'
    BY <1>1, <2>1 DEF ITypeOK
  <2>3. latest'["go_api"] = tags[saved]["go_api"]
    BY DEF ITypeOK
  <2> QED BY <2>2, <2>3 DEF TagsTrue, Rolling, RollbackRestores
<1>3. CASE RollbackBot
  <2> USE <1>3 DEF RollbackBot
  <2>1. halted' \in BOOLEAN /\ (halted' <=> halted \/ (ipc' = "idle" /\ latest # running))
    BY DEF ITypeOK
  <2>2. CASE tags[saved]["telegram_ops_bot"] = NoImage
    <3>1. ITypeOK'
      BY <2>1, <2>2 DEF ITypeOK
    <3> QED BY <2>1, <2>2, <3>1 DEF TagsTrue, Rolling, RollbackRestores
  <2>3. CASE tags[saved]["telegram_ops_bot"] # NoImage
    <3>1. ITypeOK'
      BY <1>1, <2>1, <2>3 DEF ITypeOK
    <3>2. /\ latest'["go_api"] = latest["go_api"]
          /\ latest'["telegram_ops_bot"] = tags[saved]["telegram_ops_bot"]
      BY <2>3 DEF ITypeOK
    <3> QED BY <2>1, <2>3, <3>1, <3>2 DEF TagsTrue, Rolling, RollbackRestores
  <2> QED BY <2>2, <2>3
<1> QED BY <1>2, <1>3

LEMMA StopScriptStep ==
  ASSUME IIInv, StopScript
  PROVE  IIInv'
<1> USE DEF IIInv, StopScript
<1>1. halted' \in BOOLEAN /\ (halted' <=> halted \/ latest # running)
  BY DEF ITypeOK
<1>2. ITypeOK'
  BY <1>1 DEF ITypeOK
<1> QED BY <1>1, <1>2 DEF TagsTrue, Rolling, RollbackRestores

LEMMA ImagesStep ==
  ASSUME IIInv, IStart \/ IStep \/ UNCHANGED ivars
  PROVE  IIInv'
<1>1. CASE UNCHANGED ivars
  <2> USE <1>1 DEF ivars, IIInv
  <2>1. halted' \in BOOLEAN
    BY DEF ITypeOK
  <2>2. ITypeOK'
    BY <2>1 DEF ITypeOK
  <2> QED BY <2>2 DEF TagsTrue, Rolling, RollbackRestores
<1> QED BY <1>1, StartDeployStep, TagImagesStep, SaveStep, BuildStep, UpStep,
           UpDoneStep, RollbackStep, StopScriptStep DEF IStart, IStep

-----------------------------------------------------------------------------
(* Releases *)

(* The types of the scripts of a release, and what their invariants rest    *)
(* on, whatever the operator starts and wherever a script stops.            *)
THEOREM ReleasesInvariance == Spec => []IInv
<1>1. Init => IInv
  <2>1. Init => runs \in 0..MaxRuns
    BY ReleasesAssumption DEF Init
  <2> QED BY <2>1, InitMigrations, InitImages DEF Init, IInv, TypeOK, MIInv, IIInv
<1>2. IInv /\ [Next]_vars => IInv'
  <2> SUFFICES ASSUME IInv, [Next]_vars PROVE IInv'
    OBVIOUS
  <2>1. runs' \in 0..MaxRuns
    BY ReleasesAssumption DEF IInv, TypeOK, Next, Start, Step, vars
  <2>2. /\ StartMigrate \/ MStep \/ UNCHANGED mvars
        /\ IStart \/ IStep \/ UNCHANGED ivars
    BY DEF Next, Start, Step, vars
  <2>3. MIInv' /\ IIInv'
    BY <2>2, MigrationsStep, ImagesStep DEF IInv
  <2> QED BY <2>1, <2>3 DEF IInv, TypeOK, MIInv, IIInv
<1> QED BY <1>1, <1>2, PTL DEF Spec

(* OkMeansApplied: a run of migrate.sh that ends well leaves every file     *)
(* recorded with the text it has, and executed or assumed.                  *)
THEOREM OkApplied == Spec => []OkMeansApplied
<1>1. IInv => OkMeansApplied
  BY DEF IInv, MIInv
<1> QED BY <1>1, ReleasesInvariance, PTL

(* RepeatsOnlyAfterStop: no migration has its effects twice unless a run    *)
(* stopped between a statement of a file and its record.                    *)
THEOREM NoRepeat == Spec => []RepeatsOnlyAfterStop
<1>1. IInv => RepeatsOnlyAfterStop
  BY DEF IInv, MIInv
<1> QED BY <1>1, ReleasesInvariance, PTL

(* RollbackRestores: a rollback that ends runs the images that ran before   *)
(* the last deployment, unless a script stopped between moving a tag and    *)
(* replacing the containers.                                                *)
THEOREM Restores == Spec => []RollbackRestores
<1>1. IInv => RollbackRestores
  BY DEF IInv, IIInv
<1> QED BY <1>1, ReleasesInvariance, PTL

-----------------------------------------------------------------------------
(* Backups *)

LEMMA InitBackups == BInit => BIInv
<1> SUFFICES ASSUME BInit PROVE BIInv
  OBVIOUS
<1> USE BackupsAssumption DEF BInit
<1>1. alone \in [Script -> BOOLEAN] /\ sure \in BOOLEAN
  OBVIOUS
<1>2. Present = {} /\ 0 \in Stage
  BY DEF Present, Stage
<1>3. BTypeOK
  BY <1>1, <1>2 DEF BTypeOK, Label
<1>4. AtWork /\ Undisturbed /\ DailyOwn /\ Loaded
  BY DEF AtWork, Undisturbed, DailyOwn, Loaded, AtRest, Script, Writer, Verifier,
         Copier
<1> QED BY <1>3, <1>4 DEF BIInv, StatusTrue, StatusStays

(* A script that stops, or goes on, disturbs nobody who was alone.          *)
LEMMA UndisturbedKept ==
  ASSUME Undisturbed,
         \A t \in Script : AtRest(t) => AtRest(t)',
         \A t \in Script : ~AtRest(t)' => (alone'[t] => alone[t])
  PROVE  Undisturbed'
<1>1. \A t \in Script : Disturbs(t) \subseteq Script
  BY DEF Disturbs, Script, Writer, Verifier
<1> QED BY <1>1 DEF Undisturbed, Disturbs

(* What comes to the remote copy of d goes on as it is, if no copy of d     *)
(* begins.                                                                  *)
LEMMA ComingKept ==
  ASSUME NEW d, WholeComes(d),
         \A t \in Copier : pc'[t] = "copy" /\ dir'[t] = d =>
           pc[t] = "copy" /\ dir[t] = d /\ sent'[t] = sent[t]
  PROVE  WholeComes(d)'
  BY DEF WholeComes

(* A script that starts is alone only if those that disturb it are at rest, *)
(* and takes its word from those it disturbs.                               *)
LEMMA UndisturbedStart ==
  ASSUME Undisturbed, NEW s \in Script, Beside(s), AtRest(s),
         \A t \in Script : t # s => pc'[t] = pc[t]
  PROVE  Undisturbed'
<1>1. \A t \in Script : Disturbs(t) \subseteq Script /\ t \notin Disturbs(t)
  BY DEF Disturbs, Script, Writer, Verifier
<1>2. ASSUME NEW t \in Script, alone'[t], ~AtRest(t)', NEW u \in Disturbs(t)
      PROVE  AtRest(u)'
  <2>1. CASE t = s
    <3>1. AtRest(u)
      BY <1>2, <2>1 DEF Beside
    <3> QED BY <1>1, <1>2, <2>1, <3>1 DEF AtRest
  <2>2. CASE t # s
    <3>1. alone[t] /\ (AtRest(t) \/ s \notin Disturbs(t))
      BY <1>2, <2>2 DEF Beside
    <3>2. ~AtRest(t)
      BY <1>2, <2>2 DEF AtRest
    <3>3. AtRest(u) /\ u # s
      BY <1>2, <3>1, <3>2 DEF Undisturbed
    <3> QED BY <1>1, <1>2, <3>3 DEF AtRest
  <2> QED BY <2>1, <2>2
<1> QED BY <1>2 DEF Undisturbed, Disturbs

LEMMA StartBackupStep ==
  ASSUME BIInv, NEW s \in Script, StartBackup(s)
  PROVE  BIInv'
<1> USE BackupsAssumption DEF BIInv
<1> PICK d \in Dir : stage[d] = 0 /\ Write(d, 1) /\ dir' = [dir EXCEPT ![s] = d]
  BY DEF StartBackup
<1>1. /\ s \in Writer /\ AtRest(s) /\ Beside(s)
      /\ UNCHANGED <<mode, offsite, sent, status, drill, sure, temp>>
  BY DEF StartBackup, MayStart, reports, remote
<1>2. /\ pc'[s] = "write" /\ dir'[s] = d
      /\ \A t \in Script : t # s => pc'[t] = pc[t] /\ dir'[t] = dir[t]
  BY DEF StartBackup, Goto, BTypeOK
<1>3. /\ newest' = d /\ stage'[d] = 1
      /\ \A e \in Dir : e # d => stage'[e] = stage[e]
  BY DEF Write, BTypeOK
<1>4. \A t \in Script : alone'[t] => t = s \/ alone[t]
  BY <1>1 DEF Beside
<1>5. BTypeOK'
  <2>1. alone' \in [Script -> BOOLEAN] /\ sure' \in BOOLEAN
    BY <1>1 DEF Beside, BTypeOK
  <2>2. Present' # {}
    BY <1>3 DEF Present
  <2>3. stage' \in [Dir -> Stage]
    BY DEF Write, BTypeOK, Stage
  <2>4. pc' \in [Script -> Label]
    BY DEF StartBackup, Goto, BTypeOK, Label
  <2>5. dir' \in [Script -> Dir \cup {None}]
    BY DEF BTypeOK
  <2> QED BY <1>1, <1>3, <2>1, <2>2, <2>3, <2>4, <2>5 DEF BTypeOK
<1>6. \A t \in Script : pc[t] = "write" => dir[t] \in Dir /\ dir[t] # d
  BY DEF AtWork, AtRest
<1>7. AtWork'
  <2>1. \A t \in Script : t # s /\ ~AtRest(t) => dir[t] \in Dir
    BY DEF AtWork
  <2>2. \A e \in Dir : stage[e] > 0 => stage'[e] = stage[e]
    BY <1>3
  <2>3. \A t \in Copier : pc'[t] \in {"sync", "copy"} => stage'[dir'[t]] > 0
    <3> SUFFICES ASSUME NEW t \in Copier, pc'[t] \in {"sync", "copy"}
                 PROVE  stage'[dir'[t]] > 0
      OBVIOUS
    <3>1. t # s /\ t \in Script
      BY <1>2 DEF Script
    <3>2. pc[t] \in {"sync", "copy"} /\ dir'[t] = dir[t]
      BY <1>2, <3>1
    <3>3. stage[dir[t]] > 0 /\ dir[t] \in Dir
      BY <3>1, <3>2, <2>1 DEF AtWork, AtRest
    <3> QED BY <2>2, <3>2, <3>3
  <2>4. newest' # None => stage'[newest'] > 0
    BY <1>3
  <2> QED BY <1>1, <1>2, <1>3, <1>6, <2>1, <2>3, <2>4
          DEF AtWork, AtRest, Whole, Script
<1>8. Undisturbed'
  BY <1>1, <1>2, UndisturbedStart
<1>9. \A e \in Dir : stage[e] = Whole => stage'[e] = Whole
  BY <1>3 DEF Whole
<1>a. \A t \in Copier : pc'[t] = "copy" => pc[t] = "copy" /\ dir'[t] = dir[t]
  BY <1>2 DEF Script
<1>10. DailyOwn'
  <2>1. "daily" \in Script
    BY DEF Script, Writer
  <2>2. CASE s = "daily"
    <3>1. WholeComes(d)'
      BY <1>a DEF WholeComes, AtWork
    <3> QED BY <1>2, <1>3, <2>2, <3>1 DEF DailyOwn
  <2>3. CASE s # "daily"
    <3>1. s = "manual"
      BY <1>1, <2>3 DEF Writer
    <3>2. Disturbs("daily") = {"manual"}
      BY DEF Disturbs, Verifier
    <3>3. alone'["daily"] => AtRest("daily")
      BY <1>1, <2>1, <2>3, <3>1, <3>2 DEF Beside
    <3>4. pc'["daily"] = "latest" => stage'[dir'["daily"]] = Whole
      BY <1>2, <1>9, <2>1, <2>3 DEF DailyOwn, AtWork, AtRest
    <3> QED BY <1>2, <2>1, <2>3, <3>3, <3>4 DEF DailyOwn, AtRest
  <2> QED BY <2>2, <2>3
<1>11. Loaded'
  BY <1>1, <1>2, <1>4 DEF Loaded, Script, Writer, Verifier
<1>12. StatusTrue'
  BY <1>1, <1>9 DEF StatusTrue, BTypeOK
<1>13. StatusStays'
  BY <1>1, <1>a, ComingKept DEF StatusStays
<1> QED BY <1>5, <1>7, <1>8, <1>10, <1>11, <1>12, <1>13

(* What End and GoOn do to script s, and to no other. *)
LEMMA EndMoves ==
  ASSUME BTypeOK, NEW s \in Script, End(s)
  PROVE  /\ pc' \in [Script -> Label] /\ dir' \in [Script -> Dir \cup {None}]
         /\ alone' \in [Script -> BOOLEAN]
         /\ pc'[s] = "idle"
         /\ \A t \in Script : t # s =>
              pc'[t] = pc[t] /\ dir'[t] = dir[t] /\ alone'[t] = alone[t]
<1>1. alone' \in [Script -> BOOLEAN]
  BY DEF End, BTypeOK
<1>2. \A t \in Script : t # s => alone'[t] = alone[t]
  BY DEF End, BTypeOK
<1> QED BY <1>1, <1>2 DEF End, Goto, BTypeOK, Label

LEMMA GoOnMoves ==
  ASSUME BTypeOK, NEW s \in Script, NEW l \in Label, GoOn(s, l)
  PROVE  /\ pc' \in [Script -> Label]
         /\ dir' = dir /\ alone' = alone
         /\ pc'[s] = l /\ \A t \in Script : t # s => pc'[t] = pc[t]
BY DEF GoOn, Goto, BTypeOK

LEMMA WriteNextStep ==
  ASSUME BIInv, NEW s \in Script, WriteNext(s)
  PROVE  BIInv'
<1> USE BackupsAssumption DEF BIInv
<1> DEFINE d == dir[s]
           n == stage[d] + 1
<1>1. /\ pc[s] = "write" /\ s \in Writer /\ d \in Dir /\ stage[d] \in 1..3 /\ n \in 2..4
      /\ UNCHANGED <<mode, offsite, sent, status, drill, sure, temp>>
  BY DEF WriteNext, AtWork, AtRest, reports, remote, Whole
<1>2. /\ newest' = d /\ stage'[d] = n /\ stage' \in [Dir -> Stage]
      /\ \A e \in Dir : e # d => stage'[e] = stage[e]
  <2>1. Write(d, n)
    BY DEF WriteNext
  <2> QED BY <1>1, <2>1 DEF Write, BTypeOK, Stage
<1>3. /\ pc' \in [Script -> Label] /\ dir' \in [Script -> Dir \cup {None}]
      /\ alone' \in [Script -> BOOLEAN]
      /\ \A t \in Script : t # s =>
           pc'[t] = pc[t] /\ dir'[t] = dir[t] /\ alone'[t] = alone[t]
      /\ \/ pc'[s] = "idle"
         \/ /\ dir'[s] = d /\ alone'[s] = alone[s]
            /\ \/ pc'[s] = "write" /\ n < Whole
               \/ pc'[s] = "latest" /\ n = Whole /\ s # "manual"
  <2>1. CASE n = Whole /\ s = "manual"
    BY <2>1, EndMoves DEF WriteNext
  <2>2. CASE ~(n = Whole /\ s = "manual")
    <3> DEFINE l == IF n < Whole THEN "write" ELSE "latest"
    <3>1. GoOn(s, l) /\ l \in Label
      BY <2>2 DEF WriteNext, Label
    <3>2. /\ pc' \in [Script -> Label] /\ dir' = dir /\ alone' = alone
          /\ pc'[s] = l /\ \A t \in Script : t # s => pc'[t] = pc[t]
      BY <3>1, GoOnMoves
    <3>3. alone' \in [Script -> BOOLEAN]
      BY <3>2 DEF BTypeOK
    <3>4. dir' \in [Script -> Dir \cup {None}]
      BY <3>2 DEF BTypeOK
    <3>5. \/ l = "write" /\ n < Whole
          \/ l = "latest" /\ n = Whole /\ s # "manual"
      BY <1>1, <2>2 DEF Whole
    <3>6. dir'[s] = d /\ alone'[s] = alone[s]
      BY <3>2
    <3>7. \A t \in Script : t # s =>
            pc'[t] = pc[t] /\ dir'[t] = dir[t] /\ alone'[t] = alone[t]
      BY <3>2
    <3> HIDE DEF l, n, d
    <3> QED BY <3>2, <3>3, <3>4, <3>5, <3>6, <3>7
  <2> QED BY <2>1, <2>2
<1> HIDE DEF d, n
<1>4. BTypeOK'
  <2>1. sure' \in BOOLEAN
    BY <1>1 DEF BTypeOK
  <2>2. Present' # {}
    BY <1>1, <1>2 DEF Present
  <2> QED BY <1>1, <1>2, <1>3, <2>1, <2>2 DEF BTypeOK
<1>5. AtWork'
  <2>1. \A t \in Script : t # s /\ pc[t] = "write" => dir[t] # d
    BY <1>1 DEF AtWork, d
  <2>2. \A t \in Script : t # s /\ ~AtRest(t) => dir[t] \in Dir
    BY DEF AtWork
  <2>3. \A t \in Copier : pc'[t] \in {"sync", "copy"} => stage'[dir'[t]] > 0
    <3> SUFFICES ASSUME NEW t \in Copier, pc'[t] \in {"sync", "copy"}
                 PROVE  stage'[dir'[t]] > 0
      OBVIOUS
    <3>1. t # s /\ t \in Script
      BY <1>3 DEF Script
    <3>2. pc[t] \in {"sync", "copy"} /\ dir'[t] = dir[t]
      BY <1>3, <3>1
    <3>3. stage[dir[t]] > 0 /\ dir[t] \in Dir
      BY <3>1, <3>2, <2>2 DEF AtWork, AtRest
    <3> QED BY <1>1, <1>2, <3>2, <3>3
  <2>4. newest' # None => stage'[newest'] > 0
    BY <1>1, <1>2
  <2> QED BY <1>1, <1>2, <1>3, <2>1, <2>2, <2>3, <2>4
          DEF AtWork, AtRest, Whole, Script, Writer
<1>a. \A t \in Copier : pc'[t] = "copy" => pc[t] = "copy" /\ dir'[t] = dir[t]
  BY <1>3 DEF Script
<1>6. Undisturbed'
  BY <1>1, <1>3, UndisturbedKept DEF AtRest
<1>7. \A e \in Dir : stage[e] = Whole => stage'[e] = Whole
  BY <1>1, <1>2 DEF Whole, d
<1>8. "daily" \in Script /\ Disturbs("daily") = {"manual"} /\ "manual" \in Script
  BY DEF Disturbs, Script, Writer, Verifier
<1>9. DailyOwn'
  <2>1. CASE s = "daily"
    <3>1. CASE pc'[s] = "idle"
      BY <2>1, <3>1 DEF DailyOwn, AtRest
    <3>2. CASE pc'[s] # "idle"
      <4>1. PICK e : e = d
        OBVIOUS
      <4>2. ~AtRest("daily") /\ dir["daily"] = e
        BY <1>1, <2>1, <4>1 DEF AtRest, d
      <4>3. alone["daily"] => WholeComes(e)
        BY <4>2 DEF DailyOwn
      <4>4. alone["daily"] => WholeComes(e)'
        BY <1>1, <1>a, <4>3, ComingKept
      <4>5. /\ dir'[s] = d /\ alone'[s] = alone[s]
            /\ \/ pc'[s] = "write" /\ n < Whole
               \/ pc'[s] = "latest" /\ n = Whole
        BY <1>3, <3>2
      <4>6. /\ dir'["daily"] = e /\ alone'["daily"] = alone["daily"]
            /\ pc'["daily"] \in {"write", "latest"} /\ newest' = e
        BY <1>2, <2>1, <4>1, <4>5
      <4>7. pc'["daily"] = "latest" => stage'[e] = Whole
        BY <1>2, <2>1, <4>1, <4>5
      <4>8. alone'["daily"] => WholeComes(dir["daily"])'
        BY <4>4, <4>6 DEF WholeComes
      <4> QED BY <4>6, <4>7, <4>8 DEF DailyOwn, AtRest
    <3> QED BY <3>1, <3>2
  <2>2. CASE s = "manual"
    <3>1. alone["daily"] => AtRest("daily")
      BY <1>1, <1>8, <2>2 DEF Undisturbed, AtRest
    <3> QED BY <1>3, <1>7, <1>8, <2>2, <3>1 DEF DailyOwn, AtWork, AtRest
  <2> QED BY <1>1, <2>1, <2>2 DEF Writer
<1>10. Loaded'
  BY <1>1, <1>3 DEF Loaded, Script, Writer, Verifier
<1>11. StatusTrue'
  BY <1>1, <1>7 DEF StatusTrue, BTypeOK
<1>12. StatusStays'
  BY <1>1, <1>a, ComingKept DEF StatusStays
<1> QED BY <1>4, <1>5, <1>6, <1>9, <1>10, <1>11, <1>12

(* A script ends, or the drill goes on to its report, and at most its own   *)
(* copy with it.                                                            *)
Leaves(s) == End(s) \/ (s = "drill" /\ ~AtRest(s) /\ GoOn(s, "report"))

(* The copy of s is no longer under way, and has spoilt no whole one that   *)
(* nothing less was coming to.                                              *)
Copies(s) ==
  /\ offsite' \in [Dir -> Stage] /\ sent' \in [Copier -> SUBSET Stage]
  /\ \A t \in Copier \ {s} : sent'[t] = sent[t]
  /\ \A e \in Dir : WholeComes(e) /\ offsite[e] = Whole => offsite'[e] = Whole

LEMMA LeavesKeeps ==
  ASSUME BIInv, NEW s \in Script, Leaves(s), UNCHANGED <<mode, disk, temp>>,
         Copies(s), status' \in Dir \cup {None}, sure' \in BOOLEAN,
         drill' \in {"none", "ok", "failed"}
  PROVE  /\ BTypeOK' /\ AtWork' /\ Undisturbed' /\ DailyOwn' /\ Loaded'
         /\ \A e \in Dir : WholeComes(e) => WholeComes(e)'
<1> USE DEF BIInv, disk
<1>1. /\ pc' \in [Script -> Label] /\ dir' \in [Script -> Dir \cup {None}]
      /\ alone' \in [Script -> BOOLEAN]
      /\ \A t \in Script : t # s =>
           pc'[t] = pc[t] /\ dir'[t] = dir[t] /\ alone'[t] = alone[t]
      /\ \/ pc'[s] = "idle"
         \/ /\ s = "drill" /\ pc'[s] = "report" /\ pc[s] # "idle"
            /\ dir'[s] = dir[s] /\ alone'[s] = alone[s]
  <2>1. CASE End(s)
    BY <2>1, EndMoves
  <2>2. CASE s = "drill" /\ ~AtRest(s) /\ GoOn(s, "report")
    <3>1. /\ pc' \in [Script -> Label] /\ dir' = dir /\ alone' = alone
          /\ pc'[s] = "report" /\ \A t \in Script : t # s => pc'[t] = pc[t]
      BY <2>2, GoOnMoves DEF Label
    <3>2. alone' \in [Script -> BOOLEAN] /\ dir' \in [Script -> Dir \cup {None}]
      BY <3>1 DEF BTypeOK
    <3>3. alone'[s] = alone[s] /\ \A t \in Script : t # s => alone'[t] = alone[t]
      BY <3>1
    <3> QED BY <2>2, <3>1, <3>2, <3>3 DEF AtRest
  <2> QED BY <2>1, <2>2 DEF Leaves
<1>2. BTypeOK'
  <2>1. Present' = Present
    BY DEF Present
  <2> QED BY <1>1, <2>1 DEF BTypeOK, Copies
<1>3. AtWork'
  BY <1>1 DEF AtWork, AtRest, Script, Writer, Verifier, Copier
<1>4. Undisturbed'
  BY <1>1, UndisturbedKept DEF AtRest
<1>a. \A e \in Dir : WholeComes(e) => WholeComes(e)'
  <2>1. \A t \in Copier : pc'[t] = "copy" =>
          t # s /\ pc[t] = "copy" /\ dir'[t] = dir[t] /\ sent'[t] = sent[t]
    BY <1>1 DEF Copies, Script
  <2> QED BY <2>1, ComingKept
<1>5. DailyOwn'
  <2>1. "daily" \in Script /\ "daily" # "drill"
    BY DEF Script, Writer
  <2>2. ~AtRest("daily") => dir["daily"] \in Dir
    BY <2>1 DEF AtWork
  <2>3. CASE s = "daily"
    BY <1>1, <2>1, <2>3 DEF DailyOwn, AtRest
  <2>4. CASE s # "daily"
    BY <1>1, <1>a, <2>1, <2>2, <2>4 DEF DailyOwn, Copies, AtRest
  <2> QED BY <2>3, <2>4
<1>6. Loaded'
  BY <1>1 DEF Loaded, Script, Writer, Verifier
<1> QED BY <1>2, <1>3, <1>4, <1>5, <1>6, <1>a

(* Nothing happens to the remote copies. *)
LEMMA NoCopies ==
  ASSUME BTypeOK, NEW s, UNCHANGED remote
  PROVE  Copies(s)
  BY DEF Copies, remote, BTypeOK

LEMMA StopStep ==
  ASSUME BIInv, NEW s \in Script,
         Stop(s) \/ CheckTables(s) \/ (s = "drill" /\ Report)
  PROVE  BIInv'
<1>1. Leaves(s)
  BY DEF Stop, CheckTables, Report, Leaves, AtRest
<1>2. /\ UNCHANGED <<mode, disk, temp, remote, status, sure>>
      /\ drill' \in {drill, "ok", "failed"}
  BY DEF Stop, CheckTables, Report, reports
<1>3. /\ Copies(s) /\ status' \in Dir \cup {None}
      /\ drill' \in {"none", "ok", "failed"}
  BY <1>2, NoCopies DEF BIInv, BTypeOK
<1>4. sure' \in BOOLEAN
  BY <1>2 DEF BIInv, BTypeOK
<1>5. /\ BTypeOK' /\ AtWork' /\ Undisturbed' /\ DailyOwn' /\ Loaded'
      /\ \A e \in Dir : WholeComes(e) => WholeComes(e)'
  BY <1>1, <1>2, <1>3, <1>4, LeavesKeeps
<1>6. StatusTrue'
  BY <1>2 DEF BIInv, StatusTrue, disk, remote
<1>7. StatusStays'
  BY <1>2, <1>5 DEF BIInv, StatusStays, BTypeOK
<1> QED BY <1>5, <1>6, <1>7 DEF BIInv

(* The status names what the daily run made, if nothing disturbed it.       *)
LEMMA RecordStep ==
  ASSUME BIInv, Record
  PROVE  BIInv'
<1>1. "daily" \in Script /\ Leaves("daily") /\ pc["daily"] = "record"
  BY DEF Record, Leaves, Script, Writer
<1>2. /\ UNCHANGED <<mode, disk, temp, remote, drill>>
      /\ status' = dir["daily"] /\ sure' = alone["daily"]
  BY DEF Record
<1>3. /\ Copies("daily") /\ status' \in Dir \cup {None}
      /\ drill' \in {"none", "ok", "failed"}
  BY <1>1, <1>2, NoCopies DEF BIInv, BTypeOK
<1>4. sure' \in BOOLEAN
  BY <1>1, <1>2 DEF BIInv, BTypeOK
<1>5. /\ BTypeOK' /\ AtWork' /\ Undisturbed' /\ DailyOwn' /\ Loaded'
      /\ \A e \in Dir : WholeComes(e) => WholeComes(e)'
  BY <1>1, <1>2, <1>3, <1>4, LeavesKeeps
<1>6. StatusTrue' /\ dir["daily"] \in Dir
  BY <1>1, <1>2 DEF BIInv, StatusTrue, DailyOwn, AtWork, AtRest, disk, remote
<1>7. StatusStays'
  BY <1>1, <1>2, <1>5, <1>6 DEF BIInv, StatusStays, DailyOwn, AtRest
<1> QED BY <1>5, <1>6, <1>7 DEF BIInv

(* A copy begins with what the directory holds.                             *)
LEMMA SyncStep ==
  ASSUME BIInv, NEW s \in Script, Sync(s)
  PROVE  BIInv'
<1> USE DEF BIInv
<1> DEFINE d == dir[s]
           beside == {t \in Copier : pc[t] = "copy" /\ dir[t] = d}
           found == {stage[d]} \cup UNION {sent[t] : t \in beside}
<1>1. /\ pc[s] = "sync" /\ s \in Copier /\ d \in Dir
      /\ UNCHANGED <<mode, disk, offsite, status, drill, sure, temp>>
  BY DEF Sync, AtWork, AtRest
<1>2. /\ sure' \in BOOLEAN /\ status' \in Dir \cup {None}
      /\ drill' \in {"none", "ok", "failed"}
  BY <1>1 DEF BTypeOK
<1>3. StatusTrue'
  BY <1>1 DEF StatusTrue, disk
<1>4. ASSUME End(s), UNCHANGED sent PROVE BIInv'
  <2>1. Leaves(s) /\ Copies(s)
    BY <1>1, <1>4, NoCopies DEF Leaves, remote
  <2>2. /\ BTypeOK' /\ AtWork' /\ Undisturbed' /\ DailyOwn' /\ Loaded'
        /\ \A e \in Dir : WholeComes(e) => WholeComes(e)'
    BY <1>1, <1>2, <2>1, LeavesKeeps
  <2>3. StatusStays'
    BY <1>1, <2>2 DEF StatusStays, BTypeOK
  <2> QED BY <1>3, <2>2, <2>3
<1>5. CASE mode = "disabled" /\ s = "daily"
  <2>1. GoOn(s, "record") /\ UNCHANGED sent /\ "record" \in Label
    BY <1>5 DEF Sync, Label
  <2>2. /\ pc' \in [Script -> Label] /\ dir' = dir /\ alone' = alone
        /\ pc'[s] = "record" /\ \A t \in Script : t # s => pc'[t] = pc[t]
    BY <2>1, GoOnMoves
  <2>3. BTypeOK'
    <3>1. Present' = Present /\ stage' = stage /\ newest' = newest
      BY <1>1 DEF Present, disk
    <3>2. alone' \in [Script -> BOOLEAN]
      BY <2>2 DEF BTypeOK
    <3> QED BY <1>1, <1>2, <2>1, <2>2, <3>1, <3>2 DEF BTypeOK
  <2>4. AtWork'
    BY <1>1, <1>5, <2>2 DEF AtWork, AtRest, disk, Script, Writer, Copier
  <2>5. Undisturbed'
    BY <1>1, <2>2, UndisturbedKept DEF AtRest
  <2>6. \A e : WholeComes(e) => WholeComes(e)'
    BY <2>1, <2>2, ComingKept DEF Script
  <2>7. DailyOwn' /\ StatusStays'
    BY <1>1, <1>5, <2>2, <2>6 DEF DailyOwn, StatusStays, AtRest, disk
  <2>8. Loaded'
    BY <1>1, <1>5, <2>2 DEF Loaded, Script, Verifier
  <2> QED BY <1>3, <2>3, <2>4, <2>5, <2>7, <2>8
<1>6. CASE mode = "rsync"
  <2>1. /\ Goto(s, "copy") /\ UNCHANGED dir
        /\ sent' = [t \in Copier |-> IF t \in beside \cup {s} THEN found ELSE sent[t]]
        /\ alone' = [alone EXCEPT !["daily"] =
                       @ /\ ~(pc["daily"] = "write" /\ dir["daily"] = d)]
    BY <1>6 DEF Sync
  <2>2. /\ pc' \in [Script -> Label] /\ pc'[s] = "copy"
        /\ \A t \in Script : t # s => pc'[t] = pc[t]
    BY <2>1 DEF Goto, BTypeOK, Label
  <2>3. alone' \in [Script -> BOOLEAN] /\ \A t \in Script : alone'[t] => alone[t]
    BY <2>1 DEF BTypeOK
  <2>4. alone'["daily"] => ~(pc["daily"] = "write" /\ dir["daily"] = d)
    <3>1. "daily" \in Script
      BY DEF Script, Writer
    <3> QED BY <2>1, <3>1 DEF BTypeOK
  <2>5. sent' \in [Copier -> SUBSET Stage]
    <3>1. found \subseteq Stage
      BY <1>1 DEF BTypeOK
    <3> HIDE DEF found, beside
    <3> QED BY <2>1, <3>1 DEF BTypeOK
  <2>6. ASSUME NEW e, WholeComes(e), e = d => stage[d] = Whole
        PROVE  WholeComes(e)'
    <3>1. CASE e = d
      <4>1. \A t \in beside : sent[t] = {Whole}
        BY <2>6, <3>1 DEF WholeComes
      <4>2. found = {Whole}
        BY <2>6, <3>1, <4>1
      <4>3. \A t \in Copier : pc'[t] = "copy" /\ dir'[t] = d => t \in beside \cup {s}
        BY <2>1, <2>2 DEF Script
      <4> HIDE DEF found, beside
      <4> QED BY <2>1, <3>1, <4>2, <4>3 DEF WholeComes
    <3>2. CASE e # d
      <4>1. \A t \in Copier : pc'[t] = "copy" /\ dir'[t] = e =>
              pc[t] = "copy" /\ dir[t] = e /\ sent'[t] = sent[t]
        BY <2>1, <2>2, <3>2 DEF Script
      <4> QED BY <2>6, <4>1, ComingKept
    <3> QED BY <3>1, <3>2
  <2> HIDE DEF found, beside, d
  <2>7. BTypeOK'
    <3>1. Present' = Present /\ stage' = stage /\ newest' = newest
      BY <1>1 DEF Present, disk
    <3> QED BY <1>1, <1>2, <2>1, <2>2, <2>3, <2>5, <3>1 DEF BTypeOK
  <2>8. AtWork'
    BY <1>1, <2>1, <2>2 DEF AtWork, AtRest, disk, Script, Writer, Copier
  <2>9. Undisturbed'
    BY <1>1, <2>2, <2>3, UndisturbedKept DEF AtRest
  <2>10. DailyOwn'
    <3>1. "daily" \in Script
      BY DEF Script, Writer
    <3>2. alone["daily"] /\ ~AtRest("daily") /\ pc["daily"] # "write" =>
            stage[dir["daily"]] = Whole
      BY DEF DailyOwn
    <3>3. alone'["daily"] /\ ~AtRest("daily") => WholeComes(dir["daily"])'
      <4> SUFFICES ASSUME alone'["daily"], ~AtRest("daily")
                   PROVE  WholeComes(dir["daily"])'
        OBVIOUS
      <4>1. alone["daily"] /\ WholeComes(dir["daily"])
        BY <2>3, <2>4, <3>1 DEF DailyOwn
      <4>2. dir["daily"] = d => stage[d] = Whole
        BY <2>3, <2>4, <3>1, <3>2, <4>1
      <4>3. PICK e : e = dir["daily"]
        OBVIOUS
      <4>4. WholeComes(e)'
        BY <2>6, <4>1, <4>2, <4>3
      <4>5. dir'["daily"] = e
        BY <2>1, <4>3
      <4> QED BY <4>4, <4>5 DEF WholeComes
    <3>4. AtRest("daily") => AtRest("daily")'
      BY <1>1, <2>2, <3>1 DEF AtRest
    <3> QED BY <1>1, <2>1, <2>2, <2>3, <3>1, <3>2, <3>3, <3>4
            DEF DailyOwn, AtRest, disk
  <2>11. Loaded'
    BY <1>1, <2>1, <2>2, <2>3 DEF Loaded, Script, Verifier, Copier
  <2>12. StatusStays'
    BY <1>1, <2>6 DEF StatusStays, StatusTrue, d
  <2> QED BY <1>3, <2>7, <2>8, <2>9, <2>10, <2>11, <2>12
<1>7. mode = "rsync" \/ (mode = "disabled" /\ s = "daily") \/ (End(s) /\ UNCHANGED sent)
  BY DEF Sync
<1> QED BY <1>4, <1>5, <1>6, <1>7

(* A copy ends, done or not, and leaves no less than what was coming.       *)
LEMMA CopyEnds ==
  ASSUME BIInv, NEW s \in Copier, pc[s] = "copy",
         NEW n \in Between(sent[s] \cup {offsite[dir[s]]}),
         offsite' = [offsite EXCEPT ![dir[s]] = n], sent' = [sent EXCEPT ![s] = {}]
  PROVE  Copies(s) /\ dir[s] \in Dir
<1>1. s \in Script /\ dir[s] \in Dir
  BY DEF BIInv, AtWork, AtRest, Script
<1>2. offsite' \in [Dir -> Stage] /\ sent' \in [Copier -> SUBSET Stage]
  BY <1>1 DEF Between, BIInv, BTypeOK
<1>3. ASSUME NEW e \in Dir, WholeComes(e), offsite[e] = Whole
      PROVE  offsite'[e] = Whole
  <2>1. CASE e = dir[s]
    <3>1. sent[s] = {Whole}
      BY <1>3, <2>1 DEF WholeComes
    <3>2. n = Whole
      BY <1>3, <2>1, <3>1 DEF Between, Stage, Whole
    <3> QED BY <1>1, <2>1, <3>2 DEF BIInv, BTypeOK
  <2>2. CASE e # dir[s]
    BY <1>3, <2>2 DEF BIInv, BTypeOK
  <2> QED BY <2>1, <2>2
<1>4. \A t \in Copier \ {s} : sent'[t] = sent[t]
  BY DEF BIInv, BTypeOK
<1> QED BY <1>1, <1>2, <1>3, <1>4 DEF Copies

LEMMA SyncEndStep ==
  ASSUME BIInv, NEW s \in Script, SyncDone(s) \/ SyncStop(s)
  PROVE  BIInv'
<1> USE DEF BIInv
<1>1. /\ pc[s] = "copy" /\ s \in Copier
      /\ UNCHANGED <<mode, disk, status, drill, sure, temp>>
      /\ sent' = [sent EXCEPT ![s] = {}]
  BY DEF SyncDone, SyncStop, AtWork
<1>2. PICK n \in Between(sent[s] \cup {offsite[dir[s]]}) :
        /\ offsite' = [offsite EXCEPT ![dir[s]] = n]
        /\ SyncDone(s) => n \in Between(sent[s])
  <2>1. Between(sent[s]) \subseteq Between(sent[s] \cup {offsite[dir[s]]})
    BY DEF Between
  <2> QED BY <2>1 DEF SyncDone, SyncStop
<1>3. Copies(s) /\ dir[s] \in Dir
  BY <1>1, <1>2, CopyEnds
<1>4. /\ sure' \in BOOLEAN /\ status' \in Dir \cup {None}
      /\ drill' \in {"none", "ok", "failed"}
  BY <1>1 DEF BTypeOK
<1>5. StatusTrue'
  BY <1>1, <1>3 DEF StatusTrue, StatusStays, BTypeOK, Copies, disk
<1>6. CASE End(s)
  <2>1. /\ BTypeOK' /\ AtWork' /\ Undisturbed' /\ DailyOwn' /\ Loaded'
        /\ \A e \in Dir : WholeComes(e) => WholeComes(e)'
    BY <1>1, <1>3, <1>4, <1>6, LeavesKeeps DEF Leaves
  <2>2. StatusStays'
    BY <1>1, <2>1 DEF StatusStays, BTypeOK
  <2> QED BY <1>5, <2>1, <2>2
<1>7. CASE s = "daily" /\ GoOn(s, "record") /\ SyncDone(s)
  <2>1. /\ pc' \in [Script -> Label] /\ dir' = dir /\ alone' = alone
        /\ pc'[s] = "record" /\ \A t \in Script : t # s => pc'[t] = pc[t]
    BY <1>7, GoOnMoves DEF Label
  <2>2. BTypeOK'
    <3>1. Present' = Present /\ stage' = stage /\ newest' = newest
      BY <1>1 DEF Present, disk
    <3>2. alone' \in [Script -> BOOLEAN]
      BY <2>1 DEF BTypeOK
    <3> QED BY <1>1, <1>3, <1>4, <2>1, <3>1, <3>2 DEF BTypeOK, Copies
  <2>3. AtWork'
    BY <1>1, <1>7, <2>1 DEF AtWork, AtRest, disk, Script, Writer, Copier
  <2>4. Undisturbed'
    BY <1>1, <2>1, UndisturbedKept DEF AtRest
  <2>5. \A e : WholeComes(e) => WholeComes(e)'
    <3>1. \A t \in Copier : pc'[t] = "copy" =>
            t # s /\ pc[t] = "copy" /\ sent'[t] = sent[t]
      BY <1>3, <2>1 DEF Copies, Script
    <3> QED BY <2>1, <3>1, ComingKept
  <2>6. alone["daily"] => offsite'[dir["daily"]] = Whole
    <3> SUFFICES ASSUME alone["daily"] PROVE offsite'[dir[s]] = Whole
      BY <1>7
    <3>1. sent[s] = {Whole}
      BY <1>1, <1>7 DEF DailyOwn, WholeComes, AtRest
    <3>2. n = Whole
      BY <1>2, <1>7, <3>1 DEF Between, Stage, Whole
    <3> QED BY <1>2, <1>3, <3>2 DEF BTypeOK
  <2>7. DailyOwn' /\ StatusStays'
    BY <1>1, <1>7, <2>1, <2>5, <2>6 DEF DailyOwn, StatusStays, AtRest, disk
  <2>8. Loaded'
    BY <1>1, <1>7, <2>1 DEF Loaded, Script, Verifier
  <2> QED BY <1>5, <2>2, <2>3, <2>4, <2>7, <2>8
<1> QED BY <1>6, <1>7 DEF SyncDone, SyncStop

(* The newest directory is that of the daily run, if no backup was taken    *)
(* beside it.                                                               *)
LEMMA LatestStep ==
  ASSUME BIInv, Latest
  PROVE  BIInv'
<1> USE DEF BIInv
<1>1. /\ "daily" \in Script /\ pc["daily"] = "latest" /\ dir["daily"] \in Dir
      /\ UNCHANGED <<mode, disk, reports, temp, alone>>
  BY DEF Latest, AtWork, AtRest, Script, Writer
<1>2. newest \in Dir
  <2>1. stage[dir["daily"]] = Whole
    BY <1>1 DEF DailyOwn
  <2>2. Present # {}
    BY <1>1, <2>1 DEF Present, Whole
  <2> QED BY <2>2 DEF BTypeOK
<1>3. /\ pc' \in [Script -> Label] /\ dir' \in [Script -> Dir \cup {None}]
      /\ pc'["daily"] = "sync" /\ dir'["daily"] = newest
      /\ \A t \in Script : t # "daily" => pc'[t] = pc[t] /\ dir'[t] = dir[t]
  BY <1>1, <1>2 DEF Latest, Goto, BTypeOK, Label
<1>4. BTypeOK'
  <2>1. Present' = Present /\ UNCHANGED <<stage, newest, offsite, sent, status, drill>>
    BY <1>1 DEF Present, disk, reports, remote
  <2>2. alone' \in [Script -> BOOLEAN] /\ sure' \in BOOLEAN
    BY <1>1 DEF BTypeOK, reports
  <2> QED BY <1>1, <1>3, <2>1, <2>2 DEF BTypeOK
<1>5. AtWork'
  BY <1>1, <1>2, <1>3, BackupsAssumption
  DEF AtWork, AtRest, disk, Script, Writer, Copier
<1>a. \A e : WholeComes(e) => WholeComes(e)'
  BY <1>1, <1>3, ComingKept DEF Script, reports, remote
<1>6. Undisturbed'
  BY <1>1, <1>3, UndisturbedKept DEF AtRest
<1>7. DailyOwn' /\ StatusStays'
  BY <1>1, <1>3, <1>a DEF DailyOwn, StatusStays, AtRest, disk, reports, remote
<1>8. Loaded'
  BY <1>1, <1>3 DEF Loaded, Script, Writer, Verifier
<1>9. StatusTrue'
  BY <1>1 DEF StatusTrue, disk, reports, remote
<1> QED BY <1>4, <1>5, <1>6, <1>7, <1>8, <1>9

LEMMA StartOffsiteStep ==
  ASSUME BIInv, StartOffsite
  PROVE  BIInv'
<1> USE DEF BIInv
<1>1. /\ "offsite" \in Script /\ newest \in Dir
      /\ UNCHANGED <<mode, disk, reports, temp, alone>>
  BY DEF StartOffsite, BTypeOK, Script, Copier
<1>2. /\ pc' \in [Script -> Label] /\ dir' \in [Script -> Dir \cup {None}]
      /\ pc'["offsite"] = "sync" /\ dir'["offsite"] = newest
      /\ \A t \in Script : t # "offsite" => pc'[t] = pc[t] /\ dir'[t] = dir[t]
  BY <1>1 DEF StartOffsite, Goto, BTypeOK, Label
<1>3. BTypeOK'
  <2>1. Present' = Present /\ UNCHANGED <<stage, newest, offsite, sent, status, drill>>
    BY <1>1 DEF Present, disk, reports, remote
  <2>2. alone' \in [Script -> BOOLEAN] /\ sure' \in BOOLEAN
    BY <1>1 DEF BTypeOK, reports
  <2> QED BY <1>1, <1>2, <2>1, <2>2 DEF BTypeOK
<1>4. AtWork'
  BY <1>1, <1>2, BackupsAssumption
  DEF AtWork, AtRest, disk, Script, Writer, Verifier, Copier
<1>a. \A e : WholeComes(e) => WholeComes(e)'
  BY <1>1, <1>2, ComingKept DEF Script, reports, remote
<1>5. Undisturbed'
  <2>1. \A t \in Script : Disturbs(t) \subseteq Script \ {"offsite"} /\ Disturbs("offsite") = {}
    BY DEF Disturbs, Script, Writer, Verifier
  <2> QED BY <1>1, <1>2, <2>1 DEF Undisturbed, AtRest
<1>6. "daily" \in Script /\ "daily" # "offsite"
  BY DEF Script, Writer
<1>7. DailyOwn' /\ StatusStays'
  BY <1>1, <1>2, <1>6, <1>a DEF DailyOwn, StatusStays, AtRest, disk, reports, remote
<1>8. Loaded'
  BY <1>1, <1>2 DEF Loaded, Script, Writer, Verifier
<1>9. StatusTrue'
  BY <1>1 DEF StatusTrue, disk, reports, remote
<1> QED BY <1>3, <1>4, <1>5, <1>7, <1>8, <1>9

(* Steps of a verification that leave the disk and the status alone. *)
LEMMA VerifierKeeps ==
  ASSUME BIInv, NEW s \in Verifier,
         UNCHANGED <<mode, disk, remote, status, sure>>,
         drill' \in {"none", "ok", "failed"},
         temp' \in [{"pg", "ts"} -> Dir \cup {None}],
         pc' \in [Script -> Label], dir' \in [Script -> Dir \cup {None}],
         alone' \in [Script -> BOOLEAN],
         dir'[s] \in Dir,
         pc'[s] \notin {"idle", "write", "latest", "record", "sync", "copy"},
         \A t \in Script : t # s => pc'[t] = pc[t] /\ dir'[t] = dir[t]
                                  /\ (alone'[t] => alone[t])
  PROVE  BTypeOK' /\ AtWork' /\ DailyOwn' /\ StatusStays' /\ StatusTrue'
<1> USE DEF BIInv, disk, remote
<1>1. BTypeOK'
  <2>1. Present' = Present
    BY DEF Present
  <2>2. sure' \in BOOLEAN
    BY DEF BTypeOK
  <2> QED BY <2>1, <2>2 DEF BTypeOK
<1>2. AtWork'
  BY DEF AtWork, AtRest, Script, Writer, Verifier, Copier
<1>3. "daily" \in Script /\ "daily" # s
  BY DEF Script, Writer, Verifier
<1>a. \A e : WholeComes(e) => WholeComes(e)'
  BY ComingKept DEF Script
<1>4. DailyOwn' /\ StatusStays' /\ StatusTrue'
  BY <1>3, <1>a DEF DailyOwn, StatusStays, StatusTrue, AtRest
<1> QED BY <1>1, <1>2, <1>4

LEMMA StartVerifyStep ==
  ASSUME BIInv, NEW s \in Script, StartVerify(s)
  PROVE  BIInv'
<1> USE DEF BIInv
<1>1. /\ s \in Verifier /\ AtRest(s)
      /\ UNCHANGED <<mode, disk, remote, status, sure, temp>>
  BY DEF StartVerify, MayStart
<1>2. CASE newest = None
  <2>1. UNCHANGED <<pc, dir, alone>> /\ drill' = "failed"
    BY <1>2 DEF StartVerify
  <2>2. BTypeOK'
    <3>1. Present' = Present
      BY <1>1 DEF Present, disk
    <3>2. alone' \in [Script -> BOOLEAN] /\ sure' \in BOOLEAN
      BY <1>1, <2>1 DEF BTypeOK
    <3> QED BY <1>1, <2>1, <3>1, <3>2 DEF BTypeOK, disk, remote
  <2>3. AtWork' /\ DailyOwn' /\ StatusStays' /\ Loaded' /\ StatusTrue'
    BY <1>1, <2>1 DEF AtWork, DailyOwn, StatusStays, WholeComes, Loaded,
                      StatusTrue, AtRest, disk, remote
  <2>4. Undisturbed'
    BY <1>1, <2>1 DEF Undisturbed, AtRest
  <2> QED BY <2>2, <2>3, <2>4
<1>3. CASE newest # None
  <2>1. PICK d \in IF s = "drill" THEN {newest} ELSE Present :
              dir' = [dir EXCEPT ![s] = d]
    BY <1>3 DEF StartVerify
  <2>2. d \in Dir
    BY <1>3 DEF BTypeOK, Present
  <2>3. Goto(s, "require") /\ Beside(s) /\ drill' = drill
    BY <1>3 DEF StartVerify
  <2>4. /\ pc' \in [Script -> Label] /\ dir' \in [Script -> Dir \cup {None}]
        /\ pc'[s] = "require" /\ dir'[s] = d
        /\ \A t \in Script : t # s => pc'[t] = pc[t] /\ dir'[t] = dir[t]
    BY <2>1, <2>2, <2>3 DEF Goto, BTypeOK, Label
  <2>5. alone' \in [Script -> BOOLEAN] /\ \A t \in Script : t # s => (alone'[t] => alone[t])
    BY <2>3 DEF Beside, BTypeOK
  <2>6. drill' \in {"none", "ok", "failed"} /\ temp' \in [{"pg", "ts"} -> Dir \cup {None}]
    BY <1>1, <2>3 DEF BTypeOK
  <2>7. BTypeOK' /\ AtWork' /\ DailyOwn' /\ StatusStays' /\ StatusTrue'
    BY <1>1, <2>2, <2>4, <2>5, <2>6, VerifierKeeps
  <2>8. Undisturbed'
    BY <1>1, <2>3, <2>4, UndisturbedStart
  <2>9. Loaded'
    BY <1>1, <2>4, <2>5 DEF Loaded, Script
  <2> QED BY <2>7, <2>8, <2>9
<1> QED BY <1>2, <1>3

(* A verification that is alone is the only one at work. *)
LEMMA OnlyVerifier ==
  ASSUME BIInv, NEW s \in Verifier, ~AtRest(s), NEW t \in Verifier, t # s, alone[t]
  PROVE  AtRest(t)
<1>1. s \in Disturbs(t) /\ t \in Script
  BY DEF Disturbs, Verifier, Script
<1> QED BY <1>1 DEF BIInv, Undisturbed

LEMMA RestoreStep ==
  ASSUME BIInv, NEW s \in Script, RequireFiles(s) \/ Restore(s)
  PROVE  BIInv'
<1> USE DEF BIInv
<1>1. /\ pc[s] \in {"require", "droppg", "loadpg", "dropts", "loadts"}
      /\ UNCHANGED <<mode, dir, disk, reports, alone>>
  BY DEF RequireFiles, Restore
<1>2. /\ s \in Verifier /\ ~AtRest(s) /\ dir[s] \in Dir
  BY <1>1 DEF AtWork, AtRest
<1>3. /\ pc' \in [Script -> Label] /\ \A t \in Script : t # s => pc'[t] = pc[t]
      /\ pc'[s] \in {"droppg", "loadpg", "dropts", "loadts", "tables"}
      /\ temp' \in [{"pg", "ts"} -> Dir \cup {None}]
      /\ pc'[s] = "dropts" => temp'["pg"] = dir[s]
      /\ pc'[s] = "loadts" => temp'["pg"] = temp["pg"] /\ pc[s] = "dropts"
      /\ pc'[s] = "tables" =>
           temp'["pg"] = temp["pg"] /\ temp'["ts"] = dir[s] /\ pc[s] = "loadts"
  <2>1. CASE RequireFiles(s)
    BY <2>1 DEF RequireFiles, Goto, BTypeOK, Label
  <2>2. CASE Restore(s)
    BY <1>2, <2>2 DEF Restore, Goto, BTypeOK, Label
  <2> QED BY <2>1, <2>2
<1>4. /\ alone' \in [Script -> BOOLEAN] /\ \A t \in Script : alone'[t] <=> alone[t]
      /\ dir' \in [Script -> Dir \cup {None}] /\ dir' = dir
      /\ drill' \in {"none", "ok", "failed"}
      /\ UNCHANGED <<remote, status, sure>>
  BY <1>1 DEF BTypeOK, reports
<1>5. BTypeOK' /\ AtWork' /\ DailyOwn' /\ StatusStays' /\ StatusTrue'
  BY <1>1, <1>2, <1>3, <1>4, VerifierKeeps
<1>6. Undisturbed'
  BY <1>3, <1>4, <1>2, UndisturbedKept DEF AtRest
<1>7. Loaded'
  <2> SUFFICES ASSUME NEW t \in Verifier, alone[t]
               PROVE  /\ pc'[t] \in {"dropts", "loadts", "tables"} => temp'["pg"] = dir[t]
                      /\ pc'[t] = "tables" => temp'["ts"] = dir[t]
    BY <1>4 DEF Loaded, Script
  <2>1. CASE t = s
    BY <1>3, <2>1 DEF Loaded
  <2>2. CASE t # s
    <3>1. pc'[t] = "idle"
      BY <1>2, <1>3, <2>2, OnlyVerifier DEF AtRest, Script
    <3> QED BY <3>1
  <2> QED BY <2>1, <2>2
<1> QED BY <1>5, <1>6, <1>7

(* The types of the scripts of the backups, what each has at its point, and *)
(* what it owns while no other script disturbs it.                          *)
THEOREM BackupsInvariance == BSpec => []BIInv
<1>1. BIInv /\ [BNext]_bvars => BIInv'
  <2> SUFFICES ASSUME BIInv, [BNext]_bvars PROVE BIInv'
    OBVIOUS
  <2>1. CASE UNCHANGED bvars
    <3> USE <2>1 DEF bvars, BIInv
    <3>1. alone' \in [Script -> BOOLEAN] /\ sure' \in BOOLEAN
      BY DEF BTypeOK
    <3>2. Present' = Present
      BY DEF Present
    <3>3. BTypeOK'
      BY <3>1, <3>2 DEF BTypeOK
    <3>4. Undisturbed'
      BY DEF Undisturbed, AtRest
    <3> QED BY <3>3, <3>4 DEF AtWork, AtRest, DailyOwn, StatusStays, WholeComes,
                              Loaded, StatusTrue
  <2>2. "drill" \in Script
    BY DEF Script, Verifier
  <2> QED BY <2>1, <2>2, StartBackupStep, WriteNextStep, StopStep, SyncStep,
             SyncEndStep, StartVerifyStep, RestoreStep, LatestStep, StartOffsiteStep, RecordStep
          DEF BNext
<1> QED BY <1>1, InitBackups, PTL DEF BSpec

(* StatusTrue: status=ok names a whole backup, and its remote copy is whole *)
(* and stays so if copies are made, unless a backup was taken beside the    *)
(* daily run or a copy of the unfinished directory had begun.               *)
THEOREM StatusStands == BSpec => []StatusTrue
<1>1. BIInv => StatusTrue
  BY DEF BIInv
<1> QED BY <1>1, BackupsInvariance, PTL

(* VerifiesItsOwn: a verification looks at the tables of its own backup,    *)
(* unless another one ran beside it.                                        *)
THEOREM Verifies == BSpec => []VerifiesItsOwn
<1>1. BIInv => VerifiesItsOwn
  BY DEF BIInv, Loaded, VerifiesItsOwn
<1> QED BY <1>1, BackupsInvariance, PTL

-----------------------------------------------------------------------------
(* WebhookAccess *)

LEMMA InitAccess == AccessInit => AccessIInv
<1> SUFFICES ASSUME AccessInit PROVE AccessIInv
  OBVIOUS
<1> USE KeyAssumption, HourAssumption, WipeAssumption DEF AccessInit, NoCall
<1>1. token \in BOOLEAN /\ rule \in BOOLEAN
  OBVIOUS
<1>2. ttl \in [Key -> 0..Hour] /\ \A k \in Key : ~Cached(k)
  BY DEF Cached
<1>3. call \in [Hook \cup Client -> CallState]
  BY DEF CallState
<1>4. AccessTypeOK
  BY <1>1, <1>2, <1>3 DEF AccessTypeOK, LoopStep
<1> QED BY <1>2, <1>4 DEF AccessIInv, OnlyIssued

(* The steps of the loop change the row only to a key they count as issued. *)
LEMMA ReconcileStep ==
  ASSUME AccessIInv, Reconcile
  PROVE  AccessIInv'
<1> USE KeyAssumption DEF AccessIInv, Proceed
<1>1. UNCHANGED <<env, ttl, call, used, wipes>>
  BY DEF Reconcile, Awake, UpsertKey, UpsertKeyFails, Login, LoginFails,
         UpsertConnector, UpsertConnectorFails, UpsertAction, UpsertActionFails,
         UpsertRule, UpsertRuleFails, api, past
<1>2. step' \in LoopStep
  BY DEF Reconcile, Awake, UpsertKey, UpsertKeyFails, Login, LoginFails,
         UpsertConnector, UpsertConnectorFails, UpsertAction, UpsertActionFails,
         UpsertRule, UpsertRuleFails, LoopStep
<1>3. token' \in BOOLEAN
  <2>1. CASE token' = token
    BY <2>1 DEF AccessTypeOK
  <2>2. CASE token' # token
    BY <2>2 DEF Reconcile, Awake, UpsertKey, UpsertKeyFails, Login, LoginFails,
         UpsertConnector, UpsertConnectorFails, UpsertAction, UpsertActionFails,
         UpsertRule, UpsertRuleFails
  <2> QED BY <2>1, <2>2
<1>4. rule' \in BOOLEAN
  <2>1. CASE rule' = rule
    BY <2>1 DEF AccessTypeOK
  <2>2. CASE rule' # rule
    BY <2>2 DEF Reconcile, Awake, UpsertKey, UpsertKeyFails, Login, LoginFails,
         UpsertConnector, UpsertConnectorFails, UpsertAction, UpsertActionFails,
         UpsertRule, UpsertRuleFails, emqx
  <2> QED BY <2>1, <2>2
<1>5. conn' \in {conn, env} /\ act' \in {act, env}
  BY DEF Reconcile, Awake, UpsertKey, UpsertKeyFails, Login, LoginFails,
         UpsertConnector, UpsertConnectorFails, UpsertAction, UpsertActionFails,
         UpsertRule, UpsertRuleFails, emqx
<1>6. \/ row' = row /\ issued' = issued
      \/ row' = env /\ issued' = issued \cup {env}
  BY DEF Reconcile, Awake, UpsertKey, UpsertKeyFails, Login, LoginFails,
         UpsertConnector, UpsertConnectorFails, UpsertAction, UpsertActionFails,
         UpsertRule, UpsertRuleFails, past
<1>7. env \in Key /\ env # NoKey
  BY DEF AccessTypeOK
<1>8. AccessTypeOK'
  BY <1>1, <1>2, <1>3, <1>4, <1>5, <1>6, <1>7 DEF AccessTypeOK
<1>9. issued \subseteq issued' /\ (row' # NoKey => row' \in issued')
  BY <1>6
<1>10. OnlyIssued'
  BY <1>1, <1>9 DEF OnlyIssued, Cached
<1> QED BY <1>8, <1>9, <1>10

LEMMA RotateStep ==
  ASSUME AccessIInv, (\E k \in Key : Rotate(k)) \/ Wipe
  PROVE  AccessIInv'
<1> USE DEF AccessIInv
<1>1. /\ UNCHANGED <<row, ttl, call, issued>> /\ env' \in Key /\ used' \subseteq Key
      /\ step' \in LoopStep /\ conn' \in Key \cup {NoKey} /\ act' \in Key \cup {NoKey}
      /\ wipes' \in Nat
  BY DEF Rotate, Wipe, api, emqx, loop, AccessTypeOK, LoopStep
<1>2. token' \in {FALSE, token} /\ rule' \in {FALSE, rule}
  BY DEF Rotate, Wipe, emqx, loop
<1>3. token' \in BOOLEAN /\ rule' \in BOOLEAN
  BY <1>2 DEF AccessTypeOK
<1>4. AccessTypeOK'
  BY <1>1, <1>3 DEF AccessTypeOK
<1> QED BY <1>1, <1>4 DEF OnlyIssued, Cached

(* A call changes its own state, and the cache if its key was verified.     *)
LEMMA CallStep ==
  ASSUME AccessIInv,
         \/ \E h \in Hook : Call(h)
         \/ \E c \in Client, k \in Key : CallWith(c, k)
         \/ \E c \in Hook \cup Client : Check(c) \/ StoreUnanswered(c)
         \/ Tick \/ Crash
  PROVE  AccessIInv'
<1> USE KeyAssumption, HourAssumption DEF AccessIInv
<1>1. UNCHANGED <<env, step, token, row, conn, act, rule, issued, used, wipes>>
  BY DEF Call, CallWith, Check, Hit, Miss, Verify, Refuse, Store, StoreUnanswered, Tick, Crash,
         loop, emqx, past
<1>2. call \in [Hook \cup Client -> CallState] /\ ttl \in [Key -> 0..Hour]
  BY DEF AccessTypeOK
<1> DEFINE CallsOK == \A c \in Hook \cup Client :
             /\ call'[c].pc = "idle" <=> call'[c].key = NoKey
             /\ call'[c].pc = "store" => call'[c].key \in issued
           TtlOK == /\ ttl' \in [Key -> 0..Hour]
                    /\ \A k \in Key : ttl'[k] > 0 => k \in issued
           Kept == call' \in [Hook \cup Client -> CallState] /\ CallsOK /\ TtlOK
<1>3. /\ \A c \in Hook \cup Client :
           /\ call[c].pc = "idle" <=> call[c].key = NoKey
           /\ call[c].pc = "store" => call[c].key \in issued
      /\ \A k \in Key : ttl[k] > 0 => k \in issued
  BY DEF AccessTypeOK, OnlyIssued, Cached
<1>4. ASSUME NEW h \in Hook, Call(h) PROVE Kept
  <2>1. act \in Key /\ ttl' = ttl
    BY <1>4 DEF Call, AccessTypeOK
  <2> QED BY <1>2, <1>3, <1>4, <2>1 DEF Call, CallState
<1>5. ASSUME NEW c \in Client, NEW k \in Key, CallWith(c, k) PROVE Kept
  BY <1>2, <1>3, <1>5 DEF CallWith, CallState
<1>6. ASSUME NEW c \in Hook \cup Client, Hit(c) \/ Refuse(c) PROVE Kept
  BY <1>2, <1>3, <1>6 DEF Hit, Refuse, CallState, NoCall
<1>7. ASSUME NEW c \in Hook \cup Client, Miss(c) PROVE Kept
  BY <1>2, <1>3, <1>7 DEF Miss, CallState
<1>8. ASSUME NEW c \in Hook \cup Client, Verify(c) PROVE Kept
  <2>1. call[c].key \in issued /\ ttl' = ttl
    BY <1>2, <1>3, <1>8 DEF Verify, CallState
  <2> QED BY <1>2, <1>3, <1>8, <2>1 DEF Verify, CallState
<1>9. ASSUME NEW c \in Hook \cup Client, Store(c) PROVE Kept
  <2>1. call[c].key \in issued /\ call[c].key \in Key
    BY <1>2, <1>3, <1>9 DEF Store, CallState
  <2>2. TtlOK
    BY <1>2, <1>3, <1>9, <2>1 DEF Store
  <2>3. call' \in [Hook \cup Client -> CallState] /\ CallsOK
    BY <1>2, <1>3, <1>9 DEF Store, CallState, NoCall
  <2> QED BY <2>2, <2>3
<1>10. ASSUME Tick PROVE Kept
  <2>1. TtlOK
    BY <1>2, <1>3, <1>10 DEF Tick, Cached
  <2>2. call' = call
    BY <1>10 DEF Tick
  <2>3. call' \in [Hook \cup Client -> CallState] /\ CallsOK
    BY <1>2, <1>3, <2>2
  <2> QED BY <2>1, <2>3
<1>11. ASSUME Crash PROVE Kept
  <2>1. call' \in [Hook \cup Client -> CallState] /\ CallsOK
    BY <1>11 DEF Crash, CallState, NoCall
  <2>2. TtlOK
    BY <1>2, <1>3, <1>11 DEF Crash
  <2> QED BY <2>1, <2>2
<1>15. ASSUME NEW c \in Hook \cup Client, StoreUnanswered(c) PROVE Kept
  <2>1. call[c].key \in issued /\ call[c].key \in Key /\ call' = call
    BY <1>2, <1>3, <1>15 DEF StoreUnanswered, CallState, api
  <2>2. TtlOK
    BY <1>2, <1>3, <1>15, <2>1 DEF StoreUnanswered
  <2>3. call' \in [Hook \cup Client -> CallState] /\ CallsOK
    BY <1>2, <1>3, <2>1
  <2> QED BY <2>2, <2>3
<1> HIDE DEF Kept
<1>12. Kept
  BY <1>4, <1>5, <1>6, <1>7, <1>8, <1>9, <1>10, <1>11, <1>15 DEF Check
<1>13. token' \in BOOLEAN /\ rule' \in BOOLEAN
  BY <1>1 DEF AccessTypeOK
<1> USE DEF Kept
<1>14. AccessTypeOK'
  BY <1>1, <1>12, <1>13 DEF AccessTypeOK
<1> QED BY <1>1, <1>12, <1>14 DEF OnlyIssued, Cached

LEMMA AccessInvariance == AccessSpec => []AccessIInv
<1>1. AccessIInv /\ [AccessNext]_accessVars => AccessIInv'
  <2> SUFFICES ASSUME AccessIInv, [AccessNext]_accessVars PROVE AccessIInv'
    OBVIOUS
  <2>1. CASE UNCHANGED accessVars
    <3> USE <2>1 DEF accessVars, AccessIInv
    <3>1. token' \in BOOLEAN /\ rule' \in BOOLEAN
      BY DEF AccessTypeOK
    <3>2. AccessTypeOK'
      BY <3>1 DEF AccessTypeOK
    <3> QED BY <3>2 DEF OnlyIssued, Cached
  <2> QED BY <2>1, ReconcileStep, RotateStep, CallStep DEF AccessNext
<1> QED BY <1>1, InitAccess, PTL DEF AccessSpec

(* AccessTypeOK: the types, and a row that is there keeps a key whatever    *)
(* steps of a round fail.                                                   *)
THEOREM AccessTypes == AccessSpec => []AccessTypeOK
<1>1. AccessIInv => AccessTypeOK
  BY DEF AccessIInv
<1> QED BY <1>1, AccessInvariance, PTL

(* OnlyIssued: no key is accepted from Redis that the row never held.       *)
THEOREM AcceptsIssued == AccessSpec => []OnlyIssued
<1>1. AccessIInv => OnlyIssued
  BY DEF AccessIInv
<1> QED BY <1>1, AccessInvariance, PTL

(* StaysConfigured: what the loop has brought about, its failing steps do   *)
(* not undo; it takes another key or a loss of EMQX's configuration.        *)
THEOREM Settled == AccessSpec => StaysConfigured
<1>1. ASSUME AccessIInv, Configured, [AccessNext]_accessVars
      PROVE  Configured' \/ env' # env \/ wipes' # wipes
  <2> USE <1>1 DEF Configured
  <2>1. CASE Reconcile
    <3>1. env' = env /\ row' = env /\ conn' = env /\ act' = env
      BY <2>1 DEF Reconcile, Awake, UpsertKey, UpsertKeyFails, Login, LoginFails,
           UpsertConnector, UpsertConnectorFails, UpsertAction,
           UpsertActionFails, UpsertRule, UpsertRuleFails, emqx
    <3>2. rule'
      <4>1. rule' = rule \/ rule' = TRUE
        BY <2>1 DEF Reconcile, Awake, UpsertKey, UpsertKeyFails, Login, LoginFails,
             UpsertConnector, UpsertConnectorFails, UpsertAction,
             UpsertActionFails, UpsertRule, UpsertRuleFails, emqx
      <4>2. CASE rule' = rule
        BY <4>2
      <4>3. CASE rule' = TRUE
        BY <4>3
      <4> QED BY <4>1, <4>2, <4>3, Zenon
    <3> QED BY <3>1, <3>2
  <2>2. ASSUME NEW k \in Key, Rotate(k) PROVE env' # env \/ Configured'
    <3>1. CASE k = env
      BY <2>2, <3>1 DEF Rotate, emqx
    <3>2. CASE k # env
      BY <2>2, <3>2 DEF Rotate
    <3> QED BY <3>1, <3>2
  <2>3. CASE Wipe
    <3>1. wipes \in Nat /\ wipes' = wipes + 1
      BY <2>3 DEF Wipe, AccessIInv, AccessTypeOK
    <3> QED BY <3>1
  <2>4. CASE UNCHANGED accessVars
    BY <2>4 DEF accessVars
  <2>5. CASE \/ \E h \in Hook : Call(h)
             \/ \E c \in Client, k \in Key : CallWith(c, k)
             \/ \E c \in Hook \cup Client : Check(c) \/ StoreUnanswered(c)
             \/ Tick \/ Crash
    BY <2>5 DEF Call, CallWith, Check, Hit, Miss, Verify, Refuse, Store, StoreUnanswered, Tick,
                Crash, loop, emqx
  <2> QED BY <2>1, <2>2, <2>3, <2>4, <2>5 DEF AccessNext
<1> QED BY <1>1, AccessInvariance, PTL DEF AccessSpec, StaysConfigured

(* OldKeysFade: the cached entry of a replaced key ages, but for the SETs   *)
(* of the calls that had verified it when it was replaced.                  *)
THEOREM Fading == AccessSpec => OldKeysFade
<1> DEFINE Fades == \A k \in Key \ {row} :
             /\ ttl'[k] > ttl[k] =>
                  \E c \in Hook \cup Client :
                    /\ call[c].pc = "store" /\ call[c].key = k
                    /\ call'[c] \in {NoCall, call[c]}
             /\ \A c \in Hook \cup Client :
                  call'[c].pc = "store" /\ call'[c].key = k => call[c] = call'[c]
<1>1. ASSUME AccessIInv, [AccessNext]_accessVars PROVE Fades
  <2>0. /\ ttl \in [Key -> 0..Hour] /\ call \in [Hook \cup Client -> CallState]
        /\ Hour \in Nat
    BY <1>1, HourAssumption DEF AccessIInv, AccessTypeOK
  <2>1. CASE UNCHANGED <<ttl, call>>
    BY <2>0, <2>1
  <2>2. ASSUME NEW c \in Hook \cup Client, ttl' = ttl,
               \/ call' = [call EXCEPT ![c] = NoCall]
               \/ \E k \in Key : call' = [call EXCEPT ![c] = [pc |-> "cache", key |-> k]]
               \/ call' = [call EXCEPT ![c].pc = "lookup"]
        PROVE  Fades
    BY <2>0, <2>2 DEF NoCall, CallState
  <2>3. ASSUME NEW h \in Hook, Call(h) PROVE Fades
    <3>1. act \in Key
      BY <1>1, <2>3 DEF Call, AccessIInv, AccessTypeOK
    <3> QED BY <2>2, <2>3, <3>1 DEF Call
  <2>4. ASSUME NEW c \in Client, NEW k \in Key, CallWith(c, k) PROVE Fades
    BY <2>2, <2>4 DEF CallWith
  <2>5. ASSUME NEW c \in Hook \cup Client, Hit(c) \/ Refuse(c) \/ Miss(c) PROVE Fades
    BY <2>2, <2>5 DEF Hit, Refuse, Miss
  <2>6. ASSUME NEW c \in Hook \cup Client, Verify(c) PROVE Fades
    BY <2>0, <2>6 DEF Verify, CallState
  <2>7. ASSUME NEW c \in Hook \cup Client, Store(c) PROVE Fades
    <3>1. \A k \in Key : ttl'[k] > ttl[k] => k = call[c].key
      BY <2>0, <2>7 DEF Store
    <3>2. call[c].pc = "store" /\ call'[c] = NoCall
      BY <2>0, <2>7 DEF Store
    <3>3. \A d \in Hook \cup Client : call'[d].pc = "store" => call[d] = call'[d]
      BY <2>0, <2>7 DEF Store, NoCall
    <3> QED BY <3>1, <3>2, <3>3
  <2>12. ASSUME NEW c \in Hook \cup Client, StoreUnanswered(c) PROVE Fades
    <3>1. \A k \in Key : ttl'[k] > ttl[k] => k = call[c].key
      BY <2>0, <2>12 DEF StoreUnanswered
    <3>2. call[c].pc = "store" /\ call' = call
      BY <2>12 DEF StoreUnanswered
    <3> QED BY <3>1, <3>2
  <2>8. CASE Tick
    <3>1. \A k \in Key : ~(ttl'[k] > ttl[k])
      BY <2>0, <2>8 DEF Tick, Cached
    <3> QED BY <2>8, <3>1 DEF Tick
  <2>9. CASE Crash
    <3>1. \A c \in Hook \cup Client : call'[c].pc # "store"
      BY <2>9 DEF Crash, NoCall
    <3>2. \A k \in Key : ~(ttl'[k] > ttl[k])
      BY <2>0, <2>9 DEF Crash
    <3> QED BY <3>1, <3>2
  <2>10. CASE Reconcile \/ (\E k \in Key : Rotate(k)) \/ Wipe
    <3>1. UNCHANGED <<ttl, call>>
      BY <2>10 DEF Reconcile, Awake, UpsertKey, UpsertKeyFails, Login, LoginFails,
           UpsertConnector, UpsertConnectorFails, UpsertAction,
           UpsertActionFails, UpsertRule, UpsertRuleFails, Rotate, Wipe, api
    <3> QED BY <2>1, <3>1
  <2>11. CASE UNCHANGED accessVars
    BY <2>1, <2>11 DEF accessVars
  <2> HIDE DEF Fades
  <2> QED BY <1>1, <2>3, <2>4, <2>5, <2>6, <2>7, <2>8, <2>9, <2>10, <2>11, <2>12
          DEF AccessNext, Check
<1> QED BY <1>1, AccessInvariance, PTL DEF AccessSpec, OldKeysFade

(* What the mapping of WebhookKeys calls honoured.                          *)
HonouredIn(t, cs) ==
  {k \in Key : \/ t[k] > 0
               \/ \E c \in Hook \cup Client : cs[c].pc = "store" /\ cs[c].key = k}

(* A verified key is the one of the row, so it may be admitted; calls that  *)
(* do not get that far, and entries that age, let keys lapse.               *)
LEMMA HonouredStep ==
  ASSUME AccessIInv,
         \/ \E h \in Hook : Call(h)
         \/ \E c \in Client, k \in Key : CallWith(c, k)
         \/ \E c \in Hook \cup Client : Check(c) \/ StoreUnanswered(c)
         \/ Tick \/ Crash
  PROVE  \/ HonouredIn(ttl', call') \subseteq HonouredIn(ttl, call)
         \/ /\ row # NoKey
            /\ HonouredIn(ttl', call') = HonouredIn(ttl, call) \cup {row}
<1> DEFINE Lapses == HonouredIn(ttl', call') \subseteq HonouredIn(ttl, call)
           Admits == /\ row # NoKey
                     /\ HonouredIn(ttl', call') = HonouredIn(ttl, call) \cup {row}
<1>0. /\ ttl \in [Key -> 0..Hour] /\ call \in [Hook \cup Client -> CallState]
      /\ Hour \in Nat /\ row \in Key \cup {NoKey}
      /\ \A c \in Hook \cup Client : call[c].pc = "idle" <=> call[c].key = NoKey
  BY HourAssumption DEF AccessIInv, AccessTypeOK
<1>1. ASSUME NEW c \in Hook \cup Client, ttl' = ttl,
             \/ call' = [call EXCEPT ![c] = NoCall]
             \/ \E k \in Key : call' = [call EXCEPT ![c] = [pc |-> "cache", key |-> k]]
             \/ call' = [call EXCEPT ![c].pc = "lookup"]
      PROVE  Lapses
  BY <1>0, <1>1 DEF HonouredIn, NoCall, CallState
<1>2. ASSUME NEW h \in Hook, Call(h) PROVE Lapses
  <2>1. act \in Key
    BY <1>2 DEF Call, AccessIInv, AccessTypeOK
  <2> QED BY <1>1, <1>2, <2>1 DEF Call
<1>3. ASSUME NEW c \in Client, NEW k \in Key, CallWith(c, k) PROVE Lapses
  BY <1>1, <1>3 DEF CallWith
<1>4. ASSUME NEW c \in Hook \cup Client, Hit(c) \/ Refuse(c) \/ Miss(c) PROVE Lapses
  BY <1>1, <1>4 DEF Hit, Refuse, Miss
<1>5. ASSUME NEW c \in Hook \cup Client, Verify(c) PROVE Admits
  <2>1. row # NoKey /\ row \in Key /\ call[c].key = row
    BY <1>0, <1>5 DEF Verify
  <2>2. /\ call'[c].pc = "store" /\ call'[c].key = row
        /\ \A d \in (Hook \cup Client) \ {c} : call'[d] = call[d]
        /\ call[c].pc = "lookup" /\ ttl' = ttl
    BY <1>0, <1>5, <2>1 DEF Verify, CallState
  <2>3. \A k \in Key : k \in HonouredIn(ttl', call')
                       <=> k \in HonouredIn(ttl, call) \cup {row}
    BY <2>1, <2>2 DEF HonouredIn
  <2>4. HonouredIn(ttl', call') \subseteq Key /\ HonouredIn(ttl, call) \subseteq Key
    BY DEF HonouredIn
  <2> QED BY <2>1, <2>3, <2>4
<1>6. ASSUME NEW c \in Hook \cup Client, Store(c) PROVE Lapses
  <2>1. \A k \in Key : ttl'[k] > 0 => ttl[k] > 0 \/ k = call[c].key
    BY <1>0, <1>6 DEF Store
  <2>2. call[c].pc = "store"
    BY <1>6 DEF Store
  <2>3. \A d \in Hook \cup Client : call'[d].pc = "store" => call'[d] = call[d]
    BY <1>0, <1>6 DEF Store, NoCall
  <2> QED BY <2>1, <2>2, <2>3 DEF HonouredIn
<1>10. ASSUME NEW c \in Hook \cup Client, StoreUnanswered(c) PROVE Lapses
  <2>1. \A k \in Key : ttl'[k] > 0 => ttl[k] > 0 \/ k = call[c].key
    BY <1>0, <1>10 DEF StoreUnanswered
  <2>2. call[c].pc = "store" /\ call' = call
    BY <1>10 DEF StoreUnanswered
  <2> QED BY <2>1, <2>2 DEF HonouredIn
<1>7. CASE Tick
  <2>1. \A k \in Key : ttl'[k] > 0 => ttl[k] > 0
    BY <1>0, <1>7 DEF Tick, Cached
  <2>2. call' = call
    BY <1>7 DEF Tick
  <2>3. Lapses
    BY <2>1, <2>2 DEF HonouredIn
  <2> QED BY <2>3
<1>8. CASE Crash
  <2>1. ttl' = ttl /\ \A c \in Hook \cup Client : call'[c].pc # "store"
    BY <1>8 DEF Crash, NoCall
  <2>2. Lapses
    BY <2>1 DEF HonouredIn
  <2> QED BY <2>2
<1> HIDE DEF Lapses, Admits
<1>9. Lapses \/ Admits
  <2>1. CASE \E c \in Hook \cup Client : Check(c) \/ StoreUnanswered(c)
    BY <2>1, <1>4, <1>5, <1>6, <1>10 DEF Check
  <2> QED BY <2>1, <1>2, <1>3, <1>7, <1>8 DEF Lapses, Admits
<1> QED BY <1>9 DEF Lapses, Admits

(* KeysSpec: whatever steps fail and however calls, SETs, expiries and      *)
(* rotations interleave, the code keeps the promise of WebhookKeys.         *)
THEOREM KeysRefinement == AccessSpec => KeysSpec
<1> DEFINE H == {k \in Key : \/ Cached(k)
                             \/ \E c \in Hook \cup Client :
                                  call[c].pc = "store" /\ call[c].key = k}
<1>1. AccessInit => Promised!Init
  BY DEF AccessInit, Promised!Init, NoCall, Cached
<1>2. ASSUME AccessIInv, [AccessNext]_accessVars
      PROVE  [Promised!Next]_(Promised!vars)
  <2>1. H = HonouredIn(ttl, call) /\ H' = HonouredIn(ttl', call')
    BY DEF HonouredIn, Cached
  <2>2. CASE UNCHANGED accessVars
    BY <2>2 DEF accessVars, Promised!vars, Cached
  <2>3. CASE Reconcile \/ (\E k \in Key : Rotate(k)) \/ Wipe
    <3>1. UNCHANGED <<ttl, call>>
      BY <2>3 DEF Reconcile, Awake, UpsertKey, UpsertKeyFails, Login, LoginFails,
           UpsertConnector, UpsertConnectorFails, UpsertAction,
           UpsertActionFails, UpsertRule, UpsertRuleFails, Rotate, Wipe, api
    <3>2. row' = row \/ row' = env
      BY <2>3 DEF Reconcile, Awake, UpsertKey, UpsertKeyFails, Login, LoginFails,
           UpsertConnector, UpsertConnectorFails, UpsertAction,
           UpsertActionFails, UpsertRule, UpsertRuleFails, Rotate, Wipe
    <3>3. env \in Key
      BY <1>2 DEF AccessIInv, AccessTypeOK
    <3>4. H' = H
      BY <3>1, <2>1
    <3> QED BY <3>2, <3>3, <3>4
            DEF Promised!Next, Promised!Replace, Promised!vars
  <2>4. CASE \/ \E h \in Hook : Call(h)
             \/ \E c \in Client, k \in Key : CallWith(c, k)
             \/ \E c \in Hook \cup Client : Check(c) \/ StoreUnanswered(c)
             \/ Tick \/ Crash
    <3>1. row' = row
      BY <2>4 DEF Call, CallWith, Check, Hit, Miss, Verify, Refuse, Store,
           StoreUnanswered, Tick, Crash
    <3>2. H' \in SUBSET H \/ (row # NoKey /\ H' = H \cup {row})
      BY <1>2, <2>1, <2>4, HonouredStep
    <3> QED BY <3>1, <3>2 DEF Promised!Next, Promised!Admit, Promised!Lapse
  <2> QED BY <1>2, <2>2, <2>3, <2>4 DEF AccessNext
<1> QED BY <1>1, <1>2, AccessInvariance, PTL DEF AccessSpec, KeysSpec, Promised!Spec

=============================================================================
