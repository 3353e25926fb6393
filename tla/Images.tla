-------------------------------- MODULE Images --------------------------------
(***************************************************************************)
(* scripts/ops/deploy_core.sh and rollback_core.sh: the images of the two  *)
(* services, their rollback tags, and the file that names the last ones.   *)
(***************************************************************************)
EXTENDS Integers

CONSTANT MaxDeploys   \* bound on the deployments

ASSUME ImagesAssumption == MaxDeploys \in Nat \ {0}

Service == {"go_api", "telegram_ops_bot"}
Deployment == 0..MaxDeploys   \* an image is named by the deployment that built it
NoImage == -1
Image == Deployment \cup {NoImage}

VARIABLES
  ipc,       \* the command of the script at work
  last,      \* the last deployment
  latest,    \* latest[s]: image of the tag :latest
  tags,      \* tags[n][s]: image of the rollback tag of deployment n
  saved,     \* the deployment last_images.env names; 0: no file
  running,   \* running[s]: image of the container
  before,    \* before[n]: the images running when deployment n began (history)
  halted     \* a script stopped after it moved a tag and before compose had
             \* replaced both containers (history)

ivars == <<ipc, last, latest, tags, saved, running, before, halted>>

NoImages == [s \in Service |-> NoImage]

ITypeOK ==
  /\ ipc \in {"idle", "tag", "save", "build", "roll", "up_deploy", "up_rollback",
             "rolled_back"}
  /\ last \in Deployment /\ saved \in Deployment /\ saved <= last
  /\ latest \in [Service -> Image] /\ running \in [Service -> Image]
  /\ tags \in [Deployment -> [Service -> Image]]
  /\ before \in [Deployment -> [Service -> Image]]
  /\ halted \in BOOLEAN

(* A host that runs both services, or none yet. *)
IInit ==
  /\ ipc = "idle" /\ last = 0 /\ saved = 0
  /\ latest \in {NoImages, [s \in Service |-> 0]} /\ running = latest
  /\ tags = [n \in Deployment |-> NoImages]
  /\ before = tags
  /\ halted = FALSE

StartDeploy ==
  /\ ipc \in {"idle", "rolled_back"} /\ last < MaxDeploys
  /\ last' = last + 1
  /\ before' = [before EXCEPT ![last + 1] = running]
  /\ ipc' = "tag"
  /\ UNCHANGED <<latest, tags, saved, running, halted>>

(* Mutant of TagImages: the rollback tags name what was built last. *)
TagTooLate ==
  /\ ipc = "tag"
  /\ tags' = [tags EXCEPT ![last] = [s \in Service |->
       IF latest[s] = NoImage THEN NoImage ELSE last]]
  /\ ipc' = "save"
  /\ UNCHANGED <<last, latest, saved, running, before, halted>>

(* Each image that exists gets the rollback tag of this deployment; the    *)
(* tags are read by rollback only, so that both are set in one step.       *)
TagImages ==
  /\ ipc = "tag"
  /\ tags' = [tags EXCEPT ![last] = latest]
  /\ ipc' = "save"
  /\ UNCHANGED <<last, latest, saved, running, before, halted>>

Save ==
  /\ ipc = "save"
  /\ saved' = last
  /\ ipc' = "build"
  /\ UNCHANGED <<last, latest, tags, running, before, halted>>

(* compose up --build: one image after the other, then the containers. *)
Build(s) ==
  /\ ipc = "build" /\ latest[s] # last
  /\ latest' = [latest EXCEPT ![s] = last]
  /\ ipc' = IF \A t \in Service : latest'[t] = last THEN "up_deploy" ELSE ipc
  /\ UNCHANGED <<last, tags, saved, running, before, halted>>

(* compose replaces a container whose image is not the latest. *)
Up(s) ==
  /\ ipc \in {"up_deploy", "up_rollback"} /\ running[s] # latest[s]
  /\ running' = [running EXCEPT ![s] = latest[s]]
  /\ UNCHANGED <<ipc, last, latest, tags, saved, before, halted>>

(* Both containers run their latest image: the script is done. *)
UpDone ==
  /\ ipc \in {"up_deploy", "up_rollback"} /\ running = latest
  /\ ipc' = IF ipc = "up_deploy" THEN "idle" ELSE "rolled_back"
  /\ UNCHANGED <<last, latest, tags, saved, running, before, halted>>

(* rollback_core.sh: the image of go_api becomes the latest again, then    *)
(* that of the bot; a missing image ends the script where it is.           *)
Rollback ==
  /\ ipc \in {"idle", "rolled_back"}
  /\ saved > 0 /\ tags[saved]["go_api"] # NoImage
  /\ latest' = [latest EXCEPT !["go_api"] = tags[saved]["go_api"]]
  /\ ipc' = "roll"
  /\ UNCHANGED <<last, tags, saved, running, before, halted>>

RollbackBot ==
  LET image == tags[saved]["telegram_ops_bot"] IN
  /\ ipc = "roll"
  /\ IF image = NoImage
     THEN /\ ipc' = "idle" /\ latest' = latest
          /\ halted' = (halted \/ latest # running)
     ELSE /\ ipc' = "up_rollback" /\ halted' = halted
          /\ latest' = [latest EXCEPT !["telegram_ops_bot"] = image]
  /\ UNCHANGED <<last, tags, saved, running, before>>

(* A docker command that fails (a build error, a container that does not   *)
(* start), or a killed script.                                             *)
StopScript ==
  /\ ipc \notin {"idle", "rolled_back"}
  /\ ipc' = "idle"
  /\ halted' = (halted \/ latest # running)
  /\ UNCHANGED <<last, latest, tags, saved, running, before>>

IStart == StartDeploy \/ Rollback
IStep == TagImages \/ Save \/ RollbackBot \/ UpDone \/ StopScript
         \/ \E s \in Service : Build(s) \/ Up(s)

-----------------------------------------------------------------------------
(* A rollback that ends runs the images that ran when the last deployment  *)
(* that reached its build began, unless a script stopped between moving a  *)
(* tag and replacing the containers: the images recorded after that have   *)
(* never run.                                                              *)
RollbackRestores ==
  ipc = "rolled_back" => running = before[saved] \/ halted

(* The inductive invariant: while no script has stopped half-way, the tag   *)
(* :latest is what runs, and the tags last_images.env names are what ran.   *)
TagsTrue ==
  \/ halted
  \/ /\ ipc \in {"idle", "rolled_back", "tag", "save"} => latest = running
     /\ ipc = "tag" => before[last] = running
     /\ ipc = "save" => tags[last] = before[last]
     /\ saved > 0 => tags[saved] = before[saved]

Rolling ==
  /\ ipc \in {"tag", "save"} => saved < last
  /\ ipc \in {"roll", "up_rollback", "rolled_back"} => saved > 0
  /\ ipc \in {"roll", "up_rollback"} => latest["go_api"] = tags[saved]["go_api"]
  /\ ipc = "up_rollback" =>
       latest["telegram_ops_bot"] = tags[saved]["telegram_ops_bot"]

IIInv == ITypeOK /\ TagsTrue /\ Rolling /\ RollbackRestores
=============================================================================
