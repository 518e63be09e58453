--------------------------- MODULE ContainerBackup ---------------------------
(***************************************************************************)
(* The archive of a container group (container_backup_run.rs), as each of  *)
(* its two users runs it: the verb that holds the claim of the group, and  *)
(* the agent's own schedule, which holds none.                             *)
(*                                                                         *)
(* The plan is what detection and the owner made of the group: whether it  *)
(* names files or volumes, has a database to dump, and has to stop the     *)
(* group because something in it cannot be dumped.  Staging directories,   *)
(* names and sizes are left out.                                           *)
(***************************************************************************)
EXTENDS ContainerGroup

CONSTANT Plans   \* the plans considered

Workers == {"verb", "pass"}

ASSUME PlanAssumption == Plans \subseteq [files : BOOLEAN, dumps : BOOLEAN, stops : BOOLEAN]

VARIABLES
    plan,      \* the plan of the group
    save,      \* where each worker's backup stands
    together   \* history: workers during whose run the other was at work too

backupVars == <<plan, save, together>>

(* unpacked: the group is to be started although there is no archive;      *)
(* stuck: a command that stops or starts it failed.                        *)
Ended == {"saved", "failed", "unsaved", "stuck"}

BackupTypeOK ==
    /\ plan \in Plans
    /\ save \in [Workers -> {"idle", "dumping", "stopping", "packing", "packed", "unpacked"}
                             \cup Ended]
    /\ together \subseteq Workers

BackupInit ==
    /\ plan \in Plans
    /\ save = [w \in Workers |-> "idle"]
    /\ together = {}

NamesNothing == ~plan.files /\ ~plan.dumps

InBackup(w) == save[w] \notin Ended \cup {"idle"}

Step(w, next) == save' = [save EXCEPT ![w] = next]

(* Every database is dumped while its container is up; one that cannot be  *)
(* ends the backup before anything was stopped.                            *)
Dump(w) ==
    /\ save[w] = "dumping"
    /\ \/ /\ plan.dumps => Up # {}
          /\ Step(w, IF plan.stops THEN "stopping" ELSE "packing")
       \/ plan.dumps /\ Step(w, "failed")
    /\ UNCHANGED <<groupVars, plan, together>>

(* Slip: a stop that fails is no reason not to go on.                      *)
StopOrGoOn(w) ==
    /\ save[w] = "stopping"
    /\ \E S \in SUBSET Images : Stop(S) /\ Step(w, "packing")
    /\ UNCHANGED <<plan, together>>

(* A stop that fails half way ends the backup, and nothing starts again    *)
(* what it did stop.                                                       *)
StopForArchive(w) ==
    /\ save[w] = "stopping"
    /\ \/ Stop(Images) /\ Step(w, "packing")
       \/ \E S \in SUBSET Images : Stop(S) /\ Step(w, "stuck")
    /\ UNCHANGED <<plan, together>>

(* Slip: a group whose archive failed is not started again.                *)
PackOrGiveUp(w) ==
    /\ save[w] = "packing"
    /\ \/ ~NamesNothing /\ Step(w, IF plan.stops THEN "packed" ELSE "saved")
       \/ Step(w, "unsaved")
    /\ UNCHANGED <<groupVars, plan, together>>

(* tar, which takes its time: the archive is whole or removed again.  A    *)
(* plan that names nothing on the host packs nothing, which is a failure.  *)
Pack(w) ==
    /\ save[w] = "packing"
    /\ \/ ~NamesNothing /\ Step(w, IF plan.stops THEN "packed" ELSE "saved")
       \/ Step(w, IF plan.stops THEN "unpacked" ELSE "unsaved")
    /\ UNCHANGED <<groupVars, plan, together>>

(* Whatever became of the archive; a start that fails fails the backup.    *)
StartAgain(w) ==
    /\ save[w] \in {"packed", "unpacked"}
    /\ \/ Start(Images) /\ Step(w, IF save[w] = "packed" THEN "saved" ELSE "unsaved")
       \/ \E S \in SUBSET Images : Start(S) /\ Step(w, "stuck")
    /\ UNCHANGED <<plan, together>>

BackupStep(w) == Dump(w) \/ StopForArchive(w) \/ Pack(w) \/ StartAgain(w)
=============================================================================
