----------------------------- MODULE Containers -----------------------------
(***************************************************************************)
(* Everything the agent does to one container group: the verbs that claim  *)
(* it (UpdateContainerGroup, RunContainerGroupBackup, RemoveContainerGroup *)
(* and ControlContainerGroup; at most one at a time, jobs.rs:55-80) and    *)
(* beside them the schedule, which backs up the groups that are due and    *)
(* takes no claim (container_schedule.rs).                                 *)
(*                                                                         *)
(* Of the store only the row of the group in the table of schedules is     *)
(* kept, and no time: a group that was backed up once may be due again.    *)
(***************************************************************************)
EXTENDS ContainerUpdate

VARIABLES
    scheduled,   \* a schedule is set
    lastRun,     \* when the schedule says it last backed up the group
    pass,        \* the scheduler's pass
    left         \* history: an update failed, was blind to a reference, or died
                 \* with the agent

rowVars == <<scheduled, lastRun>>
vars == <<groupVars, backupVars, updateVars, verb, rowVars, pass, left>>

Verbs == {"update", "backup", "remove", "control"}

TypeOK ==
    /\ GroupTypeOK /\ BackupTypeOK /\ UpdateTypeOK
    /\ verb \in Verbs \cup {"none"}
    /\ scheduled \in BOOLEAN
    /\ lastRun \in {"never", "once"}
    /\ pass \in {"sleeping", "queued", "saving"}
    /\ left \in BOOLEAN

Init ==
    /\ GroupInit /\ BackupInit /\ UpdateInit
    /\ verb = "none"
    /\ scheduled = FALSE /\ lastRun = "never"
    /\ pass = "sleeping" /\ left = FALSE

-----------------------------------------------------------------------------
(* The verbs                                                               *)

(* The claim is free and the host reports the group.                       *)
Claim(v, at) ==
    /\ verb = "none" /\ There # {}
    /\ verb' = v
    /\ save' = [save EXCEPT !["verb"] = at]
    /\ together' = IF pass = "saving" THEN Workers ELSE together

(* The claim is dropped with the run.                                      *)
Release ==
    /\ verb' = "none"
    /\ save' = [save EXCEPT !["verb"] = "idle"]
    /\ together' = together \ {"verb"}

UpdateContainerGroup ==
    \E skips \in BOOLEAN :
        /\ Accepts(skips) /\ Claim("update", "idle")
        /\ stage' = "ids" /\ skip' = skips /\ crashed' = (Looping # {})
        /\ UNCHANGED <<groupVars, plan, previous, watchVars, report, warned, mishap,
                       rowVars, pass, left>>

UpdateOver ==
    /\ At("over")
    /\ Release /\ ForgetUpdate
    /\ left' = (left \/ mishap \/ report = "failed")
    /\ UNCHANGED <<tag, made, state, plan, rowVars, pass>>

RunContainerGroupBackup ==
    /\ Claim("backup", "dumping")
    /\ UNCHANGED <<groupVars, plan, updateVars, rowVars, pass, left>>

BackupOver ==
    /\ verb = "backup" /\ ~InBackup("verb")
    /\ Release
    /\ UNCHANGED <<groupVars, plan, updateVars, rowVars, pass, left>>

(* start, stop or restart: one docker command.                             *)
ControlContainerGroup ==
    /\ Claim("control", "idle")
    /\ UNCHANGED <<groupVars, plan, updateVars, rowVars, pass, left>>

RunControl ==
    /\ verb = "control"
    /\ \E S \in SUBSET Images : Stop(S) \/ Start(S)
    /\ Release
    /\ UNCHANGED <<plan, updateVars, rowVars, pass, left>>

(* The row forgets the last backup before the claim is asked for (api.rs   *)
(* :220-235), so a removal that is refused has forgotten it too.           *)
RemoveContainerGroup ==
    /\ lastRun' = "never"
    /\ \/ Claim("remove", "idle")
       \/ (verb # "none" \/ There = {}) /\ UNCHANGED <<verb, save, together>>
    /\ UNCHANGED <<groupVars, plan, updateVars, scheduled, pass, left>>

(* down; the volumes, paths and backups that go with it are not kept here. *)
RunRemoval ==
    /\ verb = "remove"
    /\ \E S \in SUBSET Images : Remove(S)
    /\ Release
    /\ UNCHANGED <<plan, updateVars, rowVars, pass, left>>

-----------------------------------------------------------------------------
(* The schedule                                                            *)

SetSchedule(on) ==
    /\ There # {}
    /\ scheduled' = on
    /\ lastRun' = IF on THEN lastRun ELSE "never"
    /\ UNCHANGED <<groupVars, backupVars, updateVars, verb, pass, left>>

(* A pass reads what is due, and gets to this group after the others.      *)
PassBegins ==
    /\ pass = "sleeping"
    /\ scheduled
    /\ pass' = "queued"
    /\ UNCHANGED <<groupVars, backupVars, updateVars, verb, rowVars, left>>

(* run_one: the group is looked for again, its schedule is not.            *)
PassReaches ==
    /\ pass = "queued"
    /\ pass' = "saving"
    /\ save' = [save EXCEPT !["pass"] = IF There = {} THEN "failed" ELSE "dumping"]
    /\ together' = IF verb # "none" THEN Workers ELSE together
    /\ UNCHANGED <<groupVars, plan, updateVars, verb, rowVars, left>>

(* The outcome is recorded, a failure as much as a success; a row that is  *)
(* gone is inserted again without a schedule.                              *)
PassRecords ==
    /\ pass = "saving" /\ ~InBackup("pass")
    /\ pass' = "sleeping"
    /\ lastRun' = "once"
    /\ save' = [save EXCEPT !["pass"] = "idle"]
    /\ together' = together \ {"pass"}
    /\ UNCHANGED <<groupVars, plan, updateVars, verb, scheduled, left>>

PassStep ==
    \/ PassReaches \/ PassRecords
    \/ pass = "saving" /\ BackupStep("pass")
       /\ UNCHANGED <<updateVars, verb, rowVars, pass, left>>

-----------------------------------------------------------------------------
(* The host                                                                *)

OwnerPutsBack ==
    /\ PutBack
    /\ UNCHANGED <<backupVars, updateVars, verb, rowVars, pass, left>>

EngineStep ==
    /\ \/ \E i \in Images : Rise(i, clean > 0) /\ UNCHANGED crashed
       \/ \E i \in Images : Crash(i) /\ crashed' = (verb = "update")
    /\ UNCHANGED <<backupVars, stage, skip, previous, watchVars, report, warned, mishap,
                   verb, rowVars, pass, left>>

(* The agent dies with the runs it holds; the group and the row stay.      *)
AgentDies ==
    /\ verb # "none" \/ pass # "sleeping"
    /\ verb' = "none" /\ pass' = "sleeping" /\ ForgetUpdate
    /\ save' = [w \in Workers |-> "idle"] /\ together' = {}
    /\ left' = (left \/ verb = "update")
    /\ UNCHANGED <<tag, made, state, plan, rowVars>>

VerbStep ==
    \/ UpdateStep /\ UNCHANGED <<verb, rowVars, pass, left>>
    \/ BackupStep("verb") /\ UNCHANGED <<updateVars, verb, rowVars, pass, left>>
    \/ UpdateOver \/ BackupOver \/ RunControl \/ RunRemoval

Next ==
    \/ UpdateContainerGroup \/ RunContainerGroupBackup \/ RemoveContainerGroup
    \/ ControlContainerGroup \/ VerbStep
    \/ (\E on \in BOOLEAN : SetSchedule(on)) \/ PassBegins \/ PassStep
    \/ OwnerPutsBack \/ EngineStep \/ AgentDies

Spec == Init /\ [][Next]_vars

-----------------------------------------------------------------------------
(* Properties                                                              *)

Pulling == {"pull", "compare", "up", "look", "count", "retag", "reup"}

(* From the pull on, an update has taken an archive, or was told to take   *)
(* none of a group without a database (container_update.rs:81-118,         *)
(* 207-223).                                                               *)
NothingPulledUnsaved ==
    stage \in Pulling => IF skip THEN ~plan.dumps ELSE save["verb"] = "saved"

(* What the last event of an update says is so: updated, and the group     *)
(* runs what was pulled and nothing that was counted has restarted since;  *)
(* current, and the group runs what its references point at, unless an     *)
(* update, this or an earlier one, was left off or could not read an id;   *)
(* rolled back, and every reference without a warning is back on the image *)
(* it had, and runs it (container_update.rs:144-165, 197-291).             *)
ReportTruthful ==
    [][stage' = "over" /\ stage # "over" =>
        /\ report' = "updated" => moved' \cap counted = {} /\ made' = tag'
        /\ report' = "current" => left \/ mishap \/ \A i \in There : made[i] = tag[i]
        /\ report' = "rolled back" =>
              \A i \in DOMAIN previous \ warned :
                  tag'[i] = previous[i] /\ made'[i] = previous[i]]_vars

(* A good version is only taken back when a command of the update failed   *)
(* or the schedule was at work on the group beside it, which it may be:    *)
(* its stop looks like a group that does not come up                       *)
(* (container_update.rs:350-414, container_schedule.rs:132-161).           *)
RollbackHasACause == report = "rolled back" => mishap \/ crashed \/ "verb" \in together

(* A group that has to be stopped for its archive is down while tar reads  *)
(* it, whichever verbs run, unless a verb and the schedule are at work on  *)
(* it together (container_backup_run.rs:218-233, container_backup.rs:12-  *)
(* 18).                                                                    *)
TornOnlyBesideAnother ==
    \A w \in Workers \ together : save[w] = "packing" /\ plan.stops => Up = {}

(* A backup that stopped its group has started it again when it ends, its  *)
(* archive written or not, unless a stop or start failed or another was at *)
(* work on the group (container_backup_run.rs:230-251).                    *)
GivenBack ==
    \A w \in Workers \ together :
        save[w] \in {"saved", "unsaved"} /\ plan.stops => \A i \in Images : state[i] # "stopped"
=============================================================================
