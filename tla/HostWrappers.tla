----------------------------- MODULE HostWrappers -----------------------------
(***************************************************************************)
(* Everything that runs the wrappers on one service: the agent, whose      *)
(* verbs (RunUpdate, RunBackup, RunRestore, ControlService) exclude each   *)
(* other by their claim and whose deadline of 600 s kills a wrapper, and   *)
(* the two timers of the host, which know of no claim.                     *)
(***************************************************************************)
EXTENDS HostRestore

vars == <<plan, serviceVars, backupVars, excused, disturbed, updateVars, restoreVars>>

TypeOK ==
    /\ ServiceTypeOK /\ BackupTypeOK /\ UpdateTypeOK /\ RestoreTypeOK

Init ==
    /\ ServiceInit /\ BackupInit /\ UpdateInit /\ RestoreInit

AgentBusy ==
    \/ up # "none" /\ upBy = "agent"
    \/ bkBy = "agent"
    \/ rs # "none"

(* The wrappers at work, an update that waits for its own backup apart.    *)
AtWork ==
    (IF bk # "none" THEN {"backup"} ELSE {}) \cup (IF rs # "none" THEN {"restore"} ELSE {})
    \cup (IF up \notin {"none", "saving"} THEN {"update"} ELSE {})

(* Of an update nothing is remembered.                                     *)
Joins(w, others) ==
    disturbed' = (IF others = {} THEN disturbed \ {w} ELSE disturbed \cup others \cup {w})
                     \ {"update"}

Leaves(w) == disturbed' = disturbed \ {w}

-----------------------------------------------------------------------------
(* Backups                                                                 *)

StartBackup(who) ==
    /\ who = "agent" => ~AgentBusy
    /\ Begin(who)
    /\ Joins("backup", AtWork)
    /\ UNCHANGED <<plan, serviceVars, excused, updateVars, restoreVars>>

BackupExits ==
    /\ bk \in {"finish", "failed"} /\ bkBy # "update"
    /\ bk' = "none" /\ bkBy' = "none"
    /\ Leaves("backup")
    /\ UNCHANGED <<plan, serviceVars, excused, updateVars, restoreVars>>

-----------------------------------------------------------------------------
(* Updates                                                                 *)

StartUpdate(who) ==
    /\ who = "agent" => ~AgentBusy
    /\ UpdateFree
    /\ up' = "begin" /\ upBy' = who
    /\ Joins("update", AtWork)
    /\ UNCHANGED <<plan, serviceVars, backupVars, excused, before, clean, mishap, restoreVars>>

(* One that finds the lock of the backup held has failed to take one.      *)
SaveFirst ==
    /\ up = "begin"
    /\ \/ ~plan.saves /\ up' = "ids" /\ UNCHANGED <<backupVars, disturbed>>
       \/ Begin("update") /\ up' = "saving" /\ Joins("backup", AtWork \ {"update"})
       \/ plan.saves /\ ~Free /\ up' = "FAILED" /\ UNCHANGED <<backupVars, disturbed>>
    /\ UNCHANGED <<plan, serviceVars, excused, upBy, before, clean, mishap, restoreVars>>

Saved ==
    /\ bkBy = "update"
    /\ \/ bk = "finish" /\ up' = "ids"
       \/ bk \in {"finish", "failed"} /\ up' = "FAILED"
    /\ bk' = "none" /\ bkBy' = "none"
    /\ Leaves("backup")
    /\ UNCHANGED <<plan, serviceVars, excused, upBy, before, clean, mishap, restoreVars>>

UpdateExits ==
    /\ up \in {"DONE", "ROLLED_BACK", "FAILED"}
    /\ Forget /\ Leaves("update")
    /\ UNCHANGED <<plan, serviceVars, backupVars, excused, restoreVars>>

-----------------------------------------------------------------------------
(* Restores, and the owner                                                 *)

StartRestore ==
    /\ ~AgentBusy /\ plan.saves
    /\ rs' = "unpack"
    /\ Joins("restore", AtWork)
    /\ UNCHANGED <<plan, serviceVars, backupVars, excused, updateVars, copy, previous>>

RestoreExits ==
    /\ rs \in {"done", "failed"}
    /\ ForgetRestore /\ Leaves("restore")
    /\ UNCHANGED <<plan, serviceVars, backupVars, excused, updateVars>>

(* start, stop or restart: one docker command, beside the timers'.         *)
ControlService ==
    /\ ~AgentBusy
    /\ \/ Start /\ Excuse(FALSE)
       \/ Stop /\ Excuse(TRUE)
       \/ Mount /\ UNCHANGED <<tag, made, moved, aside>> /\ Excuse(FALSE)
    /\ disturbed' = (disturbed \cup AtWork) \ {"update"}
    /\ UNCHANGED <<plan, backupVars, updateVars, restoreVars>>

-----------------------------------------------------------------------------
(* What ends a wrapper from outside                                        *)

(* What is down then stays so.                                             *)
Abandoned == UNCHANGED serviceVars /\ Excuse(TRUE)

(* The deadline kills the wrapper the agent runs; the backup an update     *)
(* waits for is a child of the wrapper, and goes on.                       *)
Deadline ==
    /\ Abandoned
    /\ \/ /\ bkBy = "agent"
          /\ bk' = "none" /\ bkBy' = "none" /\ Leaves("backup")
          /\ UNCHANGED <<updateVars, restoreVars>>
       \/ /\ up # "none" /\ upBy = "agent"
          /\ Forget /\ Leaves("update")
          /\ bkBy' = IF bkBy = "update" THEN "orphan" ELSE bkBy
          /\ UNCHANGED <<bk, restoreVars>>
       \/ /\ rs # "none"
          /\ ForgetRestore /\ Leaves("restore")
          /\ UNCHANGED <<backupVars, updateVars>>
    /\ UNCHANGED plan

(* The agent is stopped, with every process of its unit.                   *)
AgentDies ==
    LET theirs == {w \in {"backup", "update", "restore"} :
                      \/ w = "backup" /\ (bkBy \in {"agent", "orphan"} \/ (bkBy = "update" /\ upBy = "agent"))
                      \/ w = "update" /\ upBy = "agent"
                      \/ w = "restore"} IN
    /\ AgentBusy \/ bkBy = "orphan"
    /\ Abandoned
    /\ IF "backup" \in theirs THEN bk' = "none" /\ bkBy' = "none" ELSE UNCHANGED backupVars
    /\ IF "update" \in theirs THEN Forget ELSE UNCHANGED updateVars
    /\ ForgetRestore
    /\ disturbed' = disturbed \ theirs
    /\ UNCHANGED plan

EngineStep ==
    /\ Crash \/ Rise(clean > 0)
    /\ UNCHANGED <<plan, backupVars, excused, disturbed, updateVars, restoreVars>>

-----------------------------------------------------------------------------
WrapperStep ==
    \/ BackupStep /\ UNCHANGED <<plan, updateVars, restoreVars>>
    \/ UpdateStep /\ UNCHANGED <<plan, restoreVars>>
    \/ RestoreStep /\ UNCHANGED plan
    \/ BackupExits \/ SaveFirst \/ Saved \/ UpdateExits \/ RestoreExits

Next ==
    \/ (\E who \in {"agent", "timer"} : StartBackup(who) \/ StartUpdate(who))
    \/ StartRestore \/ ControlService \/ WrapperStep
    \/ Deadline \/ AgentDies \/ EngineStep

Spec == Init /\ [][Next]_vars

-----------------------------------------------------------------------------
(* Properties                                                              *)

(* No data are lost to a restore, however it ends and whatever runs beside *)
(* it: what the service started with, and what a restore once put in its   *)
(* place, is at the data path or kept aside (restore.rs:453-465).          *)
NothingLost ==
    /\ Original \in aside \cup {live}
    /\ app # "down" /\ served # Empty => served \in aside \cup {live}

(* A restore that says it is done, of a service that stops for it, has the *)
(* service on the restored data, unless a stop failed or another wrapper   *)
(* was at work beside it (restore.rs:448-485).                             *)
RestoreTakesEffect ==
    rs = "done" /\ plan.stops /\ "restore" \notin disturbed =>
        live = copy /\ (app # "down" => served = copy)

(* A service that stops for its archive is down while tar reads its data,  *)
(* unless its stop failed or another wrapper or its owner was at work on   *)
(* it: updates hold another lock, and restores none (backup_ctl.rs:184-211,*)
(* lock.rs:8-12).                                                          *)
TornOnlyBesideAnother ==
    bk = "tar" /\ plan.stops /\ app # "down" => "backup" \in disturbed

(* A service is down only while a wrapper is at work that will start it,   *)
(* or because its owner stopped it, a wrapper was killed, or a command     *)
(* failed (backup_ctl.rs:186-187, restore.rs:484-485).                     *)
ComesBack ==
    app = "down" => \/ excused
                    \/ bk \in {"dump", "tar", "start", "unsaved"}
                    \/ rs \in {"aside", "place", "wipe", "return", "giveup", "load", "start", "bad"}

(* What the wrapper says of an update is so: done, and the service has     *)
(* what was pulled and has not restarted while it was watched; rolled      *)
(* back, and it has what it had, unless a command failed                   *)
(* (update_ctl.rs:986-1052).                                               *)
OutcomeTruthful ==
    [][/\ up' = "DONE" /\ up # "DONE" => made' = tag' /\ made' = MaxVersion /\ ~moved
       /\ up' = "ROLLED_BACK" /\ up # "ROLLED_BACK" => mishap' \/ made' \in before
]_vars

(* A restore that says it is done has the service on the restored data:    *)
(* its container is restarted by the wrapper's own tail (restore.rs:368-   *)
(* 370).                                                                   *)
RestoredIsServed == rs = "done" => app = "down" \/ served = live
=============================================================================
