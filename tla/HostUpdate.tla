------------------------------ MODULE HostUpdate ------------------------------
(***************************************************************************)
(* The update of a service by the update wrapper                           *)
(* (install/host/update_ctl.rs), for the agent or for its timer: a backup  *)
(* first, through the wrapper that owns backups, then pull, restart, watch *)
(* and, when it does not come up, back to the images it had.               *)
(*                                                                         *)
(* The lock update-<service> is held by the one that is at it and by the   *)
(* backup it started, which inherits the descriptor and may outlive it.    *)
(***************************************************************************)
EXTENDS HostBackup

VARIABLES
    up,        \* where the update stands
    upBy,      \* who runs it
    before,    \* the version a rollback would return to, or none that is readable
    clean,     \* clean looks in a row
    mishap     \* history: a docker command of this update failed

updateVars == <<up, upBy, before, clean, mishap>>

UpdateTypeOK ==
    /\ up \in {"none", "begin", "saving", "ids", "pull", "unpull", "up", "look", "back",
               "reup", "DONE", "ROLLED_BACK", "FAILED"}
    /\ upBy \in {"none", "agent", "timer"}
    /\ before \subseteq Versions
    /\ clean \in 0..2 /\ mishap \in BOOLEAN

UpdateInit ==
    /\ up = "none" /\ upBy = "none" /\ before = {} /\ clean = 0 /\ mishap = FALSE

UpdateFree == up = "none" /\ bkBy # "orphan"

Forget ==
    /\ up' = "none" /\ upBy' = "none" /\ before' = {} /\ clean' = 0 /\ mishap' = FALSE

-----------------------------------------------------------------------------
(* The version a tag stands for, which docker may not tell.                *)
ReadIds ==
    /\ up = "ids"
    /\ \/ before' = {tag} /\ UNCHANGED mishap
       \/ before' = {} /\ mishap' = TRUE
    /\ up' = "pull"
    /\ UNCHANGED <<serviceVars, backupVars, excused, disturbed, upBy, clean>>

(* A pull that fails may have moved the tag.                               *)
PullImages ==
    /\ up = "pull"
    /\ \/ Retag(MaxVersion) /\ up' = "up" /\ UNCHANGED mishap
       \/ (Retag(MaxVersion) \/ Retag(tag)) /\ up' = "unpull" /\ mishap' = TRUE
    /\ UNCHANGED <<backupVars, excused, disturbed, upBy, before, clean>>

(* gd_restore_images: a tag that cannot be put back is only told of.       *)
PutBack ==
    /\ \/ \E v \in before : Retag(v) /\ UNCHANGED mishap
       \/ Retag(tag) /\ mishap' = TRUE
    /\ UNCHANGED <<backupVars, excused, disturbed, upBy, before, clean>>

UndoPull == up = "unpull" /\ up' = "FAILED" /\ PutBack

Rollback == up = "back" /\ up' = "reup" /\ PutBack

RecreateNew ==
    /\ up = "up"
    /\ \/ Recreate /\ up' = "look" /\ Excuse(FALSE) /\ UNCHANGED mishap
       \/ (Recreate \/ UNCHANGED serviceVars) /\ up' = "back" /\ Excuse(TRUE) /\ mishap' = TRUE
    /\ UNCHANGED <<backupVars, disturbed, upBy, before, clean>>

(* The old images, whether they come up or not (|| true).                  *)
RecreateOld ==
    /\ up = "reup" /\ up' = "ROLLED_BACK"
    /\ \/ Recreate /\ Excuse(FALSE) /\ UNCHANGED mishap
       \/ (Recreate \/ UNCHANGED serviceVars) /\ Excuse(TRUE) /\ mishap' = TRUE
    /\ UNCHANGED <<backupVars, disturbed, upBy, before, clean>>

(* ps is not asked for what is down, so that a database hides it.          *)
Good == app = "up" \/ (app = "down" /\ plan.dumps)

(* A look leaves n of them clean, and may be the last before the deadline. *)
Watched(n) ==
    /\ up = "look"
    /\ \/ n = 3 /\ up' = "DONE" /\ clean' = 0
       \/ n < 3 /\ up' = "look" /\ clean' = n
       \/ n < 3 /\ up' = "back" /\ clean' = 0
    /\ moved' = FALSE
    /\ UNCHANGED <<tag, made, app, served, live, aside, backupVars, excused, disturbed, upBy, before,
                   mishap>>

(* Slip: the counters are not compared.                                    *)
LookOnly == Watched(IF Good THEN clean + 1 ELSE 0)

(* gd_wait_healthy: three clean looks in a row with the counters the first *)
(* of them read; a counter that has changed makes a look the first again.  *)
Look == Watched(IF ~Good THEN 0 ELSE IF clean = 0 \/ moved THEN 1 ELSE clean + 1)

UpdateStep ==
    \/ ReadIds \/ PullImages \/ UndoPull \/ RecreateNew \/ Look \/ Rollback \/ RecreateOld
=============================================================================
