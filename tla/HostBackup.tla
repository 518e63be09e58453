------------------------------ MODULE HostBackup ------------------------------
(***************************************************************************)
(* The archive of a service, as the backup wrapper makes it                *)
(* (install/host/backup_ctl.rs) for the agent, for its timer, and as the   *)
(* first step of an update.  The lock backup-<service> is held by the one  *)
(* that is at it, and one that finds it held does nothing (lock.rs).       *)
(***************************************************************************)
EXTENDS HostService

VARIABLES
    bk,       \* where the backup stands
    bkBy,     \* who runs it: an orphan is left of an update that was killed
    excused,  \* history: why the container may be down with nobody at it: its
              \* owner stopped it, a wrapper was killed, or a command failed
    disturbed \* history: wrappers whose docker compose stop failed, or beside
              \* whom another was at work

backupVars == <<bk, bkBy>>

BackupTypeOK ==
    /\ bk \in {"none", "check", "dump", "tar", "start", "unsaved", "finish", "failed"}
    /\ bkBy \in {"none", "agent", "timer", "update", "orphan"}
    /\ excused \in BOOLEAN /\ disturbed \subseteq {"backup", "restore"}

BackupInit == bk = "none" /\ bkBy = "none" /\ excused = FALSE /\ disturbed = {}

Free == bk = "none"

Begin(who) ==
    /\ Free /\ plan.saves
    /\ bk' = "check" /\ bkBy' = who

(* A service that is up again is down for no reason that lasts.            *)
Excuse(failed) == excused' = (app' = "down" /\ (excused \/ failed))

-----------------------------------------------------------------------------
(* Slip: what has a database is dumped, and not stopped.                   *)
CheckAndStopUndumped ==
    /\ bk = "check"
    /\ \/ live = NoDir /\ bk' = "failed" /\ UNCHANGED <<serviceVars, disturbed>>
       \/ live # NoDir /\ bk' = "dump" /\ UNCHANGED disturbed
          /\ IF plan.stops /\ ~plan.dumps THEN Stop ELSE UNCHANGED serviceVars
    /\ UNCHANGED <<bkBy, excused>>

(* The data must be there.  Nobody looks whether the stop did what it was  *)
(* told (|| true).                                                         *)
CheckAndStop ==
    /\ bk = "check"
    /\ \/ live = NoDir /\ bk' = "failed" /\ UNCHANGED <<serviceVars, disturbed>>
       \/ live # NoDir /\ bk' = "dump" /\ UNCHANGED disturbed
          /\ IF plan.stops THEN Stop ELSE UNCHANGED serviceVars
       \/ live # NoDir /\ bk' = "dump" /\ plan.stops
          /\ UNCHANGED serviceVars /\ disturbed' = disturbed \cup {"backup"}
    /\ UNCHANGED <<bkBy, excused>>

(* Slip: a dump that fails leaves by the shortest way.                     *)
DumpOrLeave ==
    /\ bk = "dump"
    /\ \/ bk' = "tar"
       \/ plan.dumps /\ bk' = "failed"
    /\ UNCHANGED <<serviceVars, bkBy, excused, disturbed>>

(* The database of a service stays up; its dump may fail all the same.     *)
Dump ==
    /\ bk = "dump"
    /\ \/ bk' = "tar"
       \/ plan.dumps /\ bk' = "unsaved"
    /\ UNCHANGED <<serviceVars, bkBy, excused, disturbed>>

(* tar, which takes its time and finds no data if they are moved away.     *)
Tar ==
    /\ bk = "tar"
    /\ \/ live # NoDir /\ bk' = "start"
       \/ bk' = "unsaved"
    /\ UNCHANGED <<serviceVars, bkBy, excused, disturbed>>

(* Whatever became of the archive, and whether it starts or not.           *)
StartAgain ==
    /\ bk \in {"start", "unsaved"}
    /\ bk' = IF bk = "start" THEN "finish" ELSE "failed"
    /\ \/ ~plan.stops /\ UNCHANGED <<serviceVars, excused>>
       \/ plan.stops /\ Start /\ Excuse(FALSE)
       \/ plan.stops /\ UNCHANGED serviceVars /\ Excuse(TRUE)
    /\ UNCHANGED <<bkBy, disturbed>>

BackupStep == CheckAndStop \/ Dump \/ Tar \/ StartAgain
=============================================================================
