----------------------------- MODULE HostRestore -----------------------------
(***************************************************************************)
(* The restore of a service by the restore wrapper                         *)
(* (install/host/restore.rs, one of its generated arms), which only the    *)
(* agent runs.  It takes no lock: nothing but the claim of the agent's own *)
(* verbs keeps another wrapper away.                                       *)
(***************************************************************************)
EXTENDS HostUpdate

VARIABLES
    rs,        \* where the restore stands
    copy,      \* what it unpacked
    previous   \* what it put aside, or NoDir

restoreVars == <<rs, copy, previous>>

RestoreTypeOK ==
    /\ rs \in {"none", "unpack", "stop", "aside", "place", "wipe", "return", "giveup",
               "load", "start", "bad", "done", "failed"}
    /\ copy \in Copies \cup {NoDir} /\ previous \in Dirs \cup {NoDir}

RestoreInit == rs = "none" /\ copy = NoDir /\ previous = NoDir

ForgetRestore == rs' = "none" /\ copy' = NoDir /\ previous' = NoDir

restoreOthers == <<backupVars, updateVars>>

-----------------------------------------------------------------------------
(* Decrypted, checked and unpacked beside the data before anything stops.  *)
Unpack ==
    /\ rs = "unpack"
    /\ \/ /\ \E c \in Copies \ ({live, served} \cup aside) : copy' = c
          /\ rs' = IF plan.stops THEN "stop" ELSE "aside"
       \/ rs' = "failed" /\ UNCHANGED copy
    /\ UNCHANGED <<serviceVars, previous, excused, disturbed, restoreOthers>>

StopToRestore ==
    /\ rs = "stop" /\ rs' = "aside"
    /\ \/ Stop /\ UNCHANGED disturbed
       \/ UNCHANGED serviceVars /\ disturbed' = disturbed \cup {"restore"}
    /\ Excuse(FALSE)
    /\ UNCHANGED <<copy, previous, restoreOthers>>

(* A rename that fails ends the wrapper where it stands (set -e).          *)
PutAside ==
    /\ rs = "aside"
    /\ \/ MoveAside /\ previous' = live /\ rs' = "place" /\ Excuse(FALSE)
       \/ live # NoDir /\ UNCHANGED <<serviceVars, previous>> /\ rs' = "failed" /\ Excuse(TRUE)
    /\ UNCHANGED <<copy, disturbed, restoreOthers>>

Place ==
    /\ rs = "place"
    /\ \/ MoveTo(copy) /\ rs' = IF plan.dumps THEN "load" ELSE "start"
       \/ UNCHANGED serviceVars /\ rs' = "wipe"
    /\ UNCHANGED <<copy, previous, excused, disturbed, restoreOthers>>

Return == IF previous = NoDir THEN UNCHANGED serviceVars ELSE MoveTo(previous)

(* Slip: the way back first, and then the rest is cleared away.            *)
WipeLast ==
    /\ \/ rs = "wipe" /\ Return /\ rs' = "return"
       \/ rs = "return" /\ Wipe /\ rs' = "giveup"
    /\ UNCHANGED <<copy, previous, excused, disturbed, restoreOthers>>

(* The way back: whatever is at the path goes, and the old data return.    *)
WayBack ==
    /\ \/ rs = "wipe" /\ Wipe /\ rs' = "return" /\ UNCHANGED excused
       \/ rs = "return" /\ Return /\ rs' = "giveup" /\ UNCHANGED excused
       \/ rs = "return" /\ previous # NoDir /\ UNCHANGED serviceVars /\ rs' = "failed" /\ Excuse(TRUE)
    /\ UNCHANGED <<copy, previous, disturbed, restoreOthers>>

(* The container of the database is started, which leaves this one alone,  *)
(* and the dump is loaded once it answers.                                 *)
LoadDump ==
    /\ rs = "load" /\ rs' \in {"start", "bad"}
    /\ UNCHANGED <<serviceVars, copy, previous, excused, disturbed, restoreOthers>>

(* Slip: the service comes up before its data are in place.                *)
StartEarly ==
    /\ rs \in {"start", "bad", "giveup", "place"}
    /\ rs' = IF rs = "start" THEN "done" ELSE IF rs = "place" THEN "place" ELSE "failed"
    /\ \/ Start /\ Excuse(FALSE)
       \/ UNCHANGED serviceVars /\ Excuse(TRUE)
    /\ UNCHANGED <<copy, previous, disturbed, restoreOthers>>

(* Up again on every path, whether it starts or not.                       *)
StartAll ==
    /\ rs \in {"start", "bad", "giveup"}
    /\ rs' = IF rs = "start" THEN "done" ELSE "failed"
    /\ \/ Start /\ Excuse(FALSE)
       \/ UNCHANGED serviceVars /\ Excuse(TRUE)
    /\ UNCHANGED <<copy, previous, disturbed, restoreOthers>>

RestoreStep ==
    \/ Unpack \/ StopToRestore \/ PutAside \/ Place \/ WayBack \/ LoadDump \/ StartAll
=============================================================================
