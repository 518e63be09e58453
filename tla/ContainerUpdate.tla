--------------------------- MODULE ContainerUpdate ---------------------------
(***************************************************************************)
(* The update of a container group (container_update.rs): read what the    *)
(* references point at, back up, pull, recreate, watch the group hold      *)
(* still, and put the old images back when it does not.                    *)
(***************************************************************************)
EXTENDS ContainerBackup

CONSTANTS
    MaxLooks,      \* bound: looks before the deadline of 180 s (36 in the code)
    InspectFails   \* docker inspect and docker ps may fail or take their time

ASSUME UpdateAssumption == MaxLooks \in Nat /\ MaxLooks >= 3 /\ InspectFails \in BOOLEAN

VARIABLES
    verb,       \* the verb that holds the claim of the group, or "none"
    stage,      \* where it stands
    skip,       \* the update was asked to take no backup
    previous,   \* image ids the update could roll back to, by reference
    shown,      \* containers the last look found running
    counted,    \* containers whose restarts the first clean look remembers
    clean,      \* clean looks in a row
    looks,      \* looks so far
    report,     \* how it ended
    warned,     \* references it could not put back
    mishap,     \* history: a command of this update failed or took too long
    crashed     \* history: a container of the group was or went down in a crash

watchVars == <<shown, counted, clean, looks>>
updateVars == <<stage, skip, previous, watchVars, report, warned, mishap, crashed>>

Ids == UNION {[S -> Versions] : S \in SUBSET Images}

WatchTypeOK ==
    /\ shown \subseteq Images /\ counted \subseteq Images
    /\ clean \in 0..2 /\ looks \in 0..MaxLooks - 1

UpdateTypeOK ==
    /\ WatchTypeOK
    /\ stage \in {"none", "ids", "saving", "pull", "compare", "up", "look", "count",
                  "retag", "reup", "over"}
    /\ skip \in BOOLEAN
    /\ previous \in Ids
    /\ report \in {"none", "updated", "current", "rolled back", "failed"}
    /\ warned \subseteq Images
    /\ mishap \in BOOLEAN /\ crashed \in BOOLEAN

NoIds == [i \in {} |-> 0]

UpdateInit ==
    /\ stage = "none" /\ skip = FALSE /\ previous = NoIds
    /\ shown = {} /\ counted = {} /\ clean = 0 /\ looks = 0 /\ report = "none" /\ warned = {}
    /\ mishap = FALSE /\ crashed = FALSE

(* Nothing is left of an update that is over.                              *)
ForgetUpdate ==
    /\ stage' = "none" /\ skip' = FALSE /\ previous' = NoIds
    /\ shown' = {} /\ counted' = {} /\ clean' = 0 /\ looks' = 0
    /\ report' = "none" /\ warned' = {}
    /\ mishap' = FALSE /\ crashed' = FALSE
    /\ moved' = {}

At(here) == verb = "update" /\ stage = here

End(how) == stage' = "over" /\ report' = how

-----------------------------------------------------------------------------
(* Slip: a backup may be skipped whatever the group holds.                 *)
AcceptsAnySkip(skips) == ~skips => ~NamesNothing

(* The refusals before the stream opens: a database is never updated       *)
(* without a backup, and a plan that names nothing is not a backup.        *)
Accepts(skips) ==
    /\ skips => ~plan.dumps
    /\ ~skips => ~NamesNothing

(* The ids are read before the backup.  A reference docker cannot be asked *)
(* about is left out.                                                      *)
ReadIds ==
    /\ At("ids")
    /\ stage' = IF skip THEN "pull" ELSE "saving"
    /\ \E S \in SUBSET Images :
          /\ ~InspectFails => S = Images
          /\ previous' = [i \in S |-> tag[i]]
          /\ mishap' = (S # Images)
    /\ save' = [save EXCEPT !["verb"] = IF skip THEN "idle" ELSE "dumping"]
    /\ UNCHANGED <<groupVars, plan, together, skip, watchVars, report, warned, crashed>>

BackedUp ==
    /\ At("saving")
    /\ \/ save["verb"] = "saved" /\ stage' = "pull" /\ UNCHANGED report
       \/ save["verb"] \in Ended \ {"saved"} /\ End("failed")
    /\ UNCHANGED <<groupVars, backupVars, skip, previous, watchVars, warned, mishap, crashed>>

(* A pull that fails leaves the tags it has moved.                         *)
PullImages ==
    /\ At("pull")
    /\ \/ Pull(Images) /\ stage' = "compare" /\ UNCHANGED <<report, mishap>>
       \/ (\E S \in SUBSET Images : Pull(S)) /\ End("failed") /\ mishap' = TRUE
    /\ UNCHANGED <<backupVars, skip, previous, watchVars, warned, crashed>>

(* What the tags point at now is all an unchanged group is judged by.      *)
Compare ==
    /\ At("compare")
    /\ \E S \in SUBSET DOMAIN previous :
          /\ ~InspectFails => S = DOMAIN previous
          /\ LET after == [i \in S |-> tag[i]] IN
             IF DOMAIN previous # {} /\ after = previous
             THEN End("current")
             ELSE stage' = "up" /\ UNCHANGED report
    /\ UNCHANGED <<groupVars, backupVars, skip, previous, watchVars, warned, mishap, crashed>>

(* Without any image id there is nothing to roll back to.                  *)
RollBack ==
    IF DOMAIN previous = {} THEN End("failed") ELSE stage' = "retag" /\ UNCHANGED report

(* Slip: only what was pulled is brought up.                               *)
RecreateChanged ==
    /\ At("up")
    /\ \/ Recreate({i \in Images : made[i] # tag[i]}) /\ stage' = "look" /\ UNCHANGED <<report, mishap>>
       \/ (\E S \in SUBSET Images : Recreate(S)) /\ RollBack /\ mishap' = TRUE
    /\ UNCHANGED <<backupVars, skip, previous, watchVars, warned, crashed>>

(* The whole group, pulled or not: what is down comes up with it.          *)
RecreateAll ==
    /\ At("up")
    /\ \/ Recreate(Images) /\ stage' = "look" /\ UNCHANGED <<report, mishap>>
       \/ (\E S \in SUBSET Images : Recreate(S)) /\ RollBack /\ mishap' = TRUE
    /\ UNCHANGED <<backupVars, skip, previous, watchVars, warned, crashed>>

(* Nothing is kept of a watch that is over.                                *)
WatchOver == shown' = {} /\ counted' = {} /\ clean' = 0 /\ looks' = 0

(* Slip: the deadline is missed by one look.                               *)
AgainPastDeadline(n, S, slow) ==
    IF slow \/ looks = MaxLooks THEN RollBack /\ WatchOver
    ELSE /\ stage' = "look" /\ UNCHANGED report
         /\ shown' = {} /\ counted' = S /\ clean' = n /\ looks' = looks + 1

(* wait_healthy looks again, with n clean looks and the counters of S to   *)
(* compare, unless its deadline has come, which it does sooner than by     *)
(* looks alone when the engine takes its time.                             *)
Again(n, S, slow) ==
    IF slow \/ looks + 1 = MaxLooks THEN RollBack /\ WatchOver
    ELSE /\ stage' = "look" /\ UNCHANGED report
         /\ shown' = {} /\ counted' = S /\ clean' = n /\ looks' = looks + 1

(* verdict: nothing loops and something runs.  What is down need not be    *)
(* shown: ps is not asked for what is stopped.                             *)
LooksClean(hides) == Looping = {} /\ Up # {} /\ (hides \/ Up = Images)

(* wait_healthy: one look at the states.  A container in a loop is the end *)
(* of it; a group that is not all up starts from the first look again.     *)
Look ==
    /\ At("look")
    /\ \E answer \in {"states", "failure", "error"}, slow, hides \in BOOLEAN :
          /\ ~InspectFails => answer = "states" /\ ~slow
          /\ mishap' = (mishap \/ answer # "states" \/ slow)
          /\ IF answer = "error" \/ (answer = "states" /\ Looping # {})
             THEN RollBack /\ WatchOver
             ELSE IF answer = "states" /\ LooksClean(hides)
             THEN stage' = "count" /\ shown' = Up /\ UNCHANGED <<counted, clean, looks, report>>
             ELSE Again(0, {}, slow)
    /\ UNCHANGED <<groupVars, backupVars, skip, previous, warned, crashed>>

(* Slip: three clean looks are enough, whatever the counters say.          *)
CountLooksOnly ==
    /\ At("count")
    /\ IF clean = 2 THEN End("updated") /\ WatchOver
       ELSE Again(clean + 1, IF clean = 0 THEN shown ELSE counted, FALSE)
    /\ moved' = IF clean = 0 THEN {} ELSE moved
    /\ UNCHANGED <<tag, made, state, backupVars, skip, previous, warned, mishap, crashed>>

(* wait_healthy: the restart counters, read after the states.  The first   *)
(* clean look only remembers them; any difference since is the end of it.  *)
Count ==
    /\ At("count")
    /\ \E read, slow \in BOOLEAN :
          LET counts == IF read THEN shown ELSE {} IN
          /\ ~InspectFails => read /\ ~slow
          /\ mishap' = (mishap \/ ~read \/ slow)
          /\ IF clean > 0 /\ (counts # counted \/ moved \cap counted # {})
             THEN RollBack /\ WatchOver
             ELSE IF clean = 2 THEN End("updated") /\ WatchOver
             ELSE Again(clean + 1, counts, slow)
    /\ moved' = IF clean = 0 THEN {} ELSE moved
    /\ UNCHANGED <<tag, made, state, backupVars, skip, previous, warned, crashed>>

(* A reference that cannot be put back is a warning.                       *)
RetagPrevious ==
    /\ At("retag")
    /\ \E S \in SUBSET DOMAIN previous :
          /\ Retag([i \in S |-> previous[i]])
          /\ warned' = DOMAIN previous \ S
          /\ mishap' = (mishap \/ S # DOMAIN previous)
    /\ stage' = "reup"
    /\ UNCHANGED <<backupVars, skip, previous, watchVars, report, crashed>>

RecreatePrevious ==
    /\ At("reup")
    /\ \/ Recreate(Images) /\ End("rolled back") /\ UNCHANGED mishap
       \/ (\E S \in SUBSET Images : Recreate(S)) /\ End("failed") /\ mishap' = TRUE
    /\ UNCHANGED <<backupVars, skip, previous, watchVars, warned, crashed>>

UpdateStep ==
    \/ ReadIds \/ BackedUp \/ PullImages \/ Compare \/ RecreateAll
    \/ Look \/ Count \/ RetagPrevious \/ RecreatePrevious
=============================================================================
