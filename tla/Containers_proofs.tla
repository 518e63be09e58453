-------------------------- MODULE Containers_proofs --------------------------
(***************************************************************************)
(* Proofs about Containers, for groups of any size, any plans and any      *)
(* number of looks: the invariants and the truth of the last report.  TLC  *)
(* checks them on a group of one container.                                *)
(*                                                                         *)
(* The inductive invariant is TypeOK with what the claim, the archive, the *)
(* watch and the tags are at each stage of the verb and of the pass.       *)
(***************************************************************************)
EXTENDS Containers, TLAPS

(* The claim, the worker under it and the pass are of one mind.            *)
ClaimInv ==
    /\ stage = "none" <=> verb # "update"
    /\ verb # "none" => There # {}
    /\ InBackup("verb") => verb = "backup" \/ stage = "saving"
    /\ verb = "none" => save["verb"] = "idle"
    /\ pass # "saving" => save["pass"] = "idle"
    /\ verb # "none" /\ pass = "saving" => together = Workers

(* An update that takes no archive is of a group without a database.       *)
SavedInv ==
    /\ stage # "none" /\ skip => ~plan.dumps
    /\ stage = "saving" => ~skip
    /\ NothingPulledUnsaved

(* A worker alone with the group finds it as its own steps leave it.       *)
AloneInv ==
    \A w \in Workers \ together :
        /\ InBackup(w) => There # {}
        /\ save[w] = "packing" /\ plan.stops =>
              \A i \in Images : state[i] \in {"none", "stopped"}
        /\ save[w] \in {"saved", "unsaved"} /\ plan.stops =>
              \A i \in Images : state[i] # "stopped"

Cause == mishap \/ crashed \/ "verb" \in together

(* Without a cause to roll back, the watch of an update sees all of the    *)
(* group run, and every look is clean.                                     *)
WatchInv ==
    /\ stage # "none" /\ Looping # {} => crashed
    /\ stage = "none" \/ ~crashed => moved = {}
    /\ stage \notin {"look", "count"} => clean = 0 /\ looks = 0
    /\ stage \in {"look", "count"} /\ ~Cause =>
          /\ \A i \in Images : state[i] = "running"
          /\ looks = clean
          /\ stage = "count" => shown = Images
          /\ clean > 0 => counted = Images
    /\ stage \in {"retag", "reup"} => Cause
    /\ report = "rolled back" => Cause
    /\ report # "none" => stage = "over"

Agree == \A i \in There : made[i] = tag[i]

(* What the ids, the tags and the containers have to do with each other.   *)
TagInv ==
    /\ stage \in {"none", "ids"} => ~mishap
    /\ stage \notin {"none", "ids"} /\ ~mishap => DOMAIN previous = Images
    /\ stage \in {"saving", "pull"} => \A i \in DOMAIN previous : tag[i] = previous[i]
    /\ stage \in {"none", "ids", "saving", "pull"} /\ ~left /\ ~mishap => Agree
    /\ stage = "compare" /\ ~left /\ ~mishap => \A i \in There : made[i] = previous[i]
    /\ stage \in {"look", "count"} => made = tag
    /\ stage = "reup" => \A i \in DOMAIN previous \ warned : tag[i] = previous[i]
    /\ stage = "over" /\ report # "failed" /\ ~left /\ ~mishap => Agree

IInv == TypeOK /\ ClaimInv /\ SavedInv /\ AloneInv /\ WatchInv /\ TagInv

-----------------------------------------------------------------------------
(* The steps of Next, one by one                                           *)

VerbFrame == UNCHANGED <<verb, rowVars, pass, left>>

BackupFrame(w) ==
    /\ UNCHANGED <<updateVars, verb, rowVars, pass, left>>
    /\ w = "pass" => pass = "saving"

LEMMA Steps ==
    ASSUME Next
    PROVE  \/ UpdateContainerGroup \/ RunContainerGroupBackup
           \/ RemoveContainerGroup \/ ControlContainerGroup
           \/ UpdateOver \/ BackupOver \/ RunControl \/ RunRemoval
           \/ VerbFrame /\ (\/ ReadIds \/ BackedUp \/ PullImages \/ Compare \/ RecreateAll
                            \/ Look \/ Count \/ RetagPrevious \/ RecreatePrevious)
           \/ \E w \in Workers :
                 BackupFrame(w) /\ (Dump(w) \/ StopForArchive(w) \/ Pack(w) \/ StartAgain(w))
           \/ (\E on \in BOOLEAN : SetSchedule(on)) \/ PassBegins \/ PassReaches \/ PassRecords
           \/ OwnerPutsBack \/ EngineStep \/ AgentDies
  BY DEF Next, VerbStep, PassStep, UpdateStep, BackupStep, VerbFrame,
       BackupFrame, Workers

-----------------------------------------------------------------------------
(* Type correctness                                                        *)

LEMMA CommandTypes ==
    ASSUME GroupTypeOK
    PROVE  /\ \A S \in SUBSET Images :
                 /\ Pull(S) => GroupTypeOK'
                 /\ Recreate(S) => GroupTypeOK'
                 /\ Stop(S) => GroupTypeOK'
                 /\ Start(S) => GroupTypeOK'
                 /\ Remove(S) => GroupTypeOK'
           /\ \A S \in SUBSET Images : \A ids \in [S -> Versions] : Retag(ids) => GroupTypeOK'
<1>1. MaxVersion \in Versions
  BY GroupAssumption DEF Versions
<1>2. ASSUME NEW S \in SUBSET Images, Pull(S) PROVE GroupTypeOK'
  BY <1>1, <1>2 DEF GroupTypeOK, Pull
<1>3. ASSUME NEW S \in SUBSET Images, Recreate(S) PROVE GroupTypeOK'
  BY <1>3 DEF GroupTypeOK, Recreate
<1>4. ASSUME NEW S \in SUBSET Images, Stop(S) PROVE GroupTypeOK'
  BY <1>4 DEF GroupTypeOK, Stop
<1>5. ASSUME NEW S \in SUBSET Images, Start(S) PROVE GroupTypeOK'
  BY <1>5 DEF GroupTypeOK, Start
<1>6. ASSUME NEW S \in SUBSET Images, Remove(S) PROVE GroupTypeOK'
  BY <1>6 DEF GroupTypeOK, Remove
<1>7. ASSUME NEW S \in SUBSET Images, NEW ids \in [S -> Versions], Retag(ids)
      PROVE  GroupTypeOK'
  BY <1>7 DEF GroupTypeOK, Retag
<1> QED
  BY <1>2, <1>3, <1>4, <1>5, <1>6, <1>7

LEMMA KeptIds ==
    /\ \A S \in SUBSET Images : \A f \in [Images -> Versions] : [i \in S |-> f[i]] \in Ids
    /\ NoIds \in Ids
    /\ \A ids \in Ids : DOMAIN ids \in SUBSET Images /\ ids \in [DOMAIN ids -> Versions]
<1>1. ASSUME NEW S \in SUBSET Images, NEW f \in [Images -> Versions]
      PROVE  [i \in S |-> f[i]] \in [S -> Versions]
  OBVIOUS
<1>2. NoIds \in [{} -> Versions]
  BY DEF NoIds
<1>3. ASSUME NEW S \in SUBSET Images, NEW ids \in [S -> Versions]
      PROVE  DOMAIN ids \in SUBSET Images /\ ids \in [DOMAIN ids -> Versions]
  OBVIOUS
<1> QED
  BY <1>1, <1>2, <1>3 DEF Ids

LEMMA NextGroupType == TypeOK /\ [Next]_vars => GroupTypeOK'
<1> SUFFICES ASSUME TypeOK, [Next]_vars PROVE GroupTypeOK'
  OBVIOUS
<1>1. CASE UpdateContainerGroup \/ RunContainerGroupBackup \/
     RemoveContainerGroup \/ ControlContainerGroup \/ BackupOver \/ PassBegins
     \/ PassReaches \/ PassRecords \/ UNCHANGED vars
  BY <1>1 DEF UpdateContainerGroup, RunContainerGroupBackup,
       RemoveContainerGroup, ControlContainerGroup, BackupOver, PassBegins,
       PassReaches, PassRecords, vars, groupVars, TypeOK, GroupTypeOK
<1>2. ASSUME NEW on \in BOOLEAN, SetSchedule(on) PROVE GroupTypeOK'
  BY <1>2 DEF SetSchedule, groupVars, TypeOK, GroupTypeOK
<1>3. CASE UpdateOver \/ AgentDies
  BY <1>3 DEF UpdateOver, AgentDies, ForgetUpdate, TypeOK, GroupTypeOK
<1>4. CASE RunControl \/ RunRemoval
  BY <1>4, CommandTypes DEF RunControl, RunRemoval, TypeOK
<1>5. CASE (ReadIds \/ BackedUp \/ Compare \/ Look) /\ VerbFrame
  BY <1>5 DEF ReadIds, BackedUp, Compare, Look, VerbFrame, groupVars, TypeOK,
       GroupTypeOK
<1>6. CASE PullImages /\ VerbFrame
  BY <1>6, CommandTypes DEF PullImages, TypeOK
<1>7. CASE (RecreateAll \/ RecreatePrevious) /\ VerbFrame
  BY <1>7, CommandTypes DEF RecreateAll, RecreatePrevious, TypeOK
<1>8. CASE Count /\ VerbFrame
  BY <1>8 DEF Count, VerbFrame, TypeOK, GroupTypeOK
<1>9. CASE RetagPrevious /\ VerbFrame
  <2>1. PICK S \in SUBSET DOMAIN previous : Retag([i \in S |-> previous[i]])
    BY <1>9 DEF RetagPrevious
  <2>2. [i \in S |-> previous[i]] \in [S -> Versions] /\ S \in SUBSET Images
    BY KeptIds DEF TypeOK, UpdateTypeOK
  <2> QED
    BY <2>1, <2>2, CommandTypes DEF TypeOK
<1>10. ASSUME NEW w \in Workers, Dump(w) \/ Pack(w), BackupFrame(w) PROVE
     GroupTypeOK'
  BY <1>10 DEF Dump, Pack, BackupFrame, Step, groupVars, TypeOK, GroupTypeOK
<1>11. ASSUME NEW w \in Workers, StopForArchive(w) \/ StartAgain(w),
     BackupFrame(w) PROVE GroupTypeOK'
  BY <1>11, CommandTypes DEF StopForArchive, StartAgain, TypeOK
<1>12. CASE OwnerPutsBack
  BY <1>12 DEF OwnerPutsBack, PutBack, TypeOK, GroupTypeOK
<1>13. CASE EngineStep
  BY <1>13 DEF EngineStep, Rise, Crash, TypeOK, GroupTypeOK
<1> QED
  BY <1>1, <1>2, <1>3, <1>4, <1>5, <1>6, <1>7, <1>8, <1>9, <1>10, <1>11, <1>12,
       <1>13, Steps

LEMMA NextBackupType == TypeOK /\ [Next]_vars => BackupTypeOK'
<1> SUFFICES ASSUME TypeOK, [Next]_vars PROVE BackupTypeOK'
  OBVIOUS
<1>1. CASE UpdateContainerGroup \/ RunContainerGroupBackup \/
     RemoveContainerGroup \/ ControlContainerGroup
  BY <1>1 DEF UpdateContainerGroup, RunContainerGroupBackup,
       RemoveContainerGroup, ControlContainerGroup, Claim, backupVars, TypeOK,
       BackupTypeOK, Workers, Ended
<1>2. CASE UpdateOver \/ BackupOver \/ RunControl \/ RunRemoval
  BY <1>2 DEF UpdateOver, BackupOver, RunControl, RunRemoval, Release, TypeOK,
       BackupTypeOK, Workers, Ended
<1>3. CASE PassBegins \/ OwnerPutsBack \/ EngineStep \/ UNCHANGED vars
  BY <1>3 DEF PassBegins, OwnerPutsBack, EngineStep, vars, backupVars, TypeOK,
       BackupTypeOK, Workers, Ended
<1>4. ASSUME NEW on \in BOOLEAN, SetSchedule(on) PROVE BackupTypeOK'
  BY <1>4 DEF SetSchedule, backupVars, TypeOK, BackupTypeOK, Workers, Ended
<1>5. CASE PassReaches \/ PassRecords \/ AgentDies
  BY <1>5 DEF PassReaches, PassRecords, AgentDies, TypeOK, BackupTypeOK,
       Workers, Ended
<1>6. CASE ReadIds /\ VerbFrame
  BY <1>6 DEF ReadIds, VerbFrame, TypeOK, BackupTypeOK, Workers, Ended
<1>7. CASE (BackedUp \/ PullImages \/ Compare \/ RecreateAll \/ Look \/ Count
     \/ RetagPrevious \/ RecreatePrevious) /\ VerbFrame
  BY <1>7 DEF BackedUp, PullImages, Compare, RecreateAll, Look, Count,
       RetagPrevious, RecreatePrevious, VerbFrame, backupVars, TypeOK,
       BackupTypeOK, Workers, Ended
<1>8. ASSUME NEW w \in Workers, Dump(w) \/ StopForArchive(w) \/ Pack(w) \/
     StartAgain(w), BackupFrame(w) PROVE BackupTypeOK'
  <2>1. PICK next \in {"stopping", "packing", "packed", "unpacked"} \cup Ended : Step(w, next)
    BY <1>8 DEF Dump, StopForArchive, Pack, StartAgain, Ended
  <2>2. plan' = plan /\ together' = together
    BY <1>8 DEF Dump, StopForArchive, Pack, StartAgain
  <2> QED
    BY <2>1, <2>2 DEF Step, TypeOK, BackupTypeOK
<1> QED
  BY <1>1, <1>2, <1>3, <1>4, <1>5, <1>6, <1>7, <1>8, Steps

LEMMA AgainTypes ==
    ASSUME TypeOK, NEW n \in 0..2, NEW S \in SUBSET Images, NEW slow, Again(n, S, slow)
    PROVE  WatchTypeOK'
<1>1. looks \in 0..MaxLooks - 1
  BY DEF TypeOK, UpdateTypeOK, WatchTypeOK
<1>2. /\ 0 \in 0..2 /\ 0 \in 0..MaxLooks - 1
      /\ looks + 1 # MaxLooks => looks + 1 \in 0..MaxLooks - 1
  BY <1>1, UpdateAssumption
<1>3. \/ shown' = {} /\ counted' = {} /\ clean' = 0 /\ looks' = 0
      \/ looks + 1 # MaxLooks /\ shown' = {} /\ counted' = S /\ clean' = n /\ looks' = looks + 1
  BY DEF Again, WatchOver
<1> QED
  BY <1>2, <1>3 DEF WatchTypeOK

LEMMA WatchOverTypes == WatchOver => WatchTypeOK'
  BY UpdateAssumption DEF WatchOver, WatchTypeOK

LEMMA NextWatchType == TypeOK /\ [Next]_vars => WatchTypeOK'
<1> SUFFICES ASSUME TypeOK, [Next]_vars PROVE WatchTypeOK'
  OBVIOUS
<1>1. CASE UpdateContainerGroup \/ RunContainerGroupBackup \/
     RemoveContainerGroup \/ ControlContainerGroup \/ BackupOver \/ RunControl
     \/ RunRemoval \/ PassBegins \/ PassReaches \/ PassRecords \/ OwnerPutsBack
     \/ UNCHANGED vars \/ EngineStep
  BY <1>1 DEF UpdateContainerGroup, RunContainerGroupBackup,
       RemoveContainerGroup, ControlContainerGroup, BackupOver, RunControl,
       RunRemoval, PassBegins, PassReaches, PassRecords, OwnerPutsBack,
       EngineStep, vars, updateVars, watchVars, TypeOK, UpdateTypeOK,
       WatchTypeOK
<1>2. ASSUME NEW on \in BOOLEAN, SetSchedule(on) PROVE WatchTypeOK'
  BY <1>2 DEF SetSchedule, updateVars, watchVars, TypeOK, UpdateTypeOK,
       WatchTypeOK
<1>3. CASE UpdateOver \/ AgentDies
  BY <1>3, WatchOverTypes DEF UpdateOver, AgentDies, ForgetUpdate, WatchOver
<1>4. CASE (ReadIds \/ BackedUp \/ Compare \/ PullImages \/ RecreateAll \/
     RetagPrevious \/ RecreatePrevious) /\ VerbFrame
  BY <1>4 DEF ReadIds, BackedUp, Compare, PullImages, RecreateAll,
       RetagPrevious, RecreatePrevious, VerbFrame, watchVars, TypeOK,
       UpdateTypeOK, WatchTypeOK
<1>5. CASE Look /\ VerbFrame
  <2>1. PICK slow \in BOOLEAN :
          \/ WatchOver
          \/ shown' = Up /\ UNCHANGED <<counted, clean, looks>>
          \/ Again(0, {}, slow)
    BY <1>5 DEF Look
  <2>2. CASE WatchOver
    BY <2>2, WatchOverTypes
  <2>3. CASE shown' = Up /\ UNCHANGED <<counted, clean, looks>>
    BY <2>3 DEF Up, TypeOK, UpdateTypeOK, WatchTypeOK
  <2>4. CASE Again(0, {}, slow)
    <3>1. 0 \in 0..2 /\ {} \in SUBSET Images
      OBVIOUS
    <3> QED
      BY <2>4, <3>1, AgainTypes
  <2> QED
    BY <2>1, <2>2, <2>3, <2>4
<1>6. CASE Count /\ VerbFrame
  <2>1. PICK read \in BOOLEAN, slow \in BOOLEAN :
          \/ WatchOver
          \/ clean # 2 /\ Again(clean + 1, IF read THEN shown ELSE {}, slow)
    <3>1. PICK read \in BOOLEAN, slow \in BOOLEAN :
            IF clean > 0 /\ ((IF read THEN shown ELSE {}) # counted \/ moved \cap counted # {})
            THEN RollBack /\ WatchOver
            ELSE IF clean = 2 THEN End("updated") /\ WatchOver
            ELSE Again(clean + 1, IF read THEN shown ELSE {}, slow)
      BY <1>6 DEF Count
    <3> QED
      BY <3>1
  <2>2. clean # 2 => clean + 1 \in 0..2
    <3>1. clean \in 0..2
      BY DEF TypeOK, UpdateTypeOK, WatchTypeOK
    <3> QED
      BY <3>1
  <2>3. (IF read THEN shown ELSE {}) \in SUBSET Images
    BY DEF TypeOK, UpdateTypeOK, WatchTypeOK
  <2> QED
    BY <2>1, <2>2, <2>3, AgainTypes, WatchOverTypes
<1>7. ASSUME NEW w \in Workers, Dump(w) \/ StopForArchive(w) \/ Pack(w) \/
     StartAgain(w), BackupFrame(w) PROVE WatchTypeOK'
  BY <1>7 DEF Dump, StopForArchive, Pack, StartAgain, BackupFrame, Step,
       updateVars, watchVars, TypeOK, UpdateTypeOK, WatchTypeOK
<1> QED
  BY <1>1, <1>2, <1>3, <1>4, <1>5, <1>6, <1>7, Steps

PlainTypeOK ==
    /\ stage \in {"none", "ids", "saving", "pull", "compare", "up", "look", "count",
                  "retag", "reup", "over"}
    /\ skip \in BOOLEAN
    /\ previous \in Ids
    /\ report \in {"none", "updated", "current", "rolled back", "failed"}
    /\ warned \subseteq Images
    /\ mishap \in BOOLEAN /\ crashed \in BOOLEAN

LEMMA NextPlainType == TypeOK /\ [Next]_vars => PlainTypeOK'
<1> SUFFICES ASSUME TypeOK, [Next]_vars PROVE PlainTypeOK'
  OBVIOUS
<1>1. CASE UpdateContainerGroup
  BY <1>1 DEF UpdateContainerGroup, Claim, updateVars, TypeOK, UpdateTypeOK,
       PlainTypeOK
<1>2. CASE RunContainerGroupBackup \/ RemoveContainerGroup \/
     ControlContainerGroup \/ BackupOver \/ RunControl \/ RunRemoval \/
     PassBegins \/ PassReaches \/ PassRecords \/ OwnerPutsBack \/ UNCHANGED
     vars
  BY <1>2 DEF RunContainerGroupBackup, RemoveContainerGroup,
       ControlContainerGroup, BackupOver, RunControl, RunRemoval, PassBegins,
       PassReaches, PassRecords, OwnerPutsBack, vars, updateVars, TypeOK,
       UpdateTypeOK, PlainTypeOK
<1>3. ASSUME NEW on \in BOOLEAN, SetSchedule(on) PROVE PlainTypeOK'
  BY <1>3 DEF SetSchedule, updateVars, TypeOK, UpdateTypeOK, PlainTypeOK
<1>4. CASE EngineStep
  BY <1>4 DEF EngineStep, updateVars, TypeOK, UpdateTypeOK, PlainTypeOK
<1>5. CASE UpdateOver \/ AgentDies
  <2>1. NoIds \in Ids
    BY KeptIds
  <2> QED
    BY <1>5, <2>1 DEF UpdateOver, AgentDies, ForgetUpdate, PlainTypeOK
<1>6. CASE ReadIds /\ VerbFrame
  <2>1. previous' \in Ids
    BY <1>6, KeptIds DEF ReadIds, TypeOK, GroupTypeOK
  <2> QED
    BY <1>6, <2>1 DEF ReadIds, TypeOK, UpdateTypeOK, PlainTypeOK
<1>7. CASE (BackedUp \/ Compare \/ PullImages \/ RecreateAll) /\ VerbFrame
  BY <1>7 DEF BackedUp, Compare, PullImages, RecreateAll, VerbFrame, RollBack,
       End, updateVars, TypeOK, UpdateTypeOK, PlainTypeOK
<1>8. CASE Look /\ VerbFrame
  BY <1>8 DEF Look, VerbFrame, Again, RollBack, End, updateVars, TypeOK,
       UpdateTypeOK, PlainTypeOK
<1>9. CASE Count /\ VerbFrame
  BY <1>9 DEF Count, VerbFrame, Again, RollBack, End, updateVars, TypeOK,
       UpdateTypeOK, PlainTypeOK
<1>10. CASE RetagPrevious /\ VerbFrame
  <2>1. warned' \subseteq Images
    BY <1>10, KeptIds DEF RetagPrevious, TypeOK, UpdateTypeOK
  <2> QED
    BY <1>10, <2>1 DEF RetagPrevious, TypeOK, UpdateTypeOK, PlainTypeOK
<1>11. CASE RecreatePrevious /\ VerbFrame
  BY <1>11 DEF RecreatePrevious, VerbFrame, End, updateVars, TypeOK,
       UpdateTypeOK, PlainTypeOK
<1>12. ASSUME NEW w \in Workers, Dump(w) \/ StopForArchive(w) \/ Pack(w) \/
     StartAgain(w), BackupFrame(w) PROVE PlainTypeOK'
  BY <1>12 DEF Dump, StopForArchive, Pack, StartAgain, BackupFrame, Step,
       updateVars, TypeOK, UpdateTypeOK, PlainTypeOK
<1> QED
  BY <1>1, <1>2, <1>3, <1>4, <1>5, <1>6, <1>7, <1>8, <1>9, <1>10, <1>11, <1>12,
       Steps

RowsTypeOK ==
    /\ verb \in Verbs \cup {"none"}
    /\ scheduled \in BOOLEAN
    /\ lastRun \in {"never", "once"}
    /\ pass \in {"sleeping", "queued", "saving"}
    /\ left \in BOOLEAN

LEMMA NextRowsType == TypeOK /\ [Next]_vars => RowsTypeOK'
<1> SUFFICES ASSUME TypeOK, [Next]_vars PROVE RowsTypeOK'
  OBVIOUS
<1>1. CASE UpdateContainerGroup \/ RunContainerGroupBackup \/
     RemoveContainerGroup \/ ControlContainerGroup
  BY <1>1 DEF UpdateContainerGroup, RunContainerGroupBackup,
       RemoveContainerGroup, ControlContainerGroup, Claim, rowVars, TypeOK,
       RowsTypeOK, Verbs
<1>2. CASE UpdateOver
  BY <1>2 DEF UpdateOver, Release, UpdateTypeOK, rowVars, TypeOK, RowsTypeOK,
       Verbs
<1>3. CASE BackupOver \/ RunControl \/ RunRemoval
  BY <1>3 DEF BackupOver, RunControl, RunRemoval, Release, rowVars, TypeOK,
       RowsTypeOK, Verbs
<1>4. CASE PassBegins \/ OwnerPutsBack \/ PassReaches \/ PassRecords \/
     UNCHANGED vars
  BY <1>4 DEF PassBegins, OwnerPutsBack, PassReaches, PassRecords, vars,
       rowVars, TypeOK, RowsTypeOK, Verbs
<1>5. CASE AgentDies
  BY <1>5 DEF AgentDies, rowVars, TypeOK, RowsTypeOK, Verbs
<1>6. CASE EngineStep
  BY <1>6 DEF EngineStep, rowVars, TypeOK, RowsTypeOK, Verbs
<1>7. ASSUME NEW on \in BOOLEAN, SetSchedule(on) PROVE RowsTypeOK'
  BY <1>7 DEF SetSchedule, rowVars, TypeOK, RowsTypeOK, Verbs
<1>8. CASE (ReadIds \/ BackedUp \/ PullImages \/ Compare \/ RecreateAll \/ Look
     \/ Count \/ RetagPrevious \/ RecreatePrevious) /\ VerbFrame
  BY <1>8 DEF VerbFrame, rowVars, TypeOK, RowsTypeOK, Verbs
<1>9. ASSUME NEW w \in Workers, Dump(w) \/ StopForArchive(w) \/ Pack(w) \/
     StartAgain(w), BackupFrame(w) PROVE RowsTypeOK'
  BY <1>9 DEF BackupFrame, rowVars, TypeOK, RowsTypeOK, Verbs
<1> QED
  BY <1>1, <1>2, <1>3, <1>4, <1>5, <1>6, <1>7, <1>8, <1>9, Steps

LEMMA NextTypeOK == TypeOK /\ [Next]_vars => TypeOK'
<1> SUFFICES ASSUME TypeOK, [Next]_vars PROVE TypeOK'
  OBVIOUS
<1>1. GroupTypeOK' /\ BackupTypeOK' /\ WatchTypeOK' /\ PlainTypeOK'
  BY NextGroupType, NextBackupType, NextWatchType, NextPlainType
<1>2. RowsTypeOK'
  BY NextRowsType
<1> QED
  BY <1>1, <1>2 DEF TypeOK, UpdateTypeOK, PlainTypeOK, RowsTypeOK

LEMMA InitTypeOK == Init => TypeOK
<1> SUFFICES ASSUME Init PROVE TypeOK
  OBVIOUS
<1>1. GroupTypeOK
  BY GroupAssumption DEF Init, GroupInit, GroupTypeOK, Versions
<1>2. BackupTypeOK
  BY DEF Init, BackupInit, BackupTypeOK
<1>3. UpdateTypeOK
  <2>1. NoIds \in Ids
    BY KeptIds
  <2>2. PlainTypeOK
    BY <2>1 DEF Init, UpdateInit, PlainTypeOK
  <2>3. WatchTypeOK
    BY UpdateAssumption DEF Init, UpdateInit, WatchTypeOK
  <2> QED
    BY <2>2, <2>3 DEF UpdateTypeOK, PlainTypeOK
<1> QED
  BY <1>1, <1>2, <1>3 DEF Init, TypeOK

(* Every variable keeps its type.                                          *)
THEOREM TypeCorrect == Spec => []TypeOK
  BY InitTypeOK, NextTypeOK, PTL DEF Spec

-----------------------------------------------------------------------------
(* The claim                                                               *)

LEMMA NextClaimInv == TypeOK /\ ClaimInv /\ [Next]_vars => ClaimInv'
<1> SUFFICES ASSUME TypeOK /\ ClaimInv, [Next]_vars PROVE ClaimInv'
  OBVIOUS
<1>1. CASE UpdateContainerGroup
  BY <1>1 DEF UpdateContainerGroup, Claim, There, groupVars, InBackup, Ended,
       TypeOK, BackupTypeOK, Workers, ClaimInv
<1>2. CASE RunContainerGroupBackup \/ ControlContainerGroup \/
     RemoveContainerGroup
  BY <1>2 DEF RunContainerGroupBackup, ControlContainerGroup,
       RemoveContainerGroup, Claim, There, groupVars, updateVars, InBackup,
       Ended, TypeOK, BackupTypeOK, Workers, ClaimInv
<1>3. CASE UpdateOver \/ BackupOver \/ RunControl \/ RunRemoval
  BY <1>3 DEF UpdateOver, BackupOver, RunControl, RunRemoval, Release,
       ForgetUpdate, updateVars, At, InBackup, Ended, TypeOK, BackupTypeOK,
       Workers, ClaimInv
<1>4. CASE AgentDies
  BY <1>4 DEF AgentDies, ForgetUpdate, InBackup, Ended, TypeOK, BackupTypeOK,
       Workers, ClaimInv
<1>5. CASE PassBegins \/ PassReaches \/ PassRecords
  BY <1>5 DEF PassBegins, PassReaches, PassRecords, There, groupVars,
       backupVars, updateVars, InBackup, Ended, TypeOK, BackupTypeOK, Workers,
       ClaimInv
<1>6. ASSUME NEW on \in BOOLEAN, SetSchedule(on) PROVE ClaimInv'
  BY <1>6 DEF SetSchedule, There, groupVars, backupVars, updateVars, InBackup,
       Ended, TypeOK, BackupTypeOK, Workers, ClaimInv
<1>7. CASE OwnerPutsBack
  BY <1>7 DEF OwnerPutsBack, PutBack, There, backupVars, updateVars, InBackup,
       Ended, TypeOK, BackupTypeOK, Workers, ClaimInv
<1>8. CASE EngineStep
  <2>1. There' = There
    BY <1>8 DEF EngineStep, Rise, Crash, There, TypeOK, GroupTypeOK
  <2>2. UNCHANGED <<save, together, stage, verb, pass>>
    BY <1>8 DEF EngineStep, backupVars
  <2> QED
    BY <2>1, <2>2 DEF ClaimInv, InBackup
<1>9. CASE UNCHANGED vars
  BY <1>9 DEF vars, There, groupVars, backupVars, updateVars, InBackup, Ended,
       TypeOK, BackupTypeOK, Workers, ClaimInv
<1>10. CASE (ReadIds \/ BackedUp \/ Compare) /\ VerbFrame
  BY <1>10 DEF ReadIds, BackedUp, Compare, VerbFrame, At, End, There,
       groupVars, backupVars, InBackup, Ended, TypeOK, BackupTypeOK, Workers,
       ClaimInv
<1>11. CASE (PullImages \/ RetagPrevious) /\ VerbFrame
  BY <1>11 DEF PullImages, RetagPrevious, VerbFrame, At, Pull, Retag, End,
       There, backupVars, InBackup, Ended, TypeOK, BackupTypeOK, Workers,
       ClaimInv
<1>12. CASE RecreateAll /\ VerbFrame
  BY <1>12 DEF RecreateAll, VerbFrame, At, Recreate, RollBack, End, There,
       backupVars, InBackup, Ended, TypeOK, BackupTypeOK, Workers, ClaimInv
<1>13. CASE RecreatePrevious /\ VerbFrame
  BY <1>13 DEF RecreatePrevious, VerbFrame, At, Recreate, End, There,
       backupVars, InBackup, Ended, TypeOK, BackupTypeOK, Workers, ClaimInv
<1>14. CASE Look /\ VerbFrame
  BY <1>14 DEF Look, VerbFrame, At, Again, RollBack, End, There, groupVars,
       backupVars, InBackup, Ended, TypeOK, BackupTypeOK, Workers, ClaimInv
<1>15. CASE Count /\ VerbFrame
  BY <1>15 DEF Count, VerbFrame, At, Again, RollBack, End, There, backupVars,
       InBackup, Ended, TypeOK, BackupTypeOK, Workers, ClaimInv
<1>16. ASSUME NEW w \in Workers, Dump(w) \/ Pack(w), BackupFrame(w) PROVE
     ClaimInv'
  BY <1>16 DEF Dump, Pack, BackupFrame, Step, There, groupVars, updateVars,
       InBackup, Ended, TypeOK, BackupTypeOK, Workers, ClaimInv
<1>17. ASSUME NEW w \in Workers, StopForArchive(w) \/ StartAgain(w),
     BackupFrame(w) PROVE ClaimInv'
  BY <1>17 DEF StopForArchive, StartAgain, BackupFrame, Step, Stop, Start,
       There, updateVars, InBackup, Ended, TypeOK, BackupTypeOK, Workers,
       ClaimInv
<1> QED
  BY <1>1, <1>2, <1>3, <1>4, <1>5, <1>6, <1>7, <1>8, <1>9, <1>10, <1>11, <1>12,
       <1>13, <1>14, <1>15, <1>16, <1>17, Steps

-----------------------------------------------------------------------------
(* The archive before the pull                                             *)

LEMMA NextSavedInv == TypeOK /\ ClaimInv /\ SavedInv /\ [Next]_vars => SavedInv'
<1> SUFFICES ASSUME TypeOK /\ ClaimInv /\ SavedInv, [Next]_vars PROVE SavedInv'
  OBVIOUS
<1>1. CASE UpdateContainerGroup
  BY <1>1 DEF UpdateContainerGroup, Claim, Accepts, NothingPulledUnsaved,
       Pulling, InBackup, Ended, TypeOK, BackupTypeOK, Workers, ClaimInv,
       SavedInv
<1>2. CASE RunContainerGroupBackup \/ ControlContainerGroup \/
     RemoveContainerGroup
  BY <1>2 DEF RunContainerGroupBackup, ControlContainerGroup,
       RemoveContainerGroup, Claim, updateVars, NothingPulledUnsaved, Pulling,
       InBackup, Ended, TypeOK, BackupTypeOK, Workers, ClaimInv, SavedInv
<1>3. CASE UpdateOver \/ BackupOver \/ RunControl \/ RunRemoval
  BY <1>3 DEF UpdateOver, BackupOver, RunControl, RunRemoval, Release,
       ForgetUpdate, updateVars, At, NothingPulledUnsaved, Pulling, InBackup,
       Ended, TypeOK, BackupTypeOK, Workers, ClaimInv, SavedInv
<1>4. CASE AgentDies
  BY <1>4 DEF AgentDies, ForgetUpdate, NothingPulledUnsaved, Pulling, InBackup,
       Ended, TypeOK, BackupTypeOK, Workers, ClaimInv, SavedInv
<1>5. CASE PassBegins \/ PassReaches \/ PassRecords \/ OwnerPutsBack
  BY <1>5 DEF PassBegins, PassReaches, PassRecords, OwnerPutsBack, backupVars,
       updateVars, NothingPulledUnsaved, Pulling, InBackup, Ended, TypeOK,
       BackupTypeOK, Workers, ClaimInv, SavedInv
<1>6. ASSUME NEW on \in BOOLEAN, SetSchedule(on) PROVE SavedInv'
  BY <1>6 DEF SetSchedule, backupVars, updateVars, NothingPulledUnsaved,
       Pulling, InBackup, Ended, TypeOK, BackupTypeOK, Workers, ClaimInv,
       SavedInv
<1>7. CASE EngineStep
  BY <1>7 DEF EngineStep, backupVars, NothingPulledUnsaved, Pulling, InBackup,
       Ended, TypeOK, BackupTypeOK, Workers, ClaimInv, SavedInv
<1>8. CASE UNCHANGED vars
  BY <1>8 DEF vars, backupVars, updateVars, NothingPulledUnsaved, Pulling,
       InBackup, Ended, TypeOK, BackupTypeOK, Workers, ClaimInv, SavedInv
<1>9. CASE ReadIds /\ VerbFrame
  BY <1>9 DEF ReadIds, VerbFrame, At, NothingPulledUnsaved, Pulling, InBackup,
       Ended, TypeOK, BackupTypeOK, Workers, ClaimInv, SavedInv
<1>10. CASE (BackedUp \/ Compare) /\ VerbFrame
  BY <1>10 DEF BackedUp, Compare, VerbFrame, At, End, backupVars,
       NothingPulledUnsaved, Pulling, InBackup, Ended, TypeOK, BackupTypeOK,
       Workers, ClaimInv, SavedInv
<1>11. CASE PullImages /\ VerbFrame
  BY <1>11 DEF PullImages, VerbFrame, At, End, backupVars,
       NothingPulledUnsaved, Pulling, InBackup, Ended, TypeOK, BackupTypeOK,
       Workers, ClaimInv, SavedInv
<1>12. CASE RecreateAll /\ VerbFrame
  BY <1>12 DEF RecreateAll, VerbFrame, At, RollBack, End, backupVars,
       NothingPulledUnsaved, Pulling, InBackup, Ended, TypeOK, BackupTypeOK,
       Workers, ClaimInv, SavedInv
<1>13. CASE RetagPrevious /\ VerbFrame
  BY <1>13 DEF RetagPrevious, VerbFrame, At, backupVars, NothingPulledUnsaved,
       Pulling, InBackup, Ended, TypeOK, BackupTypeOK, Workers, ClaimInv,
       SavedInv
<1>14. CASE RecreatePrevious /\ VerbFrame
  BY <1>14 DEF RecreatePrevious, VerbFrame, At, End, backupVars,
       NothingPulledUnsaved, Pulling, InBackup, Ended, TypeOK, BackupTypeOK,
       Workers, ClaimInv, SavedInv
<1>15. CASE (Look \/ Count) /\ VerbFrame
  BY <1>15 DEF Look, Count, VerbFrame, At, Again, RollBack, End, backupVars,
       NothingPulledUnsaved, Pulling, InBackup, Ended, TypeOK, BackupTypeOK,
       Workers, ClaimInv, SavedInv
<1>16. ASSUME NEW w \in Workers, Dump(w) \/ Pack(w), BackupFrame(w) PROVE
     SavedInv'
  BY <1>16 DEF Dump, Pack, BackupFrame, Step, updateVars, NothingPulledUnsaved,
       Pulling, InBackup, Ended, TypeOK, BackupTypeOK, Workers, ClaimInv,
       SavedInv
<1>17. ASSUME NEW w \in Workers, StopForArchive(w) \/ StartAgain(w),
     BackupFrame(w) PROVE SavedInv'
  BY <1>17 DEF StopForArchive, StartAgain, BackupFrame, Step, updateVars,
       NothingPulledUnsaved, Pulling, InBackup, Ended, TypeOK, BackupTypeOK,
       Workers, ClaimInv, SavedInv
<1> QED
  BY <1>1, <1>2, <1>3, <1>4, <1>5, <1>6, <1>7, <1>8, <1>9, <1>10, <1>11, <1>12,
       <1>13, <1>14, <1>15, <1>16, <1>17, Steps

-----------------------------------------------------------------------------
(* A worker alone with the group                                           *)

LEMMA NextAloneInv == TypeOK /\ ClaimInv /\ SavedInv /\ AloneInv /\ [Next]_vars => AloneInv'
<1> SUFFICES ASSUME TypeOK /\ ClaimInv /\ SavedInv /\ AloneInv, [Next]_vars PROVE AloneInv'
  OBVIOUS
<1>1. CASE UpdateContainerGroup \/ RunContainerGroupBackup \/
     ControlContainerGroup \/ RemoveContainerGroup
  BY <1>1 DEF UpdateContainerGroup, RunContainerGroupBackup,
       ControlContainerGroup, RemoveContainerGroup, Claim, There, groupVars,
       InBackup, Ended, TypeOK, BackupTypeOK, Workers, ClaimInv, AloneInv
<1>2. CASE UpdateOver
  BY <1>2 DEF UpdateOver, At, Release, There, InBackup, Ended, TypeOK,
       BackupTypeOK, Workers, ClaimInv, AloneInv
<1>3. CASE BackupOver
  BY <1>3 DEF BackupOver, Release, There, groupVars, InBackup, Ended, TypeOK,
       BackupTypeOK, Workers, ClaimInv, AloneInv
<1>4. CASE RunControl
  BY <1>4 DEF RunControl, Release, Stop, Start, There, InBackup, Ended, TypeOK,
       BackupTypeOK, Workers, ClaimInv, AloneInv
<1>5. CASE RunRemoval
  BY <1>5 DEF RunRemoval, Release, Remove, There, InBackup, Ended, TypeOK,
       BackupTypeOK, Workers, ClaimInv, AloneInv
<1>6. CASE AgentDies
  BY <1>6 DEF AgentDies, InBackup, Ended, TypeOK, BackupTypeOK, Workers,
       ClaimInv, AloneInv
<1>7. CASE PassBegins \/ PassReaches \/ PassRecords
  BY <1>7 DEF PassBegins, PassReaches, PassRecords, There, groupVars,
       backupVars, InBackup, Ended, TypeOK, BackupTypeOK, Workers, ClaimInv,
       AloneInv
<1>8. CASE OwnerPutsBack
  BY <1>8 DEF OwnerPutsBack, PutBack, There, backupVars, InBackup, Ended,
       TypeOK, BackupTypeOK, Workers, ClaimInv, AloneInv
<1>9. ASSUME NEW on \in BOOLEAN, SetSchedule(on) PROVE AloneInv'
  BY <1>9 DEF SetSchedule, There, groupVars, backupVars, InBackup, Ended,
       TypeOK, BackupTypeOK, Workers, ClaimInv, AloneInv
<1>10. CASE EngineStep
  <2>1. There' = There
    BY <1>10 DEF EngineStep, Rise, Crash, There, TypeOK, GroupTypeOK
  <2>2. /\ UNCHANGED <<plan, save, together>>
        /\ \E i \in Images : \E end \in {"restarting", "exited", "running"} :
              state[i] \in {"running", "restarting"} /\ state' = [state EXCEPT ![i] = end]
    BY <1>10 DEF EngineStep, backupVars, Rise, Crash
  <2>3. state \in [Images -> {"none", "stopped", "exited", "running", "restarting"}]
    BY DEF TypeOK, GroupTypeOK
  <2> QED
    BY <2>1, <2>2, <2>3 DEF AloneInv, InBackup
<1>11. CASE UNCHANGED vars
  BY <1>11 DEF vars, There, groupVars, backupVars, InBackup, Ended, TypeOK,
       BackupTypeOK, Workers, ClaimInv, AloneInv
<1>12. CASE ReadIds /\ VerbFrame
  BY <1>12 DEF ReadIds, VerbFrame, At, There, groupVars, InBackup, Ended,
       TypeOK, BackupTypeOK, Workers, ClaimInv, AloneInv
<1>13. CASE (BackedUp \/ Compare \/ Look) /\ VerbFrame
  BY <1>13 DEF BackedUp, Compare, Look, VerbFrame, There, groupVars,
       backupVars, InBackup, Ended, TypeOK, BackupTypeOK, Workers, ClaimInv,
       AloneInv
<1>14. CASE (PullImages \/ RetagPrevious) /\ VerbFrame
  BY <1>14 DEF PullImages, RetagPrevious, VerbFrame, Pull, Retag, There,
       backupVars, InBackup, Ended, TypeOK, BackupTypeOK, Workers, ClaimInv,
       AloneInv
<1>15. CASE (RecreateAll \/ RecreatePrevious) /\ VerbFrame
  <2>1. PICK S \in SUBSET Images : Recreate(S)
    BY <1>15 DEF RecreateAll, RecreatePrevious
  <2>2. /\ verb = "update" /\ stage \in {"up", "reup"}
        /\ UNCHANGED <<plan, save, together>>
    BY <1>15 DEF RecreateAll, RecreatePrevious, At, backupVars
  <2>3. \A w \in Workers \ together : save[w] # "packing" /\ ~InBackup(w)
    BY <2>2 DEF ClaimInv, InBackup, Workers, Ended
  <2> QED
    BY <2>1, <2>2, <2>3 DEF Recreate, AloneInv, InBackup, TypeOK, GroupTypeOK
<1>16. CASE Count /\ VerbFrame
  BY <1>16 DEF Count, VerbFrame, There, backupVars, InBackup, Ended, TypeOK,
       BackupTypeOK, Workers, ClaimInv, AloneInv
<1>17. ASSUME NEW w \in Workers, Dump(w) \/ Pack(w), BackupFrame(w) PROVE
     AloneInv'
  BY <1>17 DEF Dump, Pack, BackupFrame, Step, There, groupVars, InBackup,
       Ended, TypeOK, BackupTypeOK, Workers, ClaimInv, AloneInv
<1>18. ASSUME NEW w \in Workers, StopForArchive(w), BackupFrame(w) PROVE
     AloneInv'
  <2>1. PICK S \in SUBSET Images, next \in {"packing", "stuck"} :
          Stop(S) /\ Step(w, next) /\ (next = "packing" => S = Images)
    BY <1>18 DEF StopForArchive
  <2>2. save[w] = "stopping" /\ UNCHANGED <<plan, together>>
    BY <1>18 DEF StopForArchive
  <2>3. /\ \A v \in Workers : v # w => save'[v] = save[v]
        /\ save'[w] = next
    BY <2>1 DEF Step, TypeOK, BackupTypeOK, Ended
  <2>4. There' = There
    BY <2>1 DEF Stop, There, TypeOK, GroupTypeOK
  <2>5. \A v \in Workers \ together : InBackup(v)' => There # {}
    BY <2>2, <2>3 DEF AloneInv, InBackup, Ended
  <2>6. \A v \in Workers \ together : v # w => ~InBackup(v) /\ save[v] \notin {"saved", "unsaved"}
    <3>1. CASE w = "verb"
      BY <2>2, <3>1 DEF ClaimInv, InBackup, Workers, Ended
    <3>2. CASE w = "pass"
      BY <1>18, <2>2, <3>2 DEF ClaimInv, BackupFrame, InBackup, Workers, Ended
    <3> QED
      BY <3>1, <3>2 DEF Workers
  <2> QED
    BY <2>1, <2>2, <2>3, <2>4, <2>5, <2>6 DEF AloneInv, Stop, There, TypeOK,
         GroupTypeOK
<1>19. ASSUME NEW w \in Workers, StartAgain(w), BackupFrame(w) PROVE AloneInv'
  BY <1>19 DEF StartAgain, BackupFrame, Step, Start, There, InBackup, Ended,
       TypeOK, BackupTypeOK, Workers, ClaimInv, AloneInv
<1> QED
  BY <1>1, <1>2, <1>3, <1>4, <1>5, <1>6, <1>7, <1>8, <1>9, <1>10, <1>11, <1>12,
       <1>13, <1>14, <1>15, <1>16, <1>17, <1>18, <1>19, Steps

-----------------------------------------------------------------------------
(* The watch                                                               *)

LEMMA NextWatchInv == TypeOK /\ ClaimInv /\ WatchInv /\ [Next]_vars => WatchInv'
<1> SUFFICES ASSUME TypeOK /\ ClaimInv /\ WatchInv, [Next]_vars PROVE WatchInv'
  OBVIOUS
<1>1. CASE UpdateContainerGroup
  <2>1. /\ stage = "none" /\ stage' = "ids" /\ crashed' = (Looping # {})
        /\ UNCHANGED <<groupVars, watchVars, report>>
    BY <1>1 DEF UpdateContainerGroup, Claim, ClaimInv
  <2>2. clean = 0 /\ looks = 0 /\ moved = {} /\ report = "none"
    BY <2>1 DEF WatchInv
  <2> QED
    BY <2>1, <2>2 DEF groupVars, watchVars, Looping, WatchInv
<1>2. CASE RunContainerGroupBackup \/ ControlContainerGroup \/
     RemoveContainerGroup
  BY <1>2 DEF RunContainerGroupBackup, ControlContainerGroup,
       RemoveContainerGroup, Claim, ClaimInv, Looping, groupVars, updateVars,
       watchVars, Cause, WatchInv, TypeOK, BackupTypeOK, Workers
<1>3. CASE UpdateOver \/ AgentDies
  BY <1>3 DEF UpdateOver, AgentDies, ForgetUpdate, Cause, WatchInv, TypeOK,
       BackupTypeOK, Workers
<1>4. CASE BackupOver
  BY <1>4 DEF BackupOver, Release, ClaimInv, Looping, groupVars, updateVars,
       watchVars, Cause, WatchInv, TypeOK, BackupTypeOK, Workers
<1>5. CASE RunControl \/ RunRemoval
  BY <1>5 DEF RunControl, RunRemoval, Release, Stop, Start, Remove, ClaimInv,
       updateVars, watchVars, Cause, WatchInv, TypeOK, BackupTypeOK, Workers
<1>6. CASE PassBegins \/ PassReaches \/ PassRecords
  BY <1>6 DEF PassBegins, PassReaches, PassRecords, ClaimInv, Looping,
       groupVars, backupVars, updateVars, watchVars, Cause, WatchInv, TypeOK,
       BackupTypeOK, Workers
<1>7. ASSUME NEW on \in BOOLEAN, SetSchedule(on) PROVE WatchInv'
  BY <1>7 DEF SetSchedule, Looping, groupVars, backupVars, updateVars,
       watchVars, Cause, WatchInv, TypeOK, BackupTypeOK, Workers
<1>8. CASE UNCHANGED vars
  BY <1>8 DEF vars, Looping, groupVars, backupVars, updateVars, watchVars,
       Cause, WatchInv, TypeOK, BackupTypeOK, Workers
<1>9. CASE OwnerPutsBack
  BY <1>9 DEF OwnerPutsBack, PutBack, There, ClaimInv, backupVars, updateVars,
       watchVars, Cause, WatchInv, TypeOK, BackupTypeOK, Workers
<1>10. CASE EngineStep
  <2>1. UNCHANGED <<together, stage, clean, looks, shown, counted, report, mishap, verb>>
    BY <1>10 DEF EngineStep, backupVars, watchVars
  <2>2. ASSUME NEW i \in Images, Rise(i, clean > 0), UNCHANGED crashed PROVE WatchInv'
    <3>1. i \in Looping
      BY <2>2 DEF Rise, Looping
    <3>2. stage # "none" => crashed /\ Cause'
      BY <2>2, <3>1 DEF WatchInv, Cause
    <3>3. stage = "none" => moved' = {}
      <4>1. stage = "none" => clean = 0 /\ moved = {}
        BY DEF WatchInv
      <4>2. moved' \in {moved, moved \cup {i}} /\ (~(clean > 0) => moved' = moved)
        BY <2>2 DEF Rise
      <4> QED
        BY <4>1, <4>2
    <3> QED
      BY <2>1, <2>2, <3>2, <3>3 DEF WatchInv, Cause
  <2>3. ASSUME NEW i \in Images, Crash(i), crashed' = (verb = "update") PROVE WatchInv'
    <3>1. stage # "none" => crashed' /\ Cause'
      BY <2>3 DEF ClaimInv, Cause
    <3>2. moved' = moved /\ (stage = "none" => moved = {})
      BY <2>3 DEF Crash, WatchInv
    <3> QED
      BY <2>1, <3>1, <3>2 DEF WatchInv, Cause
  <2> QED
    BY <1>10, <2>2, <2>3 DEF EngineStep
<1>11. CASE ReadIds /\ VerbFrame
  BY <1>11 DEF ReadIds, VerbFrame, At, Looping, groupVars, watchVars, Cause,
       WatchInv, TypeOK, BackupTypeOK, Workers
<1>12. CASE (BackedUp \/ Compare) /\ VerbFrame
  BY <1>12 DEF BackedUp, Compare, VerbFrame, At, End, Looping, groupVars,
       backupVars, watchVars, Cause, WatchInv, TypeOK, BackupTypeOK, Workers
<1>13. CASE PullImages /\ VerbFrame
  BY <1>13 DEF PullImages, VerbFrame, At, Pull, End, Looping, backupVars,
       watchVars, Cause, WatchInv, TypeOK, BackupTypeOK, Workers
<1>14. CASE RetagPrevious /\ VerbFrame
  BY <1>14 DEF RetagPrevious, VerbFrame, At, Retag, Looping, backupVars,
       watchVars, Cause, WatchInv, TypeOK, BackupTypeOK, Workers
<1>15. CASE RecreateAll /\ VerbFrame
  <2>1. /\ UNCHANGED <<together, watchVars, crashed, moved>>
        /\ stage = "up" /\ stage' \in {"look", "retag", "over"}
    BY <1>15 DEF RecreateAll, Recreate, RollBack, End, At, backupVars
  <2>2. PICK S \in SUBSET Images :
          /\ Recreate(S)
          /\ \/ S = Images /\ stage' = "look" /\ UNCHANGED <<report, mishap>>
             \/ RollBack /\ mishap' = TRUE
    BY <1>15 DEF RecreateAll
  <2>3. Looping' \subseteq Looping
    BY <2>2 DEF Recreate, Looping
  <2>4. Looping = {} /\ S = Images => \A i \in Images : state'[i] = "running"
    BY <2>2 DEF Recreate, Looping
  <2>5. CASE S = Images /\ stage' = "look" /\ UNCHANGED <<report, mishap>>
    <3>1. clean = 0 /\ looks = 0 /\ report = "none"
      BY <2>1 DEF WatchInv
    <3>2. ~Cause' => Looping = {}
      BY <2>1 DEF WatchInv, Cause
    <3> QED
      BY <2>1, <2>3, <2>4, <2>5, <3>1, <3>2 DEF WatchInv, watchVars
  <2>6. CASE RollBack /\ mishap' = TRUE
    BY <2>1, <2>3, <2>6 DEF RollBack, End, WatchInv, Cause, watchVars
  <2> QED
    BY <2>2, <2>5, <2>6
<1>16. CASE RecreatePrevious /\ VerbFrame
  BY <1>16 DEF RecreatePrevious, VerbFrame, At, Recreate, End, Looping,
       backupVars, watchVars, GroupTypeOK, Cause, WatchInv, TypeOK,
       BackupTypeOK, Workers
<1>17. CASE Look /\ VerbFrame
  BY <1>17 DEF Look, VerbFrame, At, Again, LooksClean, WatchOver, RollBack,
       End, Up, Looping, ClaimInv, There, groupVars, backupVars, Cause,
       WatchInv, TypeOK, BackupTypeOK, Workers
<1>18. CASE Count /\ VerbFrame
  <2>1. /\ stage = "count" /\ UNCHANGED <<state, together, crashed>>
        /\ moved' = IF clean = 0 THEN {} ELSE moved
    BY <1>18 DEF Count, At, backupVars
  <2>2. PICK read \in BOOLEAN, slow \in BOOLEAN :
          LET counts == IF read THEN shown ELSE {} IN
          /\ mishap' = (mishap \/ ~read \/ slow)
          /\ IF clean > 0 /\ (counts # counted \/ moved \cap counted # {})
             THEN RollBack /\ WatchOver
             ELSE IF clean = 2 THEN End("updated") /\ WatchOver
             ELSE Again(clean + 1, counts, slow)
    BY <1>18 DEF Count
  <2>3. clean \in 0..2
    BY DEF TypeOK, UpdateTypeOK, WatchTypeOK
  <2>4. Looping' = Looping /\ (~crashed => moved' = {})
    BY <2>1 DEF Looping, WatchInv
  <2>5. CASE Cause'
    <3>1. stage' # "none" /\ (stage' \in {"look", "count"} \/ (clean' = 0 /\ looks' = 0))
      <4>1. \/ (RollBack \/ End("updated")) /\ WatchOver
            \/ \E S : Again(clean + 1, S, slow)
        BY <2>2
      <4>2. RollBack \/ End("updated") => stage' \in {"over", "retag"}
        BY DEF RollBack, End
      <4>3. \A S : Again(clean + 1, S, slow) => stage' = "look" \/ (RollBack /\ WatchOver)
        BY DEF Again
      <4> QED
        BY <4>1, <4>2, <4>3 DEF WatchOver
    <3>2. report' # "none" => stage' = "over"
      BY <2>1, <2>2 DEF Again, RollBack, WatchOver, End, WatchInv
    <3> QED
      BY <2>1, <2>4, <2>5, <3>1, <3>2 DEF WatchInv
  <2>6. CASE ~Cause'
    <3>1. ~Cause /\ read /\ ~slow
      BY <2>1, <2>2, <2>6 DEF Cause
    <3>2. shown = Images /\ looks = clean /\ moved = {} /\ (clean > 0 => counted = Images)
      BY <2>1, <3>1 DEF WatchInv, Cause
    <3>3. clean = 2 => End("updated") /\ WatchOver
      BY <2>2, <3>1, <3>2
    <3>4. clean # 2 => Again(clean + 1, Images, slow) /\ looks + 1 # MaxLooks
      BY <2>2, <2>3, <3>1, <3>2, UpdateAssumption
    <3>5. \A i \in Images : state'[i] = "running"
      BY <2>1, <3>1 DEF WatchInv
    <3> QED
      BY <2>1, <2>3, <2>4, <3>1, <3>2, <3>3, <3>4, <3>5
         DEF Again, WatchOver, End, WatchInv
  <2> QED
    BY <2>5, <2>6
<1>19. ASSUME NEW w \in Workers, Dump(w) \/ Pack(w), BackupFrame(w) PROVE
     WatchInv'
  BY <1>19 DEF Dump, Pack, BackupFrame, Step, Looping, groupVars, updateVars,
       watchVars, Cause, WatchInv, TypeOK, BackupTypeOK, Workers
<1>20. ASSUME NEW w \in Workers, StopForArchive(w) \/ StartAgain(w),
     BackupFrame(w) PROVE WatchInv'
  <2>1. Looping' \subseteq Looping /\ UNCHANGED <<together, updateVars, moved>>
    BY <1>20 DEF StopForArchive, StartAgain, Stop, Start, Looping, BackupFrame
  <2>2. InBackup(w)
    BY <1>20 DEF StopForArchive, StartAgain, InBackup, Ended
  <2>3. stage \in {"look", "count"} => Cause
    BY <1>20, <2>2 DEF BackupFrame, ClaimInv, Cause, Workers
  <2> QED
    BY <2>1, <2>3 DEF updateVars, watchVars, WatchInv, Cause
<1> QED
  BY <1>1, <1>2, <1>3, <1>4, <1>5, <1>6, <1>7, <1>8, <1>9, <1>10, <1>11, <1>12,
       <1>13, <1>14, <1>15, <1>16, <1>17, <1>18, <1>19, <1>20, Steps

-----------------------------------------------------------------------------
(* The ids, the tags and the containers                                    *)

LEMMA NextTagInv == TypeOK /\ ClaimInv /\ WatchInv /\ TagInv /\ [Next]_vars => TagInv'
<1> SUFFICES ASSUME TypeOK /\ ClaimInv /\ WatchInv /\ TagInv, [Next]_vars PROVE TagInv'
  OBVIOUS
<1>1. CASE UpdateContainerGroup
  BY <1>1 DEF UpdateContainerGroup, Claim, ClaimInv, groupVars, TagInv, Agree,
       There
<1>2. CASE RunContainerGroupBackup \/ ControlContainerGroup \/
     RemoveContainerGroup
  BY <1>2 DEF RunContainerGroupBackup, ControlContainerGroup,
       RemoveContainerGroup, Claim, groupVars, updateVars, TagInv, Agree, There
<1>3. CASE UpdateOver
  BY <1>3 DEF UpdateOver, At, ForgetUpdate, TagInv, Agree, There
<1>4. CASE AgentDies
  BY <1>4 DEF AgentDies, ForgetUpdate, ClaimInv, TagInv, Agree, There
<1>5. CASE BackupOver
  BY <1>5 DEF BackupOver, groupVars, updateVars, TagInv, Agree, There
<1>6. CASE RunControl \/ RunRemoval
  BY <1>6 DEF RunControl, RunRemoval, Stop, Start, Remove, updateVars, TagInv,
       Agree, There
<1>7. CASE PassBegins \/ PassReaches \/ PassRecords
  BY <1>7 DEF PassBegins, PassReaches, PassRecords, groupVars, updateVars,
       TagInv, Agree, There
<1>8. ASSUME NEW on \in BOOLEAN, SetSchedule(on) PROVE TagInv'
  BY <1>8 DEF SetSchedule, groupVars, updateVars, TagInv, Agree, There
<1>9. CASE UNCHANGED vars
  BY <1>9 DEF vars, groupVars, updateVars, TagInv, Agree, There
<1>10. CASE OwnerPutsBack
  BY <1>10 DEF OwnerPutsBack, PutBack, ClaimInv, updateVars, TagInv, Agree,
       There
<1>11. CASE EngineStep
  BY <1>11 DEF EngineStep, Rise, Crash, GroupTypeOK, TypeOK, TagInv, Agree,
       There
<1>12. CASE ReadIds /\ VerbFrame
  <2>1. PICK S \in SUBSET Images :
          previous' = [i \in S |-> tag[i]] /\ mishap' = (S # Images)
    BY <1>12 DEF ReadIds
  <2>2. DOMAIN previous' = S /\ \A i \in S : previous'[i] = tag[i]
    BY <2>1
  <2>3. /\ stage = "ids" /\ stage' \in {"saving", "pull"}
        /\ UNCHANGED <<tag, made, state, left>>
    BY <1>12 DEF ReadIds, At, VerbFrame, groupVars
  <2>4. ~left /\ ~mishap => Agree
    BY <2>3 DEF TagInv
  <2>5. ~mishap
    BY <2>3 DEF TagInv
  <2> QED
    BY <2>1, <2>2, <2>3, <2>4, <2>5 DEF TagInv, Agree, There
<1>13. CASE BackedUp /\ VerbFrame
  BY <1>13 DEF BackedUp, VerbFrame, At, End, groupVars, TagInv, Agree, There
<1>14. CASE Compare /\ VerbFrame
  BY <1>14 DEF Compare, VerbFrame, At, End, groupVars, TagInv, Agree, There
<1>15. CASE PullImages /\ VerbFrame
  BY <1>15 DEF PullImages, VerbFrame, At, Pull, End, TagInv, Agree, There
<1>16. CASE RetagPrevious /\ VerbFrame
  <2>1. PICK S \in SUBSET DOMAIN previous :
          /\ Retag([i \in S |-> previous[i]])
          /\ warned' = DOMAIN previous \ S
          /\ mishap' = (mishap \/ S # DOMAIN previous)
    BY <1>16 DEF RetagPrevious
  <2>2. /\ stage = "retag" /\ stage' = "reup" /\ UNCHANGED <<previous, left>>
    BY <1>16 DEF RetagPrevious, At, VerbFrame
  <2>3. DOMAIN previous \in SUBSET Images
    BY KeptIds DEF TypeOK, UpdateTypeOK
  <2>4. \A i \in DOMAIN previous' \ warned' : tag'[i] = previous'[i]
    BY <2>1, <2>2, <2>3 DEF Retag
  <2> QED
    BY <2>1, <2>2, <2>4 DEF TagInv
<1>17. CASE RecreateAll /\ VerbFrame
  BY <1>17 DEF RecreateAll, VerbFrame, At, Recreate, RollBack, End,
       GroupTypeOK, TypeOK, TagInv, Agree, There
<1>18. CASE RecreatePrevious /\ VerbFrame
  BY <1>18 DEF RecreatePrevious, VerbFrame, At, Recreate, End, TagInv, Agree,
       There
<1>19. CASE Look /\ VerbFrame
  BY <1>19 DEF Look, VerbFrame, At, Again, RollBack, End, groupVars, TagInv,
       Agree, There
<1>20. CASE Count /\ VerbFrame
  BY <1>20 DEF Count, VerbFrame, At, Again, RollBack, End, TagInv, Agree, There
<1>21. ASSUME NEW w \in Workers, Dump(w) \/ Pack(w), BackupFrame(w) PROVE
     TagInv'
  BY <1>21 DEF Dump, Pack, BackupFrame, Step, groupVars, updateVars, TagInv,
       Agree, There
<1>22. ASSUME NEW w \in Workers, StopForArchive(w) \/ StartAgain(w),
     BackupFrame(w) PROVE TagInv'
  BY <1>22 DEF StopForArchive, StartAgain, BackupFrame, Step, Stop, Start,
       updateVars, TagInv, Agree, There
<1> QED
  BY <1>1, <1>2, <1>3, <1>4, <1>5, <1>6, <1>7, <1>8, <1>9, <1>10, <1>11, <1>12,
       <1>13, <1>14, <1>15, <1>16, <1>17, <1>18, <1>19, <1>20, <1>21, <1>22,
       Steps

-----------------------------------------------------------------------------
(* The theorems                                                            *)

LEMMA InitIInv == Init => IInv
<1> SUFFICES ASSUME Init PROVE IInv
  OBVIOUS
<1>1. /\ \A i \in Images : state[i] = "running" /\ made[i] = tag[i]
      /\ moved = {} /\ together = {} /\ save["verb"] = "idle" /\ save["pass"] = "idle"
      /\ \A w \in Workers : save[w] = "idle"
  BY DEF Init, GroupInit, BackupInit, Workers
<1>2. /\ stage = "none" /\ verb = "none" /\ report = "none" /\ pass = "sleeping"
      /\ clean = 0 /\ looks = 0 /\ mishap = FALSE
  BY DEF Init, UpdateInit
<1>3. ClaimInv
  BY <1>1, <1>2 DEF ClaimInv, InBackup
<1>4. SavedInv
  BY <1>2 DEF SavedInv, NothingPulledUnsaved, Pulling
<1>5. AloneInv
  BY <1>1 DEF AloneInv, InBackup
<1>6. WatchInv
  BY <1>1, <1>2 DEF WatchInv
<1>7. TagInv
  BY <1>1, <1>2 DEF TagInv, Agree, There
<1> QED
  BY <1>3, <1>4, <1>5, <1>6, <1>7, InitTypeOK DEF IInv

LEMMA NextIInv == IInv /\ [Next]_vars => IInv'
  BY NextTypeOK, NextClaimInv, NextSavedInv, NextAloneInv, NextWatchInv,
       NextTagInv DEF IInv

LEMMA Invariant == Spec => []IInv
  BY InitIInv, NextIInv, PTL DEF Spec

(* Nothing is pulled without the archive, or a right to do without one.    *)
THEOREM PullsAreSaved == Spec => []NothingPulledUnsaved
<1>1. IInv => NothingPulledUnsaved
  BY DEF IInv, SavedInv
<1> QED
  BY <1>1, Invariant, PTL

(* No archive is torn but by two workers at once.                          *)
THEOREM ArchivesAreWhole == Spec => []TornOnlyBesideAnother
<1>1. IInv => TornOnlyBesideAnother
  BY DEF IInv, AloneInv, TornOnlyBesideAnother, Up
<1> QED
  BY <1>1, Invariant, PTL

(* A backup that stopped its group starts it again.                        *)
THEOREM GroupsAreGivenBack == Spec => []GivenBack
<1>1. IInv => GivenBack
  BY DEF IInv, AloneInv, GivenBack
<1> QED
  BY <1>1, Invariant, PTL

(* A good version is only taken back for a cause.                          *)
THEOREM RollbacksHaveACause == Spec => []RollbackHasACause
<1>1. IInv => RollbackHasACause
  BY DEF IInv, WatchInv, Cause, RollbackHasACause
<1> QED
  BY <1>1, Invariant, PTL

ReportStep ==
    stage' = "over" /\ stage # "over" =>
        /\ report' = "updated" => moved' \cap counted = {} /\ made' = tag'
        /\ report' = "current" => left \/ mishap \/ Agree
        /\ report' = "rolled back" =>
              \A i \in DOMAIN previous \ warned :
                  tag'[i] = previous[i] /\ made'[i] = previous[i]

LEMMA StepTellsTheTruth == IInv /\ [Next]_vars => ReportStep
<1> SUFFICES ASSUME IInv, Next, stage' = "over", stage # "over"
             PROVE  /\ report' = "updated" => moved' \cap counted = {} /\ made' = tag'
                    /\ report' = "current" => left \/ mishap \/ Agree
                    /\ report' = "rolled back" =>
                          \A i \in DOMAIN previous \ warned :
                              tag'[i] = previous[i] /\ made'[i] = previous[i]
  BY DEF ReportStep, vars, updateVars
<1>0. report = "none"
  BY DEF IInv, WatchInv
<1>1. \/ (BackedUp \/ PullImages \/ RecreateAll \/ Look) /\ report' \in {"none", "failed"}
      \/ Compare \/ Count \/ RecreatePrevious
  <2>1. \/ UpdateContainerGroup \/ UpdateOver \/ AgentDies \/ ReadIds \/ RetagPrevious
        \/ UNCHANGED stage
        \/ BackedUp \/ PullImages \/ Compare \/ RecreateAll \/ Look \/ Count \/ RecreatePrevious
    BY Steps DEF RunContainerGroupBackup, RemoveContainerGroup,
         ControlContainerGroup,
         BackupOver, RunControl, RunRemoval, BackupFrame, SetSchedule, PassBegins,
         PassReaches, PassRecords, OwnerPutsBack, EngineStep, updateVars
  <2>2. UpdateContainerGroup \/ UpdateOver \/ AgentDies \/ ReadIds \/ RetagPrevious => stage' # "over"
    BY DEF UpdateContainerGroup, UpdateOver, AgentDies, ForgetUpdate, ReadIds,
         RetagPrevious
  <2>3. BackedUp \/ PullImages \/ RecreateAll \/ Look => report' \in {"none", "failed"}
    BY <1>0 DEF BackedUp, PullImages, RecreateAll, Look, Again, RollBack, End
  <2> QED
    BY <2>1, <2>2, <2>3
<1>2. CASE Compare
  <2>1. PICK S \in SUBSET DOMAIN previous :
          LET after == [i \in S |-> tag[i]] IN
             IF DOMAIN previous # {} /\ after = previous
             THEN End("current")
             ELSE stage' = "up" /\ UNCHANGED report
    BY <1>2 DEF Compare
  <2>2. [i \in S |-> tag[i]] = previous /\ report' = "current"
    BY <2>1 DEF End
  <2>3. \A i \in DOMAIN previous : tag[i] = previous[i]
    BY <2>2
  <2>4. stage = "compare" /\ (~mishap => DOMAIN previous = Images)
    BY <1>2 DEF Compare, At, IInv, TagInv
  <2>5. ~left /\ ~mishap => \A i \in There : made[i] = previous[i]
    BY <2>4 DEF IInv, TagInv
  <2>6. ~left /\ ~mishap => Agree
    BY <2>3, <2>4, <2>5 DEF Agree, There
  <2> QED
    BY <2>2, <2>6
<1>3. CASE Count
  <2>1. stage = "count" /\ UNCHANGED <<made, tag>>
    BY <1>3 DEF Count, At
  <2>2. made = tag
    BY <2>1 DEF IInv, TagInv
  <2>3. report' \in {"none", "failed", "updated"}
    BY <1>0, <1>3 DEF Count, Again, RollBack, End
  <2>4. report' = "updated" => clean = 2 /\ moved \cap counted = {}
    BY <1>0, <1>3 DEF Count, Again, RollBack, End
  <2>5. clean = 2 => moved' = moved
    BY <1>3 DEF Count
  <2> QED
    BY <2>1, <2>2, <2>3, <2>4, <2>5
<1>4. CASE RecreatePrevious
  <2>1. stage = "reup" /\ UNCHANGED tag /\ report' \in {"failed", "rolled back"}
    BY <1>4 DEF RecreatePrevious, Recreate, At, End
  <2>2. report' = "rolled back" => Recreate(Images)
    BY <1>4 DEF RecreatePrevious, End
  <2>3. DOMAIN previous \in SUBSET Images
    BY KeptIds DEF IInv, TypeOK, UpdateTypeOK
  <2>4. \A i \in DOMAIN previous \ warned : tag[i] = previous[i]
    BY <2>1 DEF IInv, TagInv
  <2> QED
    BY <2>1, <2>2, <2>3, <2>4 DEF Recreate
<1> QED
  BY <1>1, <1>2, <1>3, <1>4

(* What an update reports last is so.                                      *)
THEOREM ReportsAreTruthful == Spec => ReportTruthful
<1>1. IInv /\ [Next]_vars => ReportStep
  BY StepTellsTheTruth
<1> QED
  BY <1>1, Invariant, PTL DEF Spec, ReportTruthful, ReportStep, Agree

=============================================================================
