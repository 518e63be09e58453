------------------------- MODULE HostWrappers_proofs -------------------------
(***************************************************************************)
(* Proofs about HostWrappers, for any kinds of service, any archives and   *)
(* any versions.  TLC checks the same on three kinds and one archive.      *)
(*                                                                         *)
(* The inductive invariant is TypeOK with what the data path holds while a *)
(* restore has put the data aside, who runs what, what a wrapper that is   *)
(* undisturbed finds at each step, and what the tags are in an update.     *)
(***************************************************************************)
EXTENDS HostWrappers, TLAPS

(* While a restore has the data path to itself nothing of worth is there.  *)
DataInv ==
    /\ rs \notin {"none", "unpack", "failed"} => copy \in Copies
    /\ rs \in {"place", "wipe", "return"} => live \in {NoDir, Empty}
    /\ NothingLost

(* An update saves through a backup of its own.                            *)
OwnInv ==
    /\ bk = "none" <=> bkBy = "none"
    /\ bkBy = "update" <=> up = "saving"

InRestore == rs \in {"aside", "place", "wipe", "return", "giveup", "load", "start", "bad"}
InBackup  == bk \in {"dump", "tar", "start", "unsaved"}

(* A restore nobody disturbs is alone, and finds what its steps left.      *)
RestoreInv ==
    rs # "none" /\ "restore" \notin disturbed =>
        /\ bk = "none" /\ up = "none"
        /\ plan.stops =>
              /\ InRestore => app = "down"
              /\ rs = "place" => live = NoDir
              /\ rs \in {"load", "start", "bad", "done"} => live = copy
              /\ rs = "done" => app = "down" \/ served = copy

(* A backup nobody disturbs is alone, but for the update it is part of.    *)
AloneInv ==
    bk # "none" /\ "backup" \notin disturbed =>
        /\ rs = "none" /\ up \in {"none", "saving"}
        /\ bk \in {"dump", "tar"} /\ plan.stops => app = "down"

(* What is down with no excuse has somebody at work who will start it.     *)
DownInv ==
    app = "down" /\ ~excused => (InBackup /\ plan.stops) \/ InRestore

(* The tag and the container in an update.                                 *)
TagInv ==
    /\ up \in {"up", "look"} => tag = MaxVersion
    /\ up = "look" => made = tag
    /\ up = "reup" /\ ~mishap => tag \in before

IInv == TypeOK /\ DataInv /\ OwnInv /\ RestoreInv /\ AloneInv /\ DownInv /\ TagInv
-----------------------------------------------------------------------------
(* The steps of Next, one by one                                           *)

BackupFrame == UNCHANGED <<plan, updateVars, restoreVars>>
UpdateFrame == UNCHANGED <<plan, restoreVars>>

LEMMA Steps ==
    ASSUME Next
    PROVE  \/ \E who \in {"agent", "timer"} : StartBackup(who) \/ StartUpdate(who)
           \/ StartRestore \/ ControlService \/ Deadline \/ AgentDies \/ EngineStep
           \/ BackupFrame /\ (CheckAndStop \/ Dump \/ Tar \/ StartAgain)
           \/ UpdateFrame /\ (\/ ReadIds \/ PullImages \/ UndoPull \/ RecreateNew \/ Look
                             \/ Rollback \/ RecreateOld)
           \/ plan' = plan /\ (\/ Unpack \/ StopToRestore \/ PutAside \/ Place \/ WayBack
                              \/ LoadDump \/ StartAll)
           \/ BackupExits \/ SaveFirst \/ Saved \/ UpdateExits \/ RestoreExits
  BY DEF Next, WrapperStep, BackupStep, UpdateStep, RestoreStep, BackupFrame, UpdateFrame

(* Each of the three wrappers the deadline may end.                        *)
LEMMA DeadlineEnds ==
    ASSUME Deadline
    PROVE  /\ UNCHANGED <<plan, serviceVars>>
           /\ excused' = (app = "down")
           /\ \/ /\ bkBy = "agent" /\ bk' = "none" /\ bkBy' = "none" /\ Leaves("backup")
                 /\ UNCHANGED <<updateVars, restoreVars>>
              \/ /\ up # "none" /\ upBy = "agent" /\ Forget /\ Leaves("update")
                 /\ bkBy' = IF bkBy = "update" THEN "orphan" ELSE bkBy
                 /\ UNCHANGED <<bk, restoreVars>>
              \/ /\ rs # "none" /\ ForgetRestore /\ Leaves("restore")
                 /\ UNCHANGED <<backupVars, updateVars>>
  BY DEF Deadline, Abandoned, Excuse, serviceVars

(* The agent takes its restore with it, and the backups it started.        *)
LEMMA DeathEnds ==
    ASSUME AgentDies
    PROVE  /\ UNCHANGED <<plan, serviceVars>>
           /\ excused' = (app = "down")
           /\ rs' = "none" /\ copy' = NoDir /\ previous' = NoDir
           /\ \/ bk' = "none" /\ bkBy' = "none"
              \/ bkBy # "orphan" /\ (bkBy = "update" => upBy # "agent") /\ UNCHANGED backupVars
           /\ Forget \/ (upBy # "agent" /\ UNCHANGED updateVars)
           /\ disturbed' \subseteq disturbed
           /\ "backup" \in disturbed \ disturbed' => bk' = "none"
  BY DEF AgentDies, Abandoned, Excuse, serviceVars, ForgetRestore

-----------------------------------------------------------------------------
(* Type correctness                                                        *)

LEMMA Directories ==
    NoDir \notin Dirs /\ Empty \in Dirs /\ \A c \in Copies : c \in Dirs /\ c # NoDir /\ c # Empty
  BY ServiceAssumption DEF Dirs

LEMMA CommandTypes ==
    ASSUME ServiceTypeOK, plan' = plan
    PROVE  /\ Start \/ Stop \/ Recreate \/ MoveAside \/ Wipe \/ UNCHANGED serviceVars => ServiceTypeOK'
           /\ Mount /\ UNCHANGED <<tag, made, moved, aside>> => ServiceTypeOK'
           /\ \A v \in Versions : Retag(v) => ServiceTypeOK'
           /\ \A d \in Dirs : MoveTo(d) => ServiceTypeOK'
<1>1. Mount => app' = "up" /\ live' \in Dirs /\ served' \in Dirs
  BY Directories DEF Mount, ServiceTypeOK
<1>2. CASE Start \/ Recreate \/ (Mount /\ UNCHANGED <<tag, made, moved, aside>>)
  BY <1>1, <1>2 DEF Start, Recreate, ServiceTypeOK
<1>3. CASE Stop \/ Wipe \/ UNCHANGED serviceVars \/ \E v \in Versions : Retag(v)
  BY <1>3 DEF Stop, Wipe, Retag, serviceVars, ServiceTypeOK
<1>4. CASE MoveAside
  BY <1>4 DEF MoveAside, ServiceTypeOK, Dirs
<1>5. ASSUME NEW d \in Dirs, MoveTo(d) PROVE ServiceTypeOK'
  BY <1>5 DEF MoveTo, ServiceTypeOK, Dirs
<1> QED
  BY <1>2, <1>3, <1>4, <1>5

LEMMA NextServiceType == TypeOK /\ DataInv /\ [Next]_vars => ServiceTypeOK'
<1> SUFFICES ASSUME TypeOK, DataInv, [Next]_vars PROVE ServiceTypeOK'
  OBVIOUS
<1>0. ServiceTypeOK /\ (UNCHANGED plan /\ UNCHANGED serviceVars => ServiceTypeOK')
  BY DEF TypeOK, ServiceTypeOK, serviceVars
<1>1. CASE \/ \E who \in {"agent", "timer"} : StartBackup(who) \/ StartUpdate(who)
           \/ StartRestore \/ BackupExits \/ SaveFirst \/ Saved \/ UpdateExits
           \/ RestoreExits \/ UNCHANGED vars
  BY <1>0, <1>1 DEF StartBackup, StartUpdate, StartRestore, BackupExits, SaveFirst, Saved,
       UpdateExits, RestoreExits, vars
<1>2. CASE Deadline \/ AgentDies
  BY <1>0, <1>2, DeadlineEnds, DeathEnds
<1>3. CASE ControlService
  BY <1>0, <1>3, CommandTypes DEF ControlService
<1>4. CASE EngineStep
  BY <1>0, <1>4, Directories DEF EngineStep, Crash, Rise, Mount, ServiceTypeOK
<1>5. CASE BackupFrame /\ (CheckAndStop \/ Dump \/ Tar \/ StartAgain)
  BY <1>0, <1>5, CommandTypes DEF BackupFrame, CheckAndStop, Dump, Tar, StartAgain
<1>6. CASE UpdateFrame /\ (PullImages \/ UndoPull \/ Rollback)
  <2>1. tag \in Versions /\ MaxVersion \in Versions /\ before \subseteq Versions
    BY ServiceAssumption DEF Versions, TypeOK, ServiceTypeOK, UpdateTypeOK
  <2>2. \E v \in Versions : Retag(v)
    BY <1>6, <2>1 DEF PullImages, UndoPull, Rollback, PutBack
  <2> QED
    BY <1>0, <1>6, <2>2, CommandTypes DEF UpdateFrame
<1>7. CASE UpdateFrame /\ (ReadIds \/ RecreateNew \/ RecreateOld)
  BY <1>0, <1>7, CommandTypes DEF UpdateFrame, ReadIds, RecreateNew, RecreateOld
<1>8. CASE UpdateFrame /\ Look
  BY <1>0, <1>8 DEF UpdateFrame, Look, Watched, ServiceTypeOK
<1>9. CASE plan' = plan /\ (Unpack \/ StopToRestore \/ PutAside \/ LoadDump \/ StartAll)
  BY <1>0, <1>9, CommandTypes DEF Unpack, StopToRestore, PutAside, LoadDump, StartAll
<1>10. CASE plan' = plan /\ Place
  BY <1>0, <1>10, CommandTypes, Directories DEF Place, DataInv
<1>11. CASE plan' = plan /\ WayBack
  BY <1>0, <1>11, CommandTypes DEF WayBack, Return, TypeOK, RestoreTypeOK
<1> QED
  BY <1>1, <1>2, <1>3, <1>4, <1>5, <1>6, <1>7, <1>8, <1>9, <1>10, <1>11, Steps

(* What the steps of one wrapper leave to the others.                      *)
LEMMA RestoreKeeps ==
    ASSUME Unpack \/ StopToRestore \/ PutAside \/ Place \/ WayBack \/ LoadDump \/ StartAll
    PROVE  /\ UNCHANGED <<backupVars, updateVars, tag, made, moved>>
           /\ \/ disturbed' = disturbed
              \/ disturbed' = disturbed \cup {"restore"}
           /\ excused' \in {excused, TRUE, FALSE}
  BY DEF Unpack, StopToRestore, PutAside, Place, WayBack, LoadDump, StartAll, restoreOthers,
       Excuse, serviceVars, Stop, Start, Mount, MoveAside, MoveTo, Wipe, Return

LEMMA UpdateKeeps ==
    ASSUME ReadIds \/ PullImages \/ UndoPull \/ RecreateNew \/ Look \/ Rollback \/ RecreateOld
    PROVE  /\ UNCHANGED <<backupVars, disturbed, upBy, aside>>
           /\ excused' \in {excused, TRUE, FALSE}
  BY DEF ReadIds, PullImages, UndoPull, RecreateNew, Look, Watched, Rollback, RecreateOld,
       PutBack, Excuse, serviceVars, Recreate, Retag

LEMMA NextBackupType == TypeOK /\ [Next]_vars => BackupTypeOK'
<1> SUFFICES ASSUME TypeOK, [Next]_vars PROVE BackupTypeOK'
  OBVIOUS
<1>0. BackupTypeOK /\ AtWork \subseteq {"backup", "restore", "update"}
  BY DEF TypeOK, AtWork
<1>1. CASE \E who \in {"agent", "timer"} : StartBackup(who) \/ StartUpdate(who)
  BY <1>0, <1>1 DEF StartBackup, StartUpdate, Begin, Joins, backupVars, BackupTypeOK
<1>2. CASE BackupFrame /\ (CheckAndStop \/ Dump \/ Tar \/ StartAgain)
  BY <1>0, <1>2 DEF CheckAndStop, Dump, Tar, StartAgain, Excuse, BackupTypeOK
<1>3. CASE Deadline
  BY <1>0, <1>3, DeadlineEnds DEF Leaves, backupVars, BackupTypeOK
<1>4. CASE AgentDies
  BY <1>0, <1>4, DeathEnds DEF backupVars, BackupTypeOK
<1>5. CASE SaveFirst \/ Saved \/ BackupExits
  BY <1>0, <1>5 DEF SaveFirst, Saved, BackupExits, Begin, Joins, Leaves, backupVars, BackupTypeOK
<1>6. CASE StartRestore \/ ControlService
  BY <1>0, <1>6 DEF StartRestore, ControlService, Joins, Excuse, backupVars, BackupTypeOK
<1>7. CASE EngineStep \/ UpdateExits \/ RestoreExits \/ UNCHANGED vars
  BY <1>0, <1>7 DEF EngineStep, UpdateExits, RestoreExits, Leaves, vars, backupVars, BackupTypeOK
<1>8. CASE ReadIds \/ PullImages \/ UndoPull \/ RecreateNew \/ Look \/ Rollback \/ RecreateOld
  BY <1>0, <1>8, UpdateKeeps DEF backupVars, BackupTypeOK
<1>9. CASE Unpack \/ StopToRestore \/ PutAside \/ Place \/ WayBack \/ LoadDump \/ StartAll
  BY <1>0, <1>9, RestoreKeeps DEF backupVars, BackupTypeOK
<1> QED
  BY <1>1, <1>2, <1>3, <1>4, <1>5, <1>6, <1>7, <1>8, <1>9, Steps

LEMMA NextUpdateType == TypeOK /\ [Next]_vars => UpdateTypeOK'
<1> SUFFICES ASSUME TypeOK, [Next]_vars PROVE UpdateTypeOK'
  OBVIOUS
<1>0. UpdateTypeOK /\ tag \in Versions /\ 0 \in 0..2
  BY DEF TypeOK, ServiceTypeOK
<1>1. CASE \/ \E who \in {"agent", "timer"} : StartBackup(who) \/ StartUpdate(who)
           \/ SaveFirst \/ Saved \/ BackupExits
  BY <1>0, <1>1 DEF StartBackup, StartUpdate, SaveFirst, Saved, BackupExits, updateVars, UpdateTypeOK
<1>2. CASE Deadline \/ AgentDies
  BY <1>0, <1>2, DeadlineEnds, DeathEnds DEF Forget, updateVars, UpdateTypeOK
<1>3. CASE \/ StartRestore \/ ControlService \/ EngineStep \/ UpdateExits \/ RestoreExits
           \/ BackupFrame \/ UNCHANGED vars
  BY <1>0, <1>3 DEF StartRestore, ControlService, EngineStep, UpdateExits, RestoreExits, BackupFrame,
       Forget, vars, updateVars, UpdateTypeOK
<1>4. CASE Unpack \/ StopToRestore \/ PutAside \/ Place \/ WayBack \/ LoadDump \/ StartAll
  BY <1>0, <1>4, RestoreKeeps DEF updateVars, UpdateTypeOK
<1>5. CASE ReadIds \/ PullImages \/ UndoPull \/ RecreateNew \/ Rollback \/ RecreateOld
  BY <1>0, <1>5 DEF ReadIds, PullImages, UndoPull, RecreateNew, Rollback, RecreateOld, PutBack,
       UpdateTypeOK
<1>6. CASE Look
  <2>1. PICK n \in {0, 1, clean + 1} : Watched(n)
    BY <1>6 DEF Look
  <2>2. n \in Nat
    BY <1>0, <2>1 DEF UpdateTypeOK
  <2>3. clean' \in 0..2 /\ up' \in {"DONE", "look", "back"} /\ UNCHANGED <<upBy, before, mishap>>
    BY <1>0, <2>1, <2>2 DEF Watched
  <2> QED
    BY <1>0, <2>3 DEF UpdateTypeOK
<1> QED
  BY <1>1, <1>2, <1>3, <1>4, <1>5, <1>6, Steps

LEMMA NextRestoreType == TypeOK /\ [Next]_vars => RestoreTypeOK'
<1> SUFFICES ASSUME TypeOK, [Next]_vars PROVE RestoreTypeOK'
  OBVIOUS
<1>0. RestoreTypeOK /\ live \in Dirs \cup {NoDir}
  BY DEF TypeOK, ServiceTypeOK
<1>1. CASE \/ \E who \in {"agent", "timer"} : StartBackup(who) \/ StartUpdate(who)
           \/ SaveFirst \/ Saved \/ BackupExits \/ StartRestore \/ ControlService \/ EngineStep
           \/ UpdateExits \/ RestoreExits \/ BackupFrame \/ UpdateFrame \/ UNCHANGED vars
  BY <1>0, <1>1 DEF StartBackup, StartUpdate, SaveFirst, Saved, BackupExits, StartRestore,
       ControlService, EngineStep, UpdateExits, RestoreExits, BackupFrame, UpdateFrame,
       ForgetRestore, vars, restoreVars, RestoreTypeOK
<1>2. CASE Deadline \/ AgentDies
  BY <1>0, <1>2, DeadlineEnds, DeathEnds DEF ForgetRestore, restoreVars, RestoreTypeOK
<1>3. CASE Unpack \/ StopToRestore \/ PutAside \/ Place \/ WayBack \/ LoadDump \/ StartAll
  BY <1>0, <1>3 DEF Unpack, StopToRestore, PutAside, Place, WayBack, LoadDump, StartAll, RestoreTypeOK
<1> QED
  BY <1>1, <1>2, <1>3, Steps

LEMMA NextTypeOK == TypeOK /\ DataInv /\ [Next]_vars => TypeOK'
  BY NextServiceType, NextBackupType, NextUpdateType, NextRestoreType DEF TypeOK

LEMMA InitTypeOK == Init => TypeOK
<1> SUFFICES ASSUME Init PROVE TypeOK
  OBVIOUS
<1>1. 0 \in Versions /\ 0 \in 0..2
  BY ServiceAssumption DEF Versions
<1>2. ServiceTypeOK
  BY <1>1 DEF Init, ServiceInit, ServiceTypeOK, Dirs
<1>3. BackupTypeOK
  BY DEF Init, BackupInit, BackupTypeOK
<1>4. UpdateTypeOK
  BY <1>1 DEF Init, UpdateInit, UpdateTypeOK
<1>5. RestoreTypeOK
  BY DEF Init, RestoreInit, RestoreTypeOK
<1> QED
  BY <1>2, <1>3, <1>4, <1>5 DEF TypeOK

-----------------------------------------------------------------------------
(* The data                                                                *)

LEMMA NextDataInv == TypeOK /\ DataInv /\ [Next]_vars => DataInv'
<1> SUFFICES ASSUME TypeOK, DataInv, [Next]_vars PROVE DataInv'
  OBVIOUS
<1>0. /\ served \in Dirs /\ live \in Dirs \cup {NoDir} /\ previous \in Dirs \cup {NoDir}
      /\ Original \in Dirs /\ Original # Empty
  BY ServiceAssumption DEF TypeOK, ServiceTypeOK, RestoreTypeOK, Dirs
<1>1. CASE \/ \E who \in {"agent", "timer"} : StartBackup(who) \/ StartUpdate(who)
           \/ SaveFirst \/ Saved \/ BackupExits \/ StartRestore \/ UpdateExits \/ RestoreExits
           \/ UNCHANGED vars
  BY <1>1 DEF StartBackup, StartUpdate, SaveFirst, Saved, BackupExits, StartRestore, UpdateExits,
       RestoreExits, ForgetRestore, vars, serviceVars, restoreVars, DataInv, NothingLost
<1>2. CASE Deadline \/ AgentDies
  BY <1>2, DeadlineEnds, DeathEnds DEF ForgetRestore, serviceVars, restoreVars, DataInv, NothingLost
<1>3. CASE ControlService
  BY <1>0, <1>3, Directories DEF ControlService, Start, Stop, Mount, restoreVars, DataInv, NothingLost
<1>4. CASE EngineStep
  BY <1>0, <1>4, Directories DEF EngineStep, Crash, Rise, Mount, restoreVars, DataInv, NothingLost
<1>5. CASE BackupFrame /\ (CheckAndStop \/ Dump \/ Tar \/ StartAgain)
  BY <1>0, <1>5, Directories DEF BackupFrame, CheckAndStop, Dump, Tar, StartAgain, Stop, Start, Mount,
       serviceVars, restoreVars, DataInv, NothingLost
<1>6. CASE UpdateFrame /\ (\/ ReadIds \/ PullImages \/ UndoPull \/ RecreateNew \/ Look
                         \/ Rollback \/ RecreateOld)
  <2>1. UNCHANGED restoreVars /\ aside' = aside
    BY <1>6, UpdateKeeps DEF UpdateFrame
  <2>2. Recreate \/ UNCHANGED <<app, live, served>>
    BY <1>6 DEF ReadIds, PullImages, UndoPull, RecreateNew, Look, Watched, Rollback, RecreateOld,
         PutBack, Retag, serviceVars
  <2> QED
    BY <1>0, <2>1, <2>2, Directories DEF Recreate, Mount, restoreVars, DataInv, NothingLost
<1>7. CASE Unpack \/ StopToRestore \/ LoadDump
  BY <1>7 DEF Unpack, StopToRestore, LoadDump, Stop, serviceVars, DataInv, NothingLost
<1>8. CASE StartAll
  BY <1>0, <1>8, Directories DEF StartAll, Start, Mount, serviceVars, DataInv, NothingLost
<1>9. CASE PutAside
  BY <1>0, <1>9, Directories DEF PutAside, MoveAside, serviceVars, DataInv, NothingLost
<1>10. CASE Place
  <2>1. rs = "place" /\ copy \in Copies /\ live \in {NoDir, Empty} /\ UNCHANGED copy
    BY <1>10 DEF Place, DataInv
  <2>2. NothingLost'
    BY <1>0, <1>10, <2>1, Directories DEF Place, MoveTo, serviceVars, DataInv, NothingLost
  <2> QED
    BY <1>10, <2>1, <2>2 DEF Place, serviceVars, DataInv
<1>11. CASE WayBack
  <2>1. rs \in {"wipe", "return"} /\ live \in {NoDir, Empty} /\ UNCHANGED copy /\ copy \in Copies
    BY <1>11 DEF WayBack, DataInv
  <2>2. NothingLost'
    BY <1>0, <1>11, <2>1, Directories
       DEF WayBack, Wipe, Return, MoveTo, serviceVars, DataInv, NothingLost
  <2> QED
    BY <1>11, <2>1, <2>2 DEF WayBack, Wipe, DataInv
<1> QED
  BY <1>1, <1>2, <1>3, <1>4, <1>5, <1>6, <1>7, <1>8, <1>9, <1>10, <1>11, Steps

-----------------------------------------------------------------------------
(* Who runs what                                                           *)

LEMMA NextOwnInv == TypeOK /\ OwnInv /\ [Next]_vars => OwnInv'
<1> SUFFICES ASSUME TypeOK, OwnInv, [Next]_vars PROVE OwnInv'
  OBVIOUS
<1>1. CASE \E who \in {"agent", "timer"} : StartBackup(who) \/ StartUpdate(who)
  BY <1>1 DEF StartBackup, StartUpdate, Begin, Free, UpdateFree, updateVars, backupVars, OwnInv
<1>2. CASE BackupFrame /\ (CheckAndStop \/ Dump \/ Tar \/ StartAgain)
  BY <1>2 DEF BackupFrame, CheckAndStop, Dump, Tar, StartAgain, updateVars, OwnInv
<1>3. CASE Deadline
  BY <1>3, DeadlineEnds DEF Forget, updateVars, backupVars, OwnInv
<1>4. CASE AgentDies
  BY <1>4, DeathEnds DEF AgentDies, Forget, updateVars, backupVars, OwnInv
<1>5. CASE SaveFirst \/ Saved \/ BackupExits
  BY <1>5 DEF SaveFirst, Saved, BackupExits, Begin, Free, updateVars, backupVars, OwnInv
<1>6. CASE \/ StartRestore \/ ControlService \/ EngineStep \/ UpdateExits \/ RestoreExits
           \/ UNCHANGED vars
  BY <1>6 DEF StartRestore, ControlService, EngineStep, UpdateExits, RestoreExits, Forget, vars,
       updateVars, backupVars, OwnInv
<1>7. CASE ReadIds \/ PullImages \/ UndoPull \/ RecreateNew \/ Look \/ Rollback \/ RecreateOld
  <2>1. up # "saving" /\ up' # "saving"
    BY <1>7 DEF ReadIds, PullImages, UndoPull, RecreateNew, Look, Watched, Rollback, RecreateOld
  <2> QED
    BY <1>7, <2>1, UpdateKeeps DEF backupVars, OwnInv
<1>8. CASE Unpack \/ StopToRestore \/ PutAside \/ Place \/ WayBack \/ LoadDump \/ StartAll
  BY <1>8, RestoreKeeps DEF updateVars, backupVars, OwnInv
<1> QED
  BY <1>1, <1>2, <1>3, <1>4, <1>5, <1>6, <1>7, <1>8, Steps

-----------------------------------------------------------------------------
(* A restore, and a backup, that nobody disturbs                           *)

LEMMA NextRestoreInv == TypeOK /\ DataInv /\ OwnInv /\ RestoreInv /\ [Next]_vars => RestoreInv'
<1> SUFFICES ASSUME TypeOK, DataInv, OwnInv, RestoreInv, [Next]_vars,
                    rs' # "none", "restore" \notin disturbed'
             PROVE  /\ bk' = "none" /\ up' = "none"
                    /\ plan'.stops =>
                          /\ InRestore' => app' = "down"
                          /\ rs' = "place" => live' = NoDir
                          /\ rs' \in {"load", "start", "bad", "done"} => live' = copy'
                          /\ rs' = "done" => app' = "down" \/ served' = copy'
  BY DEF RestoreInv
<1>1. CASE StartRestore
  <2>1. AtWork = {}
    BY <1>1 DEF StartRestore, Joins, AtWork
  <2>2. bk = "none" /\ up = "none" /\ rs' = "unpack"
    BY <1>1, <2>1 DEF StartRestore, AtWork, OwnInv
  <2> QED
    BY <1>1, <2>2 DEF StartRestore, backupVars, updateVars, InRestore
<1> SUFFICES ASSUME ~StartRestore
             PROVE  /\ bk' = "none" /\ up' = "none"
                    /\ plan'.stops =>
                          /\ InRestore' => app' = "down"
                          /\ rs' = "place" => live' = NoDir
                          /\ rs' \in {"load", "start", "bad", "done"} => live' = copy'
                          /\ rs' = "done" => app' = "down" \/ served' = copy'
  BY <1>1
<1>2. CASE rs = "none"
  <2>1. rs' = "none"
    BY <1>2, Steps, DeadlineEnds, DeathEnds
       DEF StartBackup, StartUpdate, ControlService, EngineStep, BackupFrame, UpdateFrame,
           BackupExits, SaveFirst, Saved, UpdateExits, RestoreExits, Unpack, StopToRestore,
           PutAside, Place, WayBack, LoadDump, StartAll, restoreVars, vars
  <2> QED
    BY <2>1
<1>3. CASE "restore" \in disturbed
  <2>1. "restore" \in disturbed' \/ rs' = "none"
    BY <1>3, Steps, DeadlineEnds, DeathEnds, RestoreKeeps, UpdateKeeps
       DEF StartBackup, StartUpdate, ControlService, EngineStep, CheckAndStop, Dump, Tar, StartAgain,
           BackupExits, SaveFirst, Saved, UpdateExits, RestoreExits, ForgetRestore, Joins, Leaves, vars
  <2> QED
    BY <2>1
<1>4. CASE rs # "none" /\ "restore" \notin disturbed
  <2>0. /\ bk = "none" /\ up = "none" /\ bkBy = "none" /\ "restore" \in AtWork
        /\ plan.stops =>
              /\ InRestore => app = "down"
              /\ rs = "place" => live = NoDir
              /\ rs \in {"load", "start", "bad", "done"} => live = copy
              /\ rs = "done" => app = "down" \/ served = copy
    BY <1>4 DEF RestoreInv, AtWork, OwnInv
  <2>1. CASE \/ \E who \in {"agent", "timer"} : StartBackup(who) \/ StartUpdate(who)
             \/ ControlService
    BY <2>0, <2>1 DEF StartBackup, StartUpdate, ControlService, Joins, AgentBusy
  <2>2. CASE Deadline \/ AgentDies
    BY <2>0, <2>2, DeadlineEnds, DeathEnds DEF ForgetRestore
  <2>3. CASE EngineStep
    <3>1. rs \in {"load", "start", "bad", "done"} => copy # NoDir
      BY Directories DEF DataInv
    <3> QED
      BY <2>0, <2>3, <3>1 DEF EngineStep, Crash, Rise, Mount, backupVars, updateVars, restoreVars,
         InRestore
  <2>4. CASE \/ BackupFrame /\ (CheckAndStop \/ Dump \/ Tar \/ StartAgain)
             \/ BackupExits \/ SaveFirst \/ Saved \/ UpdateExits \/ RestoreExits
    BY <2>0, <2>4 DEF CheckAndStop, Dump, Tar, StartAgain, BackupExits, SaveFirst, Saved, UpdateExits,
       RestoreExits, ForgetRestore
  <2>5. CASE ReadIds \/ PullImages \/ UndoPull \/ RecreateNew \/ Look \/ Rollback \/ RecreateOld
    BY <2>0, <2>5 DEF ReadIds, PullImages, UndoPull, RecreateNew, Look, Watched, Rollback, RecreateOld
  <2>6. CASE plan' = plan /\ (\/ Unpack \/ StopToRestore \/ PutAside \/ Place \/ WayBack
                              \/ LoadDump \/ StartAll)
    <3>1. bk' = "none" /\ up' = "none"
      BY <2>0, <2>6, RestoreKeeps DEF backupVars, updateVars
    <3>2. rs \notin {"none", "unpack", "failed"} => copy # NoDir
      BY Directories DEF DataInv
    <3>3. CASE Unpack \/ StopToRestore
      BY <2>0, <2>6, <3>1, <3>3 DEF Unpack, StopToRestore, Stop, InRestore
    <3>4. CASE PutAside \/ Place
      BY <2>0, <2>6, <3>1, <3>4 DEF PutAside, Place, MoveAside, MoveTo, serviceVars, InRestore
    <3>5. CASE WayBack
      BY <2>0, <2>6, <3>1, <3>5 DEF WayBack, Wipe, Return, MoveTo, serviceVars, InRestore
    <3>6. CASE LoadDump \/ StartAll
      BY <2>0, <2>6, <3>1, <3>2, <3>6 DEF LoadDump, StartAll, Start, Mount, serviceVars, InRestore
    <3> QED
      BY <2>6, <3>3, <3>4, <3>5, <3>6
  <2>7. CASE UNCHANGED vars
    BY <2>0, <2>7 DEF vars, serviceVars, backupVars, updateVars, restoreVars, InRestore
  <2> QED
    BY <2>1, <2>2, <2>3, <2>4, <2>5, <2>6, <2>7, Steps
<1> QED
  BY <1>2, <1>3, <1>4

LEMMA NextAloneInv == TypeOK /\ OwnInv /\ AloneInv /\ [Next]_vars => AloneInv'
<1> SUFFICES ASSUME TypeOK, OwnInv, AloneInv, [Next]_vars,
                    bk' # "none", "backup" \notin disturbed'
             PROVE  /\ rs' = "none" /\ up' \in {"none", "saving"}
                    /\ bk' \in {"dump", "tar"} /\ plan'.stops => app' = "down"
  BY DEF AloneInv
<1>1. CASE bk = "none"
  <2>1. \/ bk' = "none"
        \/ \E who \in {"agent", "timer"} : StartBackup(who)
        \/ SaveFirst /\ Begin("update") /\ up' = "saving" /\ Joins("backup", AtWork \ {"update"})
    BY <1>1, Steps, DeadlineEnds, DeathEnds, RestoreKeeps, UpdateKeeps
       DEF StartUpdate, StartRestore, ControlService, EngineStep, CheckAndStop, Dump, Tar, StartAgain,
           BackupExits, SaveFirst, Saved, UpdateExits, RestoreExits, backupVars, vars
  <2>2. ASSUME NEW who \in {"agent", "timer"}, StartBackup(who)
        PROVE  bk' = "check" /\ rs' = "none" /\ up' \in {"none", "saving"}
    <3>1. AtWork = {}
      BY <2>2 DEF StartBackup, Joins, AtWork
    <3> QED
      BY <2>2, <3>1 DEF StartBackup, Begin, AtWork, updateVars, restoreVars
  <2>3. CASE SaveFirst /\ Begin("update") /\ up' = "saving" /\ Joins("backup", AtWork \ {"update"})
    <3>1. AtWork \ {"update"} = {}
      BY <2>3 DEF Joins, AtWork
    <3>2. rs = "none"
      BY <3>1 DEF AtWork
    <3> QED
      BY <2>3, <3>2 DEF SaveFirst, Begin, restoreVars
  <2> QED
    BY <2>1, <2>2, <2>3
<1>2. CASE bk # "none" /\ "backup" \in disturbed
  <2>1. "backup" \in disturbed' \/ bk' = "none"
    BY <1>2, Steps, DeadlineEnds, DeathEnds, RestoreKeeps, UpdateKeeps
       DEF StartBackup, StartUpdate, StartRestore, ControlService, EngineStep, CheckAndStop, Dump, Tar,
           StartAgain, BackupExits, SaveFirst, Saved, UpdateExits, RestoreExits, Begin, Free,
           Joins, Leaves, vars
  <2> QED
    BY <2>1
<1>3. CASE bk # "none" /\ "backup" \notin disturbed
  <2>0. /\ rs = "none" /\ up \in {"none", "saving"} /\ "backup" \in AtWork
        /\ bk \in {"dump", "tar"} /\ plan.stops => app = "down"
    BY <1>3 DEF AloneInv, AtWork
  <2>1. CASE \/ \E who \in {"agent", "timer"} : StartBackup(who) \/ StartUpdate(who)
             \/ StartRestore \/ ControlService
    BY <1>3, <2>0, <2>1 DEF StartBackup, StartUpdate, StartRestore, ControlService, Joins, Begin, Free
  <2>2. CASE Deadline
    BY <1>3, <2>0, <2>2, DeadlineEnds DEF Forget, serviceVars, updateVars, restoreVars
  <2>3. CASE AgentDies
    BY <1>3, <2>0, <2>3, DeathEnds DEF Forget, serviceVars, updateVars, backupVars
  <2>4. CASE EngineStep
    BY <2>0, <2>4 DEF EngineStep, Crash, Rise, backupVars, updateVars, restoreVars
  <2>5. CASE BackupFrame /\ (CheckAndStop \/ Dump \/ Tar \/ StartAgain)
    BY <2>0, <2>5 DEF BackupFrame, CheckAndStop, Dump, Tar, StartAgain, Stop, serviceVars, updateVars,
       restoreVars
  <2>6. CASE BackupExits \/ SaveFirst \/ Saved \/ UpdateExits \/ RestoreExits
    BY <2>0, <2>6 DEF BackupExits, SaveFirst, Saved, UpdateExits, RestoreExits
  <2>7. CASE \/ ReadIds \/ PullImages \/ UndoPull \/ RecreateNew \/ Look \/ Rollback \/ RecreateOld
             \/ Unpack \/ StopToRestore \/ PutAside \/ Place \/ WayBack \/ LoadDump \/ StartAll
    BY <2>0, <2>7 DEF ReadIds, PullImages, UndoPull, RecreateNew, Look, Watched, Rollback, RecreateOld,
       Unpack, StopToRestore, PutAside, Place, WayBack, LoadDump, StartAll
  <2>8. CASE UNCHANGED vars
    BY <2>0, <2>8 DEF vars, serviceVars, backupVars, updateVars, restoreVars
  <2> QED
    BY <2>1, <2>2, <2>3, <2>4, <2>5, <2>6, <2>7, <2>8, Steps
<1> QED
  BY <1>1, <1>2, <1>3

-----------------------------------------------------------------------------
(* What is down, and the tags                                              *)

LEMMA NextDownInv == TypeOK /\ DownInv /\ [Next]_vars => DownInv'
<1> SUFFICES ASSUME TypeOK, DownInv, [Next]_vars, app' = "down", ~excused'
             PROVE  (InBackup' /\ plan'.stops) \/ InRestore'
  BY DEF DownInv
<1>0. excused \in BOOLEAN
  BY DEF TypeOK, BackupTypeOK
<1>1. CASE \/ \E who \in {"agent", "timer"} : StartBackup(who) \/ StartUpdate(who)
           \/ StartRestore \/ SaveFirst \/ Saved \/ BackupExits \/ UpdateExits \/ RestoreExits
           \/ UNCHANGED vars
  <2>1. UNCHANGED <<plan, app, excused>>
    BY <1>1 DEF StartBackup, StartUpdate, StartRestore, SaveFirst, Saved, BackupExits, UpdateExits,
         RestoreExits, vars, serviceVars
  <2>2. InBackup => UNCHANGED bk
    BY <1>1 DEF StartBackup, StartUpdate, StartRestore, SaveFirst, Saved, BackupExits, UpdateExits,
         RestoreExits, Begin, Free, vars, backupVars, InBackup
  <2>3. InRestore => UNCHANGED rs
    BY <1>1 DEF StartBackup, StartUpdate, StartRestore, SaveFirst, Saved, BackupExits, UpdateExits,
         RestoreExits, AgentBusy, vars, restoreVars, InRestore
  <2> QED
    BY <2>1, <2>2, <2>3 DEF DownInv, InBackup, InRestore
<1>2. CASE Deadline \/ AgentDies
  BY <1>2, DeadlineEnds, DeathEnds DEF serviceVars
<1>3. CASE ControlService \/ EngineStep
  BY <1>3 DEF ControlService, EngineStep, Crash, Rise, Start, Stop, Mount, Excuse, backupVars,
       restoreVars, DownInv, InBackup, InRestore
<1>4. CASE BackupFrame /\ (CheckAndStop \/ Dump \/ Tar \/ StartAgain)
  BY <1>4 DEF BackupFrame, CheckAndStop, Dump, Tar, StartAgain, Stop, Start, Mount, Excuse,
       serviceVars, restoreVars, DownInv, InBackup, InRestore
<1>5. CASE UpdateFrame /\ (\/ ReadIds \/ PullImages \/ UndoPull \/ RecreateNew \/ Look
                         \/ Rollback \/ RecreateOld)
  <2>1. ASSUME ReadIds \/ PullImages \/ UndoPull \/ Look \/ Rollback
        PROVE  app = "down" /\ ~excused
    BY <2>1 DEF ReadIds, PullImages, UndoPull, Look, Watched, Rollback, PutBack, Retag, serviceVars
  <2>2. ASSUME RecreateNew \/ RecreateOld PROVE app = "down" /\ ~excused
    <3>1. app = "down"
      BY <2>2 DEF RecreateNew, RecreateOld, Recreate, Mount, serviceVars
    <3>2. Excuse(FALSE) \/ Excuse(TRUE)
      BY <2>2 DEF RecreateNew, RecreateOld
    <3> QED
      BY <1>0, <3>1, <3>2 DEF Excuse
  <2>3. app = "down" /\ ~excused
    BY <1>5, <2>1, <2>2
  <2> QED
    BY <1>5, <2>3, UpdateKeeps DEF UpdateFrame, backupVars, restoreVars, DownInv, InBackup, InRestore
<1>6. CASE plan' = plan /\ (\/ Unpack \/ StopToRestore \/ PutAside \/ Place \/ WayBack
                            \/ LoadDump \/ StartAll)
  <2>1. UNCHANGED backupVars
    BY <1>6, RestoreKeeps
  <2>2. CASE InRestore
    BY <1>6, <2>2 DEF Unpack, StopToRestore, PutAside, Place, WayBack, LoadDump, StartAll, Start,
       Mount, Excuse, serviceVars, InRestore
  <2>3. CASE ~InRestore
    <3>1. CASE Unpack
      BY <1>6, <2>1, <3>1 DEF Unpack, serviceVars, backupVars, DownInv, InBackup, InRestore
    <3>2. CASE StopToRestore
      BY <3>2 DEF StopToRestore, InRestore
    <3> QED
      BY <1>6, <2>3, <3>1, <3>2 DEF PutAside, Place, WayBack, LoadDump, StartAll, InRestore
  <2> QED
    BY <2>2, <2>3
<1> QED
  BY <1>1, <1>2, <1>3, <1>4, <1>5, <1>6, Steps

LEMMA NextTagInv == TypeOK /\ TagInv /\ [Next]_vars => TagInv'
<1> SUFFICES ASSUME TypeOK, TagInv, [Next]_vars PROVE TagInv'
  OBVIOUS
<1>1. CASE \/ \E who \in {"agent", "timer"} : StartBackup(who) \/ StartUpdate(who)
           \/ StartRestore \/ SaveFirst \/ Saved \/ BackupExits \/ UpdateExits \/ RestoreExits
           \/ UNCHANGED vars
  BY <1>1 DEF StartBackup, StartUpdate, StartRestore, SaveFirst, Saved, BackupExits, UpdateExits,
       RestoreExits, Forget, vars, serviceVars, updateVars, TagInv
<1>2. CASE Deadline \/ AgentDies
  BY <1>2, DeadlineEnds, DeathEnds DEF Forget, serviceVars, updateVars, TagInv
<1>3. CASE ControlService \/ EngineStep
  BY <1>3 DEF ControlService, EngineStep, Crash, Rise, Start, Stop, Mount, updateVars, TagInv
<1>4. CASE BackupFrame /\ (CheckAndStop \/ Dump \/ Tar \/ StartAgain)
  BY <1>4 DEF BackupFrame, CheckAndStop, Dump, Tar, StartAgain, Stop, Start, serviceVars, updateVars,
       TagInv
<1>5. CASE ReadIds \/ PullImages
  BY <1>5 DEF ReadIds, PullImages, Retag, serviceVars, TagInv
<1>6. CASE UndoPull \/ Rollback
  BY <1>6 DEF UndoPull, Rollback, PutBack, Retag, TagInv
<1>7. CASE RecreateNew \/ RecreateOld
  BY <1>7 DEF RecreateNew, RecreateOld, Recreate, serviceVars, TagInv
<1>8. CASE Look
  BY <1>8 DEF Look, Watched, TagInv
<1>9. CASE Unpack \/ StopToRestore \/ PutAside \/ Place \/ WayBack \/ LoadDump \/ StartAll
  BY <1>9, RestoreKeeps DEF updateVars, TagInv
<1> QED
  BY <1>1, <1>2, <1>3, <1>4, <1>5, <1>6, <1>7, <1>8, <1>9, Steps

-----------------------------------------------------------------------------
(* The theorems                                                            *)

LEMMA InitIInv == Init => IInv
<1> SUFFICES ASSUME Init PROVE IInv
  OBVIOUS
<1>1. /\ bk = "none" /\ bkBy = "none" /\ up = "none" /\ rs = "none"
      /\ app = "up" /\ live = Original /\ served = Original
  BY DEF Init, ServiceInit, BackupInit, UpdateInit, RestoreInit
<1> QED
  BY <1>1, InitTypeOK DEF IInv, DataInv, NothingLost, OwnInv, RestoreInv, AloneInv, DownInv, TagInv

LEMMA NextIInv == IInv /\ [Next]_vars => IInv'
  BY NextTypeOK, NextDataInv, NextOwnInv, NextRestoreInv, NextAloneInv, NextDownInv, NextTagInv
     DEF IInv

LEMMA Invariant == Spec => []IInv
  BY InitIInv, NextIInv, PTL DEF Spec

(* Every variable keeps its type.                                          *)
THEOREM TypeCorrect == Spec => []TypeOK
<1>1. IInv => TypeOK
  BY DEF IInv
<1> QED
  BY <1>1, Invariant, PTL

(* What the service started with, and what it reads, is never lost to a    *)
(* restore.                                                                *)
THEOREM NothingIsLost == Spec => []NothingLost
<1>1. IInv => NothingLost
  BY DEF IInv, DataInv
<1> QED
  BY <1>1, Invariant, PTL

(* A restore that is done, of a service that stops for it, is served.      *)
THEOREM RestoresTakeEffect == Spec => []RestoreTakesEffect
<1>1. IInv => RestoreTakesEffect
  BY DEF IInv, RestoreInv, RestoreTakesEffect
<1> QED
  BY <1>1, Invariant, PTL

(* No archive is torn but beside another wrapper.                          *)
THEOREM ArchivesAreWhole == Spec => []TornOnlyBesideAnother
<1>1. IInv => TornOnlyBesideAnother
  BY DEF IInv, AloneInv, TornOnlyBesideAnother
<1> QED
  BY <1>1, Invariant, PTL

(* What a wrapper stops comes up again, unless it is killed.               *)
THEOREM ServicesComeBack == Spec => []ComesBack
<1>1. IInv => ComesBack
  BY DEF IInv, DownInv, InBackup, InRestore, ComesBack
<1> QED
  BY <1>1, Invariant, PTL

OutcomeStep ==
    /\ up' = "DONE" /\ up # "DONE" => made' = tag' /\ made' = MaxVersion /\ ~moved
    /\ up' = "ROLLED_BACK" /\ up # "ROLLED_BACK" => mishap' \/ made' \in before

LEMMA StepTellsTheTruth == IInv /\ [Next]_vars => OutcomeStep
<1> SUFFICES ASSUME IInv, [Next]_vars PROVE OutcomeStep
  OBVIOUS
<1>1. up' \notin {"DONE", "ROLLED_BACK"} \/ up' = up \/ Look \/ RecreateOld
  BY Steps, DeadlineEnds, DeathEnds, RestoreKeeps
     DEF StartBackup, StartUpdate, StartRestore, ControlService, EngineStep, BackupFrame, ReadIds,
         PullImages, UndoPull, RecreateNew, Rollback, BackupExits, SaveFirst, Saved, UpdateExits,
         RestoreExits, Forget, updateVars, vars
<1>2. CASE Look
  <2>1. tag = MaxVersion /\ made = tag
    BY <1>2 DEF Look, Watched, IInv, TagInv
  <2>2. up' # "ROLLED_BACK" /\ UNCHANGED <<tag, made>>
    BY <1>2 DEF Look, Watched
  <2>3. up' = "DONE" => ~moved
    BY <1>2 DEF Look, Watched
  <2> QED
    BY <2>1, <2>2, <2>3 DEF OutcomeStep
<1>3. CASE RecreateOld
  BY <1>3 DEF RecreateOld, Recreate, IInv, TagInv, OutcomeStep
<1> QED
  BY <1>1, <1>2, <1>3 DEF OutcomeStep

(* What the wrapper says of an update is so.                               *)
THEOREM OutcomesAreTruthful == Spec => OutcomeTruthful
<1>1. IInv /\ [Next]_vars => OutcomeStep
  BY StepTellsTheTruth
<1> QED
  BY <1>1, Invariant, PTL DEF Spec, OutcomeTruthful, OutcomeStep
=============================================================================
