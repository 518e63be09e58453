----------------------------- MODULE AgentUpdate -----------------------------
(***************************************************************************)
(* ApplyAgentUpdate (agent_update.rs): the agent fetches a release, builds *)
(* it, tries the new binary, puts it in its own place and has systemd      *)
(* restart it.  What it meant to become is left in a marker file, from     *)
(* which the next process reports how it went.                             *)
(*                                                                         *)
(* Nothing claims the operation: two applies share the staging directory,  *)
(* the copy next to the live binary and the marker.  A release is its      *)
(* version; checksum and signature are of its download.  Whatever a client *)
(* hears is in RunStream and in Jobs.                                      *)
(***************************************************************************)
EXTENDS Naturals

CONSTANTS
    Applies,      \* calls of ApplyAgentUpdate
    MaxVersion,   \* the last release; the host starts with version 0
    MaxCrashes    \* deaths that no update asked for

ASSUME UpdatesAssumption == MaxVersion \in Nat /\ MaxCrashes \in Nat

Versions == 0..MaxVersion

VARIABLES
    published,   \* the release the manifest names
    up, running, \* is there a process, and of which version
    restart,     \* systemd was asked to restart it
    crashes,
    live,        \* the binary systemd starts
    beside,      \* its copy-to-be, /usr/local/bin/gryonixnexusd.new
    staging,     \* the directory releases are unpacked and built in
    marker,      \* ApplyState, the file
    stage, want, \* each apply: where it is, and the version it found
    pours,       \* the file its copy is being written to
    tested,      \* history: versions whose build passed the smoke test
    crowd,       \* history: applies that overlapped with another
    unsaved      \* history: applies with a marker that could not be written

hostVars == <<published, restart, crashes>>
fileVars == <<live, beside, staging, marker>>
runVars == <<stage, want, pours>>
history == <<tested, crowd, unsaved>>
vars == <<hostVars, up, running, fileVars, runVars, history>>

Stages == {"idle", "checking", "downloading", "unpacking", "building", "testing",
           "marking", "copying", "pouring", "renaming", "unmarking", "clearing",
           "cleaning", "restarting", "handed", "over"}

(* A file that is there is a whole build, or part of one, or of two.       *)
Binary == [of : Versions, is : {"whole", "part", "mixed"}]
NoFile == [of |-> 0, is |-> "none"]

Gone  == [there |-> FALSE, tree |-> 0, bin |-> 0]
Blank == [applying |-> 0, attempted |-> FALSE, ok |-> FALSE]

TypeOK ==
    /\ published \in Versions /\ running \in Versions
    /\ up \in BOOLEAN /\ restart \in BOOLEAN
    /\ crashes \in 0..MaxCrashes
    /\ live \in Binary /\ beside \in Binary \cup {NoFile}
    /\ staging \in [there : BOOLEAN, tree : Versions, bin : Versions]
    /\ marker \in [applying : Versions, attempted : BOOLEAN, ok : BOOLEAN]
    /\ stage \in [Applies -> Stages]
    /\ want \in [Applies -> Versions]
    /\ pours \in [Applies -> {"none", "beside", "live", "unlinked"}]
    /\ tested \subseteq Versions
    /\ crowd \subseteq Applies /\ unsaved \subseteq Applies

Init ==
    /\ published = 0 /\ running = 0 /\ up = TRUE /\ restart = FALSE /\ crashes = 0
    /\ live = [of |-> 0, is |-> "whole"] /\ beside = NoFile
    /\ staging = Gone /\ marker = Blank
    /\ stage = [a \in Applies |-> "idle"] /\ want = [a \in Applies |-> 0]
    /\ pours = [a \in Applies |-> "none"]
    /\ tested = {} /\ crowd = {} /\ unsaved = {}

Active == {a \in Applies : stage[a] \notin {"idle", "over"}}

(* The serving process takes apply a from one place to another.            *)
Goes(a, from, to) ==
    /\ up /\ stage[a] = from
    /\ stage' = [stage EXCEPT ![a] = to]

(* save_apply_state truncates and writes: a disk that refuses leaves the   *)
(* file as it was or not readable, which loads as blank.  Nobody is told.  *)
Saves(S, state) ==
    \/ marker' = state /\ UNCHANGED unsaved
    \/ marker' \in {marker, Blank} /\ unsaved' = unsaved \cup S

-----------------------------------------------------------------------------
(* Fetching and building                                                   *)

ApplyAgentUpdate(a) ==
    /\ Goes(a, "idle", "checking")
    /\ crowd' = IF Active = {} THEN crowd ELSE crowd \cup Active \cup {a}
    /\ UNCHANGED <<hostVars, up, running, fileVars, want, pours, tested, unsaved>>

(* check: newer than the process that asks, which need not be the binary   *)
(* that is installed.                                                      *)
Check(a) ==
    /\ \/ Goes(a, "checking", "downloading") /\ published > running
          /\ want' = [want EXCEPT ![a] = published]
       \/ Goes(a, "checking", "over") /\ UNCHANGED want
    /\ UNCHANGED <<hostVars, up, running, fileVars, pours, history>>

(* Download and checksum; then the staging directory is made anew, whoever *)
(* is using it.                                                            *)
Download(a) ==
    /\ \/ Goes(a, "downloading", "unpacking")
          /\ staging' = [there |-> TRUE, tree |-> 0, bin |-> 0]
       \/ Goes(a, "downloading", "over") /\ staging' \in {staging, Gone}
    /\ UNCHANGED <<hostVars, up, running, live, beside, marker, want, pours, history>>

Unpack(a) ==
    /\ \/ Goes(a, "unpacking", "building") /\ staging.there
          /\ staging' = [staging EXCEPT !.tree = want[a]]
       \/ Goes(a, "unpacking", "clearing") /\ UNCHANGED staging
    /\ UNCHANGED <<hostVars, up, running, live, beside, marker, want, pours, history>>

Build(a) ==
    /\ \/ Goes(a, "building", "testing") /\ staging.there /\ staging.tree # 0
          /\ staging' = [staging EXCEPT !.bin = staging.tree]
       \/ Goes(a, "building", "clearing") /\ UNCHANGED staging
    /\ UNCHANGED <<hostVars, up, running, live, beside, marker, want, pours, history>>

(* smoke_test: what was built names the version that was wanted.           *)
Test(a) ==
    /\ \/ Goes(a, "testing", "marking") /\ staging.bin = want[a]
          /\ tested' = tested \cup {want[a]}
       \/ Goes(a, "testing", "clearing") /\ UNCHANGED tested
    /\ UNCHANGED <<hostVars, up, running, fileVars, want, pours, crowd, unsaved>>

-----------------------------------------------------------------------------
(* The swap                                                                *)

Mark(a) ==
    /\ Goes(a, "marking", "copying")
    /\ Saves({a}, [marker EXCEPT !.applying = want[a]])
    /\ UNCHANGED <<hostVars, up, running, live, beside, staging, want, pours, tested, crowd>>

(* Slip: the copy goes over the live binary.                               *)
OpenInPlace(a) ==
    /\ \/ Goes(a, "copying", "pouring") /\ staging.bin # 0
          /\ live' = [of |-> staging.bin, is |-> "part"]
          /\ pours' = [pours EXCEPT ![a] = "live"]
       \/ Goes(a, "copying", "unmarking") /\ UNCHANGED <<live, pours>>
    /\ UNCHANGED <<hostVars, up, running, beside, staging, marker, want, history>>

(* The copy beside the live binary is opened, and truncated even under an  *)
(* apply that is still writing to it.                                      *)
Open(a) ==
    /\ \/ Goes(a, "copying", "pouring") /\ staging.bin # 0
          /\ beside' = [of |-> staging.bin,
                        is |-> IF \E b \in Applies : pours[b] = "beside" THEN "mixed" ELSE "part"]
          /\ pours' = [pours EXCEPT ![a] = "beside"]
       \/ Goes(a, "copying", "unmarking") /\ UNCHANGED <<beside, pours>>
    /\ UNCHANGED <<hostVars, up, running, live, staging, marker, want, history>>

Filled(file) == [file EXCEPT !.is = IF @ = "part" THEN "whole" ELSE @]

(* The copy is written, to wherever a rename has taken it meanwhile; one   *)
(* that fails stays where it is.                                           *)
Pour(a) ==
    /\ \/ /\ Goes(a, "pouring", "renaming")
          /\ beside' = IF pours[a] = "beside" THEN Filled(beside) ELSE beside
          /\ live' = IF pours[a] = "live" THEN Filled(live) ELSE live
       \/ Goes(a, "pouring", "unmarking") /\ UNCHANGED <<beside, live>>
    /\ pours' = [pours EXCEPT ![a] = "none"]
    /\ UNCHANGED <<hostVars, up, running, staging, marker, want, history>>

(* Whoever still writes to the copy writes to what it has become.          *)
Carried(from, to) == [b \in Applies |-> IF pours[b] = from THEN to ELSE pours[b]]

(* Slip: whatever is beside is put in place.                               *)
RenameWhatever(a) ==
    /\ Goes(a, "renaming", "cleaning")
    /\ live' = beside /\ pours' = Carried("beside", "live")
    /\ beside' = NoFile
    /\ UNCHANGED <<hostVars, up, running, staging, marker, want, history>>

(* Mode and rename; a failure removes the copy.                            *)
Rename(a) ==
    /\ \/ Goes(a, "renaming", "cleaning") /\ beside # NoFile
          /\ live' = beside /\ pours' = Carried("beside", "live")
       \/ Goes(a, "renaming", "unmarking")
          /\ UNCHANGED live /\ pours' = Carried("beside", "unlinked")
    /\ beside' = NoFile
    /\ UNCHANGED <<hostVars, up, running, staging, marker, want, history>>

(* The client hears FAILED, and the marker is cleared, whosever it is.     *)
Unmark(a) ==
    /\ Goes(a, "unmarking", "clearing")
    /\ Saves({a}, [marker EXCEPT !.applying = 0])
    /\ UNCHANGED <<hostVars, up, running, live, beside, staging, want, pours, tested, crowd>>

(* The staging directory goes, after a failure and after the swap.         *)
Clear(a) ==
    /\ Goes(a, "clearing", "over") \/ Goes(a, "cleaning", "restarting")
    /\ staging' = Gone
    /\ UNCHANGED <<hostVars, up, running, live, beside, marker, want, pours, history>>

(* systemctl restart, which may fail to be spawned.                        *)
Restart(a) ==
    /\ Goes(a, "restarting", "handed")
    /\ restart' \in {TRUE, restart}
    /\ UNCHANGED <<published, up, running, crashes, fileVars, want, pours, history>>

-----------------------------------------------------------------------------
(* The process and the world                                               *)

Dies ==
    /\ up /\ up' = FALSE
    /\ \/ restart /\ UNCHANGED crashes
       \/ crashes < MaxCrashes /\ crashes' = crashes + 1
    /\ restart' = FALSE
    /\ pours' = [a \in Applies |-> "none"]
    /\ UNCHANGED <<published, running, fileVars, stage, want, history>>

(* reconcile_on_startup, on every start: the marker is taken, and what it  *)
(* expected compared with what runs.                                       *)
ReconciledWith(version) ==
    [applying |-> 0, attempted |-> TRUE, ok |-> marker.applying = version]

(* Slip: a marker that is there is an update that took effect.             *)
StartTrusting ==
    /\ ~up /\ live.is # "part"
    /\ up' = TRUE /\ running' = live.of
    /\ IF marker.applying = 0 THEN UNCHANGED <<marker, unsaved>>
       ELSE Saves(Active, ReconciledWith(marker.applying))
    /\ stage' = [a \in Applies |-> IF a \in Active THEN "over" ELSE stage[a]]
    /\ UNCHANGED <<hostVars, live, beside, staging, want, pours, tested, crowd>>

(* systemd starts what is installed, if it can be executed.                *)
Start ==
    /\ ~up /\ live.is # "part"
    /\ up' = TRUE /\ running' = live.of
    /\ IF marker.applying = 0 THEN UNCHANGED <<marker, unsaved>>
       ELSE Saves(Active, ReconciledWith(live.of))
    /\ stage' = [a \in Applies |-> IF a \in Active THEN "over" ELSE stage[a]]
    /\ UNCHANGED <<hostVars, live, beside, staging, want, pours, tested, crowd>>

Publish ==
    /\ published < MaxVersion
    /\ published' = published + 1
    /\ UNCHANGED <<up, running, restart, crashes, fileVars, runVars, history>>

ApplyStep(a) ==
    \/ ApplyAgentUpdate(a) \/ Check(a) \/ Download(a) \/ Unpack(a) \/ Build(a) \/ Test(a)
    \/ Mark(a) \/ Open(a) \/ Pour(a) \/ Rename(a) \/ Unmark(a) \/ Clear(a) \/ Restart(a)

Next == Dies \/ Start \/ Publish \/ \E a \in Applies : ApplyStep(a)

Spec == Init /\ [][Next]_vars

-----------------------------------------------------------------------------
(* Properties                                                              *)

(* Where an apply has left its marker and not yet swapped, and where it    *)
(* has swapped.                                                            *)
Unswapped == {"copying", "pouring", "renaming", "unmarking"}
Swapped   == {"cleaning", "restarting", "handed"}

(* As long as no two applies overlap, what systemd would start is at any   *)
(* moment one whole build that passed the smoke test, or the binary the    *)
(* host came with (agent_update.rs:532-551, 691-722).                      *)
LiveIsWholeAndTested ==
    crowd = {} => live.is = "whole" /\ live.of \in tested \cup {0}

(* A process that starts tells the truth about the apply it ends: one that *)
(* had swapped is reported to have succeeded, and its version runs; one    *)
(* that had left its marker and not swapped is reported to have failed,    *)
(* and its version does not run; and no other start reports anything.      *)
(* Applies that overlap share a marker and are excepted, as is one whose   *)
(* marker could not be written (agent_update.rs:340-366, 529-551).         *)
StartsReport ==
    [][~up /\ up' /\ crowd = {} =>
        /\ \A a \in Active \ unsaved' :
              /\ stage[a] \in Swapped => marker'.attempted /\ marker'.ok /\ running' = want[a]
              /\ stage[a] \in Unswapped => marker'.attempted /\ ~marker'.ok /\ running' # want[a]
        /\ unsaved' = {} /\ (\A a \in Active : stage[a] \notin Swapped \cup Unswapped)
              => marker' = marker]_vars
=============================================================================
