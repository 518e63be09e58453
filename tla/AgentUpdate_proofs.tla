------------------------- MODULE AgentUpdate_proofs -------------------------
(***************************************************************************)
(* Proofs about AgentUpdate, for any number of applies, releases and       *)
(* crashes.  TLC checks the same on two applies.                           *)
(*                                                                         *)
(* The inductive invariant is TypeOK with, as long as no two applies have  *)
(* overlapped, what the build, the copy, the live binary and the marker    *)
(* are at each stage of the one that is under way.                         *)
(***************************************************************************)
EXTENDS AgentUpdate, TLAPS

Alone == \A a, b \in Active : a = b

(* Only the copy beside is ever written to.                                *)
PourInv ==
    \A a \in Applies :
        /\ pours[a] # "none" => up /\ stage[a] = "pouring" /\ pours[a] = "beside"
        /\ up /\ stage[a] = "pouring" =>
              pours[a] = "beside" /\ beside = [of |-> want[a], is |-> "part"]
        /\ stage[a] = "renaming" => beside = [of |-> want[a], is |-> "whole"]

(* What was tested is what is still in the staging directory.              *)
BuildInv ==
    \A a \in Applies :
        stage[a] \in {"marking", "copying", "pouring", "renaming"} =>
            staging.bin = want[a] /\ want[a] \in tested

LiveInv ==
    /\ live.is = "whole" /\ live.of \in tested \cup {0}
    /\ \A a \in Applies : stage[a] \in Swapped => live.of = want[a]
    /\ (\A a \in Applies : stage[a] \notin Swapped) => live.of = running

WantInv ==
    \A a \in Applies :
        stage[a] \notin {"idle", "checking", "over"} => want[a] > running

(* The marker is that of the apply between its mark and the next start.    *)
MarkInv ==
    /\ \A a \in Applies \ unsaved :
          stage[a] \in Swapped \cup Unswapped => marker.applying = want[a]
    /\ unsaved = {} /\ (\A a \in Applies : stage[a] \notin Swapped \cup Unswapped)
          => marker.applying = 0

OneInv == Alone /\ PourInv /\ BuildInv /\ LiveInv /\ WantInv /\ MarkInv

IInv == TypeOK /\ (crowd = {} => OneInv)

-----------------------------------------------------------------------------
(* Types                                                                   *)

USE UpdatesAssumption DEF UpdatesAssumption

(* The version the host came with, and no marker.                          *)
LEMMA Zero ==
    /\ 0 \in Versions
    /\ Blank \in [applying : Versions, attempted : BOOLEAN, ok : BOOLEAN]
    /\ Gone \in [there : BOOLEAN, tree : Versions, bin : Versions]
<1>1. 0 \in Versions
    BY DEF Versions
<1> QED
    BY <1>1 DEF Blank, Gone

(* The host starts well typed.                                             *)
LEMMA InitTyped == Init => TypeOK
<1> SUFFICES ASSUME Init PROVE TypeOK
    OBVIOUS
<1>1. crashes \in 0..MaxCrashes
    BY DEF Init
<1> QED
    BY <1>1, Zero DEF Init, TypeOK, Stages, Binary

(* Every step keeps the types.                                             *)
LEMMA NextTyped == TypeOK /\ [Next]_vars => TypeOK'
<1> SUFFICES ASSUME TypeOK, [Next]_vars PROVE TypeOK'
    OBVIOUS
<1>1. CASE Dies
  <2>1. crashes' \in 0..MaxCrashes
      BY <1>1 DEF TypeOK, Dies
  <2> QED
      BY <1>1, <2>1 DEF TypeOK, Dies, fileVars, history
<1>2. CASE Start
  <2>1. live.of \in Versions
      BY DEF TypeOK, Binary
  <2>2. marker' \in [applying : Versions, attempted : BOOLEAN, ok : BOOLEAN]
        /\ unsaved' \subseteq Applies
    <3>1. \A v \in Versions : ReconciledWith(v)
              \in [applying : Versions, attempted : BOOLEAN, ok : BOOLEAN]
        BY Zero DEF ReconciledWith
    <3> QED
        BY <1>2, <2>1, <3>1, Zero DEF TypeOK, Start, Saves, Active
  <2>3. stage' \in [Applies -> Stages]
      BY <1>2 DEF TypeOK, Start, Stages
  <2> QED
      BY <1>2, <2>1, <2>2, <2>3 DEF TypeOK, Start, hostVars
<1>3. CASE Publish
    BY <1>3 DEF TypeOK, Publish, Versions, fileVars, runVars, history
<1>4. ASSUME NEW a \in Applies, ApplyStep(a) PROVE TypeOK'
  <2> USE DEF hostVars, fileVars, runVars, history
  <2>1. CASE ApplyAgentUpdate(a)
      BY <2>1 DEF TypeOK, ApplyAgentUpdate, Goes, Stages, Active
  <2>2. CASE Check(a)
      BY <2>2 DEF TypeOK, Check, Goes, Stages
  <2>3. CASE Download(a)
    <3>1. [there |-> TRUE, tree |-> 0, bin |-> 0]
              \in [there : BOOLEAN, tree : Versions, bin : Versions]
        BY Zero
    <3>2. staging' \in [there : BOOLEAN, tree : Versions, bin : Versions]
        BY <2>3, <3>1, Zero DEF TypeOK, Download
    <3> QED
        BY <2>3, <3>2 DEF TypeOK, Download, Goes, Stages
  <2>4. CASE Unpack(a)
      BY <2>4 DEF TypeOK, Unpack, Goes, Stages
  <2>5. CASE Build(a)
      BY <2>5 DEF TypeOK, Build, Goes, Stages
  <2>6. CASE Test(a)
      BY <2>6 DEF TypeOK, Test, Goes, Stages
  <2>7. CASE Mark(a)
    <3>1. [marker EXCEPT !.applying = want[a]]
              \in [applying : Versions, attempted : BOOLEAN, ok : BOOLEAN]
        BY DEF TypeOK
    <3> QED
        BY <2>7, <3>1, Zero DEF TypeOK, Mark, Goes, Stages, Saves
  <2>8. CASE Open(a)
      BY <2>8 DEF TypeOK, Open, Goes, Stages, Binary
  <2>9. CASE Pour(a)
      BY <2>9, Zero DEF TypeOK, Pour, Goes, Stages, Binary, Filled, NoFile
  <2>10. CASE Rename(a)
      BY <2>10 DEF TypeOK, Rename, Goes, Stages, Binary, NoFile, Carried
  <2>11. CASE Unmark(a)
    <3>1. [marker EXCEPT !.applying = 0]
              \in [applying : Versions, attempted : BOOLEAN, ok : BOOLEAN]
        BY Zero DEF TypeOK
    <3> QED
        BY <2>11, <3>1, Zero DEF TypeOK, Unmark, Goes, Stages, Saves
  <2>12. CASE Clear(a)
      BY <2>12, Zero DEF TypeOK, Clear, Goes, Stages
  <2>13. CASE Restart(a)
      BY <2>13 DEF TypeOK, Restart, Goes, Stages
  <2> QED
      BY <1>4, <2>1, <2>2, <2>3, <2>4, <2>5, <2>6, <2>7, <2>8, <2>9, <2>10, <2>11,
         <2>12, <2>13 DEF ApplyStep
<1>5. CASE UNCHANGED vars
    BY <1>5 DEF TypeOK, vars, hostVars, fileVars, runVars, history
<1> QED
    BY <1>1, <1>2, <1>3, <1>4, <1>5 DEF Next

(* Every variable keeps its type.                                          *)
THEOREM TypeCorrect == Spec => []TypeOK
    BY InitTyped, NextTyped, PTL DEF Spec

-----------------------------------------------------------------------------
(* One apply at a time                                                     *)

(* The apply that makes a step is the only one under way.                  *)
OnlyOne(a) ==
    \A b \in Applies \ {a} : stage[b] \in {"idle", "over"} /\ pours[b] = "none"

LEMMA StepIsAlone ==
    ASSUME TypeOK, OneInv, NEW a \in Applies, stage[a] \notin {"idle", "over"}
    PROVE  OnlyOne(a)
    BY DEF TypeOK, OneInv, Alone, Active, PourInv, OnlyOne

(* Fetching, building and testing touch nothing that is live or marked.    *)
LEMMA BuildSteps ==
    ASSUME TypeOK, OneInv, NEW a \in Applies, OnlyOne(a),
           Check(a) \/ Download(a) \/ Unpack(a) \/ Build(a) \/ Test(a)
    PROVE  OneInv'
<1> USE DEF OneInv, hostVars, fileVars, history, OnlyOne, Goes
<1>1. Alone'
    BY DEF TypeOK, Alone, Active, Check, Download, Unpack, Build, Test
<1>2. PourInv'
    BY DEF TypeOK, PourInv, Check, Download, Unpack, Build, Test
<1>3. BuildInv'
    BY DEF TypeOK, BuildInv, Check, Download, Unpack, Build, Test
<1>4. LiveInv'
    BY DEF TypeOK, LiveInv, Swapped, Check, Download, Unpack, Build, Test
<1>5. WantInv'
    BY DEF TypeOK, WantInv, Check, Download, Unpack, Build, Test
<1>6. MarkInv'
    BY DEF TypeOK, MarkInv, Swapped, Unswapped, Check, Download, Unpack, Build, Test
<1> QED
    BY <1>1, <1>2, <1>3, <1>4, <1>5, <1>6

(* The marker goes up before the copy, and down after a swap that failed.  *)
LEMMA MarkSteps ==
    ASSUME TypeOK, OneInv, NEW a \in Applies, OnlyOne(a), Mark(a) \/ Unmark(a)
    PROVE  OneInv'
<1> USE DEF OneInv, hostVars, fileVars, OnlyOne, Goes
<1>1. Alone'
    BY DEF TypeOK, Alone, Active, Mark, Unmark
<1>2. PourInv'
    BY DEF TypeOK, PourInv, Mark, Unmark
<1>3. BuildInv'
    BY DEF TypeOK, BuildInv, Mark, Unmark
<1>4. LiveInv'
    BY DEF TypeOK, LiveInv, Swapped, Mark, Unmark
<1>5. WantInv'
    BY DEF TypeOK, WantInv, Mark, Unmark
<1>6. MarkInv'
  <2>1. CASE Mark(a)
      BY <2>1 DEF TypeOK, MarkInv, Swapped, Unswapped, Mark, Saves
  <2>2. CASE Unmark(a)
      BY <2>2 DEF TypeOK, MarkInv, Swapped, Unswapped, Unmark, Saves
  <2> QED
      BY <2>1, <2>2
<1> QED
    BY <1>1, <1>2, <1>3, <1>4, <1>5, <1>6

(* The copy is written beside and put in place when it is whole.           *)
LEMMA SwapSteps ==
    ASSUME TypeOK, OneInv, NEW a \in Applies, OnlyOne(a),
           Open(a) \/ Pour(a) \/ Rename(a)
    PROVE  OneInv'
<1> USE DEF OneInv, hostVars, fileVars, history, OnlyOne, Goes
<1>1. Alone'
    BY DEF TypeOK, Alone, Active, Open, Pour, Rename
<1>2. PourInv'
  <2>1. CASE Open(a)
      BY <2>1 DEF TypeOK, PourInv, BuildInv, Open
  <2>2. CASE Pour(a)
      BY <2>2 DEF TypeOK, PourInv, Pour, Filled
  <2>3. CASE Rename(a)
      BY <2>3 DEF TypeOK, PourInv, Rename, Carried
  <2> QED
      BY <2>1, <2>2, <2>3
<1>3. BuildInv'
    BY DEF TypeOK, BuildInv, Open, Pour, Rename
<1>4. LiveInv'
  <2>1. CASE Open(a)
      BY <2>1 DEF TypeOK, LiveInv, Swapped, Open
  <2>2. CASE Pour(a)
      BY <2>2 DEF TypeOK, PourInv, LiveInv, Swapped, Pour
  <2>3. CASE Rename(a)
      BY <2>3 DEF TypeOK, PourInv, BuildInv, LiveInv, Swapped, Rename
  <2> QED
      BY <2>1, <2>2, <2>3
<1>5. WantInv'
    BY DEF TypeOK, WantInv, Open, Pour, Rename
<1>6. MarkInv'
    BY DEF TypeOK, MarkInv, Swapped, Unswapped, Open, Pour, Rename
<1> QED
    BY <1>1, <1>2, <1>3, <1>4, <1>5, <1>6

(* Clearing up, and asking for the restart.                                *)
LEMMA LastSteps ==
    ASSUME TypeOK, OneInv, NEW a \in Applies, OnlyOne(a), Clear(a) \/ Restart(a)
    PROVE  OneInv'
<1> USE DEF OneInv, hostVars, fileVars, history, OnlyOne, Goes
<1>1. Alone'
    BY DEF TypeOK, Alone, Active, Clear, Restart
<1>2. PourInv'
  <2>1. CASE Clear(a)
      BY <2>1 DEF TypeOK, PourInv, Clear
  <2>2. CASE Restart(a)
      BY <2>2 DEF TypeOK, PourInv, Restart
  <2> QED
      BY <2>1, <2>2
<1>3. BuildInv'
  <2>1. CASE Clear(a)
      BY <2>1 DEF TypeOK, BuildInv, Clear
  <2>2. CASE Restart(a)
      BY <2>2 DEF TypeOK, BuildInv, Restart
  <2> QED
      BY <2>1, <2>2
<1>4. LiveInv'
  <2>1. CASE Clear(a)
      BY <2>1 DEF TypeOK, LiveInv, Swapped, Clear
  <2>2. CASE Restart(a)
      BY <2>2 DEF TypeOK, LiveInv, Swapped, Restart
  <2> QED
      BY <2>1, <2>2
<1>5. WantInv'
  <2>1. CASE Clear(a)
      BY <2>1 DEF TypeOK, WantInv, Clear
  <2>2. CASE Restart(a)
      BY <2>2 DEF TypeOK, WantInv, Restart
  <2> QED
      BY <2>1, <2>2
<1>6. MarkInv'
  <2>1. CASE Clear(a)
      BY <2>1 DEF TypeOK, MarkInv, Swapped, Unswapped, Clear
  <2>2. CASE Restart(a)
      BY <2>2 DEF TypeOK, MarkInv, Swapped, Unswapped, Restart
  <2> QED
      BY <2>1, <2>2
<1> QED
    BY <1>1, <1>2, <1>3, <1>4, <1>5, <1>6

(* A first apply begins, or one that overlaps, which ends the assumption.  *)
LEMMA BeginStep ==
    ASSUME TypeOK, OneInv, NEW a \in Applies, ApplyAgentUpdate(a), crowd' = {}
    PROVE  OneInv'
<1> USE DEF OneInv, hostVars, fileVars, ApplyAgentUpdate, Goes
<1>1. Active = {}
    OBVIOUS
<1>2. Alone'
    BY <1>1 DEF TypeOK, Alone, Active
<1>3. PourInv' /\ BuildInv' /\ WantInv'
    BY DEF TypeOK, PourInv, BuildInv, WantInv
<1>4. LiveInv'
    BY DEF TypeOK, LiveInv, Swapped
<1>5. MarkInv'
    BY DEF TypeOK, MarkInv, Swapped, Unswapped
<1> QED
    BY <1>2, <1>3, <1>4, <1>5

(* The process ends, and the next one takes the marker.                    *)
LEMMA ProcessSteps ==
    ASSUME TypeOK, OneInv, Dies \/ Start
    PROVE  OneInv'
<1> USE DEF OneInv, hostVars, fileVars, history
<1>1. CASE Dies
    BY <1>1 DEF TypeOK, Dies, Alone, Active, PourInv, BuildInv, LiveInv, WantInv,
       MarkInv, Swapped, Unswapped
<1>2. CASE Start
  <2>1. \A a \in Applies : stage'[a] \in {"idle", "over"} /\ pours'[a] = "none"
      BY <1>2 DEF TypeOK, Start, Active, PourInv
  <2>2. Alone' /\ PourInv' /\ BuildInv' /\ WantInv'
      BY <2>1 DEF Alone, Active, PourInv, BuildInv, WantInv
  <2>3. LiveInv'
      BY <1>2, <2>1 DEF LiveInv, Swapped, Start
  <2>4. unsaved' = {} => marker'.applying = 0
    <3>1. ASSUME unsaved' = {}, marker.applying # 0 PROVE marker'.applying = 0
      <4>1. unsaved = {} /\ Active # {}
          BY <1>2, <3>1 DEF Start, Saves, MarkInv, Swapped, Unswapped, Active
      <4> QED
          BY <1>2, <3>1, <4>1 DEF Start, Saves, ReconciledWith
    <3> QED
        BY <1>2, <3>1 DEF Start
  <2>5. MarkInv'
      BY <2>1, <2>4 DEF MarkInv, Swapped, Unswapped
  <2> QED
      BY <2>2, <2>3, <2>5
<1> QED
    BY <1>1, <1>2

(* Every step keeps the invariant.                                         *)
LEMMA NextInv == IInv /\ [Next]_vars => IInv'
<1> SUFFICES ASSUME IInv, [Next]_vars, crowd' = {} PROVE OneInv'
    BY NextTyped DEF IInv
<1>1. TypeOK
    BY DEF IInv
<1>2. crowd = {}
  <2>1. ASSUME NEW a \in Applies, ApplyStep(a) PROVE crowd = {}
      BY <2>1 DEF ApplyStep, history, ApplyAgentUpdate, Check, Download, Unpack, Build,
         Test, Mark, Open, Pour, Rename, Unmark, Clear, Restart
  <2> QED
      BY <2>1 DEF Next, vars, history, Dies, Start, Publish
<1>3. OneInv
    BY <1>2 DEF IInv
<1>4. CASE Dies \/ Start
    BY <1>1, <1>3, <1>4, ProcessSteps
<1>5. CASE Publish
    BY <1>3, <1>5 DEF Publish, OneInv, fileVars, runVars, history, Alone, Active, PourInv,
       BuildInv, LiveInv, WantInv, MarkInv, Swapped, Unswapped
<1>6. ASSUME NEW a \in Applies, ApplyStep(a) PROVE OneInv'
  <2>1. CASE ApplyAgentUpdate(a)
      BY <1>1, <1>3, <2>1, BeginStep
  <2>2. CASE ~ApplyAgentUpdate(a)
    <3>1. stage[a] \notin {"idle", "over"}
        BY <1>6, <2>2 DEF ApplyStep, Goes, Check, Download, Unpack, Build, Test, Mark,
           Open, Pour, Rename, Unmark, Clear, Restart
    <3>2. OnlyOne(a)
        BY <1>1, <1>3, <3>1, StepIsAlone
    <3> QED
        BY <1>1, <1>3, <1>6, <2>2, <3>2, BuildSteps, MarkSteps, SwapSteps, LastSteps
           DEF ApplyStep
  <2> QED
      BY <2>1, <2>2
<1>7. CASE UNCHANGED vars
    BY <1>3, <1>7 DEF vars, OneInv, hostVars, fileVars, runVars, history, Alone, Active,
       PourInv, BuildInv, LiveInv, WantInv, MarkInv, Swapped, Unswapped
<1> QED
    BY <1>4, <1>5, <1>6, <1>7 DEF Next

(* The host starts with nothing under way.                                 *)
LEMMA InitInv == Init => IInv
<1> SUFFICES ASSUME Init PROVE IInv
    OBVIOUS
<1>1. \A a \in Applies : stage[a] = "idle" /\ pours[a] = "none"
    BY DEF Init
<1>2. OneInv
    BY <1>1 DEF Init, OneInv, Alone, Active, PourInv, BuildInv, LiveInv, WantInv, MarkInv,
       Swapped, Unswapped, Blank
<1> QED
    BY <1>2, InitTyped DEF IInv

(* What systemd would start is whole and tested.                           *)
THEOREM LiveIsGood == Spec => []LiveIsWholeAndTested
<1>1. IInv => LiveIsWholeAndTested
    BY DEF IInv, OneInv, LiveInv, LiveIsWholeAndTested
<1> QED
    BY <1>1, InitInv, NextInv, PTL DEF Spec

(* The start that ends an apply tells what became of it, and no other      *)
(* start tells anything.                                                   *)
LEMMA StartTells ==
    ASSUME TypeOK, OneInv, Start
    PROVE  /\ \A a \in Active \ unsaved' :
                 /\ stage[a] \in Swapped => marker'.attempted /\ marker'.ok /\ running' = want[a]
                 /\ stage[a] \in Unswapped => marker'.attempted /\ ~marker'.ok /\ running' # want[a]
           /\ unsaved' = {} /\ (\A a \in Active : stage[a] \notin Swapped \cup Unswapped)
                 => marker' = marker
<1> USE DEF OneInv
<1>1. ASSUME NEW a \in Active \ unsaved', stage[a] \in Swapped \cup Unswapped
      PROVE  /\ marker.applying = want[a] /\ want[a] # 0
             /\ marker' = ReconciledWith(live.of) /\ running' = live.of
  <2>1. marker.applying = want[a]
      BY <1>1 DEF Start, Saves, MarkInv, Active
  <2>2. want[a] # 0
      BY <1>1 DEF TypeOK, WantInv, Versions, Active, Swapped, Unswapped
  <2>3. Saves(Active, ReconciledWith(live.of))
      BY <2>1, <2>2 DEF Start
  <2> QED
      BY <1>1, <2>1, <2>2, <2>3 DEF Start, Saves
<1>2. ASSUME NEW a \in Active \ unsaved', stage[a] \in Swapped
      PROVE  marker'.attempted /\ marker'.ok /\ running' = want[a]
  <2>1. live.of = want[a]
      BY <1>2 DEF LiveInv, Active
  <2>2. marker.applying = live.of /\ marker' = ReconciledWith(live.of) /\ running' = live.of
      BY <1>1, <1>2, <2>1
  <2>3. ReconciledWith(live.of) = [applying |-> 0, attempted |-> TRUE, ok |-> TRUE]
      BY <2>2 DEF ReconciledWith
  <2> QED
      BY <2>1, <2>2, <2>3
<1>3. ASSUME NEW a \in Active \ unsaved', stage[a] \in Unswapped
      PROVE  marker'.attempted /\ ~marker'.ok /\ running' # want[a]
  <2>1. \A b \in Applies : stage[b] \notin Swapped
      BY <1>3 DEF Alone, Active, Swapped, Unswapped
  <2>2. live.of = running
      BY <2>1 DEF LiveInv
  <2>3. want[a] > running
      BY <1>3 DEF WantInv, Active, Unswapped
  <2>4. live.of # want[a]
      BY <2>2, <2>3 DEF TypeOK, Versions
  <2>5. marker.applying # live.of /\ marker' = ReconciledWith(live.of) /\ running' = live.of
      BY <1>1, <1>3, <2>4
  <2>6. ReconciledWith(live.of) = [applying |-> 0, attempted |-> TRUE, ok |-> FALSE]
      BY <2>5 DEF ReconciledWith
  <2> QED
      BY <2>4, <2>5, <2>6
<1>4. ASSUME unsaved' = {}, \A a \in Active : stage[a] \notin Swapped \cup Unswapped
      PROVE  marker' = marker
  <2>1. unsaved = {}
      BY <1>4 DEF Start, Saves
  <2>2. \A a \in Applies : stage[a] \notin Swapped \cup Unswapped
      BY <1>4 DEF Active, Swapped, Unswapped
  <2> QED
      BY <2>1, <2>2 DEF Start, MarkInv
<1> QED
    BY <1>2, <1>3, <1>4

(* Any start of any behaviour.                                             *)
THEOREM StartsTellTheTruth == Spec => StartsReport
<1>1. IInv /\ [Next]_vars /\ ~up /\ up' /\ crowd = {} => Start /\ TypeOK /\ OneInv
  <2>1. ASSUME NEW a \in Applies, ApplyStep(a), ~up PROVE FALSE
      BY <2>1 DEF ApplyStep, Goes, ApplyAgentUpdate, Check, Download, Unpack, Build,
         Test, Mark, Open, Pour, Rename, Unmark, Clear, Restart
  <2> QED
      BY <2>1 DEF IInv, Next, Dies, Publish, vars
<1>2. IInv /\ [Next]_vars =>
        [~up /\ up' /\ crowd = {} =>
            /\ \A a \in Active \ unsaved' :
                  /\ stage[a] \in Swapped => marker'.attempted /\ marker'.ok /\ running' = want[a]
                  /\ stage[a] \in Unswapped => marker'.attempted /\ ~marker'.ok /\ running' # want[a]
            /\ unsaved' = {} /\ (\A a \in Active : stage[a] \notin Swapped \cup Unswapped)
                  => marker' = marker]_vars
    BY <1>1, StartTells
<1> QED
    BY <1>2, InitInv, NextInv, PTL DEF Spec, StartsReport
=============================================================================
