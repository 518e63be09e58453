--------------------------- MODULE ModelPull_proofs ---------------------------
(***************************************************************************)
(* What ModelPull guarantees for any number of pulls of any models, of any *)
(* size, on a volume of any size.                                          *)
(***************************************************************************)
EXTENDS ModelPull, FiniteSetTheorems, TLAPS

(* Only a pull that reads its response has the engine at work.             *)
Fetching == \A p \in Pulls : engine[p] = "pulling" => pc[p] = "fetching"

(* A pull ends well on a model that is whole, or was, or on an engine that *)
(* went away.                                                              *)
WasWhole(p) == NameOf[p] \in have \cup removed

Finished ==
    \A p \in Pulls :
        /\ pc[p] = "whole" => WasWhole(p) \/ engine[p] = "dead"
        /\ record[p] = "succeeded" => pc[p] = "over"
        /\ record[p] = "succeeded" => WasWhole(p) \/ engine[p] = "dead"
        /\ engine[p] = "whole" => WasWhole(p)

(* What a pull saw free was not among what else it saw taken, and it goes  *)
(* on past the check only where the model and the margin fit in it.        *)
Looked ==
    \A p \in Pulls :
        /\ seen[p] > 0 => seen[p] + before[p] <= Disk
        /\ p \in checked => pc[p] = "fetching" /\ seen[p] >= Size + Margin

PullInv ==
    /\ TypeOK
    /\ Fetching
    /\ Finished
    /\ Looked

-----------------------------------------------------------------------------
(* The space                                                               *)

(* There are finitely many models, and units of them.                      *)
LEMMA UnitsAreFinite == IsFiniteSet(Units) /\ Cardinality(Units) \in Nat
<1> DEFINE asks == [p \in Pulls |-> NameOf[p]]
<1>1. asks \in Surjection(Pulls, Names)
  BY DEF Surjection, Names
<1>2. IsFiniteSet(Names)
  BY <1>1, FS_Surjection, PullAssumption
<1>3. IsFiniteSet(1 .. Size)
  BY FS_Interval, PullAssumption
<1>4. IsFiniteSet(Names \X (1 .. Size))
  BY <1>2, <1>3, FS_Product
<1>5. Units \subseteq Names \X (1 .. Size)
  BY DEF Units
<1>6. IsFiniteSet(Units)
  BY <1>4, <1>5, FS_Subset
<1> QED
  BY <1>6, FS_CardinalityType

(* What is free at a look and what else is taken fit on the volume.        *)
LEMMA FreeIsOnTheVolume ==
    ASSUME taken \in 0..Disk, NEW p \in Pulls
    PROVE  /\ Free \in 0..Disk
           /\ AllElse(p) \in Nat
           /\ Free > 0 => Free + AllElse(p) <= Disk
<1> DEFINE else == {u \in Units : u[1] # NameOf[p]}
<1>1. Cardinality(Units) \in Nat
  BY UnitsAreFinite
<1>2. Cardinality(else) \in Nat /\ Cardinality(else) <= Cardinality(Units)
  BY UnitsAreFinite, FS_Subset, FS_CardinalityType
<1>3. AllElse(p) = taken + Cardinality(else)
  BY DEF AllElse
<1> HIDE DEF else
<1> QED
  BY <1>1, <1>2, <1>3, PullAssumption DEF Free

(* A model takes no more than its size.                                    *)
LEMMA OneModelFits ==
    ASSUME NEW n
    PROVE  Cardinality({u \in Units : u[1] = n}) <= Size
<1> DEFINE own == {u \in Units : u[1] = n}
           number == [u \in own |-> u[2]]
<1>1. number \in Injection(own, 1 .. Size)
  <2>1. ASSUME NEW u \in own PROVE u[2] \in 1 .. Size /\ u = <<n, u[2]>>
    BY DEF Units
  <2>2. number \in [own -> 1 .. Size]
    BY <2>1
  <2>3. ASSUME NEW u \in own, NEW v \in own, number[u] = number[v] PROVE u = v
    BY <2>1, <2>3
  <2> QED
    BY <2>2, <2>3 DEF Injection, IsInjective
<1>2. IsFiniteSet(1 .. Size) /\ Cardinality(1 .. Size) = Size
  BY FS_Interval, PullAssumption
<1> QED
  BY <1>1, <1>2, FS_Injection

(* What is on the volume beside all else is at most one model.             *)
LEMMA UsedIsSplit ==
    ASSUME taken \in 0..Disk, NEW p \in Pulls
    PROVE  taken + Cardinality(Units) <= AllElse(p) + Size
<1> DEFINE own == {u \in Units : u[1] = NameOf[p]}
           else == {u \in Units : u[1] # NameOf[p]}
<1>1. IsFiniteSet(own) /\ IsFiniteSet(else)
  BY UnitsAreFinite, FS_Subset
<1>2. Units = own \cup else /\ own \cap else = {}
  OBVIOUS
<1>3. Cardinality(own) \in Nat /\ Cardinality(else) \in Nat
  BY <1>1, FS_CardinalityType
<1>4. Cardinality(own \cap else) = 0
  BY <1>2, FS_EmptySet
<1>5. Cardinality(own \cup else) = Cardinality(own) + Cardinality(else)
  <2> HIDE DEF own, else
  <2>1. Cardinality(own \cup else)
          = Cardinality(own) + Cardinality(else) - Cardinality(own \cap else)
    BY <1>1, FS_Union
  <2> QED
    BY <1>3, <1>4, <2>1
<1>6. Cardinality(own) <= Size
  BY OneModelFits
<1>7. AllElse(p) = taken + Cardinality(else)
  BY DEF AllElse
<1> HIDE DEF own, else
<1> QED
  BY <1>2, <1>3, <1>5, <1>6, <1>7, PullAssumption

-----------------------------------------------------------------------------
(* One step                                                                *)

(* What a pull reads, counts and writes keeps the types.                   *)
LEMMA TypeStep ==
    ASSUME PullInv, [Next]_vars
    PROVE  TypeOK'
<1> USE DEF pullVars, engineVars, PullInv, TypeOK, Stages
<1>1. ASSUME NEW p \in Pulls, Look(p) PROVE TypeOK'
  BY <1>1, FreeIsOnTheVolume DEF Look, Goes
<1>2. ASSUME NEW p \in Pulls, NoEngine(p) \/ Claim(p)
      PROVE  TypeOK'
  BY <1>2, PullAssumption DEF NoEngine, Goes, Claim, Forget
<1>3. ASSUME NEW p \in Pulls, Open(p) PROVE TypeOK'
  BY <1>3 DEF Open, Goes
<1>4. ASSUME NEW p \in Pulls, Connect(p) PROVE TypeOK'
  BY <1>4 DEF Connect, Goes
<1>5. ASSUME NEW p \in Pulls, CheckSpace(p) PROVE TypeOK'
  BY <1>5 DEF CheckSpace, Reading, Goes, HangUp
<1>6. ASSUME NEW p \in Pulls, End(p) PROVE TypeOK'
  BY <1>6 DEF End, Reading, Goes, HangUp
<1>7. ASSUME NEW p \in Pulls, Stop(p) PROVE TypeOK'
  BY <1>7 DEF Stop, Goes, HangUp
<1>8. ASSUME NEW p \in Pulls, Count(p) PROVE TypeOK'
  BY <1>8 DEF Count, Goes
<1>9. ASSUME NEW p \in Pulls, Reclaim(p) PROVE TypeOK'
  <2>1. got' \in [Names -> 0..Size] /\ lost' \subseteq Pulls
    BY <1>9, PullAssumption DEF Reclaim, Victims
  <2> QED
    BY <1>9, <2>1 DEF Reclaim, Goes
<1>10. ASSUME NEW p \in Pulls, Close(p) PROVE TypeOK'
  BY <1>10, PullAssumption DEF Close, Closed, Forget, Goes
<1>11. ASSUME NEW p \in Pulls, AskToStop(p) \/ Prune(p) \/ Stall(p) \/ Drain(p)
      PROVE  TypeOK'
  BY <1>11 DEF AskToStop, Prune, Stall, Drain
<1>12. ASSUME NEW p \in Pulls, EngineWrites(p) PROVE TypeOK'
  <2>1. CASE UNCHANGED got
    BY <1>12, <2>1 DEF EngineWrites
  <2>2. CASE got[NameOf[p]] < Size /\ got' = [got EXCEPT ![NameOf[p]] = @ + 1]
    <3>1. NameOf[p] \in Names
      BY DEF Names
    <3>2. got[NameOf[p]] + 1 \in 0..Size
      BY <2>2, <3>1, PullAssumption
    <3>3. got' \in [Names -> 0..Size]
      BY <2>2, <3>1, <3>2
    <3> QED
      BY <1>12, <2>2, <3>3 DEF EngineWrites
  <2> QED
    BY <1>12, <2>1, <2>2 DEF EngineWrites
<1>13. ASSUME NEW p \in Pulls, EngineFinishes(p) PROVE TypeOK'
  BY <1>13, PullAssumption DEF EngineFinishes, Names
<1>14. ASSUME NEW p \in Pulls, EngineRefuses(p) PROVE TypeOK'
  BY <1>14 DEF EngineRefuses
<1>15. ASSUME EngineDies PROVE TypeOK'
  BY <1>15 DEF EngineDies
<1>16. ASSUME NEW n \in Names, DeleteModel(n) PROVE TypeOK'
  BY <1>16 DEF DeleteModel
<1>17. ASSUME OthersWrite \/ OthersFree PROVE TypeOK'
  <2>1. CASE OthersWrite
    BY <1>17, <2>1, UnitsAreFinite, PullAssumption DEF OthersWrite, Free
  <2>2. CASE OthersFree
    BY <1>17, <2>2, PullAssumption DEF OthersFree
  <2> QED
    BY <1>17, <2>1, <2>2
<1>18. CASE UNCHANGED vars
  BY <1>18 DEF vars
<1> QED
  BY <1>1, <1>2, <1>3, <1>4, <1>5, <1>6, <1>7, <1>8, <1>9, <1>10, <1>11, <1>12, <1>13,
     <1>14, <1>15, <1>16, <1>17, <1>18
     DEF Next, Daemon, Engine

(* The engine starts on a fetch, and a fetch that ends lets it go.         *)
LEMMA FetchingStep ==
    ASSUME PullInv, [Next]_vars
    PROVE  Fetching'
<1> USE DEF pullVars, engineVars, PullInv, TypeOK, Fetching
<1>1. ASSUME NEW p \in Pulls, Look(p) \/ NoEngine(p) \/ Claim(p) \/ Open(p)
      PROVE  Fetching'
  BY <1>1 DEF Look, Goes, NoEngine, Claim, Forget, Open
<1>2. ASSUME NEW p \in Pulls, Connect(p) PROVE Fetching'
  BY <1>2 DEF Connect, Goes
<1>3. ASSUME NEW p \in Pulls, CheckSpace(p) PROVE Fetching'
  BY <1>3 DEF CheckSpace, Reading, Goes, HangUp
<1>4. ASSUME NEW p \in Pulls, End(p) PROVE Fetching'
  BY <1>4 DEF End, Reading, Goes, HangUp
<1>5. ASSUME NEW p \in Pulls, Stop(p) PROVE Fetching'
  BY <1>5 DEF Stop, Goes, HangUp
<1>6. ASSUME NEW p \in Pulls, Count(p) \/ Reclaim(p) \/ Close(p)
      PROVE  Fetching'
  BY <1>6 DEF Count, Goes, Reclaim, Close, Closed, Forget
<1>7. ASSUME NEW p \in Pulls, AskToStop(p) \/ Prune(p) \/ Stall(p) \/ Drain(p)
      PROVE  Fetching'
  BY <1>7 DEF AskToStop, Prune, Stall, Drain
<1>8. ASSUME NEW p \in Pulls, EngineWrites(p) \/ EngineFinishes(p) \/ EngineRefuses(p)
      PROVE  Fetching'
  BY <1>8 DEF EngineWrites, EngineFinishes, EngineRefuses
<1>9. ASSUME EngineDies PROVE Fetching'
  BY <1>9 DEF EngineDies
<1>10. ASSUME NEW n \in Names, DeleteModel(n) PROVE Fetching'
  BY <1>10 DEF DeleteModel
<1>11. ASSUME OthersWrite \/ OthersFree PROVE Fetching'
  BY <1>11 DEF OthersWrite, OthersFree
<1>12. CASE UNCHANGED vars
  BY <1>12 DEF vars
<1> QED
  BY <1>1, <1>2, <1>3, <1>4, <1>5, <1>6, <1>7, <1>8, <1>9, <1>10, <1>11, <1>12
     DEF Next, Daemon, Engine

(* A model that was whole is whole or deleted.                             *)
LEMMA FinishedStep ==
    ASSUME PullInv, [Next]_vars
    PROVE  Finished'
<1> USE DEF pullVars, engineVars, PullInv, TypeOK, Fetching, Finished, WasWhole
<1>1. ASSUME NEW p \in Pulls, Look(p) \/ NoEngine(p) \/ Claim(p) \/ Open(p)
      PROVE  Finished'
  BY <1>1 DEF Look, Goes, NoEngine, Claim, Forget, Open
<1>2. ASSUME NEW p \in Pulls, Connect(p) PROVE Finished'
  BY <1>2 DEF Connect, Goes
<1>3. ASSUME NEW p \in Pulls, CheckSpace(p) PROVE Finished'
  BY <1>3 DEF CheckSpace, Reading, Goes, HangUp
<1>4. ASSUME NEW p \in Pulls, End(p) PROVE Finished'
  BY <1>4 DEF End, Reading, Goes, HangUp
<1>5. ASSUME NEW p \in Pulls, Stop(p) \/ Count(p) \/ Reclaim(p)
      PROVE  Finished'
  BY <1>5 DEF Stop, Goes, HangUp, Count, Reclaim
<1>6. ASSUME NEW p \in Pulls, Close(p) PROVE Finished'
  BY <1>6 DEF Close, Closed, Forget, Goes
<1>7. ASSUME NEW p \in Pulls, AskToStop(p) \/ Prune(p) \/ Stall(p) \/ Drain(p)
      PROVE  Finished'
  BY <1>7 DEF AskToStop, Prune, Stall, Drain
<1>8. ASSUME NEW p \in Pulls, EngineWrites(p) \/ EngineRefuses(p)
      PROVE  Finished'
  BY <1>8 DEF EngineWrites, EngineRefuses
<1>9. ASSUME NEW p \in Pulls, EngineFinishes(p) PROVE Finished'
  BY <1>9 DEF EngineFinishes
<1>10. ASSUME EngineDies PROVE Finished'
  BY <1>10 DEF EngineDies
<1>11. ASSUME NEW n \in Names, DeleteModel(n) PROVE Finished'
  BY <1>11 DEF DeleteModel
<1>12. ASSUME OthersWrite \/ OthersFree PROVE Finished'
  BY <1>12 DEF OthersWrite, OthersFree
<1>13. CASE UNCHANGED vars
  BY <1>13 DEF vars
<1> QED
  BY <1>1, <1>2, <1>3, <1>4, <1>5, <1>6, <1>7, <1>8, <1>9, <1>10, <1>11, <1>12, <1>13
     DEF Next, Daemon, Engine

(* The space a pull saw is what it is compared with.                       *)
LEMMA LookedStep ==
    ASSUME PullInv, [Next]_vars
    PROVE  Looked'
<1> USE DEF pullVars, engineVars, PullInv, TypeOK, Fetching, Looked
<1>1. ASSUME NEW p \in Pulls, Look(p) PROVE Looked'
  BY <1>1, FreeIsOnTheVolume DEF Look, Goes
<1>2. ASSUME NEW p \in Pulls, NoEngine(p) \/ Claim(p) \/ Open(p)
      PROVE  Looked'
  BY <1>2 DEF NoEngine, Goes, Claim, Forget, Open
<1>3. ASSUME NEW p \in Pulls, Connect(p) PROVE Looked'
  BY <1>3 DEF Connect, Goes
<1>4. ASSUME NEW p \in Pulls, CheckSpace(p) PROVE Looked'
  BY <1>4, PullAssumption DEF CheckSpace, Reading, Goes, HangUp
<1>5. ASSUME NEW p \in Pulls, End(p) PROVE Looked'
  BY <1>5 DEF End, Reading, Goes, HangUp
<1>6. ASSUME NEW p \in Pulls, Stop(p) PROVE Looked'
  BY <1>6 DEF Stop, Goes, HangUp
<1>7. ASSUME NEW p \in Pulls, Count(p) \/ Reclaim(p) \/ Close(p)
      PROVE  Looked'
  BY <1>7 DEF Count, Goes, Reclaim, Close, Closed, Forget
<1>8. ASSUME NEW p \in Pulls, AskToStop(p) \/ Prune(p) \/ Stall(p) \/ Drain(p)
      PROVE  Looked'
  BY <1>8 DEF AskToStop, Prune, Stall, Drain
<1>9. ASSUME NEW p \in Pulls, EngineWrites(p) \/ EngineFinishes(p) \/ EngineRefuses(p)
      PROVE  Looked'
  BY <1>9 DEF EngineWrites, EngineFinishes, EngineRefuses
<1>10. ASSUME EngineDies PROVE Looked'
  BY <1>10 DEF EngineDies
<1>11. ASSUME NEW n \in Names, DeleteModel(n) PROVE Looked'
  BY <1>11 DEF DeleteModel
<1>12. ASSUME OthersWrite \/ OthersFree PROVE Looked'
  BY <1>12 DEF OthersWrite, OthersFree
<1>13. CASE UNCHANGED vars
  BY <1>13 DEF vars
<1> QED
  BY <1>1, <1>2, <1>3, <1>4, <1>5, <1>6, <1>7, <1>8, <1>9, <1>10, <1>11, <1>12, <1>13
     DEF Next, Daemon, Engine

LEMMA PullInvHolds == Spec => []PullInv
<1>1. Init => PullInv
  <2> SUFFICES ASSUME Init PROVE PullInv
    OBVIOUS
  <2> USE PullAssumption DEF Init
  <2>1. TypeOK
    BY DEF TypeOK, Stages
  <2>2. Fetching /\ Finished
    BY DEF Fetching, Finished
  <2>3. Looked
    BY DEF Looked
  <2> QED
    BY <2>1, <2>2, <2>3 DEF PullInv
<1>2. PullInv /\ [Next]_vars => PullInv'
  BY TypeStep, FetchingStep, FinishedStep, LookedStep DEF PullInv
<1> QED
  BY <1>1, <1>2, PTL DEF Spec

-----------------------------------------------------------------------------
(* Results                                                                 *)

(* Every pull keeps to its stages, no space it reads is more than the      *)
(* volume has, and no file is larger than its model.                       *)
THEOREM PullTypeCorrect == Spec => []TypeOK
<1>1. PullInv => TypeOK
  BY DEF PullInv
<1> QED
  BY <1>1, PullInvHolds, PTL

(* A record that says SUCCEEDED is of a model that is whole, or was and    *)
(* has been deleted, unless the engine went away underneath the pull       *)
(* (models.rs: pull).                                                      *)
THEOREM SuccessIsWhole == Spec => []SucceededMeansWhole
<1>1. PullInv => SucceededMeansWhole
  BY DEF PullInv, Finished, WasWhole, SucceededMeansWhole
<1> QED
  BY <1>1, PullInvHolds, PTL

(* However stale the look, a pull that is let through does not fill the    *)
(* disk by itself: when nothing is free any more, everything else on the   *)
(* volume has grown by the margin since it looked (models.rs: fetch).      *)
THEOREM TheMarginIsForOthers == Spec => []OnlyOthersFillTheDisk
<1>1. ASSUME PullInv, NEW p \in checked, Free = 0
      PROVE  AllElse(p) >= before[p] + Margin
  <2>1. p \in Pulls /\ taken \in 0..Disk /\ seen[p] \in 0..Disk /\ before[p] \in Nat
    BY <1>1 DEF PullInv, TypeOK
  <2>2. seen[p] >= Size + Margin /\ seen[p] + before[p] <= Disk
    BY <1>1, <2>1, PullAssumption DEF PullInv, Looked
  <2>3. Cardinality(Units) \in Nat /\ AllElse(p) \in Nat
    BY <2>1, UnitsAreFinite, FreeIsOnTheVolume
  <2>4. taken + Cardinality(Units) >= Disk
    BY <1>1, <2>1, <2>3, PullAssumption DEF Free
  <2>5. taken + Cardinality(Units) <= AllElse(p) + Size
    BY <2>1, UsedIsSplit
  <2> QED
    BY <2>1, <2>2, <2>3, <2>4, <2>5, PullAssumption
<1>2. PullInv => OnlyOthersFillTheDisk
  BY <1>1 DEF OnlyOthersFillTheDisk
<1> QED
  BY <1>2, PullInvHolds, PTL
=============================================================================
