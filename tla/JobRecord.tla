------------------------------ MODULE JobRecord ------------------------------
(***************************************************************************)
(* What the journal of a long operation promises whoever asks about it     *)
(* later, free of files, tables and locks: a record appears when a run     *)
(* begins, only the run itself writes to it, its ending is the run's own   *)
(* result, and from then on the host either repeats that ending or has     *)
(* forgotten the run.  Jobs implements this.                               *)
(***************************************************************************)
EXTENDS Naturals

CONSTANT Runs

VARIABLES
    record,    \* record[r]: what is on record about r
    writers,   \* runs of the living process that hold their journal
    result     \* result[r]: how the work went

vars == <<record, writers, result>>

(* The ending each result is recorded under.                               *)
EndingFor == [succeeded |-> "succeeded", stopped |-> "cancelled",
              failed |-> "failed", panicked |-> "failed"]

Results == DOMAIN EndingFor
Sealed  == {"succeeded", "cancelled", "failed"}

TypeOK ==
    /\ record \in [Runs -> {"none", "open"} \cup Sealed]
    /\ writers \subseteq Runs
    /\ result \in [Runs -> Results \cup {"undecided"}]

Init ==
    /\ record = [r \in Runs |-> "none"]
    /\ writers = {}
    /\ result = [r \in Runs |-> "undecided"]

(* The record of a run that has not started to work yet.                   *)
Begin(r) ==
    /\ record[r] = "none" /\ result[r] = "undecided" /\ r \notin writers
    /\ record' = [record EXCEPT ![r] = "open"]
    /\ UNCHANGED <<writers, result>>

(* A run starts to work; old records may be forgotten for it, its own too  *)
(* when others that began after it are enough to fill the journal.         *)
Start(r) ==
    /\ record[r] \notin Sealed /\ result[r] = "undecided"
    /\ writers' = writers \cup {r}
    /\ \E gone \in SUBSET Runs :
          record' = [q \in Runs |-> IF q \in gone THEN "none" ELSE record[q]]
    /\ UNCHANGED result

(* A forgotten run that is still writing is on record again, with what it  *)
(* wrote since it was forgotten.                                           *)
Reappear(r) ==
    /\ r \in writers /\ record[r] = "none"
    /\ \E what \in {"open"} \cup {EndingFor[how] : how \in Results \cap {result[r]}} :
          record' = [record EXCEPT ![r] = what]

Rewrite(r) ==
    /\ Reappear(r)
    /\ UNCHANGED <<writers, result>>

Decide(r) ==
    /\ result[r] = "undecided"
    /\ \E how \in Results : result' = [result EXCEPT ![r] = how]
    /\ Reappear(r) \/ UNCHANGED record
    /\ UNCHANGED writers

Seal(r) ==
    /\ r \in writers /\ result[r] # "undecided" /\ record[r] = "open"
    /\ record' = [record EXCEPT ![r] = EndingFor[result[r]]]
    /\ UNCHANGED <<writers, result>>

Retire(r) ==
    /\ result[r] # "undecided"
    /\ writers' = writers \ {r}
    /\ UNCHANGED <<record, result>>

Die ==
    /\ writers' = {}
    /\ UNCHANGED <<record, result>>

Next ==
    \/ Die
    \/ \E r \in Runs : \/ Begin(r) \/ Start(r) \/ Rewrite(r)
                       \/ Decide(r) \/ Seal(r) \/ Retire(r)

Spec == Init /\ [][Next]_vars

(* An ending is the run's own result and never another one.                *)
Truthful == \A r \in Runs : record[r] \in Sealed => result[r] # "undecided" /\ record[r] = EndingFor[result[r]]
=============================================================================
