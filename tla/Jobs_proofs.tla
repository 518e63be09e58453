----------------------------- MODULE Jobs_proofs -----------------------------
(***************************************************************************)
(* What Jobs and JobReaders guarantee for every set of runs, watchers and  *)
(* clients, every number of events, any retention, any disk and any number *)
(* of restarts: types, admission, endings, holdings, the refinement of     *)
(* JobRecord, and what readers may count on.                               *)
(***************************************************************************)
EXTENDS JobReaders, TLAPS

-----------------------------------------------------------------------------
(* Lines and files                                                         *)

(* Whatever write_line makes of a file is a file, and its ending is the    *)
(* old one or the one the line carries.                                    *)
LEMMA AfterWriteType ==
    ASSUME NEW f \in JournalFile, NEW g \in JournalFile, NEW h \in AfterWrite(f, g)
    PROVE  h \in JournalFile /\ h.ending \in {f.ending, g.ending}
BY DEF AfterWrite, JournalFile

(* A narrated line or a head line leaves a file that ends as it did.       *)
LEMMA LineTypes ==
    ASSUME NEW f \in JournalFile, NEW n \in Nat, NEW e \in Endings
    PROVE  /\ WithMeta(f) \in JournalFile /\ WithMeta(f).ending = f.ending
           /\ WithEvent(f, n) \in JournalFile /\ WithEvent(f, n).ending = f.ending
           /\ WithEnding(f, e) \in JournalFile /\ WithEnding(f, e).ending = e
BY DEF WithMeta, WithEvent, WithEnding, JournalFile

LEMMA NoFileType == NoFile \in JournalFile /\ NoFile.ending = "none"
BY DEF NoFile, JournalFile, Endings

LEMMA NoHandleType ==
    /\ NoHandle \in Handle
    /\ [NoHandle EXCEPT !.open = TRUE] \in Handle
BY DEF NoHandle, Handle

(* The ways a handle changes while it is open.                             *)
LEMMA HandleTypes ==
    ASSUME NEW h \in Handle, NEW phase
    PROVE  /\ Said(h, phase) \in Handle
           /\ Said(h, phase).open = h.open
           /\ phase = "completed" => Said(h, phase).completed = TRUE
           /\ phase # "completed" => Said(h, phase).completed = h.completed
           /\ [h EXCEPT !.closed = TRUE] \in Handle
           /\ [h EXCEPT !.closed = TRUE].open = h.open
           /\ [h EXCEPT !.closed = TRUE].completed = h.completed
<1> DEFINE said == [h EXCEPT !.next = @ + 1]
<1>1. said \in Handle /\ said.open = h.open
  BY DEF Handle
<1>2. said.completed = h.completed
  BY DEF Handle
<1>3. ASSUME NEW g \in Handle
      PROVE  [g EXCEPT !.completed = TRUE] \in Handle
  BY DEF Handle
<1>4. ASSUME NEW g \in Handle
      PROVE  [g EXCEPT !.completed = TRUE].open = g.open
  BY DEF Handle
<1>5. ASSUME NEW g \in Handle
      PROVE  [g EXCEPT !.completed = TRUE].completed = TRUE
  BY DEF Handle
<1>6. [h EXCEPT !.closed = TRUE] \in Handle
  BY DEF Handle
<1>7. [h EXCEPT !.closed = TRUE].open = h.open
  BY DEF Handle
<1>8. [h EXCEPT !.closed = TRUE].completed = h.completed
  BY DEF Handle
<1>9. Said(h, phase) = IF phase = "completed" THEN [said EXCEPT !.completed = TRUE] ELSE said
  BY DEF Said
<1> HIDE DEF said
<1> QED BY <1>1, <1>2, <1>3, <1>4, <1>5, <1>6, <1>7, <1>8, <1>9

(* One line appended: the handle and the file keep their types, no other   *)
(* run's file is touched and no ending appears.                            *)
LEMMA AppendEffect ==
    ASSUME TypeOK, NEW r \in Runs, NEW phase, Append(r, phase)
    PROVE  /\ file' \in [Runs -> JournalFile]
           /\ handle' \in [Runs -> Handle]
           /\ older' \subseteq Runs \X Runs
           /\ \A q \in Runs : file'[q].ending = file[q].ending
           /\ \A q \in Runs : handle'[q].open = handle[q].open
           /\ \A q \in Runs : q # r => handle'[q] = handle[q]
           /\ phase = "completed" => handle'[r].completed = TRUE
           /\ phase # "completed" => handle'[r].completed = handle[r].completed
<1>1. PICK g \in AfterWrite(file[r], WithEvent(file[r], handle[r].next)) : Rewrite(r, g)
  BY DEF Append
<1>2. file[r] \in JournalFile /\ handle[r] \in Handle /\ handle[r].next \in Nat
  BY DEF TypeOK, Handle
<1>3. g \in JournalFile /\ g.ending = file[r].ending
  BY <1>1, <1>2, AfterWriteType, LineTypes DEF Endings, JournalFile
<1>4. file' = [file EXCEPT ![r] = g]
  BY <1>1 DEF Rewrite
<1>5. older' \subseteq Runs \X Runs
  BY <1>1 DEF Rewrite, Present, TypeOK
<1>6. /\ file' \in [Runs -> JournalFile]
      /\ \A q \in Runs : file'[q].ending = file[q].ending
  BY <1>3, <1>4 DEF TypeOK
<1>7. handle' = [handle EXCEPT ![r] = Said(@, phase)]
  BY DEF Append
<1>8. handle'[r] = Said(handle[r], phase)
  BY <1>7 DEF TypeOK
<1>9. /\ handle'[r] \in Handle /\ handle'[r].open = handle[r].open
      /\ phase = "completed" => handle'[r].completed = TRUE
      /\ phase # "completed" => handle'[r].completed = handle[r].completed
  <2>1. /\ Said(handle[r], phase) \in Handle
        /\ Said(handle[r], phase).open = handle[r].open
        /\ phase = "completed" => Said(handle[r], phase).completed = TRUE
        /\ phase # "completed" => Said(handle[r], phase).completed = handle[r].completed
    BY <1>2, HandleTypes, Zenon
  <2> QED BY <1>8, <2>1, Zenon
<1>10. /\ handle' \in [Runs -> Handle]
       /\ \A q \in Runs : q # r => handle'[q] = handle[q]
  BY <1>7, <1>9 DEF TypeOK
<1> QED BY <1>5, <1>6, <1>9, <1>10

(* One ending written: likewise, and only run r's file may carry it.       *)
LEMMA CloseEffect ==
    ASSUME TypeOK, NEW r \in Runs, NEW e \in Endings, Close(r, e)
    PROVE  /\ file' \in [Runs -> JournalFile]
           /\ handle' \in [Runs -> Handle]
           /\ older' \subseteq Runs \X Runs
           /\ pc' = [pc EXCEPT ![r] = "sealing"]
           /\ \A q \in Runs : q # r => file'[q].ending = file[q].ending
           /\ file'[r].ending \in {file[r].ending, e}
           /\ \A q \in Runs : handle'[q].open = handle[q].open
           /\ \A q \in Runs : handle'[q].completed = handle[q].completed
<1>1. PICK g \in AfterWrite(file[r], WithEnding(file[r], e)) : Rewrite(r, g)
  BY DEF Close
<1>2. file[r] \in JournalFile /\ handle[r] \in Handle
  BY DEF TypeOK
<1>3. g \in JournalFile /\ g.ending \in {file[r].ending, e}
  BY <1>1, <1>2, AfterWriteType, LineTypes, 0 \in Nat
<1>4. file' = [file EXCEPT ![r] = g]
  BY <1>1 DEF Rewrite
<1>5. older' \subseteq Runs \X Runs
  BY <1>1 DEF Rewrite, Present, TypeOK
<1>6. handle' = [handle EXCEPT ![r].closed = TRUE]
  BY DEF Close
<1>7. handle'[r] = [handle[r] EXCEPT !.closed = TRUE]
  BY <1>6 DEF TypeOK
<1>8. handle'[r] \in Handle /\ handle'[r].open = handle[r].open
      /\ handle'[r].completed = handle[r].completed
  BY <1>2, <1>7, HandleTypes
<1>9. /\ handle' \in [Runs -> Handle]
      /\ \A q \in Runs : q # r => handle'[q] = handle[q]
  BY <1>6, <1>8 DEF TypeOK
<1>10. pc' = [pc EXCEPT ![r] = "sealing"]
  BY DEF Close, Goto
<1> QED BY <1>3, <1>4, <1>5, <1>8, <1>9, <1>10 DEF TypeOK

-----------------------------------------------------------------------------
(* Type correctness                                                        *)

LEMMA InitTypeOK == Init => TypeOK
BY NoFileType, NoHandleType, BoundsAssumption
   DEF Init, TypeOK, Stages, Truths, Endings

LEMMA NextTypeOK == TypeOK /\ [Next]_vars => TypeOK'
<1> SUFFICES ASSUME TypeOK, [Next]_vars
             PROVE  TypeOK'
  OBVIOUS
<1> USE DEF Goto
<1>1. ASSUME NEW r \in Runs, Admit(r) \/ Conflict(r) \/ Reject(r)
      PROVE  TypeOK'
  BY <1>1, RunsAssumption DEF Admit, Conflict, Reject, TypeOK, Stages
<1>2. ASSUME NEW r \in Runs, OpenHead(r)
      PROVE  TypeOK'
  <2>1. PICK g \in AfterWrite(file[r], WithMeta(file[r])) : Rewrite(r, g)
    BY <1>2 DEF OpenHead
  <2>2. file[r] \in JournalFile
    BY DEF TypeOK
  <2>3. g \in JournalFile
    BY <2>1, <2>2, AfterWriteType, LineTypes, 0 \in Nat, "none" \in Endings DEF Endings
  <2>4. file' \in [Runs -> JournalFile] /\ older' \subseteq Runs \X Runs
    BY <2>1, <2>3 DEF Rewrite, Present, TypeOK
  <2>5. pc' \in [Runs -> Stages]
    BY <1>2 DEF OpenHead, TypeOK, Stages
  <2> QED BY <1>2, <2>4, <2>5 DEF OpenHead, TypeOK
<1>3. ASSUME NEW r \in Runs, OpenRegister(r)
      PROVE  TypeOK'
  <2>1. file' \in [Runs -> JournalFile] /\ older' \subseteq Runs \X Runs
    BY <1>3, NoFileType DEF OpenRegister, TypeOK
  <2>2. handle' \in [Runs -> Handle]
    BY <1>3, NoHandleType DEF OpenRegister, TypeOK
  <2>3. pc' \in [Runs -> Stages] /\ running' \subseteq Runs
    BY <1>3 DEF OpenRegister, TypeOK, Stages
  <2> QED BY <1>3, <2>1, <2>2, <2>3 DEF OpenRegister, TypeOK
<1>4. ASSUME NEW r \in Runs, RegisterSwitch(r)
      PROVE  TypeOK'
  BY <1>4 DEF RegisterSwitch, TypeOK, Stages
<1>5. ASSUME NEW r \in Runs, Narrate(r) \/ NoteStop(r) \/ NarrateLate(r)
      PROVE  TypeOK'
  <2>1. PICK phase : Append(r, phase)
    BY <1>5 DEF Narrate, NoteStop, NarrateLate
  <2>2. pc' \in [Runs -> Stages]
    BY <1>5 DEF Narrate, NoteStop, NarrateLate, TypeOK, Stages
  <2> QED BY <1>5, <2>1, <2>2, AppendEffect DEF Narrate, NoteStop, NarrateLate, TypeOK
<1>6. ASSUME NEW r \in Runs, Report(r)
      PROVE  TypeOK'
  <2>1. pc' \in [Runs -> Stages]
    BY <1>6 DEF Report, TypeOK, Stages
  <2>2. truth' \in [Runs -> Truths]
    BY <1>6 DEF Report, TypeOK, Truths
  <2>3. Append(r, "completed") \/ UNCHANGED <<handle, file, older>>
    BY <1>6 DEF Report
  <2> QED BY <1>6, <2>1, <2>2, <2>3, AppendEffect DEF Report, TypeOK
<1>7. ASSUME NEW r \in Runs, Panic(r)
      PROVE  TypeOK'
  BY <1>7 DEF Panic, TypeOK, Stages, Truths
<1>8. ASSUME NEW r \in Runs, Fail(r) \/ Stop(r) \/ DropOpen(r)
      PROVE  TypeOK'
  <2>1. PICK e \in Endings : Close(r, e)
    BY <1>8 DEF Fail, Stop, DropOpen, Endings
  <2>2. pc' \in [Runs -> Stages]
    BY <2>1 DEF Close, TypeOK, Stages
  <2> QED BY <1>8, <2>1, <2>2, CloseEffect DEF Fail, Stop, DropOpen, TypeOK
<1>9. ASSUME NEW r \in Runs, Unregister(r) \/ Leave(r) \/ AskToStop(r)
      PROVE  TypeOK'
  BY <1>9 DEF Unregister, Leave, AskToStop, TypeOK, Stages
<1>10. ASSUME NEW r \in Runs, DropClosed(r)
       PROVE  TypeOK'
  <2>1. handle' \in [Runs -> Handle]
    BY <1>10, NoHandleType DEF DropClosed, TypeOK
  <2> QED BY <1>10, <2>1 DEF DropClosed, TypeOK, Stages
<1>11. ASSUME Restart
       PROVE  TypeOK'
  <2>1. handle' \in [Runs -> Handle]
    BY <1>11, NoHandleType DEF Restart
  <2>2. pc' \in [Runs -> Stages]
    BY <1>11 DEF Restart, TypeOK, Stages
  <2>3. restarts' \in 0..MaxRestarts
    BY <1>11, BoundsAssumption DEF Restart, TypeOK
  <2> QED BY <1>11, <2>1, <2>2, <2>3 DEF Restart, TypeOK
<1>12. CASE UNCHANGED vars
  BY <1>12 DEF TypeOK, vars
<1> QED BY <1>1, <1>2, <1>3, <1>4, <1>5, <1>6, <1>7, <1>8, <1>9, <1>10, <1>11, <1>12
        DEF Next, RunStep

(* Every variable keeps its type for ever, in particular every journal     *)
(* file holds one of the four endings and no other.                        *)
THEOREM TypeCorrect == Spec => []TypeOK
BY InitTypeOK, NextTypeOK, PTL DEF Spec

-----------------------------------------------------------------------------
(* Admission                                                               *)

(* ClaimExclusion is not inductive by itself: an admission is exclusive    *)
(* only because every live run of a claiming verb still holds its key.     *)
ClaimsHeld == \A r \in Claiming : pc[r] \in Live => Subject[r] \in claimed

AdmissionInv == TypeOK /\ ClaimsHeld /\ ClaimExclusion

(* A step that leaves the claims alone and brings no run to life keeps     *)
(* both parts.                                                             *)
LEMMA QuietAdmission ==
    ASSUME AdmissionInv, UNCHANGED claimed,
           \A q \in Runs : pc'[q] \in Live => pc[q] \in Live
    PROVE  (ClaimsHeld /\ ClaimExclusion)'
BY RunsAssumption DEF AdmissionInv, ClaimsHeld, ClaimExclusion

(* A step that takes run r out of life and frees its key keeps them too.   *)
LEMMA LeavingAdmission ==
    ASSUME AdmissionInv, NEW r \in Runs, pc[r] \in Live, pc'[r] \notin Live,
           \A q \in Runs : q # r => pc'[q] = pc[q],
           claimed' = IF r \in Claiming THEN claimed \ {Subject[r]} ELSE claimed
    PROVE  (ClaimsHeld /\ ClaimExclusion)'
BY RunsAssumption DEF AdmissionInv, ClaimsHeld, ClaimExclusion

LEMMA NextAdmissionInv == AdmissionInv /\ [Next]_vars => AdmissionInv'
<1> SUFFICES ASSUME AdmissionInv, [Next]_vars
             PROVE  (ClaimsHeld /\ ClaimExclusion)'
  BY NextTypeOK DEF AdmissionInv
<1> USE DEF Goto
<1>0. pc \in [Runs -> Stages]
  BY DEF AdmissionInv, TypeOK
<1>1. ASSUME NEW r \in Runs, Admit(r)
      PROVE  (ClaimsHeld /\ ClaimExclusion)'
  <2>1. /\ pc' = [pc EXCEPT ![r] = "admitted"]
        /\ r \in Claiming => Subject[r] \notin claimed
        /\ claimed' = IF r \in Claiming THEN claimed \cup {Subject[r]} ELSE claimed
    BY <1>1 DEF Admit
  <2>2. \A q \in Claiming : q # r /\ pc'[q] \in Live => Subject[q] \in claimed
    BY <1>0, <2>1, RunsAssumption DEF AdmissionInv, ClaimsHeld
  <2>3. ClaimsHeld'
    BY <1>0, <2>1, <2>2 DEF ClaimsHeld
  <2>4. \A q \in Claiming : q # r /\ r \in Claiming /\ Subject[q] = Subject[r] => pc'[q] \notin Live
    BY <2>1, <2>2
  <2>5. \A p, q \in Claiming : p # r /\ q # r /\ p # q /\ Subject[p] = Subject[q]
            => ~(pc'[p] \in Live /\ pc'[q] \in Live)
    BY <1>0, <2>1, RunsAssumption DEF AdmissionInv, ClaimExclusion
  <2>6. ClaimExclusion'
    BY <2>4, <2>5 DEF ClaimExclusion
  <2> QED BY <2>3, <2>6
<1>2. ASSUME NEW r \in Runs, Reject(r) \/ Leave(r)
      PROVE  (ClaimsHeld /\ ClaimExclusion)'
  <2>1. /\ pc[r] \in Live /\ pc'[r] \notin Live
        /\ \A q \in Runs : q # r => pc'[q] = pc[q]
        /\ claimed' = IF r \in Claiming THEN claimed \ {Subject[r]} ELSE claimed
    BY <1>0, <1>2 DEF Reject, Leave, Live, Stages
  <2> QED BY <2>1, LeavingAdmission
<1>3. ASSUME NEW r \in Runs, RunStep(r) \/ AskToStop(r), ~Admit(r), ~Reject(r), ~Leave(r)
      PROVE  (ClaimsHeld /\ ClaimExclusion)'
  <2>1. UNCHANGED claimed
    BY <1>3 DEF RunStep, AskToStop, Conflict, OpenHead, OpenRegister, RegisterSwitch, Narrate,
                Report, Panic, Fail, NoteStop, Stop, DropOpen, Unregister, NarrateLate, DropClosed
  <2>2. UNCHANGED pc \/ \E stage \in Stages :
            /\ pc' = [pc EXCEPT ![r] = stage]
            /\ stage \in Live => pc[r] \in Live
    BY <1>3 DEF RunStep, AskToStop, Conflict, OpenHead, OpenRegister, RegisterSwitch, Narrate,
                Report, Panic, Fail, NoteStop, Stop, DropOpen, Close, Unregister, NarrateLate,
                DropClosed, Live, Stages
  <2>3. \A q \in Runs : pc'[q] \in Live => pc[q] \in Live
    BY <1>0, <2>2
  <2> QED BY <2>1, <2>3, QuietAdmission
<1>4. ASSUME Restart
      PROVE  (ClaimsHeld /\ ClaimExclusion)'
  <2>1. \A q \in Runs : pc'[q] \notin Live
    BY <1>0, <1>4 DEF Restart, Live, Stages
  <2> QED BY <2>1, RunsAssumption DEF ClaimsHeld, ClaimExclusion
<1>5. CASE UNCHANGED vars
  BY <1>5, QuietAdmission DEF vars
<1> QED BY <1>1, <1>2, <1>3, <1>4, <1>5 DEF Next

(* At most one run of the claiming verbs works on a subject, from its      *)
(* admission to its last local dropped, for any number of runs, subjects   *)
(* and restarts (OperationClaim, jobs.rs:49-75).                           *)
THEOREM ClaimsExclude == Spec => []ClaimExclusion
<1>1. Init => AdmissionInv
  BY InitTypeOK, RunsAssumption
     DEF Init, AdmissionInv, ClaimsHeld, ClaimExclusion, Live, Stages
<1>2. AdmissionInv => ClaimExclusion
  BY DEF AdmissionInv
<1> QED BY <1>1, <1>2, NextAdmissionInv, PTL DEF Spec

-----------------------------------------------------------------------------
(* Endings                                                                 *)

Undecided == {"idle", "admitted", "opening", "registering", "working"}

(* What has to be known of a run for its record to come out truthful: the  *)
(* ending is written after the result is known, and the COMPLETED flag,    *)
(* which failing and stopped runs raise too, is only ever read when it     *)
(* tells a success from an unwinding task.                                 *)
Honest(r) ==
    /\ truth[r] = "undecided" => file[r].ending = "none"
    /\ pc[r] \in Undecided => truth[r] = "undecided" /\ handle[r].completed = FALSE
    /\ pc[r] = "panicking" => truth[r] = "panicked" /\ handle[r].completed = FALSE
    /\ pc[r] = "noted" => truth[r] = "stopped"
    /\ pc[r] = "reported" /\ truth[r] = "succeeded" => handle[r].completed = TRUE
    /\ file[r].ending = "succeeded" => truth[r] = "succeeded"
    /\ file[r].ending = "cancelled" => truth[r] = "stopped"
    /\ file[r].ending = "failed" => truth[r] \in {"failed", "panicked"}

RecordInv == TypeOK /\ \A r \in Runs : Honest(r)

(* Only the named run's own fields matter to it.                           *)
LEMMA SameHonest ==
    ASSUME NEW q \in Runs, Honest(q), truth'[q] = truth[q], pc'[q] = pc[q],
           file'[q].ending = file[q].ending, handle'[q].completed = handle[q].completed
    PROVE  Honest(q)'
BY DEF Honest

LEMMA NextRecordInv == RecordInv /\ [Next]_vars => RecordInv'
<1> SUFFICES ASSUME RecordInv, [Next]_vars, NEW q \in Runs
             PROVE  Honest(q)'
  BY NextTypeOK DEF RecordInv
<1> USE DEF Goto
<1>0. TypeOK /\ Honest(q) /\ pc \in [Runs -> Stages]
  BY DEF RecordInv, TypeOK
<1>1. ASSUME NEW r \in Runs, Admit(r) \/ Conflict(r) \/ Reject(r) \/ RegisterSwitch(r)
      PROVE  Honest(q)'
  BY <1>0, <1>1 DEF Admit, Conflict, Reject, RegisterSwitch, Honest, Undecided
<1>2. ASSUME NEW r \in Runs, OpenHead(r)
      PROVE  Honest(q)'
  <2>1. PICK g \in AfterWrite(file[r], WithMeta(file[r])) : Rewrite(r, g)
    BY <1>2 DEF OpenHead
  <2>2. file[r] \in JournalFile
    BY <1>0 DEF TypeOK
  <2>3. g.ending = file[r].ending
    BY <2>1, <2>2, AfterWriteType, LineTypes, 0 \in Nat, "none" \in Endings DEF Endings
  <2>4. file'[q].ending = file[q].ending
    BY <1>0, <2>1, <2>3 DEF Rewrite, TypeOK
  <2>5. \A p \in Runs : pc'[p] = pc[p] \/ (pc[p] = "admitted" /\ pc'[p] \in Undecided)
    BY <1>0, <1>2 DEF OpenHead, Undecided
  <2>6. UNCHANGED <<handle, truth>>
    BY <1>2 DEF OpenHead
  <2> QED BY <1>0, <2>4, <2>5, <2>6 DEF Honest, Undecided
<1>3. ASSUME NEW r \in Runs, OpenRegister(r)
      PROVE  Honest(q)'
  <2>1. file'[q].ending \in {file[q].ending, "none"}
    BY <1>0, <1>3, NoFileType DEF OpenRegister
  <2>2. handle'[q].completed = handle[q].completed \/ (q = r /\ handle'[q].completed = FALSE)
    BY <1>0, <1>3 DEF OpenRegister, NoHandle, TypeOK
  <2>3. \/ pc'[q] = pc[q]
        \/ q = r /\ pc[q] = "opening" /\ pc'[q] \in {"registering", "working"}
    BY <1>0, <1>3 DEF OpenRegister
  <2>4. UNCHANGED truth /\ pc[r] = "opening"
    BY <1>3 DEF OpenRegister
  <2>5. CASE q = r
    BY <1>0, <2>1, <2>2, <2>3, <2>4, <2>5 DEF Honest, Undecided
  <2>6. CASE q # r
    BY <1>0, <2>1, <2>2, <2>3, <2>4, <2>6 DEF Honest, Undecided
  <2> QED BY <2>5, <2>6
<1>4. ASSUME NEW r \in Runs, Narrate(r)
      PROVE  Honest(q)'
  <2>1. Append(r, "progress") /\ UNCHANGED <<pc, truth>>
    BY <1>4 DEF Narrate
  <2>2. file'[q].ending = file[q].ending
    BY <1>0, <2>1, AppendEffect
  <2>3. handle'[r].completed = handle[r].completed
    BY <1>0, <2>1, AppendEffect, "progress" # "completed"
  <2>4. q # r => handle'[q] = handle[q]
    BY <1>0, <2>1, AppendEffect
  <2>5. handle'[q].completed = handle[q].completed
    BY <2>3, <2>4
  <2> QED BY <1>0, <2>1, <2>2, <2>5, SameHonest
<1>5. ASSUME NEW r \in Runs, NoteStop(r) \/ NarrateLate(r)
      PROVE  Honest(q)'
  <2>1. Append(r, "completed") /\ UNCHANGED truth
    BY <1>5 DEF NoteStop, NarrateLate
  <2>2. file'[q].ending = file[q].ending
    BY <1>0, <2>1, AppendEffect
  <2>3. q # r => handle'[q] = handle[q] /\ pc'[q] = pc[q]
    BY <1>0, <1>5, <2>1, AppendEffect DEF NoteStop, NarrateLate
  <2>4. (pc'[r] = "noted" /\ truth[r] = "stopped") \/ pc'[r] = "trailed"
    BY <1>0, <1>5 DEF NoteStop, NarrateLate
  <2> QED BY <1>0, <2>1, <2>2, <2>3, <2>4, SameHonest DEF Honest, Undecided
<1>6. ASSUME NEW r \in Runs, Report(r)
      PROVE  Honest(q)'
  <2>1. Append(r, "completed") \/ UNCHANGED <<handle, file>>
    BY <1>6 DEF Report
  <2>2. file'[q].ending = file[q].ending
    BY <1>0, <2>1, AppendEffect
  <2>3. q # r => handle'[q] = handle[q] /\ pc'[q] = pc[q] /\ truth'[q] = truth[q]
    BY <1>0, <1>6, <2>1, AppendEffect DEF Report, TypeOK
  <2>4. CASE q # r
    BY <1>0, <2>2, <2>3, <2>4, SameHonest
  <2>5. CASE q = r
    <3>1. file'[q].ending = "none"
      BY <1>0, <1>6, <2>2, <2>5 DEF Report, Honest, Undecided
    <3>2. pc'[q] \in {"reported", "leaving"}
      BY <1>0, <1>6, <2>5 DEF Report
    <3>3. pc'[q] = "reported" /\ truth'[q] # "failed" => Append(r, "completed")
      BY <1>0, <1>6, <2>5 DEF Report, TypeOK
    <3>4. pc'[q] = "reported" /\ truth'[q] # "failed" => handle'[q].completed = TRUE
      BY <1>0, <2>5, <3>3, AppendEffect
    <3> QED BY <3>1, <3>2, <3>4 DEF Honest, Undecided
  <2> QED BY <2>4, <2>5
<1>7. ASSUME NEW r \in Runs, Panic(r)
      PROVE  Honest(q)'
  <2>1. UNCHANGED <<file, handle>> /\ pc[r] = "working"
    BY <1>7 DEF Panic
  <2>2. q # r => pc'[q] = pc[q] /\ truth'[q] = truth[q]
    BY <1>0, <1>7 DEF Panic, TypeOK
  <2>3. pc'[r] \in {"panicking", "leaving"} /\ truth'[r] = "panicked"
    BY <1>0, <1>7 DEF Panic, TypeOK
  <2> QED BY <1>0, <2>1, <2>2, <2>3, SameHonest DEF Honest, Undecided
<1>8. ASSUME NEW r \in Runs, NEW e \in Endings \ {"none"}, Close(r, e), UNCHANGED truth,
             /\ e = "succeeded" => truth[r] = "succeeded"
             /\ e = "cancelled" => truth[r] = "stopped"
             /\ e = "failed" => truth[r] \in {"failed", "panicked"}
      PROVE  Honest(q)'
  <2>1. q # r => pc'[q] = pc[q] /\ file'[q].ending = file[q].ending
    BY <1>0, <1>8, CloseEffect
  <2>2. handle'[q].completed = handle[q].completed
    BY <1>0, <1>8, CloseEffect
  <2>3. pc'[r] = "sealing" /\ file'[r].ending \in {file[r].ending, e}
    BY <1>0, <1>8, CloseEffect
  <2>4. CASE q # r
    BY <1>0, <1>8, <2>1, <2>2, <2>4, SameHonest
  <2>5. CASE q = r
    BY <1>0, <1>8, <2>3, <2>5 DEF Honest, Undecided, Endings
  <2> QED BY <2>4, <2>5
<1>9. ASSUME NEW r \in Runs, Fail(r) \/ Stop(r) \/ DropOpen(r)
      PROVE  Honest(q)'
  <2>1. Honest(r) /\ UNCHANGED truth
    BY <1>9 DEF RecordInv, Fail, Stop, DropOpen
  <2>2. CASE Fail(r)
    BY <1>8, <2>1, <2>2 DEF Fail, Endings
  <2>3. CASE Stop(r)
    BY <1>8, <2>1, <2>3 DEF Stop, Endings, Honest
  <2>4. CASE DropOpen(r)
    <3>1. \/ Close(r, "failed") /\ truth[r] = "panicked"
          \/ Close(r, "succeeded") /\ truth[r] = "succeeded"
      BY <2>1, <2>4 DEF DropOpen, Honest
    <3> QED BY <1>8, <2>1, <3>1 DEF Endings
  <2> QED BY <1>9, <2>2, <2>3, <2>4
<1>10. ASSUME NEW r \in Runs, Unregister(r) \/ Leave(r) \/ AskToStop(r)
       PROVE  Honest(q)'
  BY <1>0, <1>10 DEF Unregister, Leave, AskToStop, Honest, Undecided
<1>11. ASSUME NEW r \in Runs, DropClosed(r)
       PROVE  Honest(q)'
  <2>1. UNCHANGED <<file, truth>> /\ pc' = [pc EXCEPT ![r] = "leaving"]
    BY <1>11 DEF DropClosed
  <2>2. q # r => handle'[q] = handle[q]
    BY <1>0, <1>11 DEF DropClosed, TypeOK
  <2> QED BY <1>0, <2>1, <2>2 DEF Honest, Undecided
<1>12. ASSUME Restart
       PROVE  Honest(q)'
  <2>1. UNCHANGED <<file, truth>> /\ handle'[q].completed = FALSE
    BY <1>12 DEF Restart, NoHandle
  <2>2. (pc'[q] = pc[q] /\ pc[q] \notin Live) \/ pc'[q] = "dead"
    BY <1>0, <1>12 DEF Restart
  <2> QED BY <1>0, <2>1, <2>2 DEF Honest, Undecided, Live, Stages
<1>13. CASE UNCHANGED vars
  BY <1>0, <1>13, SameHonest DEF vars
<1> QED BY <1>1, <1>2, <1>3, <1>4, <1>5, <1>6, <1>7, <1>9, <1>10, <1>11, <1>12, <1>13
        DEF Next, RunStep

(* No record ever says more than what happened, whatever lines the disk    *)
(* swallowed, whichever records were pruned and whenever the process died  *)
(* (Journal::finish, cancelled and Drop, jobs.rs:266-334).                 *)
THEOREM RecordsAreTruthful == Spec => []RecordTruthful
<1>1. Init => RecordInv
  BY InitTypeOK, NoFileType DEF Init, RecordInv, Honest, Undecided, NoHandle
<1>2. RecordInv => RecordTruthful
  BY DEF RecordInv, Honest, RecordTruthful
<1> QED BY <1>1, <1>2, NextRecordInv, PTL DEF Spec

-----------------------------------------------------------------------------
(* Who holds what                                                          *)

Listed   == {"registering", "working", "panicking", "reported", "noted", "sealing"}
Switched == {"working", "panicking", "reported", "noted", "sealing", "sealed", "trailed",
             "leaving"}
Holding  == Listed \cup {"sealed", "trailed"}

(* A run is listed only while it holds its journal, and holds its journal  *)
(* from the registration to the drop; only one that works without a record *)
(* has none.                                                               *)
Tidy(r) ==
    /\ r \in running => pc[r] \in Listed /\ handle[r].open
    /\ r \in switches => r \in Stoppable /\ pc[r] \in Switched
    /\ pc[r] = "registering" => r \in Stoppable
    /\ handle[r].open => pc[r] \in Holding
    /\ pc[r] \in Holding \ {"working"} => handle[r].open

Whole(f) == f.present \/ f = NoFile

(* What is on file at each stage: nothing before the head line, and no     *)
(* ending before the close.                                                *)
Filed(r) ==
    /\ Whole(file[r])
    /\ pc[r] \in {"idle", "admitted"} => file[r] = NoFile
    /\ pc[r] \in {"panicking", "reported", "noted"} => file[r].ending = "none"
    /\ pc[r] \in Holding \ {"registering", "working"} => truth[r] # "undecided"

(* The invariants: who holds what, and with it what the records say.       *)
HoldInv == TypeOK /\ \A r \in Runs : Tidy(r)

KeepInv == RecordInv /\ HoldInv /\ \A r \in Runs : Filed(r)

(* A narrated line and a close leave every handle as open as it was.       *)
LEMMA LinesKeepOpen ==
    ASSUME TypeOK, NEW r \in Runs, NEW q \in Runs
    PROVE  /\ \A phase : Append(r, phase) => handle'[q].open = handle[q].open
           /\ \A e \in Endings : Close(r, e) => handle'[q].open = handle[q].open
BY AppendEffect, CloseEffect

(* Every step keeps the holdings of every run in order.                    *)
LEMMA NextHoldInv == HoldInv /\ [Next]_vars => HoldInv'
<1> SUFFICES ASSUME HoldInv, [Next]_vars, NEW q \in Runs
             PROVE  Tidy(q)'
  BY NextTypeOK DEF HoldInv
<1> USE DEF Goto, Listed, Switched, Holding
<1>0. TypeOK /\ Tidy(q) /\ pc \in [Runs -> Stages] /\ handle \in [Runs -> Handle]
  BY DEF HoldInv, TypeOK
<1>1. ASSUME NEW r \in Runs, Admit(r) \/ Conflict(r) \/ Reject(r) \/ OpenHead(r)
      PROVE  Tidy(q)'
  <2>1. UNCHANGED <<running, switches, handle>>
    BY <1>1 DEF Admit, Conflict, Reject, OpenHead
  <2>2. \/ pc'[q] = pc[q]
        \/ q = r /\ pc[q] \in {"idle", "admitted"}
                 /\ pc'[q] \in {"admitted", "refused", "opening", "working"}
    BY <1>0, <1>1 DEF Admit, Conflict, Reject, OpenHead
  <2> QED BY <1>0, <2>1, <2>2 DEF Tidy
<1>2. ASSUME NEW r \in Runs, OpenRegister(r)
      PROVE  Tidy(q)'
  <2>1. /\ running' = running \cup {r} /\ UNCHANGED switches /\ pc[r] = "opening"
        /\ pc' = [pc EXCEPT ![r] = IF r \in Stoppable THEN "registering" ELSE "working"]
        /\ handle' = [handle EXCEPT ![r] = [NoHandle EXCEPT !.open = TRUE]]
    BY <1>2 DEF OpenRegister
  <2>2. CASE q = r
    <3>1. handle'[q].open
      BY <1>0, <2>1, <2>2 DEF NoHandle
    <3> QED BY <1>0, <2>1, <2>2, <3>1 DEF Tidy
  <2>3. CASE q # r
    BY <1>0, <2>1, <2>3 DEF Tidy
  <2> QED BY <2>2, <2>3
<1>3. ASSUME NEW r \in Runs, RegisterSwitch(r)
      PROVE  Tidy(q)'
  BY <1>0, <1>3 DEF RegisterSwitch, Tidy
<1>4. ASSUME NEW r \in Runs, AskToStop(r)
      PROVE  Tidy(q)'
  BY <1>0, <1>4 DEF AskToStop, Tidy
<1>5. ASSUME NEW r \in Runs, Narrate(r) \/ NoteStop(r) \/ NarrateLate(r)
      PROVE  Tidy(q)'
  <2>1. handle'[q].open = handle[q].open /\ UNCHANGED <<running, switches>>
    BY <1>0, <1>5, LinesKeepOpen DEF Narrate, NoteStop, NarrateLate
  <2>2. \/ pc'[q] = pc[q]
        \/ q = r /\ pc[q] = "reported" /\ pc'[q] = "noted"
        \/ q = r /\ pc[q] = "sealed" /\ pc'[q] = "trailed"
    BY <1>0, <1>5 DEF Narrate, NoteStop, NarrateLate
  <2> QED BY <1>0, <2>1, <2>2 DEF Tidy
<1>6. ASSUME NEW r \in Runs, Report(r) \/ Panic(r)
      PROVE  Tidy(q)'
  <2>1. handle'[q].open = handle[q].open /\ UNCHANGED <<running, switches>>
    BY <1>0, <1>6, LinesKeepOpen DEF Report, Panic
  <2>2. \/ pc'[q] = pc[q]
        \/ /\ q = r /\ pc[q] = "working"
           /\ pc'[q] \in IF handle[q].open THEN {"reported", "panicking"} ELSE {"leaving"}
    BY <1>0, <1>6 DEF Report, Panic
  <2> QED BY <1>0, <2>1, <2>2 DEF Tidy
<1>7. ASSUME NEW r \in Runs, Fail(r) \/ Stop(r) \/ DropOpen(r)
      PROVE  Tidy(q)'
  <2>1. PICK e \in Endings : Close(r, e)
    BY <1>7 DEF Fail, Stop, DropOpen, Endings
  <2>2. handle'[q].open = handle[q].open /\ UNCHANGED <<running, switches>>
    BY <1>0, <1>7, <2>1, LinesKeepOpen DEF Fail, Stop, DropOpen
  <2>3. \/ pc'[q] = pc[q]
        \/ q = r /\ pc[q] \in {"reported", "noted", "panicking"} /\ pc'[q] = "sealing"
    BY <1>0, <1>7, <2>1 DEF Close, Fail, Stop, DropOpen
  <2> QED BY <1>0, <2>2, <2>3 DEF Tidy
<1>8. ASSUME NEW r \in Runs, Unregister(r)
      PROVE  Tidy(q)'
  BY <1>0, <1>8 DEF Unregister, Tidy
<1>9. ASSUME NEW r \in Runs, DropClosed(r)
      PROVE  Tidy(q)'
  <2>1. /\ pc[r] \in {"sealed", "trailed"} /\ pc' = [pc EXCEPT ![r] = "leaving"]
        /\ handle' = [handle EXCEPT ![r] = NoHandle] /\ UNCHANGED <<running, switches>>
    BY <1>9 DEF DropClosed
  <2>2. q = r => handle'[q].open = FALSE
    BY <1>0, <2>1 DEF NoHandle
  <2>3. q # r => handle'[q] = handle[q]
    BY <1>0, <2>1
  <2> QED BY <1>0, <2>1, <2>2, <2>3 DEF Tidy
<1>10. ASSUME NEW r \in Runs, Leave(r)
       PROVE  Tidy(q)'
  BY <1>0, <1>10 DEF Leave, Tidy
<1>11. ASSUME Restart
       PROVE  Tidy(q)'
  <2>1. running' = {} /\ switches' = {} /\ handle'[q].open = FALSE
    BY <1>11 DEF Restart, NoHandle
  <2>2. pc'[q] \notin Holding
    BY <1>0, <1>11 DEF Restart, Live
  <2> QED BY <2>1, <2>2 DEF Tidy
<1>12. CASE UNCHANGED vars
  BY <1>0, <1>12 DEF vars, Tidy
<1> QED BY <1>1, <1>2, <1>3, <1>4, <1>5, <1>6, <1>7, <1>8, <1>9, <1>10, <1>11, <1>12
        DEF Next, RunStep

(* The host starts with nothing held.                                      *)
LEMMA InitHoldInv == Init => HoldInv
BY InitTypeOK DEF Init, HoldInv, Tidy, Holding, Listed, NoHandle

-----------------------------------------------------------------------------
(* No subject stays locked                                                 *)

(* A key that refuses others is some live run's.                           *)
Owned(key) == \E r \in Claiming : Subject[r] = key /\ pc[r] \in Live

ClaimsOwned == \A key \in claimed : Owned(key)

(* A step that takes no claim and ends no claiming run keeps the owners.   *)
LEMMA QuietOwners ==
    ASSUME ClaimsOwned, claimed' \subseteq claimed,
           \A q \in Claiming : pc[q] \in Live => pc'[q] \in Live
    PROVE  ClaimsOwned'
BY DEF ClaimsOwned, Owned

(* A run that leaves takes its key out of CLAIMED, so the keys that stay   *)
(* are owned by others; a restart empties CLAIMED.                         *)
LEMMA NextClaimsOwned == AdmissionInv /\ ClaimsOwned /\ [Next]_vars => ClaimsOwned'
<1> SUFFICES ASSUME AdmissionInv, ClaimsOwned, [Next]_vars
             PROVE  ClaimsOwned'
  OBVIOUS
<1> USE DEF Goto
<1>0. pc \in [Runs -> Stages] /\ Claiming \subseteq Runs
  BY RunsAssumption DEF AdmissionInv, TypeOK
<1>1. ASSUME NEW r \in Runs, Admit(r)
      PROVE  ClaimsOwned'
  <2>1. /\ pc' = [pc EXCEPT ![r] = "admitted"]
        /\ claimed' = IF r \in Claiming THEN claimed \cup {Subject[r]} ELSE claimed
    BY <1>1 DEF Admit
  <2>2. pc'[r] \in Live
    BY <1>0, <2>1 DEF Live, Stages
  <2>3. \A q \in Claiming : pc[q] \in Live => pc'[q] \in Live
    BY <1>0, <2>1, <2>2
  <2>4. \A key \in claimed : Owned(key)'
    BY <2>3 DEF ClaimsOwned, Owned
  <2>5. r \in Claiming => Owned(Subject[r])'
    BY <2>2 DEF Owned
  <2> QED BY <2>1, <2>4, <2>5 DEF ClaimsOwned
<1>2. ASSUME NEW r \in Runs, Reject(r) \/ Leave(r)
      PROVE  ClaimsOwned'
  <2>1. /\ \A q \in Runs : q # r => pc'[q] = pc[q]
        /\ claimed' = IF r \in Claiming THEN claimed \ {Subject[r]} ELSE claimed
    BY <1>0, <1>2 DEF Reject, Leave
  <2>2. \A key \in claimed' : \E q \in Claiming : Subject[q] = key /\ pc[q] \in Live /\ q # r
    BY <2>1 DEF ClaimsOwned, Owned
  <2> QED BY <1>0, <2>1, <2>2 DEF ClaimsOwned, Owned
<1>3. ASSUME NEW r \in Runs, RunStep(r) \/ AskToStop(r), ~Admit(r), ~Reject(r), ~Leave(r)
      PROVE  ClaimsOwned'
  <2>1. UNCHANGED claimed
    BY <1>3 DEF RunStep, AskToStop, Conflict, OpenHead, OpenRegister, RegisterSwitch, Narrate,
                Report, Panic, Fail, NoteStop, Stop, DropOpen, Unregister, NarrateLate, DropClosed
  <2>2. UNCHANGED pc \/ \E stage \in Stages :
            /\ pc' = [pc EXCEPT ![r] = stage]
            /\ pc[r] \in Live => stage \in Live
    BY <1>3 DEF RunStep, AskToStop, Conflict, OpenHead, OpenRegister, RegisterSwitch, Narrate,
                Report, Panic, Fail, NoteStop, Stop, DropOpen, Close, Unregister, NarrateLate,
                DropClosed, Live, Stages
  <2>3. \A q \in Claiming : pc[q] \in Live => pc'[q] \in Live
    BY <1>0, <2>2
  <2> QED BY <2>1, <2>3, QuietOwners
<1>4. CASE Restart
  BY <1>4 DEF Restart, ClaimsOwned
<1>5. CASE UNCHANGED vars
  BY <1>5, QuietOwners DEF vars
<1> QED BY <1>1, <1>2, <1>3, <1>4, <1>5 DEF Next

(* Whatever is in RUNNING or in SWITCHES belongs to a task of this process *)
(* that is alive, with its journal open and its claim held, and every key  *)
(* in CLAIMED to a run that is alive too (jobs.rs:49-75, 126, 286-306,     *)
(* 739-771).                                                               *)
THEOREM OnlyTheLiveHold == Spec => []OnlyLiveRunsHold
<1>1. HoldInv /\ AdmissionInv /\ ClaimsOwned => OnlyLiveRunsHold
  <2> SUFFICES ASSUME HoldInv, AdmissionInv, ClaimsOwned PROVE OnlyLiveRunsHold
    OBVIOUS
  <2>1. running \subseteq Runs /\ switches \subseteq Runs
    BY DEF HoldInv, TypeOK
  <2>2. \A r \in running : pc[r] \in Live /\ handle[r].open
    BY <2>1 DEF HoldInv, Tidy, Listed, Live, Stages
  <2>3. \A r \in running : r \in Claiming => Subject[r] \in claimed
    BY <2>2 DEF AdmissionInv, ClaimsHeld
  <2>4. \A r \in switches : r \in Stoppable /\ pc[r] \in Live /\ pc[r] # "registering"
    BY <2>1 DEF HoldInv, Tidy, Switched, Live, Stages
  <2> QED BY <2>2, <2>3, <2>4 DEF OnlyLiveRunsHold, ClaimsOwned, Owned
<1>2. Init => AdmissionInv /\ ClaimsOwned
  BY InitTypeOK, RunsAssumption
     DEF Init, AdmissionInv, ClaimsHeld, ClaimExclusion, ClaimsOwned, Live, Stages
<1> QED BY <1>1, <1>2, InitHoldInv, NextHoldInv, NextAdmissionInv, NextClaimsOwned, PTL DEF Spec

-----------------------------------------------------------------------------
(* What is on record                                                       *)

(* A write leaves a file alone, or leaves one that is there and reads as   *)
(* it did or as was meant.                                                 *)
LEMMA WriteReads ==
    ASSUME NEW f \in JournalFile, NEW g \in JournalFile, Whole(f),
           NEW h \in AfterWrite(f, g)
    PROVE  \/ h = f
           \/ h.present /\ h.headed = f.headed /\ h.events = f.events /\ h.ending = f.ending
           \/ h.present /\ h.headed = g.headed /\ h.events = g.events /\ h.ending = g.ending
<1>1. f.torn => f.present
  BY DEF Whole, NoFile
<1>2. CASE f.torn /\ h = [f EXCEPT !.torn = FALSE]
  BY <1>1, <1>2 DEF JournalFile
<1>3. CASE h = [g EXCEPT !.present = TRUE]
  <2>1. h.present = TRUE /\ h.headed = g.headed /\ h.events = g.events /\ h.ending = g.ending
    BY <1>3 DEF JournalFile
  <2> QED BY <2>1
<1>4. CASE h = [f EXCEPT !.present = TRUE, !.torn = TRUE]
  <2>1. h.present = TRUE /\ h.headed = f.headed /\ h.events = f.events /\ h.ending = f.ending
    BY <1>4 DEF JournalFile
  <2> QED BY <2>1
<1> QED BY <1>2, <1>3, <1>4 DEF AfterWrite

(* What each line adds.                                                    *)
LEMMA LineReads ==
    ASSUME NEW f \in JournalFile, NEW n \in Nat, NEW e \in Endings
    PROVE  /\ WithEvent(f, n).headed = f.headed /\ WithEvent(f, n).events = f.events \cup {n}
           /\ WithEnding(f, e).headed = f.headed /\ WithEnding(f, e).events = f.events
           /\ WithMeta(f).headed = TRUE /\ WithMeta(f).events = f.events
BY DEF WithEvent, WithEnding, WithMeta, JournalFile

(* A narrated line leaves the record as it is, or brings back one that was *)
(* forgotten, with the ending its file has.                                *)
LEMMA LineRecord ==
    ASSUME NEW f \in JournalFile, Whole(f), NEW n \in Nat,
           NEW h \in AfterWrite(f, WithEvent(f, n))
    PROVE  /\ Whole(h)
           /\ \/ RecordOf(h) = RecordOf(f)
              \/ /\ RecordOf(f) = "none"
                 /\ RecordOf(h) = IF f.ending = "none" THEN "open" ELSE f.ending
<1>0. "none" \in Endings
  BY DEF Endings
<1>1. WithEvent(f, n) \in JournalFile /\ WithEvent(f, n).ending = f.ending
  BY <1>0, LineTypes
<1>2. \/ h = f
      \/ /\ h.present /\ h.headed = f.headed /\ h.ending = f.ending
         /\ h.events \in {f.events, f.events \cup {n}}
  <2>1. WithEvent(f, n).headed = f.headed /\ WithEvent(f, n).events = f.events \cup {n}
    BY <1>0, LineReads
  <2> QED BY <1>1, <2>1, WriteReads
<1> QED BY <1>2 DEF Whole, RecordOf, Readable

(* A close seals a record that is there.                                   *)
LEMMA EndRecord ==
    ASSUME NEW f \in JournalFile, Whole(f), f.ending = "none",
           NEW e \in Endings \ {"none"}, NEW h \in AfterWrite(f, WithEnding(f, e))
    PROVE  /\ Whole(h)
           /\ \/ RecordOf(h) = RecordOf(f)
              \/ RecordOf(f) = "open" /\ RecordOf(h) = e
<1>1. WithEnding(f, e) \in JournalFile /\ WithEnding(f, e).ending = e
  BY LineTypes, 0 \in Nat
<1>2. WithEnding(f, e).headed = f.headed /\ WithEnding(f, e).events = f.events
  BY LineReads, 0 \in Nat
<1>3. \/ h = f
      \/ /\ h.present /\ h.headed = f.headed /\ h.events = f.events
         /\ h.ending \in {f.ending, e}
  BY <1>1, <1>2, WriteReads
<1>4. f.present \/ (f.headed = FALSE /\ f.events = {})
  BY DEF Whole, NoFile
<1> QED BY <1>3, <1>4 DEF Whole, RecordOf, Readable

(* A head line is the beginning of a record, or of none.                   *)
LEMMA HeadRecord ==
    ASSUME NEW h \in AfterWrite(NoFile, WithMeta(NoFile))
    PROVE  Whole(h) /\ RecordOf(NoFile) = "none" /\ RecordOf(h) \in {"none", "open"}
<1>1. WithMeta(NoFile) \in JournalFile /\ WithMeta(NoFile).ending = "none"
  BY NoFileType, LineTypes, 0 \in Nat, "none" \in Endings DEF Endings
<1>2. NoFile \in JournalFile /\ Whole(NoFile) /\ NoFile.ending = "none"
  BY NoFileType DEF Whole
<1>3. h = NoFile \/ (h.present /\ h.ending = "none")
  BY <1>1, <1>2, WriteReads
<1>4. RecordOf(NoFile) = "none"
  BY DEF RecordOf, Readable, NoFile
<1>5. h.present /\ h.ending = "none" => Whole(h) /\ RecordOf(h) \in {"none", "open"}
  BY DEF Whole, RecordOf
<1> QED BY <1>2, <1>3, <1>4, <1>5

(* A run that appends writes to its own file and to no other.              *)
LEMMA AppendRecord ==
    ASSUME TypeOK, NEW r \in Runs, Whole(file[r]), NEW phase, Append(r, phase)
    PROVE  /\ \A q \in Runs \ {r} : file'[q] = file[q]
           /\ Whole(file'[r])
           /\ \/ RecordOf(file'[r]) = RecordOf(file[r])
              \/ /\ RecordOf(file[r]) = "none"
                 /\ RecordOf(file'[r]) = IF file[r].ending = "none" THEN "open"
                                         ELSE file[r].ending
<1>1. PICK g \in AfterWrite(file[r], WithEvent(file[r], handle[r].next)) : Rewrite(r, g)
  BY DEF Append
<1>2. file[r] \in JournalFile /\ handle[r].next \in Nat
  BY DEF TypeOK, Handle
<1>3. file'[r] = g /\ \A q \in Runs \ {r} : file'[q] = file[q]
  BY <1>1 DEF Rewrite, TypeOK
<1> QED BY <1>1, <1>2, <1>3, LineRecord

(* Likewise for a close.                                                   *)
LEMMA CloseRecord ==
    ASSUME TypeOK, NEW r \in Runs, Whole(file[r]), file[r].ending = "none",
           NEW e \in Endings \ {"none"}, Close(r, e)
    PROVE  /\ \A q \in Runs \ {r} : file'[q] = file[q]
           /\ Whole(file'[r])
           /\ \/ RecordOf(file'[r]) = RecordOf(file[r])
              \/ RecordOf(file[r]) = "open" /\ RecordOf(file'[r]) = e
<1>1. PICK g \in AfterWrite(file[r], WithEnding(file[r], e)) : Rewrite(r, g)
  BY DEF Close
<1>2. file[r] \in JournalFile
  BY DEF TypeOK
<1>3. file'[r] = g /\ \A q \in Runs \ {r} : file'[q] = file[q]
  BY <1>1 DEF Rewrite, TypeOK
<1> QED BY <1>1, <1>2, <1>3, EndRecord

(* Every step keeps the files in order.                                    *)
LEMMA NextFiled ==
    ASSUME KeepInv, [Next]_vars, NEW q \in Runs
    PROVE  Filed(q)'
<1> USE DEF Goto, Listed, Holding
<1>0. /\ TypeOK /\ Filed(q) /\ Honest(q) /\ Tidy(q)
      /\ pc \in [Runs -> Stages] /\ truth \in [Runs -> Truths]
  BY DEF KeepInv, HoldInv, RecordInv, TypeOK
<1>1. ASSUME NEW r \in Runs,
             Admit(r) \/ Conflict(r) \/ Reject(r) \/ RegisterSwitch(r) \/ AskToStop(r)
               \/ Unregister(r) \/ Leave(r)
      PROVE  Filed(q)'
  <2>1. UNCHANGED <<file, truth>>
    BY <1>1 DEF Admit, Conflict, Reject, RegisterSwitch, AskToStop, Unregister, Leave
  <2>2. \/ pc'[q] = pc[q]
        \/ pc[q] \in {"idle", "admitted"} /\ pc'[q] \in {"admitted", "refused"}
        \/ pc[q] = "registering" /\ pc'[q] = "working"
        \/ pc[q] = "sealing" /\ pc'[q] = "sealed"
        \/ pc[q] = "leaving" /\ pc'[q] = "done"
    BY <1>0, <1>1 DEF Admit, Conflict, Reject, RegisterSwitch, AskToStop, Unregister, Leave
  <2> QED BY <1>0, <2>1, <2>2 DEF Filed
<1>2. ASSUME NEW r \in Runs, OpenHead(r)
      PROVE  Filed(q)'
  <2>1. PICK g \in AfterWrite(file[r], WithMeta(file[r])) : Rewrite(r, g)
    BY <1>2 DEF OpenHead
  <2>2. q = r => Whole(g)
    BY <1>0, <1>2, <2>1, HeadRecord DEF OpenHead, Filed
  <2>3. file'[q] = IF q = r THEN g ELSE file[q]
    BY <1>0, <2>1 DEF Rewrite, TypeOK
  <2>4. UNCHANGED truth /\ ((pc'[q] = pc[q] /\ q # r) \/ pc'[q] \in {"opening", "working"})
    BY <1>0, <1>2 DEF OpenHead
  <2> QED BY <1>0, <2>2, <2>3, <2>4 DEF Filed
<1>3. ASSUME NEW r \in Runs, OpenRegister(r)
      PROVE  Filed(q)'
  <2>1. file'[q] \in {file[q], NoFile} /\ UNCHANGED truth
    BY <1>3 DEF OpenRegister
  <2>2. pc'[q] = pc[q] \/ pc'[q] \in {"registering", "working"}
    BY <1>0, <1>3 DEF OpenRegister
  <2> QED BY <1>0, <2>1, <2>2, NoFileType DEF Filed, Whole
<1>4. ASSUME NEW r \in Runs, Narrate(r) \/ NoteStop(r) \/ NarrateLate(r)
      PROVE  Filed(q)'
  <2>0. Whole(file[r])
    BY DEF KeepInv, Filed
  <2>1. PICK phase : Append(r, phase)
    BY <1>4 DEF Narrate, NoteStop, NarrateLate
  <2>2. Whole(file'[q]) /\ file'[q].ending = file[q].ending /\ (q # r => file'[q] = file[q])
    BY <1>0, <2>0, <2>1, AppendRecord, AppendEffect DEF Filed
  <2>3. \/ pc'[q] = pc[q] /\ (q = r => pc[q] = "working")
        \/ q = r /\ pc[q] = "reported" /\ pc'[q] = "noted"
        \/ q = r /\ pc[q] = "sealed" /\ pc'[q] = "trailed"
        \/ q # r /\ pc'[q] = pc[q]
    BY <1>0, <1>4 DEF Narrate, NoteStop, NarrateLate
  <2>4. UNCHANGED truth
    BY <1>4 DEF Narrate, NoteStop, NarrateLate
  <2> QED BY <1>0, <2>2, <2>3, <2>4 DEF Filed
<1>5. ASSUME NEW r \in Runs, Report(r) \/ Panic(r)
      PROVE  Filed(q)'
  <2>0. Whole(file[r])
    BY DEF KeepInv, Filed
  <2>1. (\E phase : Append(r, phase)) \/ UNCHANGED file
    BY <1>5 DEF Report, Panic
  <2>2. Whole(file'[q]) /\ file'[q].ending = file[q].ending /\ (q # r => file'[q] = file[q])
    BY <1>0, <2>0, <2>1, AppendRecord, AppendEffect DEF Filed
  <2>3. \/ q # r /\ pc'[q] = pc[q] /\ truth'[q] = truth[q]
        \/ /\ q = r /\ pc[q] = "working" /\ truth'[q] # "undecided"
           /\ pc'[q] \in {"reported", "panicking", "leaving"}
    BY <1>0, <1>5 DEF Report, Panic
  <2> QED BY <1>0, <2>2, <2>3 DEF Filed, Honest, Undecided
<1>6. ASSUME NEW r \in Runs, Fail(r) \/ Stop(r) \/ DropOpen(r)
      PROVE  Filed(q)'
  <2>1. PICK e \in Endings \ {"none"} : Close(r, e)
    BY <1>6 DEF Fail, Stop, DropOpen, Endings
  <2>2. pc[r] \in {"reported", "noted", "panicking"} /\ UNCHANGED truth
    BY <1>6 DEF Fail, Stop, DropOpen
  <2>3. Filed(r)
    BY DEF KeepInv
  <2>4. Whole(file'[q]) /\ (q # r => file'[q] = file[q])
    BY <1>0, <2>1, <2>2, <2>3, CloseRecord DEF Filed
  <2>5. \/ q # r /\ pc'[q] = pc[q]
        \/ q = r /\ pc'[q] = "sealing"
    <3>1. pc' = [pc EXCEPT ![r] = "sealing"]
      BY <2>1 DEF Close
    <3> QED BY <1>0, <3>1
  <2> QED BY <1>0, <2>2, <2>3, <2>4, <2>5 DEF Filed
<1>7. ASSUME NEW r \in Runs, DropClosed(r)
      PROVE  Filed(q)'
  BY <1>0, <1>7 DEF DropClosed, Filed
<1>8. ASSUME Restart
      PROVE  Filed(q)'
  BY <1>0, <1>8 DEF Restart, Filed, Live
<1>9. CASE UNCHANGED vars
  BY <1>0, <1>9 DEF vars, Filed
<1> QED BY <1>1, <1>2, <1>3, <1>4, <1>5, <1>6, <1>7, <1>8, <1>9 DEF Next, RunStep

(* All of it together.                                                     *)
LEMMA NextKeepInv == KeepInv /\ [Next]_vars => KeepInv'
BY NextRecordInv, NextHoldInv, NextFiled DEF KeepInv

(* No file, no handle, and nobody at work.                                 *)
LEMMA InitKeepInv == Init => KeepInv
<1> SUFFICES ASSUME Init PROVE KeepInv
  OBVIOUS
<1>1. RecordInv
  BY InitTypeOK, NoFileType DEF Init, RecordInv, Honest, Undecided, NoHandle
<1>2. \A r \in Runs : Filed(r)
  BY DEF Init, Filed, Whole, Holding, Listed
<1> QED BY <1>1, <1>2, InitHoldInv DEF KeepInv

-----------------------------------------------------------------------------
(* The refinement                                                          *)

Recorded == [r \in Runs |-> RecordOf(file[r])]
Writers  == {r \in Runs : handle[r].open}

(* A step that shows nothing on record is a stutter of it.                 *)
LEMMA Stutters ==
    ASSUME \A q \in Runs : RecordOf(file'[q]) = RecordOf(file[q]),
           \A q \in Runs : handle'[q].open = handle[q].open,
           UNCHANGED truth
    PROVE  UNCHANGED Record!vars
<1>1. Recorded' = Recorded /\ Writers' = Writers
  BY DEF Recorded, Writers
<1> QED BY <1>1 DEF Record!vars, Recorded, Writers

(* One run's record changes.                                               *)
LEMMA OneRecord ==
    ASSUME NEW r \in Runs, \A q \in Runs \ {r} : file'[q] = file[q],
           NEW what, RecordOf(file'[r]) = what
    PROVE  Recorded' = [Recorded EXCEPT ![r] = what]
BY DEF Recorded

(* A run that appends what does not decide it writes its record again, or  *)
(* nothing new.                                                            *)
LEMMA AppendsRewrite ==
    ASSUME KeepInv, NEW r \in Runs, NEW phase, Append(r, phase), handle[r].open,
           UNCHANGED truth
    PROVE  Record!Next \/ UNCHANGED Record!vars
<1>1. TypeOK /\ Whole(file[r]) /\ Honest(r)
  BY DEF KeepInv, RecordInv, Filed
<1>2. \A q \in Runs : handle'[q].open = handle[q].open
  BY <1>1, AppendEffect
<1>3. \A q \in Runs \ {r} : file'[q] = file[q]
  BY <1>1, AppendRecord
<1>4. CASE RecordOf(file'[r]) = RecordOf(file[r])
  BY <1>2, <1>3, <1>4, Stutters
<1>5. CASE /\ RecordOf(file[r]) = "none"
           /\ RecordOf(file'[r]) = IF file[r].ending = "none" THEN "open" ELSE file[r].ending
  <2>1. DOMAIN Record!EndingFor = {"succeeded", "stopped", "failed", "panicked"}
    BY DEF Record!EndingFor
  <2>2. \/ RecordOf(file'[r]) = "open"
        \/ truth[r] \in DOMAIN Record!EndingFor
             /\ RecordOf(file'[r]) = Record!EndingFor[truth[r]]
    BY <1>1, <1>5, <2>1 DEF Honest, TypeOK, JournalFile, Endings, Truths, Record!EndingFor
  <2>3. Recorded' = [Recorded EXCEPT ![r] = RecordOf(file'[r])]
    BY <1>3, OneRecord
  <2>4. Writers' = Writers /\ r \in Writers /\ Recorded[r] = "none"
    BY <1>2, <1>5 DEF Writers, Recorded
  <2>5. Record!Rewrite(r)
    BY <2>2, <2>3, <2>4 DEF Record!Rewrite, Record!Reappear, Record!Results, Recorded, Writers
  <2> QED BY <2>5 DEF Record!Next
<1> QED BY <1>1, <1>4, <1>5, AppendRecord

(* A run closes its journal, once, with the ending of its result.          *)
LEMMA ClosesSeal ==
    ASSUME KeepInv, NEW r \in Runs, NEW e \in Endings \ {"none"}, Close(r, e),
           handle[r].open, truth[r] # "undecided", file[r].ending = "none",
           e = Record!EndingFor[truth[r]], UNCHANGED truth
    PROVE  Record!Next \/ UNCHANGED Record!vars
<1>1. TypeOK /\ Whole(file[r])
  BY DEF KeepInv, RecordInv, Filed
<1>2. \A q \in Runs : handle'[q].open = handle[q].open
  BY <1>1, CloseEffect
<1>3. \A q \in Runs \ {r} : file'[q] = file[q]
  BY <1>1, CloseRecord
<1>4. CASE RecordOf(file'[r]) = RecordOf(file[r])
  BY <1>2, <1>3, <1>4, Stutters
<1>5. CASE RecordOf(file[r]) = "open" /\ RecordOf(file'[r]) = e
  <2>1. Recorded' = [Recorded EXCEPT ![r] = e]
    BY <1>3, <1>5, OneRecord
  <2>2. Writers' = Writers /\ r \in Writers /\ Recorded[r] = "open"
    BY <1>2, <1>5 DEF Writers, Recorded
  <2>3. Record!Seal(r)
    BY <2>1, <2>2 DEF Record!Seal, Recorded, Writers
  <2> QED BY <2>3 DEF Record!Next
<1> QED BY <1>1, <1>4, <1>5, CloseRecord

(* Work ends, and the run narrates it or does not.                         *)
LEMMA EndsDecide ==
    ASSUME KeepInv, NEW r \in Runs, pc[r] = "working",
           NEW how \in {"succeeded", "failed", "stopped", "panicked"},
           truth' = [truth EXCEPT ![r] = how],
           \/ UNCHANGED <<file, handle>>
           \/ handle[r].open /\ Append(r, "completed")
    PROVE  Record!Next
<1>1. TypeOK /\ Whole(file[r]) /\ truth[r] = "undecided" /\ file[r].ending = "none"
  BY DEF KeepInv, RecordInv, Filed, Honest, Undecided
<1>2. Writers' = Writers
  BY <1>1, AppendEffect DEF Writers
<1>3. \/ Recorded' = Recorded
      \/ /\ Recorded' = [Recorded EXCEPT ![r] = "open"]
         /\ r \in Writers /\ Recorded[r] = "none"
  <2>1. CASE UNCHANGED file
    BY <2>1 DEF Recorded
  <2>2. CASE handle[r].open /\ Append(r, "completed")
    <3>1. \A q \in Runs \ {r} : file'[q] = file[q]
      BY <1>1, <2>2, AppendRecord
    <3>2. CASE RecordOf(file'[r]) = RecordOf(file[r])
      BY <3>1, <3>2 DEF Recorded
    <3>3. CASE RecordOf(file[r]) = "none" /\ RecordOf(file'[r]) = "open"
      BY <2>2, <3>1, <3>3, OneRecord DEF Recorded, Writers
    <3> QED BY <1>1, <2>2, <3>2, <3>3, AppendRecord
  <2> QED BY <2>1, <2>2
<1>4. how \in Record!Results
  BY DEF Record!Results, Record!EndingFor
<1>5. Record!Decide(r)
  BY <1>1, <1>2, <1>3, <1>4 DEF Record!Decide, Record!Reappear, Recorded, Writers
<1> QED BY <1>5 DEF Record!Next

(* Every step of Jobs is a step of the record, or a stutter.               *)
LEMMA StepsImplement ==
    ASSUME KeepInv, [Next]_vars
    PROVE  Record!Next \/ UNCHANGED Record!vars
<1> USE DEF Goto
<1>0. TypeOK /\ handle \in [Runs -> Handle]
  BY DEF KeepInv, HoldInv, TypeOK
<1>1. ASSUME NEW r \in Runs,
             Admit(r) \/ Conflict(r) \/ Reject(r) \/ RegisterSwitch(r) \/ AskToStop(r)
               \/ Unregister(r) \/ Leave(r)
      PROVE  UNCHANGED Record!vars
  <2>1. UNCHANGED <<file, handle, truth>>
    BY <1>1 DEF Admit, Conflict, Reject, RegisterSwitch, AskToStop, Unregister, Leave
  <2> QED BY <2>1, Stutters
<1>2. ASSUME NEW r \in Runs, OpenHead(r)
      PROVE  Record!Next \/ UNCHANGED Record!vars
  <2>1. PICK g \in AfterWrite(file[r], WithMeta(file[r])) : Rewrite(r, g)
    BY <1>2 DEF OpenHead
  <2>2. file[r] = NoFile /\ truth[r] = "undecided" /\ ~handle[r].open
    BY <1>2 DEF OpenHead, KeepInv, RecordInv, HoldInv, Filed, Tidy, Honest, Undecided,
                Holding, Listed
  <2>3. file'[r] = g /\ (\A q \in Runs \ {r} : file'[q] = file[q]) /\ UNCHANGED <<handle, truth>>
    BY <1>0, <1>2, <2>1 DEF Rewrite, OpenHead, TypeOK
  <2>4. RecordOf(file[r]) = "none" /\ RecordOf(file'[r]) \in {"none", "open"}
    BY <2>1, <2>2, <2>3, HeadRecord
  <2>5. CASE RecordOf(file'[r]) = "none"
    BY <2>3, <2>4, <2>5, Stutters
  <2>6. CASE RecordOf(file'[r]) = "open"
    <3>1. Recorded' = [Recorded EXCEPT ![r] = "open"]
      BY <2>3, <2>6, OneRecord
    <3>2. Recorded[r] = "none" /\ Writers' = Writers /\ r \notin Writers
      BY <2>2, <2>3, <2>4 DEF Recorded, Writers
    <3>3. Record!Begin(r)
      BY <2>2, <2>3, <3>1, <3>2 DEF Record!Begin, Recorded, Writers
    <3> QED BY <3>3 DEF Record!Next
  <2> QED BY <2>4, <2>5, <2>6
<1>3. ASSUME NEW r \in Runs, OpenRegister(r)
      PROVE  Record!Next
  <2>1. PICK gone \in SUBSET Runs :
            file' = [q \in Runs |-> IF q \in gone THEN NoFile ELSE file[q]]
    BY <1>3 DEF OpenRegister
  <2>2. truth[r] = "undecided" /\ file[r].ending = "none" /\ UNCHANGED truth
    BY <1>3 DEF OpenRegister, KeepInv, RecordInv, Honest, Undecided
  <2>3. Recorded' = [q \in Runs |-> IF q \in gone THEN "none" ELSE Recorded[q]]
    <3>1. RecordOf(NoFile) = "none"
      BY DEF RecordOf, Readable, NoFile
    <3> QED BY <2>1, <3>1 DEF Recorded
  <2>4. Recorded[r] \in {"none", "open"}
    BY <2>2 DEF Recorded, RecordOf
  <2>5. Writers' = Writers \cup {r}
    <3>1. handle' = [handle EXCEPT ![r] = [NoHandle EXCEPT !.open = TRUE]]
      BY <1>3 DEF OpenRegister
    <3>2. handle'[r].open /\ \A q \in Runs \ {r} : handle'[q] = handle[q]
      BY <1>0, <3>1 DEF NoHandle
    <3> QED BY <3>2 DEF Writers
  <2>6. Record!Start(r)
    BY <2>2, <2>3, <2>4, <2>5 DEF Record!Start, Record!Sealed, Recorded, Writers
  <2> QED BY <2>6 DEF Record!Next
<1>4. ASSUME NEW r \in Runs, Narrate(r) \/ NoteStop(r) \/ NarrateLate(r)
      PROVE  Record!Next \/ UNCHANGED Record!vars
  <2>1. PICK phase : Append(r, phase)
    BY <1>4 DEF Narrate, NoteStop, NarrateLate
  <2>2. handle[r].open /\ UNCHANGED truth
    BY <1>4 DEF Narrate, NoteStop, NarrateLate, KeepInv, HoldInv, Tidy, Holding, Listed
  <2> QED BY <2>1, <2>2, AppendsRewrite
<1>5. ASSUME NEW r \in Runs, Report(r) \/ Panic(r)
      PROVE  Record!Next
  <2>1. pc[r] = "working"
    BY <1>5 DEF Report, Panic
  <2>2. PICK how \in {"succeeded", "failed", "stopped", "panicked"} :
            /\ truth' = [truth EXCEPT ![r] = how]
            /\ \/ UNCHANGED <<file, handle>>
               \/ handle[r].open /\ Append(r, "completed")
    BY <1>5 DEF Report, Panic
  <2> QED BY <2>1, <2>2, EndsDecide
<1>6. ASSUME NEW r \in Runs, Fail(r) \/ Stop(r) \/ DropOpen(r)
      PROVE  Record!Next \/ UNCHANGED Record!vars
  <2>1. pc[r] \in {"reported", "noted", "panicking"} /\ UNCHANGED truth
    BY <1>6 DEF Fail, Stop, DropOpen
  <2>2. handle[r].open /\ truth[r] # "undecided" /\ file[r].ending = "none" /\ Honest(r)
    BY <2>1 DEF KeepInv, RecordInv, HoldInv, Tidy, Filed, Holding, Listed
  <2>3. \E e \in Endings \ {"none"} : Close(r, e) /\ e = Record!EndingFor[truth[r]]
    <3>1. CASE Fail(r)
      BY <3>1 DEF Fail, Endings, Record!EndingFor
    <3>2. CASE Stop(r)
      BY <2>2, <3>2 DEF Stop, Endings, Honest, Record!EndingFor
    <3>3. CASE DropOpen(r)
      <4>1. \/ Close(r, "failed") /\ truth[r] = "panicked"
            \/ Close(r, "succeeded") /\ truth[r] = "succeeded"
        BY <2>2, <3>3 DEF DropOpen, Honest
      <4> QED BY <4>1 DEF Endings, Record!EndingFor
    <3> QED BY <1>6, <3>1, <3>2, <3>3
  <2> QED BY <2>1, <2>2, <2>3, ClosesSeal
<1>7. ASSUME NEW r \in Runs, DropClosed(r)
      PROVE  Record!Next
  <2>1. truth[r] # "undecided" /\ UNCHANGED <<file, truth>>
    BY <1>7 DEF DropClosed, KeepInv, Filed, Holding, Listed
  <2>2. handle' = [handle EXCEPT ![r] = NoHandle]
    BY <1>7 DEF DropClosed
  <2>3. ~handle'[r].open /\ \A q \in Runs \ {r} : handle'[q] = handle[q]
    BY <1>0, <2>2 DEF NoHandle
  <2>4. Writers' = Writers \ {r} /\ Recorded' = Recorded
    BY <2>1, <2>3 DEF Writers, Recorded
  <2>5. Record!Retire(r)
    BY <2>1, <2>4 DEF Record!Retire, Recorded, Writers
  <2> QED BY <2>5 DEF Record!Next
<1>8. ASSUME Restart
      PROVE  Record!Next
  <2>1. Writers' = {} /\ Recorded' = Recorded /\ UNCHANGED truth
    BY <1>8 DEF Restart, NoHandle, Writers, Recorded
  <2>2. Record!Die
    BY <2>1 DEF Record!Die, Recorded, Writers
  <2> QED BY <2>2 DEF Record!Next
<1>9. CASE UNCHANGED vars
  BY <1>9, Stutters DEF vars
<1> QED BY <1>1, <1>2, <1>3, <1>4, <1>5, <1>6, <1>7, <1>8, <1>9 DEF Next, RunStep

(* Whatever the disk loses, whichever records are pruned and whenever the  *)
(* process dies, the journal keeps the promises of JobRecord: a record is  *)
(* begun once, written by its own run alone, and ends as the run ended     *)
(* (jobs.rs:137-334).                                                      *)
THEOREM RecordsAreKept == Spec => KeepsItsRecord
<1>1. Init => Record!Init
  <2> SUFFICES ASSUME Init PROVE Record!Init
    OBVIOUS
  <2>1. RecordOf(NoFile) = "none"
    BY DEF RecordOf, Readable, NoFile
  <2>2. Recorded = [r \in Runs |-> "none"] /\ Writers = {}
    BY <2>1 DEF Init, Recorded, Writers, NoHandle
  <2> QED BY <2>2 DEF Init, Record!Init, Recorded, Writers
<1>2. KeepInv /\ [Next]_vars => [Record!Next]_(Record!vars)
  BY StepsImplement
<1> QED BY <1>1, <1>2, InitKeepInv, NextKeepInv, PTL DEF Spec, KeepsItsRecord, Record!Spec

(* A run has one ending: whoever is told of it later is told the same, or  *)
(* nothing when its record is gone, also where a record that was pruned is *)
(* written anew by a run that still holds its journal.                     *)
OneEnding ==
    \A r \in Runs : \A e \in Record!Sealed :
        [](RecordOf(file[r]) = e => [](RecordOf(file[r]) \in Record!Sealed => RecordOf(file[r]) = e))

EndedAs(r, e) == truth[r] # "undecided" /\ Record!EndingFor[truth[r]] = e

(* What is on record is how the run went ...                               *)
LEMMA OnRecordAsItWent ==
    ASSUME KeepInv, NEW r \in Runs, RecordOf(file[r]) \in Record!Sealed
    PROVE  EndedAs(r, RecordOf(file[r]))
<1>1. /\ truth[r] \in Truths /\ Honest(r)
      /\ file[r].ending = RecordOf(file[r])
  BY DEF KeepInv, RecordInv, TypeOK, RecordOf, Record!Sealed
<1> QED BY <1>1 DEF Honest, EndedAs, Record!EndingFor, Record!Sealed

(* ... and how it went is decided once.                                    *)
LEMMA DecidedOnce ==
    ASSUME KeepInv, [Next]_vars, NEW r \in Runs, truth[r] # "undecided"
    PROVE  truth'[r] = truth[r]
<1>1. [Record!Next]_(Record!vars)
  BY StepsImplement
<1>2. truth \in [Runs -> Truths]
  BY DEF KeepInv, RecordInv, TypeOK
<1> QED
  BY <1>1, <1>2 DEF Record!Next, Record!vars, Record!Die, Record!Begin, Record!Start,
     Record!Rewrite, Record!Reappear, Record!Decide, Record!Seal, Record!Retire

(* The ending on record never becomes another one: the host repeats it or  *)
(* has forgotten the run, whatever it prunes and however often it restarts *)
(* (jobs.rs:137-334, 503-530).                                             *)
THEOREM EndingsAreForEver == Spec => OneEnding
<1> SUFFICES ASSUME NEW r \in Runs, NEW e \in Record!Sealed
             PROVE  Spec => [](RecordOf(file[r]) = e
                               => [](RecordOf(file[r]) \in Record!Sealed => RecordOf(file[r]) = e))
  BY DEF OneEnding
<1>1. KeepInv /\ RecordOf(file[r]) = e => EndedAs(r, e)
  BY OnRecordAsItWent
<1>2. KeepInv /\ [Next]_vars /\ EndedAs(r, e) => EndedAs(r, e)'
  BY DecidedOnce DEF EndedAs
<1>3. KeepInv /\ EndedAs(r, e) => (RecordOf(file[r]) \in Record!Sealed => RecordOf(file[r]) = e)
  BY OnRecordAsItWent DEF EndedAs
<1> QED BY <1>1, <1>2, <1>3, InitKeepInv, NextKeepInv, PTL DEF Spec

-----------------------------------------------------------------------------
(* What a reader may count on while a run moves on                         *)

(* Past its head line: whether there is one is settled.                    *)
Opened(r) == pc[r] \notin {"idle", "admitted"}

(* An open journal is about to use a number no line on file has.           *)
Numbered(r) ==
    /\ pc[r] = "opening" => file[r].events = {}
    /\ handle[r].open => \A n \in file[r].events : n < handle[r].next

RunsInv == KeepInv /\ \A r \in Runs : Numbered(r)

(* One line more on record, with a number of its own, and none behind the  *)
(* end line but of the runs that trail.                                    *)
OneMore(r) ==
    /\ file'[r].events = file[r].events \cup {handle[r].next}
    /\ \A n \in file[r].events : n < handle[r].next
    /\ r \in Trailing \/ file[r].ending = "none"

(* A record that is not forgotten only grows, and what was decided of its  *)
(* run stays decided.                                                      *)
Grows(r) ==
    /\ Opened(r)'
    /\ truth[r] # "undecided" => truth'[r] = truth[r]
    /\ file'[r].headed =>
          /\ file[r].headed
          /\ file[r].ending # "none" => file'[r].ending = file[r].ending
          /\ file'[r].events = file[r].events \/ OneMore(r)

(* A narrated line adds its number to the file or not, and the handle      *)
(* moves on.                                                               *)
LEMMA AppendNumbers ==
    ASSUME TypeOK, NEW r \in Runs, Whole(file[r]), NEW phase, Append(r, phase)
    PROVE  /\ handle'[r].next = handle[r].next + 1
           /\ handle[r].next \in Nat
           /\ file'[r].headed = file[r].headed
           /\ file'[r].events \in {file[r].events, file[r].events \cup {handle[r].next}}
<1>1. PICK g \in AfterWrite(file[r], WithEvent(file[r], handle[r].next)) : Rewrite(r, g)
  BY DEF Append
<1>2. file[r] \in JournalFile /\ handle[r] \in Handle /\ handle[r].next \in Nat
  BY DEF TypeOK, Handle
<1>3. file'[r] = g
  BY <1>1 DEF Rewrite, TypeOK
<1>4. /\ WithEvent(file[r], handle[r].next) \in JournalFile
      /\ WithEvent(file[r], handle[r].next).headed = file[r].headed
      /\ WithEvent(file[r], handle[r].next).events = file[r].events \cup {handle[r].next}
  <2>1. "none" \in Endings
    BY DEF Endings
  <2> QED BY <1>2, <2>1, LineTypes, LineReads
<1>5. handle' = [handle EXCEPT ![r] = Said(@, phase)]
  BY DEF Append
<1>6. handle'[r] = Said(handle[r], phase)
  BY <1>5 DEF TypeOK
<1>7. Said(handle[r], phase).next = handle[r].next + 1
  <2> DEFINE said == [handle[r] EXCEPT !.next = @ + 1]
  <2>1. said \in Handle /\ said.next = handle[r].next + 1
    BY <1>2 DEF Handle
  <2>2. [said EXCEPT !.completed = TRUE].next = said.next
    BY <2>1 DEF Handle
  <2>3. Said(handle[r], phase) = IF phase = "completed" THEN [said EXCEPT !.completed = TRUE]
                                 ELSE said
    BY DEF Said
  <2> HIDE DEF said
  <2> QED BY <2>1, <2>2, <2>3
<1> QED BY <1>1, <1>2, <1>3, <1>4, <1>6, <1>7, WriteReads

(* A close changes neither the lines of a record nor their numbers.        *)
LEMMA CloseNumbers ==
    ASSUME TypeOK, NEW r \in Runs, Whole(file[r]), NEW e \in Endings, Close(r, e)
    PROVE  /\ \A q \in Runs : handle'[q].next = handle[q].next
           /\ \A q \in Runs \ {r} : file'[q] = file[q]
           /\ file'[r].headed = file[r].headed
           /\ file'[r].events = file[r].events
<1>1. PICK g \in AfterWrite(file[r], WithEnding(file[r], e)) : Rewrite(r, g)
  BY DEF Close
<1>2. file[r] \in JournalFile /\ handle[r] \in Handle
  BY DEF TypeOK
<1>3. file'[r] = g /\ \A q \in Runs \ {r} : file'[q] = file[q]
  BY <1>1 DEF Rewrite, TypeOK
<1>4. /\ WithEnding(file[r], e) \in JournalFile
      /\ WithEnding(file[r], e).headed = file[r].headed
      /\ WithEnding(file[r], e).events = file[r].events
  BY <1>2, LineTypes, LineReads, 0 \in Nat
<1>5. \A q \in Runs : handle'[q].next = handle[q].next
  <2>1. handle' = [handle EXCEPT ![r].closed = TRUE]
    BY DEF Close
  <2>2. handle'[r].next = handle[r].next
    BY <1>2, <2>1 DEF TypeOK, Handle
  <2> QED BY <2>1, <2>2 DEF TypeOK
<1> QED BY <1>1, <1>2, <1>3, <1>4, <1>5, WriteReads

(* No record of another run is touched by a line or by a close, and no     *)
(* step makes one of a run that is not about to open it.                   *)
LEMMA RunsGrow ==
    ASSUME RunsInv, [Next]_vars, NEW q \in Runs
    PROVE  Numbered(q)' /\ (Opened(q) => Grows(q))
<1> USE DEF Goto
<1>0. /\ TypeOK /\ Filed(q) /\ Honest(q) /\ Tidy(q) /\ Numbered(q)
      /\ pc \in [Runs -> Stages] /\ truth \in [Runs -> Truths]
      /\ handle \in [Runs -> Handle] /\ file \in [Runs -> JournalFile]
  BY DEF RunsInv, KeepInv, HoldInv, RecordInv, TypeOK
<1>1. ASSUME NEW r \in Runs,
             Admit(r) \/ Conflict(r) \/ Reject(r) \/ RegisterSwitch(r) \/ AskToStop(r)
               \/ Unregister(r) \/ Leave(r)
      PROVE  Numbered(q)' /\ (Opened(q) => Grows(q))
  <2>1. UNCHANGED <<file, handle, truth>>
    BY <1>1 DEF Admit, Conflict, Reject, RegisterSwitch, AskToStop, Unregister, Leave
  <2>2. \/ pc'[q] = pc[q]
        \/ pc'[q] \in {"refused", "working", "sealed", "done"}
        \/ pc[q] = "idle" /\ pc'[q] = "admitted"
    BY <1>0, <1>1 DEF Admit, Conflict, Reject, RegisterSwitch, AskToStop, Unregister, Leave
  <2> QED BY <1>0, <2>1, <2>2 DEF Numbered, Opened, Grows
<1>2. ASSUME NEW r \in Runs, OpenHead(r)
      PROVE  Numbered(q)' /\ (Opened(q) => Grows(q))
  <2>1. PICK g \in AfterWrite(file[r], WithMeta(file[r])) : Rewrite(r, g)
    BY <1>2 DEF OpenHead
  <2>2. /\ UNCHANGED <<handle, truth>> /\ pc[r] = "admitted"
        /\ q # r => file'[q] = file[q] /\ pc'[q] = pc[q]
        /\ q = r => pc'[q] \in {"opening", "working"} /\ file'[q] = g
    BY <1>0, <1>2, <2>1 DEF OpenHead, Rewrite
  <2>3. CASE q # r
    BY <1>0, <2>2, <2>3 DEF Numbered, Opened, Grows
  <2>4. CASE q = r
    <3>1. file[q] = NoFile /\ ~handle[q].open
      BY <1>0, <2>2, <2>4 DEF Filed, Tidy, Holding, Listed
    <3>2. WithMeta(NoFile) \in JournalFile /\ WithMeta(NoFile).events = NoFile.events
      BY NoFileType, LineTypes, LineReads, 0 \in Nat, "none" \in Endings DEF Endings
    <3>3. g.events = {}
      BY <2>1, <2>4, <3>1, <3>2, NoFileType, WriteReads DEF Whole, NoFile
    <3> QED BY <2>2, <2>4, <3>1, <3>3 DEF Numbered, Opened
  <2> QED BY <2>3, <2>4
<1>3. ASSUME NEW r \in Runs, OpenRegister(r)
      PROVE  Numbered(q)' /\ (Opened(q) => Grows(q))
  <2>1. /\ file'[q] \in {file[q], NoFile} /\ UNCHANGED truth /\ pc[r] = "opening"
        /\ q # r => handle'[q] = handle[q] /\ pc'[q] = pc[q]
        /\ q = r => pc'[q] \in {"registering", "working"}
    BY <1>0, <1>3 DEF OpenRegister
  <2>2. NoFile.events = {} /\ NoFile.headed = FALSE
    BY DEF NoFile
  <2>3. q = r => file'[q].events = {}
    BY <1>0, <2>1, <2>2 DEF Numbered
  <2> QED BY <1>0, <2>1, <2>2, <2>3 DEF Numbered, Opened, Grows
<1>4. ASSUME NEW r \in Runs, Narrate(r) \/ Report(r) \/ NoteStop(r) \/ NarrateLate(r)
      PROVE  Numbered(q)' /\ (Opened(q) => Grows(q))
  <2>1. /\ q # r => pc'[q] = pc[q] /\ truth'[q] = truth[q]
        /\ pc[r] \in {"working", "reported", "sealed"}
        /\ pc[r] = "sealed" => r \in Trailing
        /\ pc'[r] \in {"working", "reported", "leaving", "noted", "trailed"}
        /\ truth'[r] = truth[r] \/ pc[r] = "working"
    BY <1>0, <1>4 DEF Narrate, Report, NoteStop, NarrateLate, Trails
  <2>2. pc[r] = "working" => truth[r] = "undecided" /\ file[r].ending = "none"
    BY DEF RunsInv, KeepInv, RecordInv, Honest, Undecided
  <2>3. pc[r] = "reported" => file[r].ending = "none"
    BY DEF RunsInv, KeepInv, Filed
  <2>4. CASE UNCHANGED <<file, handle>>
    BY <1>0, <2>1, <2>2, <2>4 DEF Numbered, Opened, Grows
  <2>5. ASSUME NEW phase, handle[r].open, Append(r, phase)
        PROVE  Numbered(q)' /\ (Opened(q) => Grows(q))
    <3>1. Whole(file[r]) /\ Numbered(r)
      BY DEF RunsInv, KeepInv, Filed
    <3>2. /\ \A p \in Runs \ {r} : file'[p] = file[p] /\ handle'[p] = handle[p]
          /\ \A p \in Runs : file'[p].ending = file[p].ending
      BY <1>0, <2>5, <3>1, AppendRecord, AppendEffect
    <3>3. CASE q # r
      BY <1>0, <2>1, <3>2, <3>3 DEF Numbered, Opened, Grows
    <3>4. CASE q = r
      <4>1. /\ handle'[q].next = handle[q].next + 1 /\ handle[q].next \in Nat
            /\ file'[q].headed = file[q].headed
            /\ file'[q].events \in {file[q].events, file[q].events \cup {handle[q].next}}
        BY <1>0, <2>5, <3>1, <3>4, AppendNumbers
      <4>2. file[q].events \subseteq Nat
        BY <1>0 DEF JournalFile
      <4>3. \A n \in file[q].events : n < handle[q].next
        BY <1>0, <2>5, <3>4 DEF Numbered
      <4>4. Numbered(q)'
        BY <2>1, <3>4, <4>1, <4>2, <4>3 DEF Numbered
      <4>5. OneMore(q) \/ file'[q].events = file[q].events
        BY <2>1, <2>2, <2>3, <3>4, <4>1, <4>3 DEF OneMore
      <4> QED BY <2>1, <2>2, <3>2, <3>4, <4>1, <4>4, <4>5 DEF Opened, Grows
    <3> QED BY <3>3, <3>4
  <2>6. UNCHANGED <<file, handle>> \/ \E phase : handle[r].open /\ Append(r, phase)
    <3>1. handle[r].open \/ pc[r] = "working"
      BY <2>1 DEF RunsInv, KeepInv, HoldInv, Tidy, Holding, Listed
    <3> QED BY <1>4, <3>1 DEF Narrate, Report, NoteStop, NarrateLate
  <2> QED BY <2>4, <2>5, <2>6
<1>5. ASSUME NEW r \in Runs, Fail(r) \/ Stop(r) \/ DropOpen(r)
      PROVE  Numbered(q)' /\ (Opened(q) => Grows(q))
  <2>1. PICK e \in Endings \ {"none"} : Close(r, e)
    BY <1>5 DEF Fail, Stop, DropOpen, Endings
  <2>2. pc[r] \in {"reported", "noted", "panicking"} /\ UNCHANGED truth
    BY <1>5 DEF Fail, Stop, DropOpen
  <2>3. Whole(file[r]) /\ file[r].ending = "none"
    BY <2>2 DEF RunsInv, KeepInv, Filed
  <2>4. /\ \A p \in Runs : handle'[p].next = handle[p].next /\ handle'[p].open = handle[p].open
        /\ q # r => file'[q] = file[q]
        /\ file'[q].headed = file[q].headed /\ file'[q].events = file[q].events
    BY <1>0, <2>1, <2>3, CloseNumbers, CloseEffect
  <2>5. pc' = [pc EXCEPT ![r] = "sealing"]
    BY <2>1 DEF Close
  <2> QED BY <1>0, <2>2, <2>3, <2>4, <2>5 DEF Numbered, Opened, Grows
<1>6. ASSUME NEW r \in Runs, Panic(r)
      PROVE  Numbered(q)' /\ (Opened(q) => Grows(q))
  <2>1. /\ UNCHANGED <<file, handle>> /\ pc[r] = "working"
        /\ q # r => pc'[q] = pc[q] /\ truth'[q] = truth[q]
        /\ q = r => pc'[q] \in {"panicking", "leaving"}
    BY <1>0, <1>6 DEF Panic
  <2>2. q = r => truth[q] = "undecided"
    BY <1>0, <2>1 DEF Honest, Undecided
  <2> QED BY <1>0, <2>1, <2>2 DEF Numbered, Opened, Grows
<1>7. ASSUME NEW r \in Runs, DropClosed(r)
      PROVE  Numbered(q)' /\ (Opened(q) => Grows(q))
  <2>1. /\ UNCHANGED <<file, truth>> /\ pc' = [pc EXCEPT ![r] = "leaving"]
        /\ handle' = [handle EXCEPT ![r] = NoHandle]
    BY <1>7 DEF DropClosed
  <2>2. handle'[q] = handle[q] \/ handle'[q].open = FALSE
    BY <1>0, <2>1 DEF NoHandle
  <2> QED BY <1>0, <2>1, <2>2 DEF Numbered, Opened, Grows
<1>8. ASSUME Restart
      PROVE  Numbered(q)' /\ (Opened(q) => Grows(q))
  <2>1. UNCHANGED <<file, truth>> /\ handle'[q].open = FALSE
    BY <1>8 DEF Restart, NoHandle
  <2>2. pc'[q] = pc[q] \/ pc'[q] = "dead"
    BY <1>0, <1>8 DEF Restart
  <2> QED BY <1>0, <2>1, <2>2 DEF Numbered, Opened, Grows
<1>9. CASE UNCHANGED vars
  BY <1>0, <1>9 DEF vars, Numbered, Opened, Grows
<1> QED BY <1>1, <1>2, <1>3, <1>4, <1>5, <1>6, <1>7, <1>8, <1>9 DEF Next, RunStep

LEMMA NextRunsInv == RunsInv /\ [Next]_vars => RunsInv'
BY NextKeepInv, RunsGrow DEF RunsInv

-----------------------------------------------------------------------------
(* Readers: types                                                          *)

LEMMA NoReaderTypes == NoWatcher \in Watcher /\ NoClient \in Client
BY DEF NoWatcher, NoClient, Watcher, Client, Endings, Outcomes

(* What an answer does to its client and to what was told.                 *)
LEMMA AnswerEffect ==
    ASSUME ReadersTypeOK, NEW k \in Clients,
           NEW what \in Outcomes \cup {"not_found", "failed_precondition"}, Answer(k, what)
    PROVE  /\ client' \in [Clients -> Client]
           /\ told' \in [Runs -> Endings]
           /\ client'[k].at = "answered" /\ client'[k].answer = what
           /\ client'[k].job = client[k].job /\ client'[k].heard = client[k].heard
           /\ \A c \in Clients \ {k} : client'[c] = client[c]
           /\ \A r \in Runs : \/ told'[r] = told[r]
                              \/ what \in Endings /\ r = client[k].job /\ told'[r] = what
<1>1. client' = [client EXCEPT ![k] = [[client[k] EXCEPT !.at = "answered"] EXCEPT !.answer = what]]
  BY DEF Answer, ReadersTypeOK
<1>2. client[k] \in Client
  BY DEF ReadersTypeOK
<1> DEFINE new == [[client[k] EXCEPT !.at = "answered"] EXCEPT !.answer = what]
<1>3. /\ new \in Client
      /\ new.at = "answered" /\ new.answer = what
      /\ new.job = client[k].job /\ new.heard = client[k].heard
  BY <1>2 DEF Client
<1>4. /\ told' \in [Runs -> Endings]
      /\ \A r \in Runs : \/ told'[r] = told[r]
                         \/ what \in Endings /\ r = client[k].job /\ told'[r] = what
  BY DEF Answer, ReadersTypeOK
<1> HIDE DEF new
<1> QED BY <1>1, <1>3, <1>4 DEF ReadersTypeOK, new

(* Whatever was read, an outcome is known for it.                          *)
LEMMA OutcomeTypes ==
    ASSUME NEW ending \in Endings, NEW isRunning
    PROVE  /\ OutcomeOf(ending, isRunning) \in Outcomes
           /\ ending # "none" => OutcomeOf(ending, isRunning) = ending
           /\ ending = "none" => OutcomeOf(ending, isRunning) \notin Endings
           /\ OutcomeOf(ending, isRunning) = "running" => ending = "none"
BY DEF OutcomeOf, Outcomes, Endings

(* The new state of a follower that has read the file.                     *)
LEMMA ReadUpToEffect ==
    ASSUME NEW me \in Watcher, NEW f \in JournalFile, NEW next \in Nat
    PROVE  LET new == ReadUpTo(me, f, next) IN
           /\ new \in Watcher
           /\ new.job = me.job /\ new.from = me.from /\ new.next = next
           /\ new.seen = me.seen \cup {n \in f.events : n >= me.next}
           /\ new.at = IF f.ending = "none" THEN "checking" ELSE "over"
           /\ new.trailer = IF f.ending = "none" THEN me.trailer
                            ELSE IF f.ending = "failed" THEN "internal" ELSE "ok"
<1> DEFINE at == IF f.ending = "none" THEN "checking" ELSE "over"
           trailer == IF f.ending = "none" THEN me.trailer
                      ELSE IF f.ending = "failed" THEN "internal" ELSE "ok"
           seen == me.seen \cup {n \in f.events : n >= me.next}
           new == [me EXCEPT !.seen = seen, !.next = next, !.at = at, !.trailer = trailer]
<1>1. at \in {"checking", "over"} /\ trailer \in {me.trailer, "ok", "internal"}
  OBVIOUS
<1>2. seen \subseteq Nat
  BY DEF Watcher, JournalFile
<1>3. new = ReadUpTo(me, f, next)
  BY DEF ReadUpTo
<1> HIDE DEF at, trailer, seen
<1>4. /\ new \in Watcher /\ new.at = at /\ new.trailer = trailer /\ new.job = me.job
      /\ new.next = next /\ new.seen = seen /\ new.from = me.from
  BY <1>1, <1>2 DEF Watcher
<1> HIDE DEF new
<1> QED BY <1>3, <1>4 DEF at, trailer, seen

(* A reader that changes nothing but itself changes one watcher.           *)
LEMMA OneWatcher ==
    ASSUME ReadersTypeOK, NEW w \in Watchers, NEW new \in Watcher,
           watcher' = [watcher EXCEPT ![w] = new]
    PROVE  /\ watcher' \in [Watchers -> Watcher]
           /\ watcher'[w] = new
           /\ \A v \in Watchers \ {w} : watcher'[v] = watcher[v]
BY DEF ReadersTypeOK

LEMMA OneClient ==
    ASSUME ReadersTypeOK, NEW k \in Clients, NEW new \in Client,
           client' = [client EXCEPT ![k] = new]
    PROVE  /\ client' \in [Clients -> Client]
           /\ client'[k] = new
           /\ \A c \in Clients \ {k} : client'[c] = client[c]
BY DEF ReadersTypeOK

-----------------------------------------------------------------------------
(* Readers: what they know of their run                                    *)

(* A follower holds, unless the record is forgotten, the lines from the    *)
(* asked one to the next it will ask for; the one it ends with is settled, *)
(* and nothing comes behind it.                                            *)
Following(w) ==
    LET me == watcher[w]  r == watcher[w].job  f == file[watcher[w].job] IN
    /\ me.trailer # "none" => me.at = "over"
    /\ me.at # "idle" =>
          /\ r \in Runs /\ Opened(r)
          /\ ~Forgotten(r) =>
                /\ me.from <= me.next
                /\ me.next = me.from \/ \E n \in f.events : me.next = n + 1
                /\ me.seen = {n \in f.events : me.from <= n /\ n < me.next}
          /\ me.trailer = "ok" => truth[r] \in {"succeeded", "stopped"} \/ Forgotten(r)
          /\ me.trailer = "internal" => truth[r] \in {"failed", "panicked"}
          /\ me.trailer \in {"ok", "internal"} /\ ~Forgotten(r) =>
                /\ f.ending # "none"
                /\ r \notin Trailing => \A n \in f.events : n >= me.from => n < me.next

(* What clients were told stands on record.                                *)
Told(r) ==
    told[r] # "none" => Opened(r) /\ (file[r].ending = told[r] \/ Forgotten(r))

(* What a client saw still stands when it judges, and agrees with what it  *)
(* may have heard of before it asked.                                      *)
Asking(k) ==
    LET me == client[k]  r == client[k].job IN
    me.at # "idle" =>
       /\ r \in Runs
       /\ me.heard # "none" \/ me.at # "answered" => Opened(r)
       /\ ~Forgotten(r) =>
            /\ me.heard # "none" => file[r].ending = me.heard
            /\ me.at \in {"judging", "rejudging"} /\ me.saw # "none" => file[r].ending = me.saw
            /\ me.at \in {"judging", "rejudging"} /\ me.heard # "none" => me.saw = me.heard
            /\ me.at \in {"asking", "waiting"} => me.heard = "none"
            /\ me.at = "answered" /\ me.heard # "none" => me.answer \in {me.heard, "not_found"}

ReadersInv ==
    /\ ReadersTypeOK /\ RunsInv
    /\ \A w \in Watchers : Following(w)
    /\ \A r \in Runs : Told(r)
    /\ \A k \in Clients : Asking(k)

(* While runs move on, what readers know of them stays true.               *)
LEMMA FollowingStays ==
    ASSUME ReadersInv, [Next]_vars, NEW w \in Watchers, watcher'[w] = watcher[w]
    PROVE  Following(w)'
<1> DEFINE me == watcher[w]
           r  == watcher[w].job
<1>0. Following(w) /\ me \in Watcher
  BY DEF ReadersInv, ReadersTypeOK
<1>1. CASE me.at = "idle"
  BY <1>0, <1>1 DEF Following
<1>2. CASE me.at # "idle"
  <2>1. r \in Runs /\ Opened(r) /\ Grows(r)
    BY <1>0, <1>2, RunsGrow DEF Following, ReadersInv
  <2>2. CASE ~file'[r].headed
    BY <1>0, <1>2, <2>1, <2>2 DEF Following, Grows, Forgotten
  <2>3. CASE file'[r].headed
    <3>1. file[r].headed /\ (file[r].ending # "none" => file'[r].ending = file[r].ending)
      BY <2>1, <2>3 DEF Grows
    <3>2. /\ me.from \in Nat /\ me.next \in Nat /\ file[r].events \subseteq Nat
          /\ handle[r].next \in Nat
      BY <1>0, <2>1 DEF ReadersInv, ReadersTypeOK, TypeOK, Watcher, JournalFile, Handle
    <3>3. CASE file'[r].events = file[r].events
      BY <1>0, <1>2, <2>1, <3>1, <3>3 DEF Following, Grows, Forgotten
    <3>4. CASE OneMore(r)
      <4>1. /\ me.next = me.from \/ \E n \in file'[r].events : me.next = n + 1
            /\ me.from <= me.next
        BY <1>0, <1>2, <2>1, <3>1, <3>4 DEF Following, Forgotten, OneMore
      <4>2. me.next = me.from \/ me.next <= handle[r].next
        BY <1>0, <1>2, <2>1, <3>1, <3>2, <3>4 DEF Following, Forgotten, OneMore
      <4>3. me.seen = {n \in file'[r].events : me.from <= n /\ n < me.next}
        <5>1. me.seen = {n \in file[r].events : me.from <= n /\ n < me.next}
          BY <1>0, <1>2, <3>1 DEF Following, Forgotten
        <5>2. ~(me.from <= handle[r].next /\ handle[r].next < me.next)
          BY <3>2, <4>2
        <5> QED BY <3>4, <5>1, <5>2 DEF OneMore
      <4>4. me.trailer \in {"ok", "internal"} => r \in Trailing
        BY <1>0, <1>2, <3>1, <3>4 DEF Following, Forgotten, OneMore
      <4> QED BY <1>0, <1>2, <2>1, <3>1, <4>1, <4>3, <4>4 DEF Following, Grows, Forgotten
    <3> QED BY <2>1, <2>3, <3>3, <3>4 DEF Grows
  <2> QED BY <2>2, <2>3
<1> QED BY <1>1, <1>2

LEMMA ToldStays ==
    ASSUME ReadersInv, [Next]_vars, NEW r \in Runs, told'[r] = told[r]
    PROVE  Told(r)'
<1>1. Told(r) /\ (Opened(r) => Grows(r))
  BY RunsGrow DEF ReadersInv
<1> QED BY <1>1 DEF Told, Grows, Forgotten

LEMMA AskingStays ==
    ASSUME ReadersInv, [Next]_vars, NEW k \in Clients, client'[k] = client[k]
    PROVE  Asking(k)'
<1> DEFINE r == client[k].job
<1>1. Asking(k) /\ (r \in Runs /\ Opened(r) => Grows(r))
  BY RunsGrow DEF ReadersInv
<1>2. CASE client[k].heard # "none" \/ client[k].at # "answered"
  BY <1>1, <1>2 DEF Asking, Grows, Forgotten
<1>3. CASE client[k].heard = "none" /\ client[k].at = "answered"
  BY <1>1, <1>3 DEF Asking
<1> QED BY <1>2, <1>3

(* Readers leave the runs alone, but for the stop they may ask for.        *)
LEMMA ReadersOnlyAsk ==
    ASSUME TypeOK, [ReadersNext]_allVars
    PROVE  [Next]_vars
<1>1. ASSUME NEW k \in Clients, Ask(k)
      PROVE  Next
  <2>1. client[k].job \in switches /\ AskToStop(client[k].job)
    BY <1>1 DEF Ask
  <2> QED BY <2>1 DEF Next, TypeOK
<1>2. ASSUME NEW k \in Clients, ClientStep(k), ~Ask(k)
      PROVE  UNCHANGED vars
  BY <1>2 DEF ClientStep, Judge, CannotStop, LookAgain, JudgeAgain
<1>3. ASSUME NEW w \in Watchers, WatchStep(w) \/ HangUp(w) \/ \E r \in Runs : Watch(w, r)
      PROVE  UNCHANGED vars
  BY <1>3 DEF WatchStep, HangUp, Watch, ReadJournal, CheckRunning
<1>4. ASSUME NEW k \in Clients, NEW r \in Runs, NEW verb, Look(k, r, verb)
      PROVE  UNCHANGED vars
  BY <1>4 DEF Look
<1>5. CASE RestartAll \/ \E r \in Runs : RunStep(r) /\ UNCHANGED readers
  BY <1>5 DEF RestartAll, Next
<1>6. CASE UNCHANGED allVars
  BY <1>6 DEF allVars
<1> QED BY <1>1, <1>2, <1>3, <1>4, <1>5, <1>6 DEF ReadersNext

(* A readable file is past its head line.                                  *)
LEMMA ReadableIsOpened ==
    ASSUME RunsInv, NEW r \in Runs
    PROVE  /\ Readable(file[r]) => Opened(r)
           /\ ~Readable(file[r]) => Forgotten(r)
<1>1. Filed(r) /\ file[r] \in JournalFile
  BY DEF RunsInv, KeepInv, HoldInv, TypeOK
<1> QED BY <1>1 DEF Filed, Whole, Readable, NoFile, Opened, Forgotten

(* A follower moves.                                                       *)
LEMMA FollowersMove ==
    ASSUME ReadersInv, NEW w \in Watchers,
           WatchStep(w) \/ HangUp(w) \/ \E r \in Runs : Watch(w, r)
    PROVE  watcher' \in [Watchers -> Watcher] /\ \A v \in Watchers : Following(v)'
<1>0. /\ ReadersTypeOK /\ TypeOK /\ RunsInv
      /\ UNCHANGED vars /\ watcher[w] \in Watcher /\ Following(w)
  BY DEF ReadersInv, ReadersTypeOK, WatchStep, ReadJournal, CheckRunning, HangUp, Watch
<1>1. ASSUME NEW new \in Watcher, watcher' = [watcher EXCEPT ![w] = new],
             Following(w)'
      PROVE  watcher' \in [Watchers -> Watcher] /\ \A v \in Watchers : Following(v)'
  BY <1>0, <1>1, OneWatcher, FollowingStays DEF ReadersInv
<1>2. ASSUME NEW r \in Runs, Watch(w, r)
      PROVE  watcher' \in [Watchers -> Watcher] /\ \A v \in Watchers : Following(v)'
  <2>1. PICK from \in FromSequence :
            watcher' = [watcher EXCEPT ![w] = [NoWatcher EXCEPT !.at = "reading", !.job = r,
                                                   !.next = from, !.from = from]]
    BY <1>2 DEF Watch
  <2> DEFINE new == [NoWatcher EXCEPT !.at = "reading", !.job = r, !.next = from, !.from = from]
  <2>2. /\ new \in Watcher /\ new.at = "reading" /\ new.job = r /\ new.next = from
        /\ new.from = from /\ new.seen = {} /\ new.trailer = "none" /\ from \in Nat
    BY ReadersAssumption DEF NoWatcher, Watcher
  <2>3. Opened(r)
    BY <1>0, <1>2, ReadableIsOpened DEF Watch
  <2> HIDE DEF new
  <2>4. watcher'[w] = new
    BY <2>1, <2>2 DEF new, ReadersInv, ReadersTypeOK
  <2>5. {n \in file'[r].events : from <= n /\ n < from} = {}
    BY <1>0, <2>2 DEF vars, TypeOK, JournalFile
  <2>6. Following(w)'
    BY <1>0, <2>2, <2>3, <2>4, <2>5 DEF Following, Opened, Forgotten, vars
  <2> QED BY <1>1, <2>1, <2>2, <2>6 DEF new
<1>3. CASE ReadJournal(w)
  <2> DEFINE me == watcher[w]
             r  == watcher[w].job
             f  == file[watcher[w].job]
  <2>1. me.at = "reading" /\ me.trailer = "none"
    BY <1>0, <1>3 DEF ReadJournal, Following
  <2>2. r \in Runs /\ Opened(r) /\ f \in JournalFile
    BY <1>0, <2>1 DEF Following, TypeOK
  <2>3. CASE /\ ~Readable(f)
             /\ watcher' = [watcher EXCEPT ![w] = [me EXCEPT !.at = "over", !.trailer = "ok"]]
    <3> DEFINE new == [me EXCEPT !.at = "over", !.trailer = "ok"]
    <3>1. /\ new \in Watcher /\ new.at = "over" /\ new.trailer = "ok" /\ new.job = r
      BY <1>0 DEF Watcher
    <3>2. Forgotten(r)
      BY <1>0, <2>2, <2>3, ReadableIsOpened
    <3> HIDE DEF new
    <3>3. watcher'[w] = new
      BY <2>3, <3>1 DEF new, ReadersInv, ReadersTypeOK
    <3>4. Following(w)'
      BY <1>0, <2>2, <3>1, <3>2, <3>3 DEF Following, Opened, Forgotten, vars
    <3> QED BY <1>1, <2>3, <3>1, <3>4 DEF new
  <2>4. ASSUME NEW next \in {me.next} \cup {n + 1 : n \in {m \in f.events : m >= me.next}},
               \A n \in {m \in f.events : m >= me.next} : n < next,
               watcher' = [watcher EXCEPT ![w] = ReadUpTo(me, f, next)]
        PROVE  watcher' \in [Watchers -> Watcher] /\ \A v \in Watchers : Following(v)'
    <3> DEFINE new == ReadUpTo(me, f, next)
    <3>1. /\ me.from \in Nat /\ me.next \in Nat /\ f.events \subseteq Nat /\ next \in Nat
          /\ me.next <= next
      BY <1>0, <2>2, <2>4 DEF Watcher, JournalFile
    <3>2. /\ new \in Watcher
          /\ new.job = r /\ new.from = me.from /\ new.next = next
          /\ new.seen = me.seen \cup {n \in f.events : n >= me.next}
          /\ new.at = IF f.ending = "none" THEN "checking" ELSE "over"
          /\ new.trailer = IF f.ending = "none" THEN "none"
                           ELSE IF f.ending = "failed" THEN "internal" ELSE "ok"
      <4>1. /\ new \in Watcher
            /\ new.job = me.job /\ new.from = me.from /\ new.next = next
            /\ new.seen = me.seen \cup {n \in f.events : n >= me.next}
            /\ new.at = IF f.ending = "none" THEN "checking" ELSE "over"
            /\ new.trailer = IF f.ending = "none" THEN me.trailer
                             ELSE IF f.ending = "failed" THEN "internal" ELSE "ok"
        BY <1>0, <2>2, <3>1, ReadUpToEffect, Zenon
      <4> QED BY <2>1, <4>1
    <3> HIDE DEF new
    <3>3. watcher'[w] = new
      BY <2>4, <3>2 DEF new, ReadersInv, ReadersTypeOK
    <3>4. ~Forgotten(r) =>
            /\ me.from <= next
            /\ next = me.from \/ \E n \in f.events : next = n + 1
            /\ new.seen = {n \in f.events : me.from <= n /\ n < next}
      <4>1. SUFFICES ASSUME ~Forgotten(r)
                     PROVE  /\ me.from <= next
                            /\ next = me.from \/ \E n \in f.events : next = n + 1
                            /\ new.seen = {n \in f.events : me.from <= n /\ n < next}
        OBVIOUS
      <4>2. /\ me.from <= me.next
            /\ me.next = me.from \/ \E n \in f.events : me.next = n + 1
            /\ me.seen = {n \in f.events : me.from <= n /\ n < me.next}
        BY <1>0, <2>1, <4>1 DEF Following
      <4>3. me.from <= next /\ (next = me.from \/ \E n \in f.events : next = n + 1)
        BY <2>4, <3>1, <4>2
      <4>4. \A n \in f.events : me.from <= n /\ n < next <=> n \in me.seen \/ n >= me.next
        BY <2>4, <3>1, <4>2
      <4>5. me.seen \subseteq f.events
        BY <4>2
      <4> QED BY <3>2, <4>3, <4>4, <4>5
    <3>5. \A n \in f.events : n >= me.from => n < next \/ Forgotten(r)
      BY <1>0, <2>1, <2>4, <3>1 DEF Following
    <3>6. Honest(r)
      BY <2>2 DEF ReadersInv, RunsInv, KeepInv, RecordInv
    <3>7. f.ending \in Endings
      BY <2>2 DEF JournalFile
    <3>8. /\ new.trailer = "ok" => truth[r] \in {"succeeded", "stopped"} /\ f.ending # "none"
          /\ new.trailer = "internal" => truth[r] \in {"failed", "panicked"} /\ f.ending # "none"
      BY <3>2, <3>6, <3>7 DEF Honest, Endings
    <3>9. new.trailer # "none" => new.at = "over"
      BY <3>2
    <3>10. Following(w)'
      BY <1>0, <2>2, <3>2, <3>3, <3>4, <3>5, <3>8, <3>9 DEF Following, Opened, Forgotten, vars
    <3> QED BY <1>1, <2>4, <3>2, <3>10 DEF new
  <2> QED BY <1>3, <2>3, <2>4 DEF ReadJournal
<1>4. CASE CheckRunning(w)
  <2>1. watcher[w].at = "checking" /\ watcher[w].trailer = "none"
    BY <1>0, <1>4 DEF CheckRunning, Following
  <2>2. PICK new : /\ watcher' = [watcher EXCEPT ![w] = new]
                   /\ \/ new = [watcher[w] EXCEPT !.at = "reading"]
                      \/ new = [watcher[w] EXCEPT !.at = "over", !.trailer = "aborted"]
    BY <1>0, <1>4 DEF CheckRunning, ReadersTypeOK
  <2>3. /\ new \in Watcher /\ new.job = watcher[w].job /\ new.from = watcher[w].from
        /\ new.next = watcher[w].next /\ new.seen = watcher[w].seen
        /\ new.trailer # "none" => new.at = "over"
        /\ new.trailer \in {"none", "aborted"}
    <3>1. CASE new = [watcher[w] EXCEPT !.at = "reading"]
      BY <1>0, <2>1, <3>1 DEF Watcher
    <3>2. CASE new = [watcher[w] EXCEPT !.at = "over", !.trailer = "aborted"]
      BY <1>0, <2>1, <3>2 DEF Watcher
    <3> QED BY <2>2, <3>1, <3>2
  <2>4. watcher'[w] = new
    BY <2>2 DEF ReadersInv, ReadersTypeOK
  <2>5. Following(w)'
    BY <1>0, <2>1, <2>3, <2>4 DEF Following, Opened, Forgotten, vars
  <2> QED BY <1>1, <2>2, <2>3, <2>5
<1>5. CASE HangUp(w)
  <2> DEFINE new == [watcher[w] EXCEPT !.at = "left"]
  <2>1. watcher[w].at # "idle" /\ watcher[w].trailer = "none"
    BY <1>0, <1>5 DEF HangUp, Following
  <2>2. watcher' = [watcher EXCEPT ![w] = new]
    BY <1>0, <1>5 DEF HangUp, ReadersTypeOK
  <2>3. /\ new \in Watcher /\ new.job = watcher[w].job /\ new.from = watcher[w].from
        /\ new.next = watcher[w].next /\ new.seen = watcher[w].seen /\ new.trailer = "none"
    BY <1>0, <2>1 DEF Watcher
  <2> HIDE DEF new
  <2>4. watcher'[w] = new
    BY <2>2 DEF ReadersInv, ReadersTypeOK
  <2>5. Following(w)'
    BY <1>0, <2>1, <2>3, <2>4 DEF Following, Opened, Forgotten, vars
  <2> QED BY <1>1, <2>2, <2>3, <2>5
<1> QED BY <1>2, <1>3, <1>4, <1>5 DEF WatchStep

(* A client that is answered is answered for good, and for everybody.      *)
LEMMA AnswersSettle ==
    ASSUME ReadersInv, [Next]_vars, UNCHANGED <<pc, file>>, NEW k \in Clients,
           client[k].at # "idle",
           NEW what \in Outcomes \cup {"not_found", "failed_precondition"}, Answer(k, what),
           what \in Endings => /\ Opened(client[k].job)
                               /\ \/ file[client[k].job].ending = what
                                  \/ Forgotten(client[k].job),
           client[k].heard # "none" => \/ what = client[k].heard
                                       \/ Forgotten(client[k].job)
    PROVE  /\ client' \in [Clients -> Client] /\ told' \in [Runs -> Endings]
           /\ \A c \in Clients : Asking(c)'
           /\ \A r \in Runs : Told(r)'
<1> DEFINE r == client[k].job
<1>0. ReadersTypeOK /\ Asking(k)
  BY DEF ReadersInv
<1>1. /\ client' \in [Clients -> Client] /\ told' \in [Runs -> Endings]
      /\ client'[k].at = "answered" /\ client'[k].answer = what
      /\ client'[k].job = r /\ client'[k].heard = client[k].heard
      /\ \A c \in Clients \ {k} : client'[c] = client[c]
      /\ \A q \in Runs : \/ told'[q] = told[q]
                         \/ what \in Endings /\ q = r /\ told'[q] = what
  BY <1>0, AnswerEffect
<1>2. Asking(k)'
  BY <1>0, <1>1 DEF Asking, Opened, Forgotten
<1>3. ASSUME NEW q \in Runs
      PROVE  Told(q)'
  <2>1. CASE told'[q] = told[q]
    BY <2>1, ToldStays
  <2>2. CASE what \in Endings /\ q = r /\ told'[q] = what
    BY <2>2 DEF Told, Opened, Forgotten
  <2> QED BY <1>1, <2>1, <2>2
<1> QED BY <1>1, <1>2, <1>3, AskingStays

(* A client takes the next step of its request.                            *)
LEMMA ClientsMove ==
    ASSUME ReadersInv, NEW k \in Clients,
           ClientStep(k) \/ \E r \in Runs, verb \in {"list", "cancel"} : Look(k, r, verb)
    PROVE  /\ client' \in [Clients -> Client] /\ told' \in [Runs -> Endings]
           /\ \A c \in Clients : Asking(c)'
           /\ \A r \in Runs : Told(r)'
<1> DEFINE me == client[k]
           job == client[k].job
<1>0. /\ ReadersTypeOK /\ TypeOK /\ RunsInv /\ [Next]_vars /\ UNCHANGED <<pc, file>>
      /\ me \in Client /\ Asking(k)
  <2>1. [ReadersNext]_allVars /\ TypeOK
    BY DEF ReadersInv, ReadersTypeOK, ReadersNext
  <2>2. UNCHANGED <<pc, file>>
    BY DEF ClientStep, Judge, Ask, AskToStop, CannotStop, LookAgain, JudgeAgain, Look, vars
  <2> QED BY <2>1, <2>2, ReadersOnlyAsk DEF ReadersInv, ReadersTypeOK
<1>1. ASSUME NEW new \in Client, client' = [client EXCEPT ![k] = new], UNCHANGED told,
             Asking(k)'
      PROVE  /\ client' \in [Clients -> Client] /\ told' \in [Runs -> Endings]
             /\ \A c \in Clients : Asking(c)'
             /\ \A r \in Runs : Told(r)'
  BY <1>0, <1>1, OneClient, AskingStays, ToldStays DEF ReadersTypeOK
<1>2. ASSUME NEW r \in Runs, NEW verb \in {"list", "cancel"}, Look(k, r, verb)
      PROVE  /\ client' \in [Clients -> Client] /\ told' \in [Runs -> Endings]
             /\ \A c \in Clients : Asking(c)'
             /\ \A q \in Runs : Told(q)'
  <2> DEFINE asks == [NoClient EXCEPT !.verb = verb, !.job = r, !.heard = told[r]]
  <2>1. told[r] \in Endings /\ file[r].ending \in Endings /\ Told(r)
    BY <1>0 DEF ReadersInv, ReadersTypeOK, TypeOK, JournalFile
  <2>2. /\ asks \in Client /\ asks.job = r /\ asks.heard = told[r]
        /\ asks.saw = "none" /\ asks.at = "idle" /\ asks.answer = "none"
    BY <2>1 DEF NoClient, Client, Endings
  <2> HIDE DEF asks
  <2>3. PICK new : /\ client' = [client EXCEPT ![k] = new] /\ UNCHANGED told
                   /\ \/ /\ Readable(file[r])
                         /\ new = [asks EXCEPT !.at = "judging", !.saw = file[r].ending]
                      \/ /\ ~Readable(file[r])
                         /\ new = [asks EXCEPT !.at = "answered", !.answer = "not_found"]
    BY <1>2 DEF Look, asks
  <2>4. CASE Readable(file[r]) /\ new = [asks EXCEPT !.at = "judging", !.saw = file[r].ending]
    <3>1. /\ new \in Client /\ new.at = "judging" /\ new.job = r /\ new.heard = told[r]
          /\ new.saw = file[r].ending
      BY <2>1, <2>2, <2>4 DEF Client
    <3>2. client'[k] = new
      BY <2>3, <3>1 DEF ReadersInv, ReadersTypeOK
    <3>3. Opened(r)
      BY <1>0, <2>4, ReadableIsOpened
    <3>4. Asking(k)'
      BY <1>0, <2>1, <3>1, <3>2, <3>3 DEF Asking, Told, Opened, Forgotten
    <3> QED BY <1>1, <2>3, <3>1, <3>4
  <2>5. CASE ~Readable(file[r]) /\ new = [asks EXCEPT !.at = "answered", !.answer = "not_found"]
    <3>1. /\ new \in Client /\ new.at = "answered" /\ new.job = r /\ new.heard = told[r]
          /\ new.answer = "not_found"
      BY <2>1, <2>2, <2>5 DEF Client
    <3>2. client'[k] = new
      BY <2>3, <3>1 DEF ReadersInv, ReadersTypeOK
    <3>3. Forgotten(r)
      BY <1>0, <2>5, ReadableIsOpened
    <3>4. Asking(k)'
      BY <1>0, <2>1, <3>1, <3>2, <3>3 DEF Asking, Told, Opened, Forgotten
    <3> QED BY <1>1, <2>3, <3>1, <3>4
  <2> QED BY <2>3, <2>4, <2>5
<1>3. CASE Judge(k) \/ JudgeAgain(k)
  <2> DEFINE outcome == OutcomeOf(me.saw, job \in running)
  <2>1. /\ me.at \in {"judging", "rejudging"} /\ me.saw \in Endings /\ me.heard \in Endings
        /\ job \in Runs /\ Opened(job)
    BY <1>0, <1>3 DEF Judge, JudgeAgain, Asking, Client
  <2>2. /\ outcome \in Outcomes
        /\ outcome \in Endings => me.saw # "none" /\ outcome = me.saw
        /\ outcome = "running" => me.saw = "none"
        /\ me.saw # "none" => outcome = me.saw
    BY <2>1, OutcomeTypes
  <2> HIDE DEF outcome
  <2>3. CASE Answer(k, outcome)
    <3>1. outcome \in Endings => Opened(job) /\ (file[job].ending = outcome \/ Forgotten(job))
      BY <1>0, <2>1, <2>2 DEF Asking
    <3>2. me.heard # "none" => outcome = me.heard \/ Forgotten(job)
      BY <1>0, <2>1, <2>2 DEF Asking
    <3> QED BY <1>0, <2>1, <2>2, <2>3, <3>1, <3>2, AnswersSettle
  <2>4. CASE client' = [client EXCEPT ![k].at = "asking"] /\ UNCHANGED told /\ outcome = "running"
    <3> DEFINE new == [me EXCEPT !.at = "asking"]
    <3>1. /\ new \in Client /\ new.at = "asking" /\ new.job = job /\ new.heard = me.heard
      BY <1>0 DEF Client
    <3>2. client' = [client EXCEPT ![k] = new]
      BY <1>0, <2>4 DEF ReadersTypeOK
    <3> HIDE DEF new
    <3>3. client'[k] = new
      BY <3>2 DEF ReadersInv, ReadersTypeOK
    <3>4. me.heard = "none" \/ Forgotten(job)
      BY <1>0, <2>1, <2>2, <2>4 DEF Asking
    <3>5. Asking(k)'
      BY <1>0, <2>1, <3>1, <3>3, <3>4 DEF Asking, Opened, Forgotten
    <3> QED BY <1>1, <2>4, <3>1, <3>2, <3>5
  <2> QED BY <1>3, <2>3, <2>4 DEF Judge, JudgeAgain, outcome
<1>4. CASE Ask(k)
  <2> DEFINE new == [me EXCEPT !.at = "waiting"]
  <2>1. me.at = "asking" /\ UNCHANGED told
    BY <1>4 DEF Ask
  <2>2. /\ new \in Client /\ new.at = "waiting" /\ new.job = job /\ new.heard = me.heard
    BY <1>0 DEF Client
  <2>3. client' = [client EXCEPT ![k] = new]
    BY <1>0, <1>4 DEF Ask, ReadersTypeOK
  <2> HIDE DEF new
  <2>4. client'[k] = new
    BY <2>3 DEF ReadersInv, ReadersTypeOK
  <2>5. Asking(k)'
    BY <1>0, <2>1, <2>2, <2>4 DEF Asking, Opened, Forgotten
  <2> QED BY <1>1, <2>1, <2>2, <2>3, <2>5
<1>5. CASE CannotStop(k)
  <2>1. me.at = "asking" /\ Answer(k, "failed_precondition")
    BY <1>5 DEF CannotStop
  <2>2. "failed_precondition" \notin Endings
    BY DEF Endings
  <2>3. me.heard # "none" => Forgotten(job)
    BY <1>0, <2>1 DEF Asking
  <2> QED BY <1>0, <2>1, <2>2, <2>3, AnswersSettle
<1>6. CASE LookAgain(k)
  <2>1. me.at = "waiting" /\ job \in Runs /\ Opened(job)
    BY <1>0, <1>6 DEF LookAgain, Asking
  <2>2. CASE /\ Readable(file[job]) /\ UNCHANGED told
             /\ client' = [client EXCEPT ![k].at = "rejudging", ![k].saw = file[job].ending]
    <3> DEFINE new == [me EXCEPT !.at = "rejudging", !.saw = file[job].ending]
    <3>1. file[job].ending \in Endings
      BY <1>0, <2>1 DEF TypeOK, JournalFile
    <3>2. /\ new \in Client /\ new.at = "rejudging" /\ new.job = job /\ new.heard = me.heard
          /\ new.saw = file[job].ending
      BY <1>0, <3>1 DEF Client
    <3>3. client' = [client EXCEPT ![k] = new]
      BY <1>0, <2>2 DEF ReadersTypeOK
    <3> HIDE DEF new
    <3>4. client'[k] = new
      BY <3>3 DEF ReadersInv, ReadersTypeOK
    <3>5. me.heard = "none" \/ Forgotten(job)
      BY <1>0, <2>1 DEF Asking
    <3>6. Asking(k)'
      BY <1>0, <2>1, <3>2, <3>4, <3>5 DEF Asking, Opened, Forgotten
    <3> QED BY <1>1, <2>2, <3>2, <3>3, <3>6
  <2>3. CASE ~Readable(file[job]) /\ Answer(k, "running")
    <3>1. "running" \in Outcomes /\ "running" \notin Endings
      BY DEF Outcomes, Endings
    <3>2. Forgotten(job)
      BY <1>0, <2>1, <2>3, ReadableIsOpened
    <3> QED BY <1>0, <2>1, <2>3, <3>1, <3>2, AnswersSettle
  <2> QED BY <1>6, <2>2, <2>3 DEF LookAgain
<1> QED BY <1>2, <1>3, <1>4, <1>5, <1>6 DEF ClientStep

(* Every step, of a run, a reader or the whole process, keeps all of it.   *)
LEMMA NextReadersInv == ReadersInv /\ [ReadersNext]_allVars => ReadersInv'
<1> SUFFICES ASSUME ReadersInv, [ReadersNext]_allVars
             PROVE  ReadersInv'
  OBVIOUS
<1>0. /\ ReadersTypeOK /\ TypeOK /\ RunsInv /\ [Next]_vars
      /\ RunsInv' /\ TypeOK'
  BY ReadersOnlyAsk, NextRunsInv, NextTypeOK DEF ReadersInv, ReadersTypeOK
<1>1. ASSUME watcher' \in [Watchers -> Watcher], \A w \in Watchers : Following(w)',
             client' \in [Clients -> Client], told' \in [Runs -> Endings],
             \A k \in Clients : Asking(k)', \A r \in Runs : Told(r)'
      PROVE  ReadersInv'
  BY <1>0, <1>1 DEF ReadersInv, ReadersTypeOK
<1>2. UNCHANGED watcher => watcher' \in [Watchers -> Watcher] /\ \A w \in Watchers : Following(w)'
  BY <1>0, FollowingStays DEF ReadersTypeOK
<1>3. UNCHANGED <<client, told>> =>
          /\ client' \in [Clients -> Client] /\ told' \in [Runs -> Endings]
          /\ \A k \in Clients : Asking(k)'
          /\ \A r \in Runs : Told(r)'
  BY <1>0, AskingStays, ToldStays DEF ReadersTypeOK
<1>4. CASE RestartAll
  <2>1. UNCHANGED told /\ \A r \in Runs : Told(r)'
    BY <1>0, <1>4, ToldStays DEF RestartAll
  <2>2. \A w \in Watchers : watcher'[w].at = "idle" /\ watcher'[w].trailer = "none"
    BY <1>4 DEF RestartAll, NoWatcher
  <2>3. \A k \in Clients : client'[k].at = "idle"
    BY <1>4 DEF RestartAll, NoClient
  <2>4. watcher' \in [Watchers -> Watcher] /\ client' \in [Clients -> Client]
    BY <1>4, NoReaderTypes DEF RestartAll
  <2>5. (\A w \in Watchers : Following(w)') /\ \A k \in Clients : Asking(k)'
    BY <2>2, <2>3 DEF Following, Asking
  <2> QED BY <1>0, <1>1, <2>1, <2>4, <2>5 DEF ReadersTypeOK
<1>5. CASE (\E r \in Runs : RunStep(r) /\ UNCHANGED readers) \/ UNCHANGED allVars
  BY <1>1, <1>2, <1>3, <1>5 DEF readers, allVars
<1>6. ASSUME NEW w \in Watchers, WatchStep(w) \/ HangUp(w) \/ \E r \in Runs : Watch(w, r)
      PROVE  ReadersInv'
  <2>1. UNCHANGED <<client, told>>
    BY <1>6 DEF WatchStep, ReadJournal, CheckRunning, HangUp, Watch
  <2> QED BY <1>1, <1>3, <1>6, <2>1, FollowersMove
<1>7. ASSUME NEW k \in Clients,
             ClientStep(k) \/ \E r \in Runs, verb \in {"list", "cancel"} : Look(k, r, verb)
      PROVE  ReadersInv'
  <2>1. UNCHANGED watcher
    BY <1>7 DEF ClientStep, Judge, Ask, CannotStop, LookAgain, JudgeAgain, Look
  <2> QED BY <1>1, <1>2, <1>7, <2>1, ClientsMove
<1> QED BY <1>4, <1>5, <1>6, <1>7 DEF ReadersNext

(* Nobody reads before anything ran.                                       *)
LEMMA InitReadersInv == ReadersInit => ReadersInv
<1> SUFFICES ASSUME ReadersInit PROVE ReadersInv
  OBVIOUS
<1>1. RunsInv /\ TypeOK
  BY InitKeepInv, InitTypeOK DEF ReadersInit, RunsInv, Init, Numbered, NoFile, NoHandle
<1>2. ReadersTypeOK
  BY <1>1, NoReaderTypes DEF ReadersInit, ReadersTypeOK, Endings
<1>3. \A w \in Watchers : Following(w)
  BY DEF ReadersInit, Following, NoWatcher
<1>4. (\A r \in Runs : Told(r)) /\ \A k \in Clients : Asking(k)
  BY DEF ReadersInit, Told, Asking, NoClient
<1> QED BY <1>1, <1>2, <1>3, <1>4 DEF ReadersInv

(* The invariant of the runs and of everybody who reads about them.        *)
LEMMA ReadersKeepInv == ReadersSpec => []ReadersInv
BY InitReadersInv, NextReadersInv, PTL DEF ReadersSpec

(* Readers, and clients that ask for stops, do no run any harm: with them  *)
(* the runs behave as they do without, so all of the above holds of them.  *)
THEOREM ReadersAreHarmless == ReadersSpec => Spec
<1>1. ReadersInv /\ [ReadersNext]_allVars => [Next]_vars
  BY ReadersOnlyAsk DEF ReadersInv, ReadersTypeOK
<1>2. ReadersInit => Init
  BY DEF ReadersInit
<1> QED BY <1>1, <1>2, ReadersKeepInv, PTL DEF ReadersSpec, Spec

(* Followers, clients and what was told keep their types for ever.         *)
THEOREM ReadersTypeCorrect == ReadersSpec => []ReadersTypeOK
<1>1. ReadersInv => ReadersTypeOK
  BY DEF ReadersInv
<1> QED BY <1>1, ReadersKeepInv, PTL

(* Whatever the interleaving of reads, writes, prunes and restarts, a      *)
(* stream ends the way its run did, or its record is gone (jobs.rs:641).   *)
THEOREM TrailersAreTruthful == ReadersSpec => []TrailerTruthful
<1>1. ReadersInv => TrailerTruthful
  BY DEF ReadersInv, Following, TrailerTruthful
<1> QED BY <1>1, ReadersKeepInv, PTL

(* A stream that ends with its run has delivered every line on record from *)
(* the asked one on, each read racing the next write (jobs.rs:641-661).    *)
THEOREM NothingIsMissed == ReadersSpec => []NothingMissed
<1>1. ASSUME ReadersInv, NEW w \in Watchers,
             watcher[w].trailer \in {"ok", "internal"}, watcher[w].job \notin Trailing,
             ~Forgotten(watcher[w].job)
      PROVE  watcher[w].seen = {n \in file[watcher[w].job].events : n >= watcher[w].from}
  <2> DEFINE me == watcher[w]
             f  == file[watcher[w].job]
  <2>1. /\ me.at # "idle" /\ watcher[w].job \in Runs
        /\ me.seen = {n \in f.events : me.from <= n /\ n < me.next}
        /\ \A n \in f.events : n >= me.from => n < me.next
    BY <1>1 DEF ReadersInv, Following
  <2>2. f.events \subseteq Nat /\ me.from \in Nat
    BY <1>1, <2>1 DEF ReadersInv, ReadersTypeOK, TypeOK, JournalFile, Watcher
  <2> QED BY <2>1, <2>2
<1>2. ReadersInv => NothingMissed
  BY <1>1 DEF NothingMissed
<1> QED BY <1>2, ReadersKeepInv, PTL

(* Nobody is told of a run's ending what somebody else was told otherwise  *)
(* before, although no answer is read under one lock (jobs.rs:503-571).    *)
THEOREM AnswersAlwaysAgree == ReadersSpec => []AnswersAgree
<1>1. ReadersInv => AnswersAgree
  BY DEF ReadersInv, Asking, AnswersAgree
<1> QED BY <1>1, ReadersKeepInv, PTL
=============================================================================
