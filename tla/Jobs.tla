-------------------------------- MODULE Jobs --------------------------------
(***************************************************************************)
(* The life of one long operation inside gryonixnexusd (jobs.rs): the      *)
(* claim that admits it, the journal it leaves on disk, the in-memory      *)
(* table that says it is running, the switch that can stop it, and the     *)
(* death of the whole process at any point in between.                     *)
(*                                                                         *)
(* A run is one execution of a long verb.  Its identity stands for the     *)
(* job id: mint_job_id never issues one twice (start second, process id,   *)
(* counter), so a run happens at most once.                                *)
(*                                                                         *)
(* Every field of a journal file that readers can tell apart is kept; the  *)
(* text of a narrated line is not, only its sequence number.               *)
(***************************************************************************)
EXTENDS Naturals, FiniteSets

CONSTANTS
    Runs,         \* executions of long verbs, over any number of lifetimes
    Subject,      \* Subject[r]: the "namespace:subject" key run r works on
    Claiming,     \* runs of the verbs that acquire an OperationClaim
    Stoppable,    \* runs of the verbs that register a CancelSwitch
    Trailing,     \* runs of the verbs that still narrate after closing a failure
    Keep,         \* KEEP_JOBS
    MaxEvents,    \* bound: lines one run narrates before its ending
    MaxRestarts,  \* bound: times the process dies
    DiskFails     \* whether a write to the journal may fail

ASSUME RunsAssumption ==
    /\ Claiming \subseteq Runs
    /\ Stoppable \subseteq Runs
    /\ Trailing \subseteq Runs
    /\ DOMAIN Subject = Runs

ASSUME BoundsAssumption ==
    /\ Keep \in Nat \ {0}
    /\ MaxEvents \in Nat
    /\ MaxRestarts \in Nat
    /\ DiskFails \in BOOLEAN

VARIABLES
    pc,          \* pc[r]: where the run's handler or spawned task stands
    claimed,     \* the CLAIMED set of keys
    running,     \* the RUNNING map's keys
    switches,    \* the SWITCHES map's keys
    asked,       \* runs whose switch has been flipped to true
    file,        \* file[r]: the run's journal file
    handle,      \* handle[r]: the in-memory Journal the run writes through
    truth,       \* truth[r]: how the work itself went (history variable)
    older,       \* <<a, b>> \in older: a's file was last written before b's
    restarts     \* times the process has died

vars == <<pc, claimed, running, switches, asked, file, handle, truth, older, restarts>>

-----------------------------------------------------------------------------
(* Journal files and handles                                               *)

Endings == {"none", "succeeded", "failed", "cancelled"}

JournalFile == [present : BOOLEAN,   \* there is a file at this path
                headed  : BOOLEAN,   \* it holds a readable meta line
                events  : SUBSET Nat,\* sequence numbers of readable event lines
                ending  : Endings,   \* what the last readable end line says
                torn    : BOOLEAN]   \* its last line is incomplete

NoFile == [present |-> FALSE, headed |-> FALSE, events |-> {},
           ending |-> "none", torn |-> FALSE]

Handle == [open : BOOLEAN, next : Nat, closed : BOOLEAN, completed : BOOLEAN]

NoHandle == [open |-> FALSE, next |-> 0, closed |-> FALSE, completed |-> FALSE]

(* The three kinds of line, as what each adds to the file.                 *)
WithMeta(f)      == [f EXCEPT !.headed = TRUE]
WithEvent(f, n)  == [f EXCEPT !.events = @ \cup {n}]
WithEnding(f, e) == [f EXCEPT !.ending = e]

(* What write_line can make of file f when g is f plus one readable line.  *)
(* A line that lands on an incomplete one is glued to it, and a reader     *)
(* skips them both.  A failing write leaves nothing, or part of a line.    *)
AfterWrite(f, g) ==
    {IF f.torn THEN [f EXCEPT !.torn = FALSE]
               ELSE [g EXCEPT !.present = TRUE]}
    \cup (IF DiskFails THEN {f, [f EXCEPT !.present = TRUE, !.torn = TRUE]} ELSE {})

Present(files) == {r \in Runs : files[r].present}

(* Run r's file becomes g, and if that wrote it, the newest one.           *)
Rewrite(r, g) ==
    /\ file' = [file EXCEPT ![r] = g]
    /\ older' = IF g = file[r] THEN older
                ELSE {p \in older : r \notin {p[1], p[2]}}
                       \cup {<<q, r>> : q \in Present(file) \ {r}}

(* parse_file: a file with neither subject nor events is no record at all. *)
Readable(f) == f.present /\ (f.headed \/ f.events # {})

(* outcome_of, given the ending as it was read and the RUNNING map as it   *)
(* is now.                                                                 *)
OutcomeOf(ending, isRunning) ==
    IF ending # "none" THEN ending
    ELSE IF isRunning THEN "running" ELSE "abandoned"

-----------------------------------------------------------------------------
(* Control points of a run, and the sets of them the properties speak of.  *)

Stages == {"idle",          \* not requested yet
           "refused",       \* answered with a refusal, nothing ran
           "admitted",      \* past its claim, checking preconditions
           "opening",       \* journal head written, not yet in RUNNING
           "registering",   \* journal open, cancel switch not yet installed
           "working",       \* the spawned task is doing the work
           "panicking",     \* the task is unwinding
           "reported",      \* COMPLETED narrated or skipped, ending not written
           "noted",         \* a stopped run's closing note is narrated too
           "sealing",       \* end line attempted, still in RUNNING
           "sealed",        \* out of RUNNING, journal handle still held
           "trailed",       \* the event some verbs send after a failure is teed
           "leaving",       \* journal handle gone, switch and claim held
           "done",          \* everything dropped
           "dead"}          \* the process died under it

(* A task exists for the run, or a handler that holds its claim.           *)
Live == Stages \ {"idle", "refused", "done", "dead"}

(* "panicked" is a failure nobody put into words.                          *)
Truths == {"undecided", "succeeded", "failed", "stopped", "panicked"}

TypeOK ==
    /\ pc \in [Runs -> Stages]
    /\ claimed \subseteq {Subject[r] : r \in Runs}
    /\ running \subseteq Runs
    /\ switches \subseteq Runs
    /\ asked \subseteq Runs
    /\ file \in [Runs -> JournalFile]
    /\ handle \in [Runs -> Handle]
    /\ truth \in [Runs -> Truths]
    /\ older \subseteq Runs \X Runs
    /\ restarts \in 0..MaxRestarts

Init ==
    /\ pc = [r \in Runs |-> "idle"]
    /\ claimed = {}
    /\ running = {}
    /\ switches = {}
    /\ asked = {}
    /\ file = [r \in Runs |-> NoFile]
    /\ handle = [r \in Runs |-> NoHandle]
    /\ truth = [r \in Runs |-> "undecided"]
    /\ older = {}
    /\ restarts = 0

Goto(r, stage) == pc' = [pc EXCEPT ![r] = stage]

-----------------------------------------------------------------------------
(* Admission                                                               *)

(* OperationClaim::acquire succeeds, or the verb has no claim to take.     *)
Admit(r) ==
    /\ pc[r] = "idle"
    /\ r \in Claiming => Subject[r] \notin claimed
    /\ claimed' = IF r \in Claiming THEN claimed \cup {Subject[r]} ELSE claimed
    /\ Goto(r, "admitted")
    /\ UNCHANGED <<running, switches, asked, file, handle, truth, older, restarts>>

(* OperationClaim::acquire finds the key taken: 409, nothing is spawned.   *)
Conflict(r) ==
    /\ pc[r] = "idle"
    /\ r \in Claiming /\ Subject[r] \in claimed
    /\ Goto(r, "refused")
    /\ UNCHANGED <<claimed, running, switches, asked, file, handle, truth, older, restarts>>

(* A precondition fails after the claim, or the client hangs up before the *)
(* spawn: the handler returns and its claim is dropped with it.            *)
Reject(r) ==
    /\ pc[r] = "admitted"
    /\ claimed' = IF r \in Claiming THEN claimed \ {Subject[r]} ELSE claimed
    /\ Goto(r, "refused")
    /\ UNCHANGED <<running, switches, asked, file, handle, truth, older, restarts>>

(* The first half of Journal::open: the head line is written.  When that   *)
(* fails the run goes on without a record.                                 *)
OpenHead(r) ==
    /\ pc[r] = "admitted"
    /\ \E g \in AfterWrite(file[r], WithMeta(file[r])) :
          /\ Rewrite(r, g)
          /\ Goto(r, IF g.headed THEN "opening" ELSE "working")
    /\ UNCHANGED <<claimed, running, switches, asked, handle, truth, restarts>>

(* prune: of more than Keep files the ones last written earliest go.       *)
Pruned(gone) ==
    LET kept == Present(file) \ gone IN
    /\ gone \subseteq Present(file)
    /\ IF Cardinality(Present(file)) <= Keep
       THEN gone = {}
       ELSE Cardinality(kept) = Keep /\ \A p \in gone, q \in kept : <<p, q>> \in older

(* The second half of Journal::open: into RUNNING, then prune.             *)
OpenRegister(r) ==
    /\ pc[r] = "opening"
    /\ running' = running \cup {r}
    /\ \E gone \in SUBSET Runs :
          /\ Pruned(gone)
          /\ file' = [q \in Runs |-> IF q \in gone THEN NoFile ELSE file[q]]
          /\ older' = {p \in older : p[1] \notin gone /\ p[2] \notin gone}
    /\ handle' = [handle EXCEPT ![r] = [NoHandle EXCEPT !.open = TRUE]]
    /\ Goto(r, IF r \in Stoppable THEN "registering" ELSE "working")
    /\ UNCHANGED <<claimed, switches, asked, truth, restarts>>

(* cancellable(): a run with a journal installs its switch.                *)
RegisterSwitch(r) ==
    /\ pc[r] = "registering"
    /\ switches' = switches \cup {r}
    /\ Goto(r, "working")
    /\ UNCHANGED <<claimed, running, asked, file, handle, truth, older, restarts>>

-----------------------------------------------------------------------------
(* Narration and the work's own result                                     *)

(* Journal::append: the sequence number is consumed whatever becomes of    *)
(* the line, and a COMPLETED line is remembered.                           *)
Said(h, phase) ==
    LET said == [h EXCEPT !.next = @ + 1] IN
    IF phase = "completed" THEN [said EXCEPT !.completed = TRUE] ELSE said

Append(r, phase) ==
    /\ handle' = [handle EXCEPT ![r] = Said(@, phase)]
    /\ \E g \in AfterWrite(file[r], WithEvent(file[r], handle[r].next)) : Rewrite(r, g)

Narrate(r) ==
    /\ pc[r] = "working"
    /\ handle[r].open
    /\ handle[r].next < MaxEvents
    /\ Append(r, "progress")
    /\ UNCHANGED <<pc, claimed, running, switches, asked, truth, restarts>>

(* The work ends.  A verb that re-reads live state narrates COMPLETED with *)
(* it even after a failure; a failure whose re-read fails narrates none.   *)
(* "stopped" is possible only once somebody flipped the switch.            *)
Report(r) ==
    /\ pc[r] = "working"
    /\ \E how \in {"succeeded", "failed"} \cup (IF r \in asked THEN {"stopped"} ELSE {}) :
          /\ truth' = [truth EXCEPT ![r] = how]
          /\ \/ handle[r].open /\ Append(r, "completed")
             \/ ~handle[r].open /\ UNCHANGED <<handle, file, older>>
             \/ how = "failed" /\ UNCHANGED <<handle, file, older>>
    /\ Goto(r, IF handle[r].open THEN "reported" ELSE "leaving")
    /\ UNCHANGED <<claimed, running, switches, asked, restarts>>

(* Slip: no Drop for the journal, so nothing closes it when a task unwinds.*)
PanicWithoutDrop(r) ==
    /\ pc[r] = "working"
    /\ truth' = [truth EXCEPT ![r] = "panicked"]
    /\ handle' = [handle EXCEPT ![r] = NoHandle]
    /\ Goto(r, "leaving")
    /\ UNCHANGED <<claimed, running, switches, asked, file, older, restarts>>

(* The work unwinds without a word about how it went.                      *)
Panic(r) ==
    /\ pc[r] = "working"
    /\ truth' = [truth EXCEPT ![r] = "panicked"]
    /\ Goto(r, IF handle[r].open THEN "panicking" ELSE "leaving")
    /\ UNCHANGED <<claimed, running, switches, asked, file, handle, older, restarts>>

-----------------------------------------------------------------------------
(* Endings                                                                 *)

(* Slip: an end line that repeats what the map says instead of an ending.  *)
CloseAsRunning(r, ending) ==
    /\ ~handle[r].closed
    /\ handle' = [handle EXCEPT ![r].closed = TRUE]
    /\ \E g \in AfterWrite(file[r], WithEnding(file[r], "running")) : Rewrite(r, g)
    /\ Goto(r, "sealing")

(* Inner::close up to the end line: only the first call does anything.     *)
Close(r, ending) ==
    /\ ~handle[r].closed
    /\ handle' = [handle EXCEPT ![r].closed = TRUE]
    /\ \E g \in AfterWrite(file[r], WithEnding(file[r], ending)) : Rewrite(r, g)
    /\ Goto(r, "sealing")

(* finish(Some(failure)).                                                  *)
Fail(r) ==
    /\ pc[r] = "reported" /\ truth[r] = "failed"
    /\ Close(r, "failed")
    /\ UNCHANGED <<claimed, running, switches, asked, truth, restarts>>

(* cancelled(note): the note is narrated as COMPLETED, then the close.     *)
NoteStop(r) ==
    /\ pc[r] = "reported" /\ truth[r] = "stopped"
    /\ Append(r, "completed")
    /\ Goto(r, "noted")
    /\ UNCHANGED <<claimed, running, switches, asked, truth, restarts>>

(* Slip: a stop is closed like any run that did not fail.                  *)
StopAsSuccess(r) ==
    /\ pc[r] = "noted"
    /\ Close(r, "succeeded")
    /\ UNCHANGED <<claimed, running, switches, asked, truth, restarts>>

Stop(r) ==
    /\ pc[r] = "noted"
    /\ Close(r, "cancelled")
    /\ UNCHANGED <<claimed, running, switches, asked, truth, restarts>>

(* Slip: an unclosed journal is taken for a success.                       *)
DropAssumingSuccess(r) ==
    /\ \/ pc[r] = "panicking"
       \/ pc[r] = "reported" /\ truth[r] = "succeeded"
    /\ Close(r, "succeeded")
    /\ UNCHANGED <<claimed, running, switches, asked, truth, restarts>>

(* Inner::drop on a journal nobody closed: success is read off the         *)
(* COMPLETED flag, never assumed.                                          *)
DropOpen(r) ==
    /\ \/ pc[r] = "panicking"
       \/ pc[r] = "reported" /\ truth[r] = "succeeded"
    /\ Close(r, IF handle[r].completed THEN "succeeded" ELSE "failed")
    /\ UNCHANGED <<claimed, running, switches, asked, truth, restarts>>

(* Slip: the journal, not the task, holds the claim.                       *)
UnregisterWithClaim(r) ==
    /\ pc[r] = "sealing"
    /\ running' = running \ {r}
    /\ claimed' = claimed \ {Subject[r]}
    /\ Goto(r, "sealed")
    /\ UNCHANGED <<switches, asked, file, handle, truth, older, restarts>>

(* The rest of close: out of RUNNING.                                      *)
Unregister(r) ==
    /\ pc[r] = "sealing"
    /\ running' = running \ {r}
    /\ Goto(r, "sealed")
    /\ UNCHANGED <<claimed, switches, asked, file, handle, truth, older, restarts>>

(* Some verbs send one more event after finish(Some(..)): it is teed into  *)
(* the journal behind the end line.                                        *)
Trails(r) == r \in Trailing /\ truth[r] = "failed"

NarrateLate(r) ==
    /\ pc[r] = "sealed" /\ Trails(r)
    /\ Append(r, "completed")
    /\ Goto(r, "trailed")
    /\ UNCHANGED <<claimed, running, switches, asked, truth, restarts>>

(* Slip: close does not remember that it has been called, so the drop adds *)
(* an ending of its own.                                                   *)
DropClosesAgain(r) ==
    /\ \/ pc[r] = "trailed"
       \/ pc[r] = "sealed" /\ ~Trails(r)
    /\ LET ending == IF handle[r].completed THEN "succeeded" ELSE "failed" IN
          \E g \in AfterWrite(file[r], WithEnding(file[r], ending)) : Rewrite(r, g)
    /\ handle' = [handle EXCEPT ![r] = NoHandle]
    /\ Goto(r, "leaving")
    /\ UNCHANGED <<claimed, running, switches, asked, truth, restarts>>

(* Inner::drop on a journal that is already closed does nothing.           *)
DropClosed(r) ==
    /\ \/ pc[r] = "trailed"
       \/ pc[r] = "sealed" /\ ~Trails(r)
    /\ handle' = [handle EXCEPT ![r] = NoHandle]
    /\ Goto(r, "leaving")
    /\ UNCHANGED <<claimed, running, switches, asked, file, truth, older, restarts>>

(* Slip: no Drop for the switch.                                           *)
LeaveSwitchBehind(r) ==
    /\ pc[r] = "leaving"
    /\ claimed' = IF r \in Claiming THEN claimed \ {Subject[r]} ELSE claimed
    /\ Goto(r, "done")
    /\ UNCHANGED <<running, switches, asked, file, handle, truth, older, restarts>>

(* The task's remaining locals go: the switch, and last of all the claim.  *)
Leave(r) ==
    /\ pc[r] = "leaving"
    /\ switches' = switches \ {r}
    /\ asked' = asked \ {r}
    /\ claimed' = IF r \in Claiming THEN claimed \ {Subject[r]} ELSE claimed
    /\ Goto(r, "done")
    /\ UNCHANGED <<running, file, handle, truth, older, restarts>>

-----------------------------------------------------------------------------
(* ask_to_stop on a registered run.                                        *)
AskToStop(r) ==
    /\ r \in switches
    /\ asked' = asked \cup {r}
    /\ UNCHANGED <<pc, claimed, running, switches, file, handle, truth, older, restarts>>

(* The process dies (a crash, a reboot, a restart by systemd: no signal is *)
(* handled, so nothing is dropped) and comes up again with empty tables.   *)
(* sweep_abandoned only logs.                                              *)
Restart ==
    /\ restarts < MaxRestarts
    /\ restarts' = restarts + 1
    /\ pc' = [r \in Runs |-> IF pc[r] \in Live THEN "dead" ELSE pc[r]]
    /\ claimed' = {}
    /\ running' = {}
    /\ switches' = {}
    /\ asked' = {}
    /\ handle' = [r \in Runs |-> NoHandle]
    /\ UNCHANGED <<file, truth, older>>

RunStep(r) ==
    \/ Admit(r) \/ Conflict(r) \/ Reject(r)
    \/ OpenHead(r) \/ OpenRegister(r) \/ RegisterSwitch(r)
    \/ Narrate(r) \/ Report(r) \/ Panic(r)
    \/ Fail(r) \/ NoteStop(r) \/ Stop(r) \/ DropOpen(r)
    \/ Unregister(r) \/ NarrateLate(r) \/ DropClosed(r) \/ Leave(r)

Next == Restart \/ \E r \in Runs : RunStep(r) \/ AskToStop(r)

Spec == Init /\ [][Next]_vars

(* Where a run waits for somebody else, for as long as that one takes: for *)
(* what its preconditions and its work ask of the host, or for a client    *)
(* that stays and does not read, to take the COMPLETED just teed, the      *)
(* trailer of a failure or what trails it (restore.rs:296-311,             *)
(* models.rs:352-387; a deadline, where a verb has one, is around its work *)
(* only).  A run without a journal makes its report when all of it is      *)
(* sent.                                                                   *)
Waits(r) ==
    \/ pc[r] \in {"idle", "admitted", "working", "reported", "trailed"}
    \/ pc[r] = "sealed" /\ truth[r] = "failed"

(* Between two waits the runtime polls the task on; nobody has to ask for a *)
(* run, and no wait need end.                                              *)
Fairness == \A r \in Runs : WF_vars(RunStep(r) /\ ~Waits(r))

FairSpec == Spec /\ Fairness

-----------------------------------------------------------------------------
(* Properties                                                              *)

(* Two runs of claiming verbs never work on one subject at the same time,  *)
(* from admission to the last local dropped, however each of them ends     *)
(* (OperationClaim, jobs.rs:49-75).                                        *)
ClaimExclusion ==
    \A a, b \in Claiming :
        a # b /\ Subject[a] = Subject[b] => ~(pc[a] \in Live /\ pc[b] \in Live)

(* A record never says more than what happened: SUCCEEDED is the work's    *)
(* own success, CANCELLED a stop the work obeyed, FAILED a failure or a    *)
(* panic.  Success is read off COMPLETED, which failing and stopped runs   *)
(* narrate as well (jobs.rs:308-334, 266-306).                             *)
RecordTruthful ==
    \A r \in Runs :
        /\ file[r].ending = "succeeded" => truth[r] = "succeeded"
        /\ file[r].ending = "cancelled" => truth[r] = "stopped"
        /\ file[r].ending = "failed" => truth[r] \in {"failed", "panicked"}

(* Nothing is held by a run that is over, or by a process that died: a run *)
(* that is listed in RUNNING has a live task of this very process behind   *)
(* it, with its journal open and its claim held; a switch, which a stop    *)
(* request looks up, belongs to a live run that can obey it; and a key     *)
(* that refuses others is some live run's, so no subject stays locked      *)
(* (jobs.rs:49-75, 126-135, 286-306, 739-771).                             *)
OnlyLiveRunsHold ==
    /\ \A r \in running :
          /\ pc[r] \in Live
          /\ handle[r].open
          /\ r \in Claiming => Subject[r] \in claimed
    /\ \A r \in switches : r \in Stoppable /\ pc[r] \in Live /\ pc[r] # "registering"
    /\ \A key \in claimed : \E r \in Claiming : Subject[r] = key /\ pc[r] \in Live

Over(r) == pc[r] \notin Live /\ r \notin running \cup switches /\ ~handle[r].open

(* A run whose task unwinds, or whose success or stop is being closed,     *)
(* lets go of everything it held, and nobody can keep it from that.  Any   *)
(* other run ends too if each of its own waits ends: no other run, reader  *)
(* or stop, no failing disk and no process that dies holds it for ever     *)
(* (jobs.rs:286-334, 739-771).                                             *)
EveryRunEnds ==
    \A r \in Runs :
        /\ pc[r] \in {"panicking", "noted"} ~> Over(r)
        /\ pc[r] = "sealing" /\ truth[r] # "failed" ~> Over(r)
        /\ WF_vars(RunStep(r) /\ Waits(r) /\ pc[r] # "idle") => (pc[r] = "admitted" ~> Over(r))

(* What the records promise (JobRecord), as these files and tables keep it.*)
RecordOf(f) ==
    IF ~Readable(f) THEN "none" ELSE IF f.ending = "none" THEN "open" ELSE f.ending

Record == INSTANCE JobRecord WITH
              record  <- [r \in Runs |-> RecordOf(file[r])],
              writers <- {r \in Runs : handle[r].open},
              result  <- truth

(* Every step of a run, of the table and of the disk is a step of the      *)
(* record or none at all.                                                  *)
KeepsItsRecord == Record!Spec
=============================================================================
