------------------------------ MODULE ModelPull ------------------------------
(***************************************************************************)
(* Pulling models through the engine (models.rs): each pull looks at the   *)
(* disk, claims its name, asks the engine, refuses a model the disk cannot *)
(* hold, can be stopped, and a stopped one reclaims what the engine left   *)
(* half written.  The journal and its switch are those of Jobs, reduced to *)
(* the record a pull leaves.  DeleteModel takes no claim.                  *)
(*                                                                         *)
(* The engine is external: it takes a request, reports the size, writes    *)
(* the weights unit by unit and renames them when they are whole.  It is   *)
(* taken to write nothing before the report the pull checks, which is what *)
(* the code counts on.  Sizes are in units of one write.                   *)
(***************************************************************************)
EXTENDS Naturals, FiniteSets

CONSTANTS
    Pulls,          \* requests
    NameOf,         \* the model each asks for
    Slow,           \* those whose client may stop reading for a while
    Size,           \* what a model weighs
    Margin,         \* what the check adds to it
    Disk            \* the size of the volume

Names == {NameOf[p] : p \in Pulls}

ASSUME PullAssumption ==
    /\ IsFiniteSet(Pulls) /\ Slow \subseteq Pulls
    /\ Size \in Nat \ {0} /\ Margin \in Nat \ {0} /\ Disk \in Nat

VARIABLES
    pc,         \* where each pull stands
    seen,       \* the free space it read before it claimed its name
    before,     \* history: what all else took of the volume when it did
    record,     \* its journal, "none" when it could not be opened
    asked,      \* pulls whose switch was pressed
    stuck,      \* pulls whose send waits for room in the channel of 64
    checked,    \* fetches whose size the space they saw can hold
    engine,     \* the engine's side of each request
    got,        \* units of each model in its partial file
    lost,       \* pulls whose partial file was deleted underneath them
    have,       \* models that are whole
    removed,    \* history: models deleted since they were last whole
    taken       \* the rest of the volume that is in use

pullVars   == <<pc, seen, before, record, asked, stuck, checked>>
engineVars == <<engine, got, lost, have, removed>>
vars == <<pullVars, engineVars, taken>>

(* What the list shows at work.  A pull whose record was pruned has lost   *)
(* its head line: it goes on, and its switch works, but it is of no kind.  *)
Running == {p \in Pulls : record[p] = "running"}

HasJournal(p) == record[p] \in {"running", "unlisted"}

(* What the engine keeps on the volume: every unit of a whole model and    *)
(* the written ones of a partial file.  A model is never both.             *)
Units == {u \in Names \X (1 .. Size) : u[1] \in have \/ u[2] <= got[u[1]]}

Free ==
    LET used == taken + Cardinality(Units)
    IN  IF used < Disk THEN Disk - used ELSE 0

(* What is on the volume that is not of the model p asks for.              *)
AllElse(p) == taken + Cardinality({u \in Units : u[1] # NameOf[p]})

Stages == {"idle", "refused", "looked", "claimed", "connecting", "fetching", "whole",
           "stopping", "reclaiming", "stopped", "failing", "over"}

TypeOK ==
    /\ pc \in [Pulls -> Stages]
    /\ seen \in [Pulls -> 0..Disk]
    /\ before \in [Pulls -> Nat]
    /\ record \in [Pulls -> {"none", "running", "unlisted", "abandoned",
                              "succeeded", "cancelled", "failed"}]
    /\ asked \subseteq Pulls /\ stuck \subseteq Pulls
    /\ checked \subseteq Pulls /\ lost \subseteq Pulls
    /\ engine \in [Pulls -> {"none", "pulling", "whole", "error", "dead"}]
    /\ got \in [Names -> 0..Size]
    /\ have \subseteq Names /\ removed \subseteq Names
    /\ taken \in 0..Disk

Init ==
    /\ pc = [p \in Pulls |-> "idle"]
    /\ seen = [p \in Pulls |-> 0] /\ before = [p \in Pulls |-> 0]
    /\ record = [p \in Pulls |-> "none"]
    /\ asked = {} /\ stuck = {} /\ checked = {} /\ lost = {}
    /\ engine = [p \in Pulls |-> "none"]
    /\ got = [n \in Names |-> 0]
    /\ have = {} /\ removed = {}
    /\ taken \in 0..Disk

Goes(p, from, to) == pc[p] = from /\ pc' = [pc EXCEPT ![p] = to]

-----------------------------------------------------------------------------
(* The request, before its stream opens                                    *)

(* list_now: the free space of this moment is the one checked later.       *)
Look(p) ==
    /\ Goes(p, "idle", "looked")
    /\ seen' = [seen EXCEPT ![p] = Free]
    /\ before' = [before EXCEPT ![p] = AllElse(p)]
    /\ UNCHANGED <<record, asked, stuck, checked, engineVars, taken>>

NoEngine(p) ==
    /\ Goes(p, "idle", "refused")
    /\ UNCHANGED <<seen, before, record, asked, stuck, checked, engineVars, taken>>

(* A fetch that returns lets go of its socket, which ends the engine's     *)
(* side of it; one that went away stays away.                              *)
HangUp(p) ==
    /\ engine' = [engine EXCEPT ![p] = IF @ = "dead" THEN @ ELSE "none"]
    /\ checked' = checked \ {p} /\ lost' = lost \ {p}

(* What a pull read and was asked goes with it.                            *)
Forget(p) ==
    /\ seen' = [seen EXCEPT ![p] = 0] /\ before' = [before EXCEPT ![p] = 0]
    /\ asked' = asked \ {p}

Held(name) ==
    \E p \in Pulls : NameOf[p] = name /\ pc[p] \notin {"idle", "refused", "looked", "over"}

Claim(p) ==
    /\ \/ /\ ~Held(NameOf[p])
          /\ Goes(p, "looked", "claimed")
          /\ UNCHANGED <<seen, before, asked>>
       \/ /\ Held(NameOf[p])
          /\ Goes(p, "looked", "refused")
          /\ Forget(p)
    /\ UNCHANGED <<record, stuck, checked, engineVars, taken>>

-----------------------------------------------------------------------------
(* The spawned run                                                         *)

(* The journal and its switch; a host that cannot open one pulls without.  *)
Open(p) ==
    /\ Goes(p, "claimed", "connecting")
    /\ \/ record' = [record EXCEPT ![p] = "running"]
       \/ UNCHANGED record
    /\ UNCHANGED <<seen, before, asked, stuck, checked, engineVars, taken>>

(* Runs of any kind that open later push the record out of the journal.    *)
Prune(p) ==
    /\ record[p] = "running"
    /\ record' = [record EXCEPT ![p] = "unlisted"]
    /\ UNCHANGED <<pc, seen, before, asked, stuck, checked, engineVars, taken>>

Connect(p) ==
    /\ \/ Goes(p, "connecting", "fetching") /\ engine' = [engine EXCEPT ![p] = "pulling"]
       \/ Goes(p, "connecting", "failing") /\ UNCHANGED engine
    /\ UNCHANGED <<seen, before, record, asked, stuck, checked, got, lost, have, removed, taken>>

(* The select is biased: a read never goes ahead of a stop.                *)
Reading(p) == pc[p] = "fetching" /\ ~(p \in asked /\ HasJournal(p))

(* Slip: a model that just fits is let through.                            *)
CheckWithoutMargin(p) ==
    /\ Reading(p) /\ engine[p] = "pulling" /\ p \notin checked
    /\ \/ /\ seen[p] >= Size
          /\ checked' = checked \cup {p}
          /\ UNCHANGED <<pc, engine, lost>>
       \/ /\ seen[p] < Size
          /\ Goes(p, "fetching", "failing")
          /\ HangUp(p)
    /\ UNCHANGED <<seen, before, record, asked, stuck, got, have, removed, taken>>

(* The first line that names a total.                                      *)
CheckSpace(p) ==
    /\ Reading(p) /\ engine[p] = "pulling" /\ p \notin checked
    /\ \/ /\ seen[p] >= Size + Margin
          /\ checked' = checked \cup {p}
          /\ UNCHANGED <<pc, engine, lost>>
       \/ /\ seen[p] < Size + Margin
          /\ Goes(p, "fetching", "failing")
          /\ HangUp(p)
    /\ UNCHANGED <<seen, before, record, asked, stuck, got, have, removed, taken>>

(* Slip: whatever the engine ends with is the end of the weights.          *)
EndWithoutError(p) ==
    /\ Reading(p) /\ engine[p] \in {"whole", "error"}
    /\ Goes(p, "fetching", "whole")
    /\ HangUp(p)
    /\ UNCHANGED <<seen, before, record, asked, stuck, got, have, removed, taken>>

(* The end of the response: a line of error is a failure, and so is a read *)
(* that fails; a response that just stops is a pull that is done.          *)
End(p) ==
    /\ Reading(p)
    /\ \/ engine[p] \in {"whole", "dead"} /\ Goes(p, "fetching", "whole")
       \/ engine[p] \in {"error", "dead"} /\ Goes(p, "fetching", "failing")
    /\ HangUp(p)
    /\ UNCHANGED <<seen, before, record, asked, stuck, got, have, removed, taken>>

(* A switch that is pressed after the fetch has nobody to read it.         *)
AskToStop(p) ==
    /\ HasJournal(p) /\ pc[p] \in {"connecting", "fetching"}
    /\ asked' = asked \cup {p}
    /\ UNCHANGED <<pc, seen, before, record, stuck, checked, engineVars, taken>>

(* Slip: the stop is looked at when a line has come in.                    *)
StopBetweenReads(p) ==
    /\ p \in asked /\ HasJournal(p) /\ engine[p] # "pulling"
    /\ Goes(p, "fetching", "stopping")
    /\ HangUp(p)
    /\ UNCHANGED <<seen, before, record, asked, stuck, got, have, removed, taken>>

Stop(p) ==
    /\ p \in asked /\ HasJournal(p)
    /\ Goes(p, "fetching", "stopping")
    /\ HangUp(p)
    /\ UNCHANGED <<seen, before, record, asked, stuck, got, have, removed, taken>>

(* reclaim_partial_blobs counts the pulls whose record says RUNNING, its   *)
(* own among them as a rule ...                                            *)
Count(p) ==
    /\ Goes(p, "stopping", IF Cardinality(Running) > 1 THEN "stopped" ELSE "reclaiming")
    /\ UNCHANGED <<seen, before, record, asked, stuck, checked, engineVars, taken>>

Victims(p) == {q \in Pulls \ {p} : engine[q] = "pulling" /\ got[NameOf[q]] > 0}

(* ... asks docker where the weights are, and deletes every partial file,  *)
(* or none when docker does not say.                                       *)
Reclaim(p) ==
    /\ Goes(p, "reclaiming", "stopped")
    /\ \/ /\ got' = [n \in Names |-> 0]
          /\ lost' = lost \cup Victims(p)
       \/ UNCHANGED <<got, lost>>
    /\ UNCHANGED <<seen, before, record, asked, stuck, checked, engine, have, removed, taken>>

(* A last line that cannot be written leaves the record without an ending. *)
Closed(p, ending) ==
    \/ record[p] = "running" /\ \E e \in {ending, "abandoned"} : record' = [record EXCEPT ![p] = e]
    \/ record[p] # "running" /\ UNCHANGED record

(* The record is closed, if there is one, and the claim let go.            *)
Close(p) ==
    /\ \/ Goes(p, "whole", "over") /\ Closed(p, "succeeded")
       \/ Goes(p, "stopped", "over") /\ Closed(p, "cancelled")
       \/ Goes(p, "failing", "over") /\ Closed(p, "failed")
    /\ Forget(p)
    /\ UNCHANGED <<stuck, checked, engineVars, taken>>

-----------------------------------------------------------------------------
(* The client                                                              *)

Sends == {"whole", "stopped", "failing"}

(* A client that stays and does not read: the channel fills, and the send  *)
(* after the line just read, or one at the end, waits.                     *)
Stall(p) ==
    /\ p \in Slow
    /\ Reading(p) \/ pc[p] \in Sends
    /\ stuck' = stuck \cup {p}
    /\ UNCHANGED <<pc, seen, before, record, asked, checked, engineVars, taken>>

(* It reads again, or hangs up.                                            *)
Drain(p) ==
    /\ p \in stuck
    /\ stuck' = stuck \ {p}
    /\ UNCHANGED <<pc, seen, before, record, asked, checked, engineVars, taken>>

-----------------------------------------------------------------------------
(* The engine                                                              *)

(* A write; it fails on a full disk, and on layers deleted underneath it.  *)
EngineWrites(p) ==
    LET n == NameOf[p]
    IN  /\ engine[p] = "pulling" /\ p \in checked /\ n \notin have
        /\ \/ /\ p \in lost \/ Free = 0
              /\ engine' = [engine EXCEPT ![p] = "error"]
              /\ UNCHANGED got
           \/ /\ p \notin lost /\ Free > 0 /\ got[n] < Size
              /\ got' = [got EXCEPT ![n] = @ + 1]
              /\ UNCHANGED engine
        /\ UNCHANGED <<pullVars, lost, have, removed, taken>>

(* The last layer is renamed, or the model was there all along.            *)
EngineFinishes(p) ==
    LET n == NameOf[p]
    IN  /\ engine[p] = "pulling" /\ p \in checked
        /\ n \in have \/ got[n] = Size
        /\ p \notin lost
        /\ engine' = [engine EXCEPT ![p] = "whole"]
        /\ have' = have \cup {n} /\ removed' = removed \ {n}
        /\ got' = [got EXCEPT ![n] = 0]
        /\ UNCHANGED <<pullVars, lost, taken>>

(* A registry that cannot be reached, a name nobody knows.                 *)
EngineRefuses(p) ==
    /\ engine[p] = "pulling"
    /\ engine' = [engine EXCEPT ![p] = "error"]
    /\ UNCHANGED <<pullVars, got, lost, have, removed, taken>>

EngineDies ==
    /\ \E p \in Pulls : engine[p] = "pulling"
    /\ engine' = [p \in Pulls |-> IF engine[p] = "pulling" THEN "dead" ELSE engine[p]]
    /\ UNCHANGED <<pullVars, got, lost, have, removed, taken>>

(* DeleteModel: one request to the engine, whoever is pulling that model.  *)
(* It fails, and changes nothing, for a model the engine does not list.    *)
DeleteModel(n) ==
    /\ n \in have
    /\ have' = have \ {n}
    /\ removed' = removed \cup {n}
    /\ UNCHANGED <<pullVars, engine, got, lost, taken>>

(* Everything else on the host writes to the volume, and frees it.         *)
OthersWrite ==
    /\ Free > 0
    /\ taken' = taken + 1
    /\ UNCHANGED <<pullVars, engineVars>>

OthersFree ==
    /\ taken > 0
    /\ taken' = taken - 1
    /\ UNCHANGED <<pullVars, engineVars>>

-----------------------------------------------------------------------------
Daemon(p) ==
    /\ p \notin stuck
    /\ \/ Claim(p) \/ Open(p) \/ Connect(p) \/ CheckSpace(p) \/ End(p)
       \/ Stop(p) \/ Count(p) \/ Reclaim(p) \/ Close(p)

Engine == EngineDies \/ \E p \in Pulls : EngineWrites(p) \/ EngineFinishes(p) \/ EngineRefuses(p)

Next ==
    \/ \E p \in Pulls : Look(p) \/ NoEngine(p) \/ Daemon(p) \/ Prune(p) \/ AskToStop(p) \/ Stall(p) \/ Drain(p)
    \/ \E n \in Names : DeleteModel(n)
    \/ Engine \/ OthersWrite \/ OthersFree

(* The runtime polls a run whenever it can go on, and a client in the end  *)
(* reads or hangs up; of the engine nothing is assumed.                    *)
Spec == Init /\ [][Next]_vars /\ \A p \in Pulls : SF_vars(Daemon(p)) /\ WF_vars(Drain(p))

-----------------------------------------------------------------------------
(* Properties                                                              *)

(* A record that says SUCCEEDED is of a model the engine has whole: every  *)
(* verb's own word for "the work is done" (jobs.rs:190-194), or has been   *)
(* told to delete since.  The one exception is an engine that went away,   *)
(* whose response just ends.                                               *)
SucceededMeansWhole ==
    \A p \in Pulls : record[p] = "succeeded" => NameOf[p] \in have \cup removed \/ engine[p] = "dead"

(* A pull that is told to stop comes to its end, whatever the engine does: *)
(* the stop races the read (models.rs:374-387).  It does not race the send *)
(* after a read, so a client that stays must in the end read its stream.   *)
StopIsObeyed == \A p \in Pulls : p \in asked ~> pc[p] = "over"

(* A model the disk cannot hold is refused before the disk fills           *)
(* (models.rs:276, 325-333).  What the pull compares is the space it saw   *)
(* before its claim, minutes ago: the disk fills under a pull that was let *)
(* through only when all else on it, whole and partial models of other     *)
(* pulls included, has grown by the whole margin since that look.          *)
OnlyOthersFillTheDisk ==
    \A p \in checked :
        engine[p] = "pulling" /\ Free = 0 => AllElse(p) >= before[p] + Margin
=============================================================================
