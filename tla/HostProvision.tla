---------------------------- MODULE HostProvision ----------------------------
(***************************************************************************)
(* ProvisionHost (install/execute.rs): the verb of an install's last part, *)
(* which answers once instead of streaming.  It narrates into the bounded  *)
(* channel an install streams from, and reads that channel when everything *)
(* is done.  One of its steps may install the intrusion defence, which     *)
(* sends every line of the package manager the same way.                   *)
(***************************************************************************)
EXTENDS Naturals

CONSTANTS
    Capacity,  \* of the channel; 64 in the code
    MaxOwn,    \* what the handler narrates of its own, less than that
    MaxLines   \* what the package manager prints at most

VARIABLES
    at,      \* where the handler is
    queue,   \* events in the channel
    own,     \* steps the handler has still to narrate
    lines,   \* lines the child has still to print
    child    \* the package manager

vars == <<at, queue, own, lines, child>>

TypeOK ==
    /\ at \in {"narrating", "installing", "warning", "draining", "answered", "dropped"}
    /\ queue \in 0..Capacity /\ own \in 0..MaxOwn /\ lines \in 0..MaxLines
    /\ child \in {"none", "runs", "over"}

Init ==
    /\ at = "narrating" /\ queue = 0 /\ child = "none"
    /\ own \in 0..MaxOwn /\ lines \in 0..MaxLines

(* EventSink::send waits for room.                                         *)
Send == queue < Capacity /\ queue' = queue + 1

(* The surface's own steps, before the defence and after it.               *)
Narrate ==
    /\ at = "narrating" /\ own > 0 /\ Send
    /\ own' = own - 1
    /\ UNCHANGED <<at, lines, child>>

(* The defence is installed where it is wanted and missing; at the end the *)
(* notes are gathered.                                                     *)
Surfaced ==
    /\ at = "narrating"
    /\ \/ child = "none" /\ at' = "installing" /\ child' = "runs"
       \/ own = 0 /\ at' = "draining" /\ UNCHANGED child
    /\ UNCHANGED <<queue, own, lines>>

(* run_child_streaming: a line is read when the one before was sent.       *)
ReadLine ==
    /\ at = "installing" /\ lines > 0 /\ Send
    /\ lines' = lines - 1
    /\ UNCHANGED <<at, own, child>>

Reap ==
    /\ at = "installing" /\ lines = 0
    /\ at' \in {"narrating", "warning"} /\ child' = "over"
    /\ UNCHANGED <<queue, own, lines>>

(* The deadline of the child covers the sends of its lines, and nothing    *)
(* covers the warning that follows.                                        *)
Deadline ==
    /\ at = "installing"
    /\ at' = "warning" /\ child' = "over" /\ lines' = 0
    /\ UNCHANGED <<queue, own>>

Warn == at = "warning" /\ Send /\ at' = "narrating" /\ UNCHANGED <<own, lines, child>>

(* drain_notes, and the response.                                          *)
Answer ==
    /\ at = "draining"
    /\ at' = "answered" /\ queue' = 0
    /\ UNCHANGED <<own, lines, child>>

(* A client that leaves takes the handler with it.                         *)
HangUp ==
    /\ at \notin {"answered", "dropped"}
    /\ at' = "dropped" /\ child' = (IF child = "runs" THEN "over" ELSE child)
    /\ UNCHANGED <<queue, own, lines>>

(* The handler goes on as long as it can; a client need not hang up.       *)
Advance == Narrate \/ Surfaced \/ ReadLine \/ Reap \/ Deadline \/ Warn \/ Answer

Next == Advance \/ HangUp

Spec == Init /\ [][Next]_vars /\ WF_vars(Advance)

(* ProvisionHost is over sooner or later: the client has its answer, or    *)
(* has left (install/execute.rs:2410-2415, proto: "there is no             *)
(* long-running work to report progress about").                           *)
AnswersInTheEnd == <>(at \in {"answered", "dropped"})
=============================================================================
