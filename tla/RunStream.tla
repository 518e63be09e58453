------------------------------ MODULE RunStream ------------------------------
(***************************************************************************)
(* One wrapper-driven verb and the stream it narrates into (restore.rs,    *)
(* and the same shape in update.rs, backup.rs, uninstall.rs, control.rs    *)
(* and containers.rs; ChannelBody of api.rs): a spawned run                *)
(* reads a child's output under one deadline, tees every event into the    *)
(* journal, if it has one, and sends it down a bounded channel, out of which the response  *)
(* body feeds a client that reads at its own pace or hangs up.             *)
(*                                                                         *)
(* Only the number of lines waiting in the pipes of stdout and stderr is   *)
(* kept.  Time is not: the deadline may strike at any moment.              *)
(***************************************************************************)
EXTENDS Naturals, Sequences

CONSTANTS
    Capacity,        \* frames the mpsc channel holds (64 in the code)
    PipeCapacity,    \* lines the operating system's pipe holds
    MaxLines         \* bound: lines the child prints

ASSUME StreamAssumption ==
    Capacity \in Nat \ {0} /\ PipeCapacity \in Nat \ {0} /\ MaxLines \in Nat

VARIABLES
    pc,        \* where the spawned run stands
    pending,   \* the frame whose send the run is awaiting, or "none"
    child,     \* the wrapper process
    printed,   \* lines it has printed
    pipe,      \* lines printed and not read yet
    shut,      \* reading ends (of stdout, of stderr) the run has let go
    outcome,   \* what the run makes of it all
    narrated,  \* data events the run has told, given to the journal first
    record,    \* the journal: none, open, or how it was closed
    chan,      \* the channel
    dropped,   \* the sending half is gone
    client,    \* the receiving half: reading or gone
    received   \* frames the client has got

runVars    == <<pc, pending, outcome, narrated, record, dropped>>
childVars  == <<child, printed, pipe, shut>>
clientVars == <<client, received>>
vars == <<runVars, childVars, chan, clientVars>>

Events   == {"started", "progress", "completed"}
Trailers == {"error", "success"}

TypeOK ==
    /\ pc \in {"start", "spawning", "streaming", "rereading", "reported", "dropping",
               "closing", "done"}
    /\ pending \in Events \cup {"error", "none"}
    /\ child \in {"none", "running", "done", "unmarked", "failed", "killed", "sigpipe"}
    /\ printed \in 0..MaxLines
    /\ pipe \in 0..PipeCapacity
    /\ shut \in 0..2
    /\ outcome \in {"undecided", "ok", "failed", "panicked"}
    /\ narrated \in Nat
    /\ record \in {"none", "open", "succeeded", "failed", "unended"}
    /\ chan \in Seq(Events \cup {"error"}) /\ Len(chan) <= Capacity
    /\ dropped \in BOOLEAN
    /\ client \in {"reading", "gone"}
    /\ received \in Seq(Events \cup Trailers)

Init ==
    /\ pc = "start" /\ pending = "none"
    /\ child = "none" /\ printed = 0 /\ pipe = 0 /\ shut = 0
    /\ outcome = "undecided" /\ narrated = 0 /\ record = "none"
    /\ chan = <<>> /\ dropped = FALSE
    /\ client = "reading" /\ received = <<>>

-----------------------------------------------------------------------------
(* The run                                                                 *)

(* EventSink::send: the event is on record before it is on the wire.       *)
Tell(event, stage) ==
    /\ narrated' = narrated + 1
    /\ pending' = event
    /\ pc' = stage

(* Slips: a frame that is dropped when there is no room; a send that waits *)
(* for a client to come back.                                              *)
DeliverOrDrop ==
    /\ pending # "none"
    /\ pending' = "none"
    /\ chan' = IF client # "gone" /\ Len(chan) < Capacity THEN Append(chan, pending) ELSE chan
    /\ UNCHANGED <<pc, outcome, narrated, record, dropped, childVars, clientVars>>

DeliverToReader ==
    /\ pending # "none"
    /\ client # "gone" /\ Len(chan) < Capacity
    /\ pending' = "none" /\ chan' = Append(chan, pending)
    /\ UNCHANGED <<pc, outcome, narrated, record, dropped, childVars, clientVars>>

(* tx.send(..).await: waits for room; a client that is gone is no error.   *)
Deliver ==
    /\ pending # "none"
    /\ pending' = "none"
    /\ \/ client = "gone" /\ UNCHANGED chan
       \/ client # "gone" /\ Len(chan) < Capacity /\ chan' = Append(chan, pending)
    /\ UNCHANGED <<pc, outcome, narrated, record, dropped, childVars, clientVars>>

At(stage) == pc = stage /\ pending = "none"

(* A run whose journal cannot be opened goes on without one (jobs.rs:208-   *)
(* 229).                                                                   *)
Start ==
    /\ At("start")
    /\ record' \in {"open", "none"}
    /\ Tell("started", "spawning")
    /\ UNCHANGED <<outcome, dropped, childVars, chan, clientVars>>

Spawn ==
    /\ At("spawning")
    /\ child' = "running" /\ pc' = "streaming"
    /\ UNCHANGED <<pending, outcome, narrated, record, dropped, printed, pipe, shut,
                   chan, clientVars>>

SpawnFails ==
    /\ At("spawning")
    /\ outcome' = "failed" /\ pc' = "rereading"
    /\ UNCHANGED <<pending, narrated, record, dropped, childVars, chan, clientVars>>

ReadLine ==
    /\ At("streaming") /\ pipe > 0
    /\ pipe' = pipe - 1
    /\ Tell("progress", "streaming")
    /\ UNCHANGED <<outcome, record, dropped, child, printed, shut, chan, clientVars>>

(* next_line fails on a line that is not UTF-8: the reader is dropped, and *)
(* with it the reading end of its pipe and whatever that one still holds.  *)
ReadGarbled ==
    /\ At("streaming") /\ pipe > 0 /\ shut < 2
    /\ shut' = shut + 1
    /\ pipe' \in IF shut = 1 THEN {0} ELSE 0 .. (pipe - 1)
    /\ UNCHANGED <<runVars, child, printed, chan, clientVars>>

(* Slip: the exit status alone decides.                                    *)
ReapByStatus ==
    /\ At("streaming") /\ pipe = 0 /\ child # "running"
    /\ outcome' = IF child \in {"done", "unmarked"} THEN "ok" ELSE "failed"
    /\ pc' = "rereading"
    /\ UNCHANGED <<pending, narrated, record, dropped, childVars, chan, clientVars>>

(* Both pipes at their end and the child reaped: success needs its exit    *)
(* status and the marker it prints last, read from a pipe still open.      *)
Reap ==
    /\ At("streaming") /\ pipe = 0 /\ child # "running"
    /\ \/ child = "done" /\ shut < 2 /\ outcome' = "ok"
       \/ (child # "done" \/ shut > 0) /\ outcome' = "failed"
    /\ pc' = "rereading"
    /\ UNCHANGED <<pending, narrated, record, dropped, childVars, chan, clientVars>>

(* The one deadline of the whole run: the read loop is dropped, a send it  *)
(* was waiting in with it, and so is the child (kill_on_drop).             *)
Timeout ==
    /\ pc = "streaming"
    /\ child' = IF child = "running" THEN "killed" ELSE child
    /\ outcome' = "failed" /\ pending' = "none" /\ pc' = "rereading"
    /\ UNCHANGED <<narrated, record, dropped, printed, pipe, shut, chan, clientVars>>

(* The status is read again and told with COMPLETED, or its failure is.    *)
ReRead ==
    /\ At("rereading")
    /\ outcome' \in {outcome, "failed"}
    /\ Tell("completed", "reported")
    /\ UNCHANGED <<record, dropped, childVars, chan, clientVars>>

(* Inner::close: the first call closes the journal for good, whether its   *)
(* last line could be written or not.                                      *)
Closed(ending) == record' \in IF record = "open" THEN {ending, "unended"} ELSE {record}

(* EventSink::fail: the record first, then the trailer, which waits for no *)
(* word of how the record went.                                            *)
Fail ==
    /\ At("reported") /\ outcome = "failed"
    /\ Closed("failed")
    /\ pending' = "error" /\ pc' = "dropping"
    /\ UNCHANGED <<outcome, narrated, dropped, childVars, chan, clientVars>>

Succeed ==
    /\ At("reported") /\ outcome = "ok"
    /\ pc' = "dropping"
    /\ UNCHANGED <<pending, outcome, narrated, record, dropped, childVars, chan, clientVars>>

(* The sink's fields are dropped in their order: the sender ...            *)
DropSender ==
    /\ At("dropping")
    /\ dropped' = TRUE /\ pc' = "closing"
    /\ UNCHANGED <<pending, outcome, narrated, record, childVars, chan, clientVars>>

(* ... and then the journal, which reads success off COMPLETED.            *)
DropJournal ==
    /\ At("closing")
    /\ Closed(IF outcome = "ok" THEN "succeeded" ELSE "failed")
    /\ pc' = "done"
    /\ UNCHANGED <<pending, outcome, narrated, dropped, childVars, chan, clientVars>>

(* The task unwinds: no COMPLETED and no trailer of its own.               *)
Panic ==
    /\ pc \in {"streaming", "rereading"} /\ pending = "none"
    /\ outcome' = "panicked"
    /\ child' = IF child = "running" THEN "killed" ELSE child
    /\ pc' = "dropping"
    /\ UNCHANGED <<pending, narrated, record, dropped, printed, pipe, shut, chan, clientVars>>

-----------------------------------------------------------------------------
(* The child                                                               *)

Prints ==
    /\ child = "running" /\ printed < MaxLines
    /\ printed' = printed + 1
    /\ \/ shut < 2 /\ pipe < PipeCapacity /\ pipe' = pipe + 1 /\ UNCHANGED child
       \/ shut > 0 /\ child' = "sigpipe" /\ UNCHANGED pipe
    /\ UNCHANGED <<runVars, shut, chan, clientVars>>

(* It exits: 0 with the marker or without it, or with another status.      *)
Exit ==
    /\ child = "running"
    /\ child' \in {"done", "unmarked", "failed"}
    /\ UNCHANGED <<runVars, printed, pipe, shut, chan, clientVars>>

-----------------------------------------------------------------------------
(* The response body and its client                                        *)

(* ChannelBody::poll_frame with a frame to yield.                          *)
Poll ==
    /\ client = "reading" /\ chan # <<>>
    /\ received' = Append(received, Head(chan))
    /\ chan' = Tail(chan)
    /\ UNCHANGED <<runVars, childVars, client>>

TrailerSent == \E i \in DOMAIN received : received[i] \in Trailers

(* Slip: every body ends with the success trailer.                         *)
EndOfEveryBody ==
    /\ client = "reading" /\ chan = <<>> /\ dropped
    /\ "success" \notin {received[i] : i \in DOMAIN received}
    /\ received' = Append(received, "success")
    /\ UNCHANGED <<runVars, childVars, chan, client>>

(* ChannelBody::poll_frame at the end of the channel: the success trailer, *)
(* unless a trailer has gone through already.                              *)
EndOfBody ==
    /\ client = "reading" /\ chan = <<>> /\ dropped
    /\ ~TrailerSent
    /\ received' = Append(received, "success")
    /\ UNCHANGED <<runVars, childVars, chan, client>>

HangUp ==
    /\ client = "reading" /\ ~TrailerSent
    /\ client' = "gone" /\ chan' = <<>>
    /\ UNCHANGED <<runVars, childVars, received>>

-----------------------------------------------------------------------------
RunStep ==
    \/ Start \/ Deliver \/ Spawn \/ SpawnFails \/ ReadLine \/ ReadGarbled \/ Reap \/ Timeout
    \/ ReRead \/ Fail \/ Succeed \/ DropSender \/ DropJournal \/ Panic

ClientStep == Poll \/ EndOfBody \/ HangUp

Next == RunStep \/ Prints \/ Exit \/ ClientStep

(* The host polls the run and the deadline strikes in the end; nothing is  *)
(* assumed of the child.  The client goes on reading until it hangs up: one *)
(* that stops reading and stays connected holds the run for ever, since    *)
(* the sends outside the read loop have no deadline (restore.rs:297-311).  *)
AttentiveSpec == Init /\ [][Next]_vars /\ WF_vars(RunStep) /\ WF_vars(ClientStep)

-----------------------------------------------------------------------------
(* Properties                                                              *)

(* Every stream ends with one end-of-stream envelope and nothing after it, *)
(* whoever produced it (api.rs:869-936).                                   *)
OneTrailerLast ==
    \A i \in DOMAIN received : received[i] \in Trailers => i = Len(received)

(* The trailer is the run's exit status on the wire, and it and the record *)
(* never contradict each other (api.rs:924-936, restore.rs:300-311,        *)
(* 461-468): it is empty only when the wrapper ran to its marker and the   *)
(* status could be read again, of which no record says FAILED; an error is *)
(* only told by a run that failed, whose record is no longer RUNNING and   *)
(* will never be SUCCEEDED, though where its last line was not written, or *)
(* there is no record, it is not FAILED either.  A task that unwinds sends *)
(* none, and its stream ends like a success.                               *)
TrailerTruthful ==
    \A i \in DOMAIN received :
        /\ received[i] = "success" /\ outcome # "panicked" =>
               outcome = "ok" /\ child = "done" /\ record # "failed"
        /\ received[i] = "error" => outcome = "failed" /\ record \notin {"open", "succeeded"}

(* A client whose stream ended has every line the run told but one at      *)
(* most, the line whose send the deadline cut short; and every line when   *)
(* it is told of a success that was one (restore.rs:349-389, 437-441).     *)
SeenBeforeTrailer ==
    \A i \in DOMAIN received :
        /\ received[i] \in Trailers => i \in {narrated, narrated + 1}
        /\ received[i] = "success" /\ outcome = "ok" => i = narrated + 1

(* The run comes to its end, journal closed and claim released, and the    *)
(* client that stayed is told how.                                         *)
RunEnds == <>[](pc = "done" /\ (client = "gone" \/ TrailerSent))
=============================================================================
