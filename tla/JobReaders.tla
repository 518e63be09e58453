----------------------------- MODULE JobReaders -----------------------------
(***************************************************************************)
(* Whoever asks about a run while it goes on: followers of WatchJob and    *)
(* clients of ListJobs and CancelJob (jobs.rs), composed with the runs of  *)
(* Jobs.  No reader takes a lock over its whole question: the journal file *)
(* is read first and the RUNNING map, the switch or the file again later,  *)
(* and the run moves on in between.                                        *)
(***************************************************************************)
EXTENDS Jobs

CONSTANTS
    Watchers,    \* streams of WatchJob
    Clients,     \* requests of ListJobs and CancelJob
    FromSequence \* the from_sequence values a watcher may ask for

ASSUME ReadersAssumption == FromSequence \subseteq Nat

VARIABLES
    watcher,     \* watcher[w]: one follow task and the stream it feeds
    client,      \* client[k]: one unary request
    told         \* told[r]: the ending some client was told of (history)

readers == <<watcher, client, told>>
allVars == <<vars, readers>>

Outcomes == (Endings \ {"none"}) \cup {"running", "abandoned"}

Watcher == [at : {"idle", "reading", "checking", "over", "left"},
            job : Runs \cup {"none"}, next : Nat, from : Nat, seen : SUBSET Nat,
            trailer : {"none", "ok", "internal", "aborted"}]

Client == [at : {"idle", "judging", "asking", "waiting", "rejudging", "answered"},
           verb : {"none", "list", "cancel"}, job : Runs \cup {"none"},
           saw : Endings, heard : Endings,
           answer : Outcomes \cup {"none", "not_found", "failed_precondition"}]

NoWatcher == [at |-> "idle", job |-> "none", next |-> 0, from |-> 0, seen |-> {},
              trailer |-> "none"]
NoClient  == [at |-> "idle", verb |-> "none", job |-> "none", saw |-> "none",
              heard |-> "none", answer |-> "none"]

ReadersTypeOK ==
    /\ TypeOK
    /\ watcher \in [Watchers -> Watcher]
    /\ client \in [Clients -> Client]
    /\ told \in [Runs -> Endings]

ReadersInit ==
    /\ Init
    /\ watcher = [w \in Watchers |-> NoWatcher]
    /\ client = [k \in Clients |-> NoClient]
    /\ told = [r \in Runs |-> "none"]

-----------------------------------------------------------------------------
(* WatchJob                                                                *)

(* run_watch_job: refused unless there is a record, else a follow task.    *)
Watch(w, r) ==
    /\ watcher[w].at = "idle"
    /\ Readable(file[r])
    /\ \E from \in FromSequence :
          watcher' = [watcher EXCEPT ![w] = [NoWatcher EXCEPT !.at = "reading", !.job = r,
                                                 !.next = from, !.from = from]]
    /\ UNCHANGED <<vars, client, told>>

(* Slips: the failure of a closed record is not put into the trailer; the  *)
(* first line asked for is taken to be one the watcher has.                *)
ReadWithoutFailure(w) ==
    LET me == watcher[w]  f == file[me.job] IN
    /\ me.at = "reading"
    /\ watcher' = [watcher EXCEPT ![w] =
          IF f.ending # "none" THEN [me EXCEPT !.at = "over", !.trailer = "ok"]
          ELSE [me EXCEPT !.at = "checking"]]
    /\ UNCHANGED <<vars, client, told>>

ReadOffByOne(w) ==
    LET me    == watcher[w]
        f     == file[me.job]
        fresh == {n \in f.events : n > me.next}
    IN
    /\ me.at = "reading"
    /\ watcher' = [watcher EXCEPT ![w] =
          [me EXCEPT !.seen = @ \cup fresh,
                     !.next = IF fresh = {} THEN @ ELSE CHOOSE n \in fresh : \A m \in fresh : m <= n,
                     !.at = IF f.ending = "none" THEN "checking" ELSE "over",
                     !.trailer = IF f.ending = "failed" THEN "internal"
                                 ELSE IF f.ending # "none" THEN "ok" ELSE @]]
    /\ UNCHANGED <<vars, client, told>>

(* A follower that delivered every line of record f below next, and took   *)
(* the end line, if there is one, for the end of its stream.               *)
ReadUpTo(me, f, next) ==
    [me EXCEPT !.seen = @ \cup {n \in f.events : n >= me.next},
               !.next = next,
               !.at = IF f.ending = "none" THEN "checking" ELSE "over",
               !.trailer = IF f.ending = "none" THEN @
                           ELSE IF f.ending = "failed" THEN "internal" ELSE "ok"]

(* follow, the file: deliver what is new; an ending ends the stream, with  *)
(* the failure in its trailer, and so does a record that was pruned.       *)
ReadJournal(w) ==
    LET me    == watcher[w]
        f     == file[me.job]
        fresh == {n \in f.events : n >= me.next}
    IN
    /\ me.at = "reading"
    /\ \/ /\ ~Readable(f)
          /\ watcher' = [watcher EXCEPT ![w] = [me EXCEPT !.at = "over", !.trailer = "ok"]]
       \/ /\ Readable(f)
          /\ \E next \in {me.next} \cup {n + 1 : n \in fresh} :
                /\ \A n \in fresh : n < next
                /\ watcher' = [watcher EXCEPT ![w] = ReadUpTo(me, f, next)]
    /\ UNCHANGED <<vars, client, told>>

(* Slip: no look at the map at all.                                        *)
CheckNothing(w) ==
    /\ watcher[w].at = "checking"
    /\ watcher' = [watcher EXCEPT ![w].at = "reading"]
    /\ UNCHANGED <<vars, client, told>>

(* follow, the map: an open journal nobody writes to ends the stream as    *)
(* aborted; otherwise the follower sleeps and reads again.                 *)
CheckRunning(w) ==
    /\ watcher[w].at = "checking"
    /\ watcher' = [watcher EXCEPT ![w] =
          IF @.job \in running THEN [@ EXCEPT !.at = "reading"]
          ELSE [@ EXCEPT !.at = "over", !.trailer = "aborted"]]
    /\ UNCHANGED <<vars, client, told>>

(* The watcher hangs up: the next send fails and the task returns.         *)
HangUp(w) ==
    /\ watcher[w].at \in {"reading", "checking"}
    /\ watcher' = [watcher EXCEPT ![w].at = "left"]
    /\ UNCHANGED <<vars, client, told>>

-----------------------------------------------------------------------------
(* ListJobs and CancelJob                                                  *)

Answer(k, what) ==
    /\ client' = [client EXCEPT ![k].at = "answered", ![k].answer = what]
    /\ told' = IF what \in Endings THEN [told EXCEPT ![client[k].job] = what] ELSE told

(* job(), the file: no record, or what the record says so far.             *)
Look(k, r, verb) ==
    LET asks == [NoClient EXCEPT !.verb = verb, !.job = r, !.heard = told[r]] IN
    /\ client[k].at \in {"idle", "answered"}
    /\ client' = [client EXCEPT ![k] =
          IF Readable(file[r]) THEN [asks EXCEPT !.at = "judging", !.saw = file[r].ending]
          ELSE [asks EXCEPT !.at = "answered", !.answer = "not_found"]]
    /\ UNCHANGED <<vars, watcher, told>>

(* job(), the map: a listing is answered, and so is the cancel of a run    *)
(* that is not RUNNING.                                                    *)
Judge(k) ==
    LET outcome == OutcomeOf(client[k].saw, client[k].job \in running) IN
    /\ client[k].at = "judging"
    /\ \/ client[k].verb = "cancel" /\ outcome = "running"
          /\ client' = [client EXCEPT ![k].at = "asking"]
          /\ UNCHANGED told
       \/ ~(client[k].verb = "cancel" /\ outcome = "running")
          /\ Answer(k, outcome)
    /\ UNCHANGED <<vars, watcher>>

(* ask_to_stop: flips the switch, or finds none.                           *)
Ask(k) ==
    LET r == client[k].job IN
    /\ client[k].at = "asking"
    /\ r \in switches
    /\ AskToStop(r)
    /\ client' = [client EXCEPT ![k].at = "waiting"]
    /\ UNCHANGED <<watcher, told>>

CannotStop(k) ==
    /\ client[k].at = "asking"
    /\ client[k].job \notin switches
    /\ Answer(k, "failed_precondition")
    /\ UNCHANGED <<vars, watcher>>

(* The wait is over, by the end of the run or after five seconds, and the  *)
(* file is read again; a pruned record leaves the first answer, RUNNING.   *)
LookAgain(k) ==
    LET r == client[k].job IN
    /\ client[k].at = "waiting"
    /\ \/ /\ Readable(file[r])
          /\ client' = [client EXCEPT ![k].at = "rejudging", ![k].saw = file[r].ending]
          /\ UNCHANGED told
       \/ /\ ~Readable(file[r])
          /\ Answer(k, "running")
    /\ UNCHANGED <<vars, watcher>>

JudgeAgain(k) ==
    /\ client[k].at = "rejudging"
    /\ Answer(k, OutcomeOf(client[k].saw, client[k].job \in running))
    /\ UNCHANGED <<vars, watcher>>

-----------------------------------------------------------------------------
WatchStep(w)  == ReadJournal(w) \/ CheckRunning(w)
ClientStep(k) == Judge(k) \/ Ask(k) \/ CannotStop(k) \/ LookAgain(k) \/ JudgeAgain(k)

(* The process dies with every stream and request it serves.               *)
RestartAll ==
    /\ Restart
    /\ watcher' = [w \in Watchers |-> NoWatcher]
    /\ client' = [k \in Clients |-> NoClient]
    /\ UNCHANGED told

ReadersNext ==
    \/ RestartAll
    \/ \E r \in Runs : RunStep(r) /\ UNCHANGED readers
    \/ \E w \in Watchers : WatchStep(w) \/ HangUp(w) \/ \E r \in Runs : Watch(w, r)
    \/ \E k \in Clients : \/ ClientStep(k)
                          \/ \E r \in Runs, verb \in {"list", "cancel"} : Look(k, r, verb)

(* Tasks are polled.  Nobody has to ask, to read or to hang up: a follower *)
(* waits in its send for a watcher that stays and does not read, without a *)
(* deadline (jobs.rs:651), and so has no fairness of its own.              *)
ReadersSpec ==
    /\ ReadersInit /\ [][ReadersNext]_allVars
    /\ \A r \in Runs : WF_allVars(RunStep(r) /\ ~Waits(r) /\ UNCHANGED readers)
    /\ \A k \in Clients : WF_allVars(ClientStep(k))

-----------------------------------------------------------------------------
(* Properties                                                              *)

(* The head line is a record's first and is written once: a record without *)
(* it was pruned, and at best begun again by a line that came late.        *)
Forgotten(r) == ~file[r].headed

(* The trailer a follower ends with tells how the work went: a failure     *)
(* rides it, a success or an obeyed stop leaves it empty, and so does a    *)
(* record that was pruned under the follower (jobs.rs:641-681).            *)
TrailerTruthful ==
    \A w \in Watchers :
        LET r == watcher[w].job IN
        /\ watcher[w].trailer = "ok"
              => truth[r] \in {"succeeded", "stopped"} \/ Forgotten(r)
        /\ watcher[w].trailer = "internal" => truth[r] \in {"failed", "panicked"}

(* A stream that ends with the run has delivered every line the run had    *)
(* narrated from the asked sequence on, however reads and writes           *)
(* interleaved.  Lines sent after the end line are not promised, nor those *)
(* of a record that was pruned meanwhile.                                  *)
NothingMissed ==
    \A w \in Watchers :
        LET me == watcher[w] IN
        me.trailer \in {"ok", "internal"} /\ me.job \notin Trailing /\ ~Forgotten(me.job)
            => me.seen = {n \in file[me.job].events : n >= me.from}

(* Answers about one run never contradict each other: whoever asks after   *)
(* somebody was told of an ending is told of the same one, or that the     *)
(* record is gone, although file and map are read at different moments     *)
(* (jobs.rs:503-521, 566-571).  A line that comes late to a pruned record  *)
(* begins it again without its ending.                                     *)
AnswersAgree ==
    \A k \in Clients :
        client[k].at = "answered" /\ client[k].heard # "none"
            => client[k].answer \in {client[k].heard, "not_found"} \/ Forgotten(client[k].job)

(* Once a run is out of RUNNING for good, by its end or its process's, no  *)
(* follower whose watcher goes on reading follows its file for ever,       *)
(* whether the file was ended or not (jobs.rs:638-680).                    *)
WatchersEnd ==
    \A w \in Watchers :
        LET Following == watcher[w].at \in {"reading", "checking"} IN
        WF_allVars(WatchStep(w)) =>
            (Following /\ pc[watcher[w].job] \in {"sealed", "trailed", "leaving", "done", "dead"}
                ~> ~Following)
=============================================================================
