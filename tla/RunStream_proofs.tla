--------------------------- MODULE RunStream_proofs ---------------------------
(***************************************************************************)
(* What RunStream guarantees for every capacity of the channel and of the  *)
(* pipe and every number of lines: one trailer, the right one, and nothing *)
(* missing in front of it.                                                 *)
(***************************************************************************)
EXTENDS RunStream, SequenceTheorems, TLAPS

-----------------------------------------------------------------------------
(* Frames in a queue                                                       *)

Has(s, frame) == \E i \in DOMAIN s : s[i] = frame

(* A frame of that kind is in no place but the last.                       *)
OnlyLast(s, kind) == \A i \in DOMAIN s : s[i] \in kind => i = Len(s)

(* A frame sent is behind what was there.                                  *)
LEMMA AppendFrame ==
    ASSUME NEW S, NEW s \in Seq(S), NEW x \in S
    PROVE  /\ Append(s, x) \in Seq(S) /\ Len(Append(s, x)) = Len(s) + 1
           /\ Append(s, x) # <<>>
           /\ \A frame : Has(Append(s, x), frame) <=> Has(s, frame) \/ x = frame
           /\ \A kind : (\A i \in DOMAIN s : s[i] \notin kind) => OnlyLast(Append(s, x), kind)
<1> DEFINE t == Append(s, x)
<1>1. /\ t \in Seq(S) /\ Len(t) = Len(s) + 1 /\ Len(s) \in Nat
      /\ DOMAIN s = 1 .. Len(s) /\ DOMAIN t = 1 .. (Len(s) + 1)
      /\ \A i \in 1 .. Len(s) : t[i] = s[i]
      /\ t[Len(s) + 1] = x
  OBVIOUS
<1>2. t # <<>>
  BY <1>1
<1> HIDE DEF t
<1>3. ASSUME NEW frame
      PROVE  Has(t, frame) <=> Has(s, frame) \/ x = frame
  <2>1. ASSUME Has(t, frame), x # frame
        PROVE  Has(s, frame)
    <3>1. PICK i \in 1 .. (Len(s) + 1) : t[i] = frame
      BY <1>1, <2>1 DEF Has
    <3>2. i \in 1 .. Len(s)
      BY <1>1, <2>1, <3>1
    <3> QED BY <1>1, <3>1, <3>2 DEF Has
  <2>2. ASSUME Has(s, frame)
        PROVE  Has(t, frame)
    <3>1. PICK i \in 1 .. Len(s) : s[i] = frame
      BY <1>1, <2>2 DEF Has
    <3>2. i \in DOMAIN t /\ t[i] = frame
      BY <1>1, <3>1
    <3> QED BY <3>2 DEF Has
  <2>3. x = frame => Has(t, frame)
    <3>1. Len(s) + 1 \in DOMAIN t
      BY <1>1
    <3> QED BY <1>1, <3>1 DEF Has
  <2> QED BY <2>1, <2>2, <2>3
<1>4. ASSUME NEW kind, \A i \in DOMAIN s : s[i] \notin kind
      PROVE  OnlyLast(t, kind)
  <2>1. ASSUME NEW i \in DOMAIN t, t[i] \in kind
        PROVE  i = Len(t)
    <3>1. i \notin 1 .. Len(s)
      BY <1>1, <1>4, <2>1
    <3> QED BY <1>1, <3>1
  <2> QED BY <2>1 DEF OnlyLast
<1> QED BY <1>1, <1>2, <1>3, <1>4 DEF t

(* A frame received was in front of what is left.                          *)
LEMMA TakeFrame ==
    ASSUME NEW S, NEW s \in Seq(S), s # <<>>
    PROVE  /\ Head(s) \in S /\ Tail(s) \in Seq(S) /\ Len(Tail(s)) = Len(s) - 1
           /\ Len(s) \in Nat \ {0}
           /\ \A frame : Has(s, frame) <=> Head(s) = frame \/ Has(Tail(s), frame)
           /\ \A kind : OnlyLast(s, kind) =>
                  /\ OnlyLast(Tail(s), kind)
                  /\ Head(s) \in kind => Tail(s) = <<>>
<1> DEFINE t == Tail(s)
<1>1. /\ t \in Seq(S) /\ Len(s) \in Nat \ {0} /\ Len(t) = Len(s) - 1
      /\ DOMAIN s = 1 .. Len(s) /\ DOMAIN t = 1 .. (Len(s) - 1)
      /\ \A i \in 1 .. (Len(s) - 1) : t[i] = s[i + 1]
      /\ Head(s) = s[1] /\ Head(s) \in S
  <2>1. Len(s) \in Nat /\ DOMAIN s = 1 .. Len(s) /\ Head(s) = s[1] /\ Len(s) # 0
    OBVIOUS
  <2>2. /\ t \in Seq(S) /\ Len(t) = Len(s) - 1 /\ Head(s) \in S
        /\ \A i \in 1 .. Len(t) : t[i] = s[i + 1]
    BY HeadTailProperties
  <2>3. DOMAIN t = 1 .. Len(t)
    BY <2>2
  <2> HIDE DEF t
  <2> QED BY <2>1, <2>2, <2>3
<1>2. Len(t) = 0 => t = <<>>
  BY <1>1, EmptySeq
<1> HIDE DEF t
<1>3. ASSUME NEW frame
      PROVE  Has(s, frame) <=> Head(s) = frame \/ Has(t, frame)
  <2>1. ASSUME Has(s, frame), Head(s) # frame
        PROVE  Has(t, frame)
    <3>1. PICK i \in 1 .. Len(s) : s[i] = frame
      BY <1>1, <2>1 DEF Has
    <3>2. i - 1 \in 1 .. (Len(s) - 1) /\ (i - 1) + 1 = i
      BY <1>1, <2>1, <3>1
    <3>3. i - 1 \in DOMAIN t /\ t[i - 1] = frame
      BY <1>1, <3>1, <3>2
    <3> QED BY <3>3 DEF Has
  <2>2. ASSUME Has(t, frame)
        PROVE  Has(s, frame)
    <3>1. PICK i \in 1 .. (Len(s) - 1) : t[i] = frame
      BY <1>1, <2>2 DEF Has
    <3>2. i + 1 \in DOMAIN s /\ s[i + 1] = frame
      BY <1>1, <3>1
    <3> QED BY <3>2 DEF Has
  <2>3. Head(s) = frame => Has(s, frame)
    BY <1>1 DEF Has
  <2> QED BY <2>1, <2>2, <2>3
<1>4. ASSUME NEW kind, OnlyLast(s, kind)
      PROVE  OnlyLast(t, kind) /\ (Head(s) \in kind => t = <<>>)
  <2>1. ASSUME NEW i \in DOMAIN t, t[i] \in kind
        PROVE  i = Len(t)
    <3>1. i + 1 \in DOMAIN s /\ s[i + 1] \in kind
      BY <1>1, <2>1
    <3>2. i + 1 = Len(s)
      BY <1>4, <3>1 DEF OnlyLast
    <3> QED BY <1>1, <2>1, <3>2
  <2>2. Head(s) \in kind => Len(s) = 1
    BY <1>1, <1>4 DEF OnlyLast
  <2> QED BY <1>1, <1>2, <2>1, <2>2 DEF OnlyLast
<1> QED BY <1>1, <1>3, <1>4 DEF t

-----------------------------------------------------------------------------
(* Types                                                                   *)

Frames == Events \cup {"error"}

LEMMA InitStreamTypeOK == Init => TypeOK
<1>1. <<>> \in Seq(Frames) /\ <<>> \in Seq(Events \cup Trailers) /\ Len(<<>>) = 0
  BY EmptySeq
<1>2. Init => chan \in Seq(Frames) /\ received \in Seq(Events \cup Trailers)
              /\ Len(chan) <= Capacity
  BY <1>1, StreamAssumption DEF Init
<1>3. 0 \in 0 .. MaxLines /\ 0 \in 0 .. PipeCapacity /\ 0 \in 0 .. 2
  BY StreamAssumption
<1>4. Init => /\ printed \in 0 .. MaxLines /\ pipe \in 0 .. PipeCapacity /\ shut \in 0 .. 2
              /\ narrated \in Nat
  BY <1>3 DEF Init
<1>5. Init => /\ pc = "start" /\ pending = "none" /\ child = "none" /\ outcome = "undecided"
              /\ record = "none" /\ dropped = FALSE /\ client = "reading"
  BY DEF Init
<1> QED BY <1>2, <1>4, <1>5 DEF TypeOK, Frames

(* Sends and receives keep the channel within its capacity.                *)
LEMMA ChannelType ==
    ASSUME TypeOK
    PROVE  /\ pending # "none" => /\ pending \in Frames
                                  /\ Append(chan, pending) \in Seq(Frames)
                                  /\ Len(Append(chan, pending)) = Len(chan) + 1
           /\ chan # <<>> => /\ Head(chan) \in Frames
                             /\ Tail(chan) \in Seq(Frames)
                             /\ Len(Tail(chan)) <= Len(chan)
                             /\ Append(received, Head(chan)) \in Seq(Events \cup Trailers)
           /\ Append(received, "success") \in Seq(Events \cup Trailers)
           /\ Len(chan) \in Nat
<1>1. chan \in Seq(Frames) /\ received \in Seq(Events \cup Trailers) /\ Len(chan) \in Nat
  BY DEF TypeOK, Frames
<1>2. pending # "none" => pending \in Frames
  BY DEF TypeOK, Frames
<1>3. chan # <<>> => /\ Head(chan) \in Frames /\ Tail(chan) \in Seq(Frames)
                     /\ Len(Tail(chan)) <= Len(chan)
  BY <1>1, TakeFrame
<1>4. Frames \subseteq Events \cup Trailers /\ "success" \in Events \cup Trailers
  BY DEF Frames, Trailers
<1> QED BY <1>1, <1>2, <1>3, <1>4, AppendFrame

LEMMA NextStreamTypeOK == TypeOK /\ [Next]_vars => TypeOK'
<1> SUFFICES ASSUME TypeOK, [Next]_vars
             PROVE  TypeOK'
  OBVIOUS
<1> USE DEF runVars, childVars, clientVars, At, Tell
<1>1. CASE Start \/ Spawn \/ SpawnFails \/ Reap \/ Timeout \/ ReRead
  BY <1>1 DEF Start, Spawn, SpawnFails, Reap, Timeout, ReRead, TypeOK, Events
<1>2. CASE Fail \/ Succeed \/ DropSender \/ DropJournal \/ Panic
  BY <1>2 DEF Fail, Succeed, DropSender, DropJournal, Closed, Panic, TypeOK
<1>3. CASE ReadLine \/ ReadGarbled \/ Prints \/ Exit
  <2>1. /\ UNCHANGED <<outcome, record, chan, dropped, clientVars>>
        /\ pc' = pc /\ (pending' = pending \/ pending' = "progress")
        /\ narrated' = narrated \/ narrated' = narrated + 1
        /\ child' \in {child, "sigpipe", "done", "unmarked", "failed"}
    BY <1>3 DEF ReadLine, ReadGarbled, Prints, Exit
  <2>2. printed' \in 0 .. MaxLines /\ pipe' \in 0 .. PipeCapacity /\ shut' \in 0 .. 2
    <3>1. CASE ReadLine \/ Exit
      BY <3>1, StreamAssumption DEF ReadLine, Exit, TypeOK
    <3>2. CASE ReadGarbled
      BY <3>2, StreamAssumption DEF ReadGarbled, TypeOK
    <3>3. CASE Prints
      BY <3>3, StreamAssumption DEF Prints, TypeOK
    <3> QED BY <1>3, <3>1, <3>2, <3>3
  <2> QED BY <2>1, <2>2 DEF TypeOK, Events
<1>4. CASE Deliver
  <2>1. chan' \in Seq(Frames) /\ Len(chan') <= Capacity
    <3>1. chan \in Seq(Frames) /\ Len(chan) <= Capacity /\ Len(chan) \in Nat
      BY ChannelType DEF TypeOK, Frames
    <3>2. /\ Append(chan, pending) \in Seq(Frames)
          /\ Len(Append(chan, pending)) = Len(chan) + 1
      BY <1>4, ChannelType DEF Deliver
    <3> QED BY <1>4, <3>1, <3>2, StreamAssumption DEF Deliver
  <2> QED BY <1>4, <2>1 DEF Deliver, TypeOK, Frames
<1>5. CASE Poll
  <2>1. chan' \in Seq(Frames) /\ Len(chan') <= Capacity
        /\ received' \in Seq(Events \cup Trailers)
    <3>1. /\ Tail(chan) \in Seq(Frames) /\ Len(Tail(chan)) <= Len(chan) /\ Len(chan) \in Nat
          /\ Append(received, Head(chan)) \in Seq(Events \cup Trailers)
          /\ Len(Tail(chan)) \in Nat
      BY <1>5, ChannelType DEF Poll
    <3> QED BY <1>5, <3>1, StreamAssumption DEF Poll, TypeOK
  <2> QED BY <1>5, <2>1 DEF Poll, TypeOK, Frames
<1>6. CASE EndOfBody
  BY <1>6, ChannelType DEF EndOfBody, TypeOK
<1>7. CASE HangUp
  BY <1>7, EmptySeq, StreamAssumption DEF HangUp, TypeOK
<1>8. CASE UNCHANGED vars
  BY <1>8 DEF vars, TypeOK
<1> QED BY <1>1, <1>2, <1>3, <1>4, <1>5, <1>6, <1>7, <1>8 DEF Next, RunStep, ClientStep

(* Every variable keeps its type, and the channel never holds more than it *)
(* has room for (api.rs: the mpsc channel of 64).                          *)
THEOREM StreamTypeCorrect == AttentiveSpec => []TypeOK
BY InitStreamTypeOK, NextStreamTypeOK, PTL DEF AttentiveSpec

-----------------------------------------------------------------------------
(* Where the frames are                                                    *)

Over == {"dropping", "closing", "done"}

Queued(frame) == Has(chan, frame)
Got(frame)    == Has(received, frame)

(* An error is somewhere between the run and its client.                   *)
ErrorOut == pending = "error" \/ Queued("error") \/ Got("error")

(* One error at most is ever sent, last of all, by a run that closed its   *)
(* record first; success is only ever said by the body, when the run has  *)
(* let go of the channel and nothing is left in it.                        *)
Trailing ==
    /\ OnlyLast(chan, {"error"}) /\ OnlyLast(received, Trailers)
    /\ Queued("error") => pending = "none"
    /\ Got("error") \/ Got("success") => pending = "none" /\ chan = <<>>
    /\ ErrorOut => pc \in Over /\ outcome = "failed" /\ record \notin {"open", "succeeded"}
    /\ Got("success") => dropped /\ outcome \in {"ok", "panicked"}
    /\ ~Queued("success")

(* How far the run is tells what is known of its outcome.                  *)
Staged ==
    /\ dropped <=> pc \in {"closing", "done"}
    /\ dropped => pending = "none"
    /\ pc \in {"start", "spawning", "streaming"} <=> outcome = "undecided"
    /\ outcome = "panicked" => pc \in Over
    /\ outcome = "ok" => child = "done"
    /\ record \in {"none", "open"} \/ pc \in Over
    /\ record = "failed" => outcome # "ok"

(* A failure that a run told its client of is on its way to it.            *)
FailureTold ==
    outcome = "failed" /\ pc \in Over /\ client = "reading" => ErrorOut

(* What a frame more or less counts for, in numbers.                       *)
One(condition) == IF condition THEN 1 ELSE 0

(* Frames that are with the client, in the channel or being sent.          *)
OnTheWay == Len(received) + Len(chan) + One(pending # "none")

TrailerOut == ErrorOut \/ Got("success")

Stays == client = "reading" \/ Got("error") \/ Got("success")

(* What the deadline may have cut: a line, of a run that did not succeed.  *)
Cut == IF outcome \in {"undecided", "ok"} THEN {0} ELSE {0, 1}

(* As long as the client stays, the frames are the lines told and the      *)
(* trailer, less what was cut.                                             *)
Accounted ==
    Stays => \E cut \in Cut : OnTheWay + cut = narrated + One(TrailerOut)

StreamInv == TypeOK /\ Staged /\ Trailing /\ FailureTold /\ Accounted

LEMMA InitStreamInv == Init => StreamInv
<1> SUFFICES ASSUME Init PROVE StreamInv
  OBVIOUS
<1>1. \A frame : ~Queued(frame) /\ ~Got(frame)
  BY DEF Init, Queued, Got, Has
<1>2. OnlyLast(chan, {"error"}) /\ OnlyLast(received, Trailers)
  BY DEF Init, OnlyLast
<1>3. Accounted
  <2>1. Len(chan) = 0 /\ Len(received) = 0 /\ pending = "none" /\ narrated = 0
    BY DEF Init
  <2>2. ~TrailerOut /\ 0 \in Cut
    BY <1>1 DEF Init, TrailerOut, ErrorOut, Cut
  <2> QED BY <2>1, <2>2 DEF Accounted, OnTheWay, One
<1> QED BY <1>1, <1>2, <1>3, InitStreamTypeOK
        DEF Init, StreamInv, Staged, Trailing, FailureTold, ErrorOut, Over

(* A trailer was sent exactly if one was received.                         *)
LEMMA TrailerSentMeansGot == TrailerSent <=> Got("error") \/ Got("success")
BY DEF TrailerSent, Got, Has, Trailers

(* Frames are told apart, and events are no trailers.                      *)
LEMMA FrameKinds ==
    /\ "error" \in Frames /\ "success" \notin Frames
    /\ \A e \in Events : e # "error" /\ e # "success" /\ e # "none"
BY DEF Frames, Events

(* Steps that move no frame keep the places where frames are.              *)
LEMMA FramesStay ==
    ASSUME UNCHANGED <<chan, received>>
    PROVE  /\ \A frame : Queued(frame)' = Queued(frame) /\ Got(frame)' = Got(frame)
           /\ OnlyLast(chan, {"error"})' = OnlyLast(chan, {"error"})
           /\ OnlyLast(received, Trailers)' = OnlyLast(received, Trailers)
BY DEF Queued, Got, Has, OnlyLast

(* A step that adds as many frames as lines and trailers keeps the count.  *)
LEMMA CountStays ==
    ASSUME TypeOK, TypeOK', Accounted, Stays' => Stays, Cut \subseteq Cut',
           OnTheWay' + narrated + One(TrailerOut) = OnTheWay + narrated' + One(TrailerOut')
    PROVE  Accounted'
<1> DEFINE o == One(TrailerOut)
<1> DEFINE p == One(TrailerOut')
<1>1. /\ narrated \in Nat /\ narrated' \in Nat /\ OnTheWay \in Nat /\ OnTheWay' \in Nat
      /\ o \in Nat /\ p \in Nat
  <2>1. Len(chan) \in Nat /\ Len(received) \in Nat /\ Len(chan)' \in Nat /\ Len(received)' \in Nat
    BY DEF TypeOK
  <2> QED BY <2>1 DEF TypeOK, OnTheWay, One
<1> HIDE DEF o, p
<1>2. ASSUME NEW cut \in Cut, OnTheWay + cut = narrated + o
      PROVE  OnTheWay' + cut = narrated' + p
  <2>1. cut \in Nat
    BY DEF Cut
  <2>2. OnTheWay' + narrated + o = OnTheWay + narrated' + p
    BY DEF o, p
  <2> QED BY <1>1, <1>2, <2>1, <2>2
<1>3. Stays' => \E cut \in Cut' : OnTheWay' + cut = narrated' + p
  BY <1>2 DEF Accounted, o
<1> QED BY <1>3 DEF Accounted, p

LEMMA CountUntouched ==
    ASSUME Accounted, UNCHANGED <<chan, received, pending, client, narrated, outcome>>
    PROVE  Accounted'
<1>1. TrailerOut' = TrailerOut /\ Stays' = Stays
  BY FramesStay DEF TrailerOut, ErrorOut, Stays
<1>2. OnTheWay' = OnTheWay /\ Cut' = Cut
  BY DEF OnTheWay, Cut
<1> QED BY <1>1, <1>2 DEF Accounted

LEMMA NextStreamInv == StreamInv /\ [Next]_vars => StreamInv'
<1> SUFFICES ASSUME StreamInv, [Next]_vars
             PROVE  (Staged /\ Trailing /\ FailureTold /\ Accounted)'
  BY NextStreamTypeOK DEF StreamInv
<1> USE DEF runVars, childVars, clientVars, At, Tell
<1>0. /\ TypeOK /\ Staged /\ Trailing /\ FailureTold /\ Accounted
      /\ Len(chan) \in Nat /\ Len(received) \in Nat /\ narrated \in Nat
  BY DEF StreamInv, TypeOK
<1>1. CASE Start \/ Spawn \/ SpawnFails \/ ReadLine \/ Reap \/ Timeout \/ ReRead
  <2>1. /\ pc \in {"start", "spawning", "streaming", "rereading"}
        /\ pc' \in {"spawning", "streaming", "rereading", "reported"}
        /\ UNCHANGED <<chan, received, client, dropped>>
        /\ pending' \in Events \cup {"none"}
    BY <1>0, <1>1 DEF Start, Spawn, SpawnFails, ReadLine, Reap, Timeout, ReRead, Events, TypeOK
  <2>2. ~ErrorOut /\ ~Got("success")
    BY <1>0, <2>1 DEF Trailing, Staged, Over
  <2>3. Staged'
    BY <1>0, <1>1, <2>1 DEF Start, Spawn, SpawnFails, ReadLine, Reap, Timeout, ReRead, Staged, Over
  <2>4. Trailing'
    BY <1>0, <2>1, <2>2, FramesStay, FrameKinds DEF Trailing, ErrorOut
  <2>5. FailureTold'
    BY <2>1 DEF FailureTold, Over
  <2>6. ~TrailerOut /\ ~TrailerOut' /\ Stays' = Stays
    BY <2>1, <2>2, FramesStay, FrameKinds DEF TrailerOut, ErrorOut, Stays
  <2>7. Accounted'
    <3>1. CASE ~Timeout
      <4>1. Cut \subseteq Cut'
        BY <1>0, <1>1, <3>1
           DEF Start, Spawn, SpawnFails, ReadLine, Reap, ReRead, Staged, Cut
      <4>2. \/ narrated' = narrated + 1 /\ pending = "none" /\ pending' # "none"
            \/ UNCHANGED <<narrated, pending>>
        BY <1>1, <3>1 DEF Start, Spawn, SpawnFails, ReadLine, Reap, ReRead
      <4>3. OnTheWay' + narrated + One(TrailerOut) = OnTheWay + narrated' + One(TrailerOut')
        <5>1. CASE narrated' = narrated + 1 /\ pending = "none" /\ pending' # "none"
          BY <1>0, <2>1, <2>6, <5>1 DEF OnTheWay, One
        <5>2. CASE UNCHANGED <<narrated, pending>>
          BY <1>0, <2>1, <2>6, <5>2 DEF OnTheWay, One
        <5> QED BY <4>2, <5>1, <5>2
      <4> QED BY <1>0, <2>6, <4>1, <4>3, NextStreamTypeOK, CountStays
    <3>2. CASE Timeout
      <4>1. /\ outcome = "undecided" /\ Cut = {0} /\ Cut' = {0, 1}
            /\ pending' = "none" /\ UNCHANGED <<narrated, chan, received>>
        BY <1>0, <3>2 DEF Timeout, Staged, Cut
      <4>2. Stays => OnTheWay + 0 = narrated + 0
        BY <1>0, <2>6, <4>1 DEF Accounted, One
      <4>3. OnTheWay = OnTheWay' + One(pending # "none") /\ OnTheWay' \in Nat
        BY <1>0, <4>1 DEF OnTheWay, One
      <4>4. One(pending # "none") \in Cut'
        BY <4>1 DEF One
      <4>5. OnTheWay + 0 = OnTheWay /\ narrated + 0 = narrated
        BY <1>0, <4>3 DEF One
      <4>6. Stays' => OnTheWay' + One(pending # "none") = narrated' + One(TrailerOut')
        BY <2>6, <4>1, <4>2, <4>3, <4>5 DEF One
      <4> QED BY <4>4, <4>6 DEF Accounted
    <3> QED BY <3>1, <3>2
  <2> QED BY <2>3, <2>4, <2>5, <2>7
<1>2. CASE Fail
  <2>1. ~ErrorOut /\ ~Got("success") /\ pc = "reported" /\ outcome = "failed"
    BY <1>0, <1>2 DEF Fail, Trailing, Staged, Over
  <2>2. (Staged /\ Trailing /\ FailureTold)'
    <3>1. record' \notin {"open", "succeeded"}
      BY <1>0, <1>2, <2>1 DEF Fail, Closed, Staged, Over
    <3> QED BY <1>0, <1>2, <2>1, <3>1, FramesStay
            DEF Fail, Staged, Trailing, FailureTold, ErrorOut, Over
  <2>3. Accounted'
    <3>1. /\ pending = "none" /\ pending' = "error"
          /\ UNCHANGED <<chan, received, client, narrated, outcome>>
      BY <1>2 DEF Fail
    <3>2. ~TrailerOut /\ TrailerOut' /\ Stays' = Stays /\ Cut' = Cut
      BY <2>1, <3>1, FramesStay DEF TrailerOut, ErrorOut, Stays, Cut
    <3>3. OnTheWay' + narrated + One(TrailerOut) = OnTheWay + narrated' + One(TrailerOut')
      BY <1>0, <3>1, <3>2 DEF OnTheWay, One
    <3> QED BY <1>0, <3>2, <3>3, NextStreamTypeOK, CountStays
  <2> QED BY <2>2, <2>3
<1>3. CASE Succeed \/ DropSender \/ DropJournal \/ Panic
  <2>1. UNCHANGED <<chan, received, client, pending, narrated>>
    BY <1>3 DEF Succeed, DropSender, DropJournal, Panic
  <2>2. Staged'
    BY <1>0, <1>3 DEF Succeed, DropSender, DropJournal, Closed, Panic, Staged, Over, TypeOK
  <2>3. /\ ErrorOut' = ErrorOut
        /\ (ErrorOut => outcome' = "failed" /\ record' \notin {"open", "succeeded"})
    BY <1>0, <1>3, <2>1, FramesStay
       DEF Succeed, DropSender, DropJournal, Closed, Panic, Trailing, Staged, ErrorOut, Over
  <2>4. Trailing'
    BY <1>0, <1>3, <2>1, <2>3, FramesStay
       DEF Succeed, DropSender, DropJournal, Panic, Trailing, Staged, Over
  <2>5. FailureTold'
    BY <1>0, <1>3, <2>1, <2>3 DEF Succeed, DropSender, DropJournal, Panic, FailureTold, Over
  <2>6. Accounted'
    <3>1. Cut \subseteq Cut'
      BY <1>0, <1>3 DEF Succeed, DropSender, DropJournal, Panic, Cut
    <3>2. TrailerOut' = TrailerOut /\ Stays' = Stays
      BY <2>1, <2>3, FramesStay DEF TrailerOut, Stays
    <3>3. OnTheWay' + narrated + One(TrailerOut) = OnTheWay + narrated' + One(TrailerOut')
      BY <1>0, <2>1, <3>2 DEF OnTheWay, One
    <3> QED BY <1>0, <3>1, <3>2, <3>3, NextStreamTypeOK, CountStays
  <2> QED BY <2>2, <2>4, <2>5, <2>6
<1>4. CASE ReadGarbled \/ Prints \/ Exit
  <2>1. UNCHANGED <<chan, received, client, pending, narrated, pc, outcome, record, dropped>>
        /\ (child = "done" => child' = "done")
    BY <1>4 DEF ReadGarbled, Prints, Exit
  <2> QED BY <1>0, <2>1, FramesStay, CountUntouched
          DEF Staged, Trailing, FailureTold, ErrorOut, Over
<1>5. CASE Deliver
  <2>1. /\ UNCHANGED <<pc, outcome, narrated, record, dropped, child, client, received>>
        /\ pending # "none" /\ pending' = "none" /\ ~dropped
    BY <1>0, <1>5 DEF Deliver, Staged
  <2>2. ~Queued("error") /\ ~Got("error") /\ ~Got("success")
    BY <1>0, <2>1 DEF Trailing
  <2>3. Staged'
    BY <1>0, <2>1 DEF Staged, Over
  <2>4. CASE client = "gone" /\ UNCHANGED chan
    <3>1. ~Stays'
      BY <2>1, <2>2, <2>4, FramesStay DEF Stays
    <3> QED BY <1>0, <2>1, <2>2, <2>3, <2>4, <3>1, FramesStay
            DEF Trailing, FailureTold, Accounted, ErrorOut
  <2>5. CASE client # "gone" /\ chan' = Append(chan, pending)
    <3>0. pending \in Frames /\ chan \in Seq(Frames)
      BY <1>0, <2>1 DEF TypeOK, Frames
    <3>1. /\ Len(chan') = Len(chan) + 1
          /\ \A frame : Queued(frame)' <=> Queued(frame) \/ pending = frame
          /\ \A frame : Got(frame)' = Got(frame)
      BY <2>1, <2>5, <3>0, AppendFrame DEF Queued, Got, Has
    <3>2. OnlyLast(chan, {"error"})'
      <4>1. \A i \in DOMAIN chan : chan[i] \notin {"error"}
        BY <2>2 DEF Queued, Has
      <4> QED BY <2>5, <3>0, <4>1, AppendFrame
    <3>3. OnlyLast(received, Trailers)'
      BY <1>0, <2>1 DEF Trailing, OnlyLast
    <3>4. Trailing'
      BY <1>0, <2>1, <2>2, <3>0, <3>1, <3>2, <3>3, FrameKinds DEF Trailing, ErrorOut
    <3>5. FailureTold'
      BY <1>0, <2>1, <3>1 DEF FailureTold, ErrorOut
    <3>6. Accounted'
      <4>1. TrailerOut' = TrailerOut /\ Stays' = Stays /\ Cut' = Cut
        BY <2>1, <3>1, FrameKinds DEF TrailerOut, ErrorOut, Stays, Cut
      <4>2. OnTheWay' + narrated + One(TrailerOut) = OnTheWay + narrated' + One(TrailerOut')
        BY <1>0, <2>1, <3>1, <4>1 DEF OnTheWay, One
      <4> QED BY <1>0, <4>1, <4>2, NextStreamTypeOK, CountStays
    <3> QED BY <2>3, <3>4, <3>5, <3>6
  <2> QED BY <1>5, <2>4, <2>5 DEF Deliver
<1>6. CASE Poll
  <2>1. /\ UNCHANGED <<pc, pending, outcome, narrated, record, dropped, child, client>>
        /\ chan # <<>> /\ chan' = Tail(chan) /\ received' = Append(received, Head(chan))
    BY <1>6 DEF Poll
  <2>2. ~Got("error") /\ ~Got("success")
    BY <1>0, <2>1 DEF Trailing
  <2>3. /\ chan \in Seq(Frames) /\ received \in Seq(Events \cup Trailers)
        /\ Head(chan) \in Frames /\ Head(chan) \in Events \cup Trailers
    <3>1. chan \in Seq(Frames) /\ received \in Seq(Events \cup Trailers)
      BY <1>0 DEF TypeOK, Frames
    <3> QED BY <2>1, <3>1, TakeFrame DEF Frames, Trailers
  <2>4. /\ Len(chan') = Len(chan) - 1 /\ Len(received') = Len(received) + 1
        /\ \A frame : Queued(frame) <=> Head(chan) = frame \/ Queued(frame)'
        /\ \A frame : Got(frame)' <=> Got(frame) \/ Head(chan) = frame
    <3>1. /\ Len(Tail(chan)) = Len(chan) - 1
          /\ \A frame : Has(chan, frame) <=> Head(chan) = frame \/ Has(Tail(chan), frame)
      BY <2>1, <2>3, TakeFrame
    <3>2. /\ Len(Append(received, Head(chan))) = Len(received) + 1
          /\ \A frame : Has(Append(received, Head(chan)), frame)
                          <=> Has(received, frame) \/ Head(chan) = frame
      BY <2>3, AppendFrame
    <3> QED BY <2>1, <3>1, <3>2 DEF Queued, Got
  <2>5. OnlyLast(chan, {"error"})' /\ (Head(chan) = "error" => chan' = <<>>)
    BY <1>0, <2>1, <2>3, TakeFrame DEF Trailing
  <2>6. OnlyLast(received, Trailers)'
    <3>1. \A i \in DOMAIN received : received[i] \notin Trailers
      BY <2>2 DEF Got, Has, Trailers
    <3> QED BY <2>1, <2>3, <3>1, AppendFrame
  <2>7. Staged'
    BY <1>0, <2>1 DEF Staged, Over
  <2>8. Trailing'
    BY <1>0, <2>1, <2>2, <2>3, <2>4, <2>5, <2>6, FrameKinds DEF Trailing, ErrorOut
  <2>9. FailureTold'
    BY <1>0, <2>1, <2>4 DEF FailureTold, ErrorOut
  <2>10. Accounted'
    <3>1. TrailerOut' = TrailerOut /\ (Stays' => Stays) /\ Cut' = Cut
      BY <1>6, <2>1, <2>2, <2>3, <2>4, FrameKinds DEF Poll, TrailerOut, ErrorOut, Stays, Cut
    <3>2. OnTheWay' + narrated + One(TrailerOut) = OnTheWay + narrated' + One(TrailerOut')
      BY <1>0, <2>1, <2>4, <3>1 DEF OnTheWay, One
    <3> QED BY <1>0, <3>1, <3>2, NextStreamTypeOK, CountStays
  <2> QED BY <2>7, <2>8, <2>9, <2>10
<1>7. CASE EndOfBody
  <2>1. /\ UNCHANGED <<pc, pending, outcome, narrated, record, dropped, child, client, chan>>
        /\ client = "reading" /\ chan = <<>> /\ dropped /\ ~TrailerSent
        /\ received' = Append(received, "success")
    BY <1>7 DEF EndOfBody
  <2>2. ~Got("error") /\ ~Got("success") /\ ~Queued("error") /\ pending = "none"
    BY <1>0, <2>1, TrailerSentMeansGot DEF Staged, Queued, Has
  <2>3. outcome \in {"ok", "panicked"} /\ Staged'
    <3>1. ~ErrorOut /\ pc \in Over
      BY <1>0, <2>1, <2>2 DEF ErrorOut, Staged, Over
    <3>2. outcome # "failed" /\ outcome # "undecided"
      BY <1>0, <2>1, <3>1 DEF FailureTold, Staged, Over
    <3> QED BY <1>0, <2>1, <3>2 DEF Staged, TypeOK, Over
  <2>4. /\ Len(received') = Len(received) + 1
        /\ \A frame : Got(frame)' <=> Got(frame) \/ "success" = frame
        /\ \A frame : Queued(frame)' = Queued(frame)
    <3>1. received \in Seq(Events \cup Trailers) /\ "success" \in Events \cup Trailers
      BY <1>0 DEF TypeOK, Trailers
    <3> QED BY <2>1, <3>1, AppendFrame DEF Got, Queued, Has
  <2>5. OnlyLast(received, Trailers)' /\ OnlyLast(chan, {"error"})'
    <3>1. \A i \in DOMAIN received : received[i] \notin Trailers
      BY <2>2 DEF Got, Has, Trailers
    <3>2. received \in Seq(Events \cup Trailers) /\ "success" \in Events \cup Trailers
      BY <1>0 DEF TypeOK, Trailers
    <3> QED BY <1>0, <2>1, <3>1, <3>2, AppendFrame DEF Trailing, OnlyLast
  <2>6. Trailing'
    BY <1>0, <2>1, <2>2, <2>3, <2>4, <2>5 DEF Trailing, ErrorOut
  <2>7. FailureTold'
    BY <1>0, <2>1, <2>3, <2>4 DEF FailureTold
  <2>8. Accounted'
    <3>1. ~TrailerOut /\ TrailerOut' /\ Stays /\ Cut' = Cut
      BY <2>1, <2>2, <2>4 DEF TrailerOut, ErrorOut, Stays, Cut
    <3>2. OnTheWay' + narrated + One(TrailerOut) = OnTheWay + narrated' + One(TrailerOut')
      BY <1>0, <2>1, <2>4, <3>1 DEF OnTheWay, One
    <3> QED BY <1>0, <3>1, <3>2, NextStreamTypeOK, CountStays
  <2> QED BY <2>3, <2>6, <2>7, <2>8
<1>8. CASE HangUp
  <2>1. /\ UNCHANGED <<pc, pending, outcome, narrated, record, dropped, child, received>>
        /\ client' = "gone" /\ chan' = <<>> /\ ~TrailerSent
    BY <1>8 DEF HangUp
  <2>2. /\ \A frame : ~Queued(frame)' /\ Got(frame)' = Got(frame)
        /\ OnlyLast(chan, {"error"})' /\ OnlyLast(received, Trailers)'
    BY <1>0, <2>1 DEF Queued, Got, Has, OnlyLast, Trailing
  <2>3. ~Got("error") /\ ~Got("success")
    BY <2>1, TrailerSentMeansGot
  <2>4. ~Stays'
    BY <2>1, <2>2, <2>3 DEF Stays
  <2> QED BY <1>0, <2>1, <2>2, <2>3, <2>4
          DEF Staged, Trailing, FailureTold, Accounted, ErrorOut, Over
<1>9. CASE UNCHANGED vars
  BY <1>0, <1>9, FramesStay, CountUntouched
     DEF vars, Staged, Trailing, FailureTold, ErrorOut, Over
<1> QED BY <1>1, <1>2, <1>3, <1>4, <1>5, <1>6, <1>7, <1>8, <1>9 DEF Next, RunStep, ClientStep

LEMMA StreamKeepsInv == AttentiveSpec => []StreamInv
BY InitStreamInv, NextStreamInv, PTL DEF AttentiveSpec

(* Every stream ends with one trailer and nothing behind it, whether the   *)
(* run or the response body produced it (api.rs:869-936).                  *)
THEOREM OneTrailerIsLast == AttentiveSpec => []OneTrailerLast
<1>1. StreamInv => OneTrailerLast
  BY DEF StreamInv, Trailing, OnlyLast, OneTrailerLast
<1> QED BY <1>1, StreamKeepsInv, PTL

(* The trailer tells how the run ended, and the record does not say the    *)
(* contrary, whether it could be opened and closed or not: an error comes  *)
(* from a run that failed and whose record, if any, is closed and not as a *)
(* success; a success from one that unwound, or that finished and whose    *)
(* record does not say FAILED (api.rs:924-936, restore.rs:300-311).        *)
THEOREM TrailersTellTheOutcome == AttentiveSpec => []TrailerTruthful
<1>1. StreamInv => TrailerTruthful
  BY DEF StreamInv, Trailing, Staged, ErrorOut, Got, Has, TrailerTruthful
<1> QED BY <1>1, StreamKeepsInv, PTL

(* Whoever sees its stream end has seen what the run told, however         *)
(* slowly it read: all of it before a success that was one, and otherwise  *)
(* all but the line whose send the deadline cut (restore.rs:349-389,       *)
(* 437-441).                                                               *)
THEOREM TrailersComeLast == AttentiveSpec => []SeenBeforeTrailer
<1>1. ASSUME StreamInv, NEW i \in DOMAIN received, received[i] \in Trailers
      PROVE  \E cut \in Cut : i + cut = narrated + 1
  <2>1. Got("error") \/ Got("success")
    BY <1>1 DEF Trailers, Got, Has
  <2>2. pending = "none" /\ chan = <<>> /\ i = Len(received)
    BY <1>1, <2>1 DEF StreamInv, Trailing, OnlyLast
  <2>3. One(pending # "none") = 0 /\ One(TrailerOut) = 1 /\ Stays
    BY <2>1, <2>2 DEF One, TrailerOut, ErrorOut, Stays
  <2>4. Len(chan) = 0 /\ Len(received) \in Nat
    BY <1>1, <2>2, EmptySeq DEF StreamInv, TypeOK
  <2>5. OnTheWay = i
    BY <2>2, <2>3, <2>4 DEF OnTheWay
  <2> QED BY <1>1, <2>3, <2>5 DEF StreamInv, Accounted
<1>2. ASSUME StreamInv, NEW i \in DOMAIN received
      PROVE  /\ received[i] \in Trailers => i \in {narrated, narrated + 1}
             /\ received[i] = "success" /\ outcome = "ok" => i = narrated + 1
  <2>1. i \in Nat /\ narrated \in Nat
    BY <1>2 DEF StreamInv, TypeOK
  <2>2. received[i] \in Trailers => \E cut \in {0, 1} : i + cut = narrated + 1
    BY <1>1, <1>2 DEF Cut
  <2>3. received[i] \in Trailers /\ outcome = "ok" => i + 0 = narrated + 1
    BY <1>1, <1>2 DEF Cut
  <2> QED BY <2>1, <2>2, <2>3 DEF Trailers
<1>3. StreamInv => SeenBeforeTrailer
  BY <1>2 DEF SeenBeforeTrailer
<1> QED BY <1>3, StreamKeepsInv, PTL
=============================================================================
