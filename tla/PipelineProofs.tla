--------------------------- MODULE PipelineProofs ---------------------------
(***************************************************************************)
(* Theorems about Pipeline, for every number of stations, every channel    *)
(* capacity and every number of frames:                                    *)
(*   TypeCorrect    the type invariant, with the channels' bounds          *)
(*   OrderCorrect   texts are written in the order they were spoken        *)
(*   NothingLost    nothing is lost while the pipeline runs                *)
(*   Implements     the pipeline implements TextStream                     *)
(*   ResultCounts   the result of stop() counts every text                 *)
(*   FileToItsEnd   what the VAD gets of a file is handed over to the end  *)
(*   LostFromTheEnd what a stop or a panic loses is lost from the end      *)
(***************************************************************************)
EXTENDS Pipeline, TLAPS

-----------------------------------------------------------------------------
(* The inductive invariants *)

(* What a station holds in each phase of its loop, and that the chunker's   *)
(* pre-speech buffer is empty while it accumulates.                         *)
Shape ==
  /\ \A s \in Stations :
       /\ st[s] = "process" => held[s] # {}
       /\ st[s] = "send" => (held[s] = {} <=> s = Last)
       /\ st[s] \in {"recv", "closing", "dead"} => held[s] = {}
       /\ st[s] = "dead" => q[s] = <<>>
  /\ st[CHUNKER] \in {"send", "dead"} => acc = {}
  /\ st[CHUNKER] = "send" => pre = {}
  /\ acc = {} \/ pre = {}
  /\ audio = "sending" => seq >= 1
  /\ audio # "dead" => errs < MaxErrors
  /\ caller = "starting" <=> audio = "off"

(* Frames in the order of the stations: what is further down the pipeline   *)
(* was spoken earlier, ...                                                  *)
Cross == \A s, t \in Stations : s < t => Precedes(AtStation(t), AtStation(s))
AfterWritten == \A s \in Stations : Precedes(Written, AtStation(s))

(* ... nothing is younger than the last frame captured, and a frame the     *)
(* audio thread is still about to send is nowhere else, ...                 *)
Old(x) == x \in Nat /\ x <= seq /\ (audio = "sending" => x < seq)
Captured ==
  /\ \A s \in Stations : \A x \in AtStation(s) : Old(x)
  /\ \A x \in Written : Old(x)

(* ... and at one station, what is nearer to its output is older.           *)
Within ==
  /\ \A s \in Stations :
       /\ Sorted(q[s])
       /\ Precedes(held[s], FramesOf(q[s]))
  /\ Precedes(acc \cup pre, FramesOf(q[CHUNKER]))
  /\ Precedes(acc \cup pre, held[CHUNKER])

Ordered == Cross /\ AfterWritten /\ Captured /\ Within /\ InOrder

(* While nobody stopped it and nothing panicked, a station that left its    *)
(* loop was disconnected and has handed everything on.                      *)
Kept(f) == f \in Written \/ f \in filtered \/ f \in overrun \/ f \in InHand
             \/ \E s \in Stations : f \in AtStation(s)

Draining ==
  running /\ crashed = {} =>
    /\ drain # "dead"
    /\ \A s \in Stations :
         st[s] \in {"closing", "dead"} => ~Connected(s) /\ q[s] = <<>>
    /\ \A f \in 1..seq : Kept(f)

-----------------------------------------------------------------------------
(* Facts about constants and sequences of messages *)

LEMMA StationFacts ==
  /\ VAD \in Stations /\ CHUNKER \in Stations /\ Last \in Stations
  /\ VAD # CHUNKER /\ CHUNKER # Last /\ VAD # Last
  /\ \A s \in Stations : s # Last => s + 1 \in Stations /\ s + 1 # VAD
  /\ \A s \in Stations : Capacity[s] \in Nat \ {0}
  /\ Capacity[Last + 1] \in Nat \ {0}
  BY PipelineAssumption DEF Stations, VAD, CHUNKER

LEMMA AppendFrames ==
  ASSUME NEW S, NEW m \in Seq(S), NEW x \in S
  PROVE  /\ FramesOf(Append(m, x)) = FramesOf(m) \cup x
         /\ Append(m, x) \in Seq(S)
         /\ Len(Append(m, x)) = Len(m) + 1
         /\ \A i \in DOMAIN Append(m, x) :
              IF i = Len(m) + 1 THEN Append(m, x)[i] = x
              ELSE i \in DOMAIN m /\ Append(m, x)[i] = m[i]
  <1>1. Append(m, x) \in Seq(S) /\ Len(Append(m, x)) = Len(m) + 1
    OBVIOUS
  <1>2. DOMAIN Append(m, x) = 1..Len(m) + 1 /\ DOMAIN m = 1..Len(m)
    OBVIOUS
  <1>3. \A i \in 1..Len(m) : Append(m, x)[i] = m[i]
    OBVIOUS
  <1>4. Append(m, x)[Len(m) + 1] = x
    OBVIOUS
  <1>5. Len(m) \in Nat
    OBVIOUS
  <1>6. FramesOf(Append(m, x)) = FramesOf(m) \cup x
    BY <1>2, <1>3, <1>4, <1>5 DEF FramesOf
  <1> QED BY <1>1, <1>2, <1>3, <1>4, <1>5, <1>6

LEMMA TailFrames ==
  ASSUME NEW S, NEW m \in Seq(S), m # <<>>
  PROVE  /\ FramesOf(m) = Head(m) \cup FramesOf(Tail(m))
         /\ Head(m) \in S /\ Head(m) = m[1] /\ 1 \in DOMAIN m
         /\ Tail(m) \in Seq(S)
         /\ Len(Tail(m)) = Len(m) - 1
         /\ \A i \in DOMAIN Tail(m) : i \in Nat /\ i >= 1 /\ i + 1 \in DOMAIN m /\ Tail(m)[i] = m[i + 1]
  <1>1. Len(m) \in Nat /\ Len(m) >= 1 /\ DOMAIN m = 1..Len(m)
    OBVIOUS
  <1>2. Tail(m) \in Seq(S) /\ Len(Tail(m)) = Len(m) - 1 /\ DOMAIN Tail(m) = 1..Len(m) - 1
    BY <1>1
  <1>3. \A i \in 1..Len(m) - 1 : Tail(m)[i] = m[i + 1]
    BY <1>1
  <1>4. Head(m) = m[1] /\ Head(m) \in S
    BY <1>1
  <1>5. FramesOf(m) = Head(m) \cup FramesOf(Tail(m))
    <2>1. ASSUME NEW x \in FramesOf(m) PROVE x \in Head(m) \cup FramesOf(Tail(m))
      <3>1. PICK i \in 1..Len(m) : x \in m[i]
        BY <1>1 DEF FramesOf
      <3>2. CASE i = 1
        BY <3>1, <3>2, <1>4
      <3>3. CASE i # 1
        <4>1. i - 1 \in 1..Len(m) - 1 /\ Tail(m)[i - 1] = m[i]
          BY <3>3, <1>1, <1>3
        <4> QED BY <4>1, <3>1, <1>2 DEF FramesOf
      <3> QED BY <3>2, <3>3
    <2>2. Head(m) \subseteq FramesOf(m)
      BY <1>1, <1>4 DEF FramesOf
    <2>3. FramesOf(Tail(m)) \subseteq FramesOf(m)
      <3>1. \A i \in 1..Len(m) - 1 : i + 1 \in 1..Len(m) /\ Tail(m)[i] = m[i + 1]
        BY <1>1, <1>3
      <3> QED BY <3>1, <1>1, <1>2 DEF FramesOf
    <2> QED BY <2>1, <2>2, <2>3
  <1> QED BY <1>1, <1>2, <1>3, <1>4, <1>5

-----------------------------------------------------------------------------
(* Type correctness *)

(* Replacing one channel's contents by a sequence that fits. *)
LEMMA ChannelUpdate ==
  ASSUME NEW Q \in [Stations -> Seq(Items)],
         \A t \in Stations : Len(Q[t]) <= Capacity[t],
         NEW s \in Stations, NEW m \in Seq(Items), Len(m) <= Capacity[s]
  PROVE  /\ [Q EXCEPT ![s] = m] \in [Stations -> Seq(Items)]
         /\ \A t \in Stations : Len([Q EXCEPT ![s] = m][t]) <= Capacity[t]
  <1>1. [Q EXCEPT ![s] = m] \in [Stations -> Seq(Items)]
    OBVIOUS
  <1>2. \A t \in Stations : [Q EXCEPT ![s] = m][t] = IF t = s THEN m ELSE Q[t]
    OBVIOUS
  <1> QED BY <1>1, <1>2

LEMMA ChannelSteps ==
  ASSUME NEW Q \in [Stations -> Seq(Items)],
         \A t \in Stations : Len(Q[t]) <= Capacity[t],
         NEW s \in Stations
  PROVE  /\ \A x \in Items : Len(Q[s]) < Capacity[s] =>
              /\ [Q EXCEPT ![s] = Append(Q[s], x)] \in [Stations -> Seq(Items)]
              /\ \A t \in Stations : Len([Q EXCEPT ![s] = Append(Q[s], x)][t]) <= Capacity[t]
         /\ Q[s] # <<>> =>
              /\ [Q EXCEPT ![s] = Tail(Q[s])] \in [Stations -> Seq(Items)]
              /\ \A t \in Stations : Len([Q EXCEPT ![s] = Tail(Q[s])][t]) <= Capacity[t]
         /\ /\ [Q EXCEPT ![s] = <<>>] \in [Stations -> Seq(Items)]
            /\ \A t \in Stations : Len([Q EXCEPT ![s] = <<>>][t]) <= Capacity[t]
  <1>0. Capacity[s] \in Nat /\ Len(Q[s]) \in Nat /\ Q[s] \in Seq(Items)
    BY StationFacts
  <1>1. ASSUME NEW x \in Items, Len(Q[s]) < Capacity[s]
        PROVE  Append(Q[s], x) \in Seq(Items) /\ Len(Append(Q[s], x)) <= Capacity[s]
    BY <1>0, <1>1
  <1>2. ASSUME Q[s] # <<>>
        PROVE  Tail(Q[s]) \in Seq(Items) /\ Len(Tail(Q[s])) <= Capacity[s]
    <2>1. Len(Tail(Q[s])) = Len(Q[s]) - 1 /\ Tail(Q[s]) \in Seq(Items)
      BY <1>0, <1>2
    <2> QED BY <2>1, <1>0
  <1>3. <<>> \in Seq(Items) /\ Len(<<>>) <= Capacity[s]
    BY <1>0
  <1>4. \A m \in Seq(Items) : Len(m) <= Capacity[s] =>
          /\ [Q EXCEPT ![s] = m] \in [Stations -> Seq(Items)]
          /\ \A t \in Stations : Len([Q EXCEPT ![s] = m][t]) <= Capacity[t]
    BY ChannelUpdate
  <1>5. \A x \in Items : Len(Q[s]) < Capacity[s] =>
              /\ [Q EXCEPT ![s] = Append(Q[s], x)] \in [Stations -> Seq(Items)]
              /\ \A t \in Stations : Len([Q EXCEPT ![s] = Append(Q[s], x)][t]) <= Capacity[t]
    BY <1>1, <1>4
  <1>6. Q[s] # <<>> =>
              /\ [Q EXCEPT ![s] = Tail(Q[s])] \in [Stations -> Seq(Items)]
              /\ \A t \in Stations : Len([Q EXCEPT ![s] = Tail(Q[s])][t]) <= Capacity[t]
    BY <1>2, <1>4
  <1>7. /\ [Q EXCEPT ![s] = <<>>] \in [Stations -> Seq(Items)]
        /\ \A t \in Stations : Len([Q EXCEPT ![s] = <<>>][t]) <= Capacity[t]
    BY <1>3, <1>4
  <1> QED BY <1>5, <1>6, <1>7

LEMMA TypeInit == Init => TypeOK
  <1> SUFFICES ASSUME Init PROVE TypeOK
    OBVIOUS
  <1>1. q \in [Stations -> Seq(Items)] /\ \A s \in Stations : Len(q[s]) <= Capacity[s]
    BY StationFacts DEF Init
  <1>2. result \in Seq(Nat) /\ answer \in Seq(Nat) /\ handled \in Seq(Items)
    BY DEF Init
  <1>3. st \in [Stations -> {"recv", "process", "send", "closing", "dead"}]
    BY DEF Init
  <1>4. held \in [Stations -> SUBSET (1..Frames)]
    BY DEF Init
  <1>5. errs \in 0..MaxErrors /\ seq \in 0..Frames /\ out \in 0..Capacity[Last + 1]
    BY StationFacts, PipelineAssumption DEF Init
  <1> QED BY <1>1, <1>2, <1>3, <1>4, <1>5 DEF Init, TypeOK

LEMMA TypeAudio == ASSUME TypeOK, Shape, Audio PROVE TypeOK'
  <1> USE StationFacts, PipelineAssumption DEF stationVars, audioRest, callerVars, TypeOK
  <1>1. CASE AudioRead
    <2>1. seq' \in 0..Frames /\ errs' \in 0..MaxErrors
      BY <1>1 DEF AudioRead
    <2> QED BY <1>1, <2>1 DEF AudioRead
  <1>2. CASE AudioSend
    <2>1. /\ q' \in [Stations -> Seq(Items)]
          /\ \A t \in Stations : Len(q'[t]) <= Capacity[t]
      <3>1. {seq} \in Items
        BY <1>2 DEF AudioSend, Items, Shape
      <3>2. CASE q' = [q EXCEPT ![VAD] = Append(q[VAD], {seq})] /\ Len(q[VAD]) < Capacity[VAD]
        BY <3>1, <3>2, ChannelSteps
      <3>3. CASE UNCHANGED q
        BY <3>3
      <3> QED BY <1>2, <3>2, <3>3 DEF AudioSend
    <2>2. filtered' \in SUBSET (1..Frames) /\ overrun' \in SUBSET (1..Frames)
      <3>1. seq \in 1..Frames
        BY <1>2 DEF AudioSend, Shape
      <3> QED BY <1>2, <3>1 DEF AudioSend
    <2> QED BY <1>2, <2>1, <2>2 DEF AudioSend
  <1>3. CASE AudioEmpty
    <2>1. errs' \in 0..MaxErrors
      BY <1>3 DEF AudioEmpty
    <2> QED BY <1>3, <2>1 DEF AudioEmpty
  <1>4. CASE AudioError
    <2>1. errs' \in 0..MaxErrors
      BY ONLY <1>4, TypeOK, Shape, PipelineAssumption DEF AudioError, TypeOK, Shape
    <2> QED BY <1>4, <2>1 DEF AudioError
  <1>5. CASE AudioExhausted
    BY <1>5 DEF AudioExhausted
  <1>6. CASE AudioQuit
    BY <1>6 DEF AudioQuit
  <1> QED BY <1>1, <1>2, <1>3, <1>4, <1>5, <1>6 DEF Audio

LEMMA TypeStation == ASSUME TypeOK, Shape, NEW s \in Stations, Station(s) PROVE TypeOK'
  <1> USE StationFacts, PipelineAssumption DEF threadVars, callerVars, TypeOK
  <1> DEFINE Queues == q \in [Stations -> Seq(Items)]
             Bounded == \A t \in Stations : Len(q[t]) <= Capacity[t]
  <1>1. CASE Recv(s)
    <2>1. Head(q[s]) \in Items
      BY <1>1, TailFrames DEF Recv
    <2>2. Queues' /\ Bounded'
      BY <1>1, ChannelSteps DEF Recv
    <2>3. held' \in [Stations -> SUBSET (1..Frames)]
      BY <1>1, <2>1 DEF Recv, Items
    <2> QED BY <1>1, <2>2, <2>3 DEF Recv
  <1>2. CASE Disconnected(s)
    BY <1>2 DEF Disconnected
  <1>3. CASE Forward(s)
    BY <1>3 DEF Forward
  <1>4. CASE Drop(s)
    BY <1>4 DEF Drop
  <1>5. CASE Send(s)
    <2>1. CASE s = Last
      <3>1. out' \in 0..Capacity[Last + 1]
        BY <1>5, <2>1 DEF Send, HasRoom
      <3> QED BY <1>5, <2>1, <3>1 DEF Send
    <2>2. CASE s # Last
      <3>1. held[s] \in Items
        BY <1>5, <2>2 DEF Send, Items, Shape
      <3>2. Queues' /\ Bounded'
        <4>1. /\ s + 1 \in Stations /\ Len(q[s + 1]) < Capacity[s + 1]
              /\ q' = [q EXCEPT ![s + 1] = Append(q[s + 1], held[s])]
          BY <1>5, <2>2 DEF Send, HasRoom
        <4> QED BY <4>1, <3>1, ChannelSteps
      <3> QED BY <1>5, <2>2, <3>2 DEF Send
    <2> QED BY <2>1, <2>2
  <1>6. CASE SendFail(s)
    BY <1>6 DEF SendFail
  <1>7. CASE End(s)
    <2>1. Queues' /\ Bounded'
      BY <1>7, ChannelSteps DEF End
    <2>2. result' \in Seq(Nat)
      BY <1>7 DEF End
    <2> QED BY <1>7, <2>1, <2>2 DEF End
  <1>8. CASE Crash(s)
    <2>1. Queues' /\ Bounded'
      BY <1>8, ChannelSteps DEF Crash
    <2> QED BY <1>8, <2>1 DEF Crash
  <1>9. CASE s = CHUNKER /\ Feed
    <2>1. /\ held' \in [Stations -> SUBSET (1..Frames)]
          /\ acc' \in SUBSET (1..Frames) /\ pre' \in SUBSET (1..Frames)
          /\ filtered' \in SUBSET (1..Frames)
      <3>1. held[CHUNKER] \subseteq 1..Frames
        OBVIOUS
      <3>2. CASE FeedSilence
        BY <3>1, <3>2 DEF FeedSilence, Newest
      <3>3. CASE FeedSpeech
        BY <3>1, <3>3 DEF FeedSpeech
      <3>4. CASE FeedMore
        BY <3>1, <3>4 DEF FeedMore
      <3>5. CASE FeedEmit
        BY <3>1, <3>5 DEF FeedEmit
      <3> QED BY <1>9, <3>2, <3>3, <3>4, <3>5 DEF Feed
    <2>2. st' \in [Stations -> {"recv", "process", "send", "closing", "dead"}]
      BY <1>9 DEF Feed, FeedSilence, FeedSpeech, FeedMore, FeedEmit
    <2>3. UNCHANGED <<threadVars, callerVars, q, result, crashed, handled>>
      BY <1>9 DEF Feed, FeedSilence, FeedSpeech, FeedMore, FeedEmit, feedRest
    <2> QED BY <2>1, <2>2, <2>3
  <1>10. CASE s = CHUNKER /\ Flush
    <2>1. acc \in Items
      BY <1>10 DEF Flush, Items
    <2>2. Queues' /\ Bounded'
      <3>1. CHUNKER + 1 \in Stations
        OBVIOUS
      <3>2. CASE /\ Len(q[CHUNKER + 1]) < Capacity[CHUNKER + 1]
                 /\ q' = [q EXCEPT ![CHUNKER + 1] = Append(q[CHUNKER + 1], acc)]
        BY <3>1, <3>2, <2>1, ChannelSteps
      <3>3. CASE UNCHANGED q
        BY <3>3
      <3> QED BY <1>10, <3>2, <3>3 DEF Flush, HasRoom
    <2> QED BY <1>10, <2>2 DEF Flush
  <1>11. CASE s = Last /\ SinkWrite
    <2>1. held[Last] \in Items
      BY <1>11 DEF SinkWrite, Items, Shape
    <2>2. handled' \in Seq(Items)
      BY <1>11, <2>1 DEF SinkWrite
    <2> QED BY <1>11, <2>2 DEF SinkWrite
  <1> QED BY <1>1, <1>2, <1>3, <1>4, <1>5, <1>6, <1>7, <1>8, <1>9, <1>10, <1>11 DEF Station

LEMMA TypeOther ==
  ASSUME TypeOK, Drain \/ StartOk \/ StartFail \/ Stop \/ Finishing \/ Finished
                   \/ UNCHANGED vars
  PROVE  TypeOK'
  <1> USE StationFacts, PipelineAssumption
      DEF stationVars, callerRest, callerVars, threadVars, TypeOK
  <1>1. CASE Drain
    <2>1. out' \in 0..Capacity[Last + 1]
      <3>1. Capacity[Last + 1] \in Nat /\ out \in 0..Capacity[Last + 1]
        OBVIOUS
      <3> QED BY ONLY <1>1, <3>1 DEF Drain, DrainCheck, DrainRecv, DrainTimeout
    <2> QED BY <1>1, <2>1 DEF Drain, DrainCheck, DrainRecv, DrainTimeout, drainRest
  <1>2. CASE StartOk \/ StartFail \/ Stop
    BY <1>2 DEF StartOk, StartFail, Stop
  <1>3. CASE Finishing
    BY <1>3 DEF Finishing, TakeResult, NoResult, ResultTimeout, JoinAll, Detach
  <1>4. CASE Finished \/ UNCHANGED vars
    BY <1>4 DEF Finished, vars
  <1> QED BY <1>1, <1>2, <1>3, <1>4

-----------------------------------------------------------------------------
(* Shape *)

LEMMA ShapeInit == Init => Shape
  BY StationFacts, PipelineAssumption DEF Init, Shape

LEMMA ShapeAudio == ASSUME TypeOK, Shape, Audio PROVE Shape'
  <1> USE StationFacts, PipelineAssumption DEF stationVars, audioRest, callerVars, Shape
  <1>0. seq \in Nat /\ errs \in Nat
    BY DEF TypeOK
  <1>1. CASE AudioRead
    <2>1. seq' >= 1 /\ errs' < MaxErrors
      BY <1>0, <1>1 DEF AudioRead
    <2> QED BY <1>1, <2>1 DEF AudioRead
  <1>2. CASE AudioSend
    <2>1. \A s \in Stations : st[s] = "dead" => q'[s] = q[s]
      BY <1>2 DEF AudioSend, TypeOK
    <2> QED BY <1>2, <2>1 DEF AudioSend
  <1>3. CASE AudioEmpty
    <2>1. errs' < MaxErrors
      BY <1>3 DEF AudioEmpty
    <2>2. UNCHANGED <<seq, audio, q, st, held, acc, pre, caller>>
      BY <1>3 DEF AudioEmpty
    <2> QED BY ONLY Shape, <2>1, <2>2 DEF Shape
  <1>4. CASE AudioError
    <2>1. audio' # "dead" => errs' < MaxErrors
      BY <1>0, <1>4 DEF AudioError
    <2>2. UNCHANGED <<seq, stationVars, caller>> /\ audio = "polling"
      BY <1>4 DEF AudioError
    <2>3. audio' \in {"polling", "dead"}
      BY <1>4 DEF AudioError
    <2> QED BY <2>1, <2>2, <2>3
  <1>5. CASE AudioExhausted
    BY <1>5 DEF AudioExhausted
  <1>6. CASE AudioQuit
    BY <1>6 DEF AudioQuit
  <1> QED BY <1>1, <1>2, <1>3, <1>4, <1>5, <1>6 DEF Audio

LEMMA ShapeStation == ASSUME TypeOK, Shape, NEW s \in Stations, Station(s) PROVE Shape'
  <1> USE StationFacts DEF threadVars, callerVars, Shape
  <1>0. /\ q \in [Stations -> Seq(Items)]
        /\ st \in [Stations -> {"recv", "process", "send", "closing", "dead"}]
        /\ held \in [Stations -> SUBSET (1..Frames)]
    BY DEF TypeOK
  <1>1. CASE Recv(s)
    <2>1. Head(q[s]) # {}
      BY <1>0, <1>1, TailFrames DEF Recv, Items
    <2> QED BY <1>0, <1>1, <2>1 DEF Recv
  <1>2. CASE Disconnected(s)
    BY <1>0, <1>2 DEF Disconnected
  <1>3. CASE Forward(s)
    BY <1>0, <1>3 DEF Forward
  <1>4. CASE Drop(s)
    BY <1>0, <1>4 DEF Drop
  <1>5. CASE Send(s)
    <2>1. \A t \in Stations : st[t] = "dead" => q'[t] = q[t]
      BY <1>0, <1>5 DEF Send, ReceiverAlive
    <2> QED BY <1>0, <1>5, <2>1 DEF Send
  <1>6. CASE SendFail(s)
    BY <1>0, <1>6 DEF SendFail
  <1>7. CASE End(s)
    BY <1>0, <1>7 DEF End
  <1>8. CASE Crash(s)
    BY <1>0, <1>8 DEF Crash
  <1>9. CASE s = CHUNKER /\ Feed
    <2>1. CASE FeedSilence
      BY <1>0, <2>1 DEF FeedSilence, feedRest
    <2>2. CASE FeedSpeech
      BY <1>0, <2>2 DEF FeedSpeech, feedRest
    <2>3. CASE FeedMore
      BY <1>0, <2>3 DEF FeedMore, feedRest
    <2>4. CASE FeedEmit
      BY <1>0, <2>4 DEF FeedEmit, feedRest
    <2> QED BY <1>9, <2>1, <2>2, <2>3, <2>4 DEF Feed
  <1>10. CASE s = CHUNKER /\ Flush
    <2>1. \A t \in Stations : st[t] = "dead" => q'[t] = q[t]
      BY <1>0, <1>10 DEF Flush, ReceiverAlive
    <2> QED BY <1>0, <1>10, <2>1 DEF Flush
  <1>11. CASE s = Last /\ SinkWrite
    BY <1>0, <1>11 DEF SinkWrite
  <1> QED BY <1>1, <1>2, <1>3, <1>4, <1>5, <1>6, <1>7, <1>8, <1>9, <1>10, <1>11 DEF Station

LEMMA ShapeOther ==
  ASSUME TypeOK, Shape, Drain \/ StartOk \/ StartFail \/ Stop \/ Finishing \/ Finished
                          \/ UNCHANGED vars
  PROVE  Shape'
  <1> USE DEF stationVars, callerRest, callerVars, threadVars, Shape
  <1>1. CASE Drain
    BY <1>1 DEF Drain, DrainCheck, DrainRecv, DrainTimeout, drainRest
  <1>2. CASE StartOk \/ StartFail \/ Stop
    BY <1>2 DEF StartOk, StartFail, Stop
  <1>3. CASE Finishing
    BY <1>3 DEF Finishing, TakeResult, NoResult, ResultTimeout, JoinAll, Detach
  <1>4. CASE Finished \/ UNCHANGED vars
    BY <1>4 DEF Finished, vars
  <1> QED BY <1>1, <1>2, <1>3, <1>4

(* No channel ever exceeds its capacity and every variable keeps its type:  *)
(* what each blocking send, the try_send of the audio thread and the        *)
(* chunker's flush at shutdown together guarantee.                          *)
THEOREM TypeCorrect == Spec => []TypeOK
  <1>1. Init => TypeOK /\ Shape
    BY TypeInit, ShapeInit
  <1>2. TypeOK /\ Shape /\ [Next]_vars => TypeOK' /\ Shape'
    BY TypeAudio, TypeStation, TypeOther, ShapeAudio, ShapeStation, ShapeOther DEF Next
  <1> QED BY <1>1, <1>2, PTL DEF Spec

LEMMA ShapeCorrect == Spec => []Shape
  <1>1. Init => TypeOK /\ Shape
    BY TypeInit, ShapeInit
  <1>2. TypeOK /\ Shape /\ [Next]_vars => TypeOK' /\ Shape'
    BY TypeAudio, TypeStation, TypeOther, ShapeAudio, ShapeStation, ShapeOther DEF Next
  <1> QED BY <1>1, <1>2, PTL DEF Spec

-----------------------------------------------------------------------------
(* Order *)

LEMMA OrderInit == Init => Ordered
  <1> SUFFICES ASSUME Init PROVE Ordered
    OBVIOUS
  <1>1. \A s \in Stations : AtStation(s) = {}
    BY DEF Init, AtStation, FramesOf
  <1>2. Written = {}
    BY DEF Init, Written, FramesOf
  <1>3. Within
    BY StationFacts DEF Init, Within, Precedes, FramesOf, Sorted
  <1>4. InOrder
    BY DEF Init, InOrder, Sorted
  <1> QED BY <1>1, <1>2, <1>3, <1>4 DEF Ordered, Cross, AfterWritten, Captured, Precedes

(* A step that moves no frame to another station, writes and captures       *)
(* nothing keeps the order between stations.                                *)
LEMMA Shrink ==
  ASSUME Cross, AfterWritten, Captured,
         \A s \in Stations : AtStation(s)' \subseteq AtStation(s),
         Written' = Written, seq' = seq,
         audio' = "sending" => audio = "sending"
  PROVE  Cross' /\ AfterWritten' /\ Captured'
  <1>1. Cross'
    BY DEF Cross, Precedes
  <1>2. AfterWritten'
    BY DEF AfterWritten, Precedes
  <1>3. Captured'
    BY DEF Captured, Old
  <1> QED BY <1>1, <1>2, <1>3

(* A step that hands the oldest frames X of station s to the next station.  *)
LEMMA Transfer ==
  ASSUME Cross, AfterWritten, Captured,
         NEW s \in Stations, s # Last, NEW X, X \subseteq AtStation(s),
         AtStation(s + 1)' \subseteq AtStation(s + 1) \cup X,
         Precedes(X, AtStation(s)'),
         \A t \in Stations : t # s + 1 => AtStation(t)' \subseteq AtStation(t),
         Written' = Written, seq' = seq, audio' = audio
  PROVE  Cross' /\ AfterWritten' /\ Captured'
  <1>0. s + 1 \in Stations /\ s \in Nat
    BY StationFacts, PipelineAssumption DEF Stations
  <1>1. Cross'
    <2> SUFFICES ASSUME NEW u \in Stations, NEW t \in Stations, u < t,
                        NEW x \in AtStation(t)', NEW y \in AtStation(u)'
                 PROVE  x < y
      BY DEF Cross, Precedes
    <2>1. CASE t = s + 1 /\ u = s
      BY <2>1, <1>0 DEF Cross, Precedes
    <2>2. CASE t = s + 1 /\ u # s
      <3>1. u < s /\ u # s + 1
        BY <2>2, <1>0 DEF Stations
      <3> QED BY <2>2, <3>1 DEF Cross, Precedes
    <2>3. CASE u = s + 1
      <3>1. s < t /\ t # s + 1
        BY <2>3, <1>0 DEF Stations
      <3> QED BY <2>3, <3>1 DEF Cross, Precedes
    <2>4. CASE u # s + 1 /\ t # s + 1
      BY <2>4 DEF Cross, Precedes
    <2> QED BY <2>1, <2>2, <2>3, <2>4
  <1>2. AfterWritten'
    BY <1>0 DEF AfterWritten, Precedes
  <1>3. Captured'
    BY <1>0 DEF Captured, Old
  <1> QED BY <1>1, <1>2, <1>3

LEMMA TailSorted ==
  ASSUME NEW S, NEW m \in Seq(S), m # <<>>, Sorted(m)
  PROVE  Sorted(Tail(m)) /\ Precedes(Head(m), FramesOf(Tail(m)))
  <1>1. \A i \in DOMAIN Tail(m) :
          i \in Nat /\ i >= 1 /\ i + 1 \in DOMAIN m /\ Tail(m)[i] = m[i + 1]
    BY TailFrames
  <1>2. Head(m) = m[1] /\ 1 \in DOMAIN m
    BY TailFrames
  <1>3. Sorted(Tail(m))
    BY <1>1 DEF Sorted
  <1>4. \A i \in DOMAIN Tail(m) : Precedes(Head(m), Tail(m)[i])
    BY <1>1, <1>2 DEF Sorted
  <1> QED BY <1>3, <1>4 DEF Precedes, FramesOf

LEMMA AppendSorted ==
  ASSUME NEW S, NEW m \in Seq(S), NEW x \in S, Sorted(m), Precedes(FramesOf(m), x)
  PROVE  Sorted(Append(m, x))
  <1>1. \A i \in DOMAIN Append(m, x) :
              IF i = Len(m) + 1 THEN Append(m, x)[i] = x
              ELSE i \in DOMAIN m /\ Append(m, x)[i] = m[i]
    BY AppendFrames
  <1>2. DOMAIN m = 1..Len(m) /\ Len(m) \in Nat /\ DOMAIN Append(m, x) = 1..Len(m) + 1
    OBVIOUS
  <1>3. ASSUME NEW i \in DOMAIN Append(m, x), NEW j \in DOMAIN Append(m, x), i < j
        PROVE  Precedes(Append(m, x)[i], Append(m, x)[j])
    <2>1. i # Len(m) + 1 /\ i \in DOMAIN m /\ Append(m, x)[i] = m[i]
      BY <1>1, <1>2, <1>3
    <2>2. CASE j = Len(m) + 1
      <3>1. m[i] \subseteq FramesOf(m) /\ Append(m, x)[j] = x
        BY <2>1, <2>2, <1>1 DEF FramesOf
      <3> QED BY <3>1, <2>1 DEF Precedes
    <2>3. CASE j # Len(m) + 1
      BY <2>1, <2>3, <1>1, <1>3 DEF Sorted
    <2> QED BY <2>2, <2>3
  <1> QED BY <1>3 DEF Sorted

LEMMA OrderAudio == ASSUME TypeOK, Shape, Ordered, Audio PROVE Ordered'
  <1> USE DEF Ordered
  <1>0. seq \in Nat
    BY DEF TypeOK
  <1>1. CASE AudioRead
    <2>1. /\ \A s \in Stations : AtStation(s)' = AtStation(s)
          /\ Written' = Written /\ Within' /\ InOrder'
      BY <1>1 DEF AudioRead, stationVars, AtStation, Written, Within, InOrder
    <2>2. Captured'
      BY <1>0, <1>1, <2>1 DEF AudioRead, Captured, Old
    <2> QED BY <2>1, <2>2 DEF Cross, AfterWritten
  <1>2. CASE AudioSend
    <2>0. UNCHANGED <<st, held, acc, pre, handled, seq>> /\ audio = "sending" /\ audio' = "polling"
      BY <1>2 DEF AudioSend
    <2>1. CASE UNCHANGED q
      <3>1. /\ \A s \in Stations : AtStation(s)' = AtStation(s)
            /\ Written' = Written /\ Within' /\ InOrder'
        BY <2>0, <2>1 DEF AtStation, Written, Within, InOrder
      <3> QED BY <3>1, <2>0, Shrink
    <2>2. CASE q' = [q EXCEPT ![VAD] = Append(q[VAD], {seq})]
      <3>0. q \in [Stations -> Seq(Items)] /\ VAD \in Stations /\ q[VAD] \in Seq(Items)
            /\ {seq} \in Items /\ VAD # CHUNKER /\ CHUNKER \in Stations
        <4>1. seq \in 1..Frames
          BY <2>0, PipelineAssumption DEF TypeOK, Shape
        <4> QED BY <4>1, StationFacts DEF TypeOK, Items
      <3>1. q'[VAD] = Append(q[VAD], {seq}) /\ \A s \in Stations \ {VAD} : q'[s] = q[s]
        BY <2>2, <3>0
      <3>2. FramesOf(q'[VAD]) = FramesOf(q[VAD]) \cup {seq}
        BY <3>0, <3>1, AppendFrames
      <3>3. \A s \in Stations : AtStation(s)' = IF s = VAD THEN AtStation(s) \cup {seq} ELSE AtStation(s)
        BY <2>0, <3>0, <3>1, <3>2 DEF AtStation
      <3>4. Written' = Written /\ InOrder'
        BY <2>0 DEF Written, InOrder
      <3>5. \A s \in Stations : \A x \in AtStation(s) : x < seq
        BY <2>0 DEF Captured, Old
      <3>6. \A x \in Written : x < seq
        BY <2>0 DEF Captured, Old
      <3>7. Cross'
        BY <3>3, <3>5 DEF Cross, Precedes, Stations, VAD
      <3>8. AfterWritten'
        BY <3>3, <3>4, <3>6 DEF AfterWritten, Precedes
      <3>9. Captured'
        BY <2>0, <3>3, <3>4, <1>0 DEF Captured, Old
      <3>10. Sorted(q'[VAD])
        <4>1. Precedes(FramesOf(q[VAD]), {seq})
          BY <3>0, <3>5 DEF Precedes, AtStation
        <4> QED BY <4>1, <3>0, <3>1, AppendSorted DEF Within
      <3>11. Precedes(held[VAD], FramesOf(q'[VAD]))
        BY <3>0, <3>2, <3>5 DEF Precedes, AtStation, Within
      <3>12. Within'
        BY <2>0, <3>0, <3>1, <3>10, <3>11 DEF Within
      <3> QED BY <3>4, <3>7, <3>8, <3>9, <3>12
    <2> QED BY <1>2, <2>1, <2>2 DEF AudioSend
  <1>3. CASE AudioEmpty \/ AudioError \/ AudioExhausted \/ AudioQuit
    <2>1. UNCHANGED <<stationVars, overrun, seq>> /\ audio' # "sending"
      BY <1>3 DEF AudioEmpty, AudioError, AudioExhausted, AudioQuit
    <2>2. /\ \A s \in Stations : AtStation(s)' = AtStation(s)
          /\ Written' = Written /\ Within' /\ InOrder'
      BY <2>1 DEF stationVars, AtStation, Written, Within, InOrder
    <2> QED BY <2>1, <2>2, Shrink
  <1> QED BY <1>1, <1>2, <1>3 DEF Audio

LEMMA OrderStation ==
  ASSUME TypeOK, Shape, Ordered, NEW s \in Stations, Station(s) PROVE Ordered'
  <1> USE DEF Ordered
  <1>a. /\ q \in [Stations -> Seq(Items)] /\ \A t \in Stations : q[t] \in Seq(Items)
        /\ st \in [Stations -> {"recv", "process", "send", "closing", "dead"}]
        /\ held \in [Stations -> SUBSET (1..Frames)]
        /\ handled \in Seq(Items)
    BY DEF TypeOK
  <1>b. UNCHANGED <<handled, seq, audio>> => Written' = Written /\ InOrder' /\ (audio' = "sending" => audio = "sending")
    BY DEF Written, InOrder
  <1>1. CASE Recv(s)
    <2>0. /\ held' = [held EXCEPT ![s] = Head(q[s])] /\ q' = [q EXCEPT ![s] = Tail(q[s])]
          /\ held[s] = {} /\ q[s] # <<>> /\ UNCHANGED <<acc, pre, handled, seq, audio>>
      BY <1>1 DEF Recv, Shape, threadVars
    <2>1. FramesOf(q[s]) = Head(q[s]) \cup FramesOf(q'[s]) /\ held'[s] = Head(q[s])
      BY <1>a, <2>0, TailFrames
    <2>2. \A t \in Stations \ {s} : q'[t] = q[t] /\ held'[t] = held[t]
      BY <1>a, <2>0
    <2>3. \A t \in Stations : AtStation(t)' = AtStation(t)
      BY <2>0, <2>1, <2>2 DEF AtStation
    <2>4. Sorted(q'[s]) /\ Precedes(held'[s], FramesOf(q'[s]))
      BY <1>a, <2>0, <2>1, TailSorted DEF Within
    <2>5. Within'
      <3>1. \A t \in Stations : Sorted(q'[t]) /\ Precedes(held'[t], FramesOf(q'[t]))
        BY <2>2, <2>4 DEF Within
      <3>2. CASE s = CHUNKER
        BY <2>0, <2>1, <3>1, <3>2 DEF Within, Precedes
      <3>3. CASE s # CHUNKER
        BY <2>0, <2>2, <3>1, <3>3, StationFacts DEF Within
      <3> QED BY <3>2, <3>3
    <2> QED BY <1>b, <2>0, <2>3, <2>5, Shrink
  <1>2. CASE Disconnected(s) \/ Forward(s) \/ Drop(s) \/ SendFail(s)
    <2>0. /\ UNCHANGED <<q, acc, pre, handled, seq, audio>>
          /\ \A t \in Stations : held'[t] \subseteq held[t]
      BY <1>2, <1>a DEF Disconnected, Forward, Drop, SendFail, threadVars
    <2>1. \A t \in Stations : AtStation(t)' \subseteq AtStation(t)
      BY <2>0 DEF AtStation
    <2>2. Within'
      BY <2>0, StationFacts DEF Within, Precedes
    <2> QED BY <1>b, <2>0, <2>1, <2>2, Shrink
  <1>3. CASE Send(s) /\ s = Last
    <2>0. UNCHANGED <<q, acc, pre, handled, seq, audio>> /\ held' = [held EXCEPT ![s] = {}]
      BY <1>3 DEF Send
    <2>1. \A t \in Stations : held'[t] \subseteq held[t]
      BY <1>a, <2>0
    <2>2. \A t \in Stations : AtStation(t)' \subseteq AtStation(t)
      BY <2>0, <2>1 DEF AtStation
    <2>3. Within'
      BY <2>0, <2>1, StationFacts DEF Within, Precedes
    <2> QED BY <1>b, <2>0, <2>2, <2>3, Shrink
  <1>4. CASE Send(s) /\ s # Last
    <2>0. /\ UNCHANGED <<acc, pre, handled, seq, audio>> /\ held' = [held EXCEPT ![s] = {}]
          /\ q' = [q EXCEPT ![s + 1] = Append(q[s + 1], held[s])]
          /\ s + 1 \in Stations /\ s < s + 1 /\ s # s + 1
          /\ held[s] \in Items
          /\ s = CHUNKER => acc = {} /\ pre = {}
      <3>1. held[s] \in Items
        BY <1>4, <1>a DEF Send, Shape, Items
      <3>2. s + 1 \in Stations /\ s < s + 1 /\ s # s + 1
        BY <1>4, StationFacts, PipelineAssumption DEF Stations
      <3> QED BY <1>4, <3>1, <3>2 DEF Send, Shape
    <2>1. \A t \in Stations : /\ held'[t] = IF t = s THEN {} ELSE held[t]
                              /\ q'[t] = IF t = s + 1 THEN Append(q[s + 1], held[s]) ELSE q[t]
      BY <1>a, <2>0
    <2>2. FramesOf(q'[s + 1]) = FramesOf(q[s + 1]) \cup held[s]
      BY <1>a, <2>0, <2>1, AppendFrames
    <2>3. /\ held[s] \subseteq AtStation(s)
          /\ AtStation(s + 1)' \subseteq AtStation(s + 1) \cup held[s]
          /\ \A t \in Stations : t # s + 1 => AtStation(t)' \subseteq AtStation(t)
      BY <2>0, <2>1, <2>2 DEF AtStation
    <2>4. Precedes(held[s], AtStation(s)')
      <3>1. AtStation(s)' = FramesOf(q[s])
        BY <2>0, <2>1 DEF AtStation
      <3> QED BY <3>1 DEF Within
    <2>5. Precedes(AtStation(s + 1), held[s])
      BY <2>0, <2>3 DEF Cross, Precedes
    <2>6. Sorted(q'[s + 1])
      <3>1. Precedes(FramesOf(q[s + 1]), held[s])
        BY <2>5 DEF AtStation, Precedes
      <3> QED BY <3>1, <1>a, <2>0, <2>1, AppendSorted DEF Within
    <2>7. Within'
      <3>1. \A t \in Stations : Sorted(q'[t]) /\ Precedes(held'[t], FramesOf(q'[t]))
        <4>1. Precedes(held[s + 1], FramesOf(q'[s + 1]))
          BY <2>0, <2>2, <2>5 DEF AtStation, Precedes, Within
        <4> QED BY <2>0, <2>1, <2>6, <4>1 DEF Within, Precedes
      <3>2. Precedes(acc \cup pre, held'[CHUNKER])
        BY <2>1, StationFacts DEF Within, Precedes
      <3>3. Precedes(acc \cup pre, FramesOf(q'[CHUNKER]))
        <4>1. CASE s + 1 = CHUNKER
          BY <4>1, <2>2, <2>5 DEF AtStation, Precedes, Within
        <4>2. CASE s + 1 # CHUNKER
          BY <4>2, <2>1, StationFacts DEF Within
        <4> QED BY <4>1, <4>2
      <3> QED BY <2>0, <3>1, <3>2, <3>3 DEF Within
    <2>8. Cross' /\ AfterWritten' /\ Captured'
      BY <1>4, <1>b, <2>0, <2>3, <2>4, Transfer
    <2> QED BY <1>b, <2>0, <2>7, <2>8
  <1>5. CASE End(s) \/ Crash(s)
    <2>0. /\ UNCHANGED <<pre, handled, seq, audio>> /\ q' = [q EXCEPT ![s] = <<>>]
          /\ acc' \subseteq acc
          /\ held' = held \/ held' = [held EXCEPT ![s] = {}]
      BY <1>5 DEF End, Crash, threadVars
    <2>1. \A t \in Stations : held'[t] \subseteq held[t] /\ (q'[t] = q[t] \/ q'[t] = <<>>)
      BY <1>a, <2>0
    <2>2. FramesOf(<<>>) = {} /\ Sorted(<<>>)
      BY DEF FramesOf, Sorted
    <2>3. \A t \in Stations : FramesOf(q'[t]) \subseteq FramesOf(q[t]) /\ Sorted(q'[t])
      BY <2>1, <2>2 DEF Within
    <2>4. \A t \in Stations : AtStation(t)' \subseteq AtStation(t)
      BY <2>0, <2>1, <2>3 DEF AtStation
    <2>5. Within'
      BY <2>0, <2>1, <2>3, StationFacts DEF Within, Precedes
    <2> QED BY <1>b, <2>0, <2>4, <2>5, Shrink
  <1>6. CASE s = CHUNKER /\ Feed
    <2>0. /\ UNCHANGED <<q, handled, seq, audio>>
          /\ \A t \in Stations \ {CHUNKER} : held'[t] = held[t]
          /\ acc = {} \/ pre = {}
      BY <1>6, <1>a DEF Feed, FeedSilence, FeedSpeech, FeedMore, FeedEmit, feedRest, threadVars, Shape
    <2>1. CASE FeedEmit
      <3>1. acc' = {} /\ pre' = pre /\ pre = {} /\ held'[CHUNKER] = acc \cup held[CHUNKER]
        BY <2>0, <2>1, <1>a, StationFacts DEF FeedEmit
      <3>2. \A t \in Stations : AtStation(t)' \subseteq AtStation(t)
        BY <2>0, <3>1 DEF AtStation
      <3>3. Within'
        BY <2>0, <3>1, StationFacts DEF Within, Precedes
      <3> QED BY <1>b, <2>0, <3>2, <3>3, Shrink
    <2>2. CASE FeedSilence \/ FeedSpeech \/ FeedMore
      <3>1. held'[CHUNKER] = {} /\ acc' \cup pre' \subseteq acc \cup pre \cup held[CHUNKER]
        BY <2>2, <1>a, StationFacts DEF FeedSilence, FeedSpeech, FeedMore, Newest
      <3>2. \A t \in Stations : AtStation(t)' \subseteq AtStation(t)
        BY <2>0, <3>1 DEF AtStation
      <3>3. Within'
        BY <2>0, <3>1, StationFacts DEF Within, Precedes
      <3> QED BY <1>b, <2>0, <3>2, <3>3, Shrink
    <2> QED BY <1>6, <2>1, <2>2 DEF Feed
  <1>7. CASE s = CHUNKER /\ Flush
    <2> DEFINE next == CHUNKER + 1
    <2>0. /\ UNCHANGED <<held, pre, handled, seq, audio>> /\ acc' = {}
          /\ pre = {} /\ acc \in Items /\ held[CHUNKER] = {}
          /\ CHUNKER \in Stations /\ next \in Stations
          /\ CHUNKER < next /\ CHUNKER # next /\ CHUNKER # Last
      <3>1. next \in Stations /\ CHUNKER < next /\ CHUNKER # next
        <4>1. next \in Stations
          BY StationFacts
        <4>2. CHUNKER < next /\ CHUNKER # next
          BY DEF CHUNKER
        <4> QED BY <4>1, <4>2
      <3> QED BY <1>7, <3>1, StationFacts DEF Flush, Shape, threadVars, TypeOK, Items
    <2>1. CASE UNCHANGED q
      <3>1. \A t \in Stations : AtStation(t)' \subseteq AtStation(t)
        BY <2>0, <2>1 DEF AtStation
      <3>2. Within'
        BY <2>0, <2>1 DEF Within, Precedes
      <3> QED BY <1>b, <2>0, <3>1, <3>2, Shrink
    <2>2. CASE q' = [q EXCEPT ![next] = Append(q[next], acc)]
      <3>1. \A t \in Stations : q'[t] = IF t = next THEN Append(q[next], acc) ELSE q[t]
        BY <1>a, <2>0, <2>2
      <3>2. FramesOf(q'[next]) = FramesOf(q[next]) \cup acc
        BY <1>a, <2>0, <3>1, AppendFrames
      <3>3. /\ acc \subseteq AtStation(CHUNKER)
            /\ AtStation(next)' \subseteq AtStation(next) \cup acc
            /\ \A t \in Stations : t # next => AtStation(t)' \subseteq AtStation(t)
        BY <2>0, <3>1, <3>2 DEF AtStation
      <3>4. Precedes(acc, AtStation(CHUNKER)')
        <4>1. AtStation(CHUNKER)' = FramesOf(q[CHUNKER])
          BY <2>0, <3>1 DEF AtStation
        <4> QED BY <4>1 DEF Within, Precedes
      <3>5. Precedes(AtStation(next), acc)
        BY <2>0, <3>3 DEF Cross, Precedes
      <3>6. Sorted(q'[next])
        <4>1. Precedes(FramesOf(q[next]), acc)
          BY <3>5 DEF AtStation, Precedes
        <4> QED BY <4>1, <1>a, <2>0, <3>1, AppendSorted DEF Within
      <3>7. Precedes(held[next], FramesOf(q'[next]))
        BY <2>0, <3>2, <3>5 DEF AtStation, Precedes, Within
      <3>8. Within'
        BY <2>0, <3>1, <3>6, <3>7 DEF Within, Precedes
      <3>9. Cross' /\ AfterWritten' /\ Captured'
        BY <1>b, <2>0, <3>3, <3>4, Transfer
      <3> QED BY <1>b, <2>0, <3>8, <3>9
    <2> QED BY <1>7, <2>1, <2>2 DEF Flush
  <1>8. CASE s = Last /\ SinkWrite
    <2>0. /\ UNCHANGED <<q, acc, pre, seq, audio>> /\ held' = [held EXCEPT ![Last] = {}]
          /\ handled' = Append(handled, held[Last]) /\ held[Last] \in Items
          /\ Last \in Stations /\ Last # CHUNKER
      BY <1>8, <1>a, StationFacts DEF SinkWrite, Shape, threadVars, Items
    <2>1. \A t \in Stations : held'[t] = IF t = Last THEN {} ELSE held[t]
      BY <1>a, <2>0
    <2>2. Written' = Written \cup held[Last]
      BY <1>a, <2>0, AppendFrames DEF Written
    <2>3. \A t \in Stations : AtStation(t)' \subseteq AtStation(t)
      BY <2>0, <2>1 DEF AtStation
    <2>4. AtStation(Last)' = FramesOf(q[Last]) /\ held[Last] \subseteq AtStation(Last)
      BY <2>0, <2>1 DEF AtStation
    <2>5. \A t \in Stations : Precedes(held[Last], AtStation(t)')
      <3>1. ASSUME NEW t \in Stations, t # Last PROVE Precedes(held[Last], AtStation(t))
        <4>1. t < Last
          BY <3>1, PipelineAssumption DEF Stations
        <4> QED BY <4>1, <2>0, <2>4 DEF Cross, Precedes
      <3> QED BY <2>0, <2>3, <2>4, <3>1 DEF Within, Precedes
    <2>6. AfterWritten'
      BY <2>2, <2>3, <2>5 DEF AfterWritten, Precedes
    <2>7. Cross'
      BY <2>3 DEF Cross, Precedes
    <2>8. Captured'
      BY <2>0, <2>2, <2>3, <2>4 DEF Captured, Old
    <2>9. Within'
      BY <2>0, <2>1 DEF Within, Precedes
    <2>10. InOrder'
      <3>1. Precedes(FramesOf(handled), held[Last])
        BY <2>0, <2>4 DEF AfterWritten, Precedes, Written
      <3> QED BY <3>1, <1>a, <2>0, AppendSorted DEF InOrder
    <2> QED BY <2>6, <2>7, <2>8, <2>9, <2>10
  <1> QED BY <1>1, <1>2, <1>3, <1>4, <1>5, <1>6, <1>7, <1>8 DEF Station

LEMMA OrderOther ==
  ASSUME Shape, Ordered, Drain \/ StartOk \/ StartFail \/ Stop \/ Finishing \/ Finished
                   \/ UNCHANGED vars
  PROVE  Ordered'
  <1>1. UNCHANGED <<stationVars, overrun, seq>> /\ (audio' = "sending" => audio = "sending")
    BY DEF Drain, DrainCheck, DrainRecv, DrainTimeout, drainRest, StartOk, StartFail,
           Stop, Finishing, TakeResult, NoResult, ResultTimeout, JoinAll, Detach,
           Finished, vars, callerRest, stationVars, threadVars
  <1>2. /\ \A s \in Stations : AtStation(s)' = AtStation(s)
        /\ Written' = Written /\ (Within <=> Within') /\ (InOrder <=> InOrder')
    BY <1>1 DEF stationVars, AtStation, Written, Within, InOrder
  <1> QED BY <1>1, <1>2, Shrink DEF Ordered

LEMMA OrderedCorrect == Spec => []Ordered
  <1>1. TypeOK /\ Shape /\ Ordered /\ [Next]_vars => Ordered'
    BY OrderAudio, OrderStation, OrderOther DEF Next
  <1> QED BY <1>1, OrderInit, TypeCorrect, ShapeCorrect, PTL DEF Spec

(* Texts reach the sink in the order they were spoken and no frame is in    *)
(* two texts, for any number of stations and any interleaving.              *)
THEOREM OrderCorrect == Spec => []InOrder
  <1>1. Ordered => InOrder
    BY DEF Ordered
  <1> QED BY <1>1, OrderedCorrect, PTL

-----------------------------------------------------------------------------
(* Nothing is lost while the pipeline runs *)

LEMMA KeptIsNotLost == ASSUME \A f \in 1..seq : Kept(f) PROVE Lost = {}
  BY DEF Lost, Kept, InFlight

LEMMA DrainingInit == Init => Draining
  <1> SUFFICES ASSUME Init PROVE Draining
    OBVIOUS
  <1>1. 1..seq = {}
    BY DEF Init
  <1> QED BY <1>1 DEF Init, Draining

(* A step that keeps every frame where it is, or passes it on.              *)
LEMMA KeepAll ==
  ASSUME \A f \in 1..seq : Kept(f), seq' = seq,
         Written \subseteq Written', filtered \subseteq filtered', overrun \subseteq overrun',
         \A f \in InHand : Kept(f)',
         \A s \in Stations : \A f \in AtStation(s) : Kept(f)'
  PROVE  \A f \in 1..seq' : Kept(f)'
  BY DEF Kept

LEMMA DrainingAudio == ASSUME TypeOK, Shape, Draining, Audio PROVE Draining'
  <1> SUFFICES ASSUME running', crashed' = {} PROVE Draining'
    BY DEF Draining
  <1>0. running /\ crashed = {} /\ UNCHANGED <<drain, st, running, crashed, handled, held, acc, pre>>
    BY DEF Audio, AudioRead, AudioSend, AudioEmpty, AudioError, AudioExhausted, AudioQuit,
           stationVars, audioRest
  <1> USE <1>0, StationFacts DEF Draining
  <1>1. seq \in Nat
    BY DEF TypeOK
  <1>2. CASE AudioRead
    <2>1. \A f \in 1..seq' : f \in 1..seq \/ f \in InHand'
      BY <1>1, <1>2 DEF AudioRead, InHand
    <2>2. \A s \in Stations : AtStation(s)' = AtStation(s)
      BY <1>2 DEF AudioRead, stationVars, AtStation
    <2>3. \A f \in 1..seq : Kept(f)'
      BY <1>2, <2>2 DEF AudioRead, stationVars, Kept, Written, InHand
    <2>4. \A f \in 1..seq' : Kept(f)'
      BY <2>1, <2>3 DEF Kept
    <2>5. \A s \in Stations : Connected(s)' => Connected(s)
      BY <1>2 DEF AudioRead, Connected
    <2> QED BY <1>2, <2>4, <2>5 DEF AudioRead, stationVars
  <1>3. CASE AudioSend
    <2>1. st[VAD] # "dead" /\ st[VAD] # "closing"
      BY <1>3 DEF AudioSend, Connected
    <2>2. \A s \in Stations : Connected(s)' => Connected(s)
      BY <1>3 DEF AudioSend, Connected
    <2>3. \A f \in 1..seq' : Kept(f)'
      <3>1. Written' = Written /\ seq' = seq /\ InHand = {seq}
        BY <1>3 DEF AudioSend, Written, InHand
      <3>2. CASE UNCHANGED <<q, filtered>> /\ overrun' = overrun \cup {seq}
        <4>1. \A s \in Stations : AtStation(s)' = AtStation(s)
          BY <3>2 DEF AtStation
        <4> QED BY <3>1, <3>2, <4>1, KeepAll DEF Kept
      <3>3. CASE q' = [q EXCEPT ![VAD] = Append(q[VAD], {seq})] /\ UNCHANGED <<filtered, overrun>>
        <4>0. \A s \in Stations : q'[s] = IF s = VAD THEN Append(q[VAD], {seq}) ELSE q[s]
          BY <3>3 DEF TypeOK
        <4>1. FramesOf(q'[VAD]) = FramesOf(q[VAD]) \cup {seq}
          <5>1. {seq} \in SUBSET Nat /\ q[VAD] \in Seq(SUBSET Nat)
            BY <1>1 DEF TypeOK, Items
          <5> QED BY <4>0, <5>1, AppendFrames
        <4>2. /\ \A s \in Stations : AtStation(s) \subseteq AtStation(s)'
              /\ seq \in AtStation(VAD)'
          BY <4>0, <4>1 DEF AtStation
        <4> QED BY <3>1, <3>3, <4>2, KeepAll DEF Kept
      <3> QED BY <1>3, <2>1, <3>2, <3>3 DEF AudioSend
    <2>4. \A s \in Stations : st[s] \in {"closing", "dead"} => q'[s] = <<>>
      BY <1>3, <2>1 DEF AudioSend, TypeOK
    <2> QED BY <2>2, <2>3, <2>4
  <1>4. CASE AudioEmpty \/ AudioError \/ AudioExhausted \/ AudioQuit
    <2>1. UNCHANGED <<stationVars, overrun, seq>> /\ audio = "polling"
      BY <1>4 DEF AudioEmpty, AudioError, AudioExhausted, AudioQuit
    <2>2. \A s \in Stations : AtStation(s)' = AtStation(s) /\ (Connected(s)' => Connected(s))
      BY <2>1 DEF stationVars, AtStation, Connected
    <2>3. \A f \in 1..seq' : Kept(f)'
      BY <2>1, <2>2 DEF stationVars, Kept, Written, InHand
    <2> QED BY <2>1, <2>2, <2>3 DEF stationVars
  <1> QED BY <1>2, <1>3, <1>4 DEF Audio

LEMMA DrainingOther ==
  ASSUME TypeOK, Shape, Draining,
         Drain \/ StartOk \/ StartFail \/ Stop \/ Finishing \/ Finished \/ UNCHANGED vars
  PROVE  Draining'
  <1> SUFFICES ASSUME running', crashed' = {} PROVE Draining'
    BY DEF Draining
  <1> USE DEF Drain, DrainCheck, DrainRecv, DrainTimeout, drainRest, StartOk, StartFail,
           Stop, Finishing, TakeResult, NoResult, ResultTimeout, JoinAll, Detach,
           Finished, vars, callerRest, stationVars, threadVars
  <1>1. UNCHANGED <<stationVars, overrun, seq>> /\ running /\ crashed = {}
    OBVIOUS
  <1>2. (audio = "sending" <=> audio' = "sending") /\ (audio = "dead" => audio' = "dead")
    BY DEF Shape
  <1>3. drain # "dead" => drain' # "dead"
    BY <1>1
  <1> QED
    <2>1. \A s \in Stations : AtStation(s)' = AtStation(s) /\ (Connected(s)' => Connected(s))
      BY ONLY <1>1, <1>2 DEF stationVars, AtStation, Connected
    <2>2. \A f \in 1..seq' : Kept(f)'
      BY ONLY <1>1, <1>2, <2>1, Draining DEF stationVars, Kept, Written, InHand, Draining
    <2> QED BY ONLY Draining, <1>1, <1>3, <2>1, <2>2 DEF stationVars, Draining

LEMMA DrainingStation ==
  ASSUME TypeOK, Shape, Draining, NEW s \in Stations, Station(s) PROVE Draining'
  <1> SUFFICES ASSUME running', crashed' = {} PROVE Draining'
    BY DEF Draining
  <1>0. running /\ UNCHANGED <<running, drain, audio, overrun, seq>>
    BY DEF Station, Recv, Disconnected, Forward, Drop, Send, SendFail, End, Crash, Feed,
           FeedSilence, FeedSpeech, FeedMore, FeedEmit, Flush, SinkWrite, feedRest, threadVars
  <1>a. /\ q \in [Stations -> Seq(Items)] /\ \A t \in Stations : q[t] \in Seq(Items)
        /\ st \in [Stations -> {"recv", "process", "send", "closing", "dead"}]
        /\ held \in [Stations -> SUBSET (1..Frames)]
        /\ handled \in Seq(Items) /\ crashed \in SUBSET Stations
    BY DEF TypeOK
  <1>b. crashed = {}
    BY <1>a DEF Station, Recv, Disconnected, Forward, Drop, Send, SendFail, End, Crash, Feed,
           FeedSilence, FeedSpeech, FeedMore, FeedEmit, Flush, SinkWrite, feedRest, threadVars
  <1>c. /\ drain # "dead" /\ \A f \in 1..seq : Kept(f)
        /\ \A t \in Stations : st[t] \in {"closing", "dead"} => ~Connected(t) /\ q[t] = <<>>
    BY <1>0, <1>b DEF Draining
  <1>d. ASSUME \A t \in Stations : \A f \in AtStation(t) : Kept(f)',
               Written \subseteq Written', filtered \subseteq filtered'
        PROVE  \A f \in 1..seq' : Kept(f)'
    <2>1. \A f \in InHand : Kept(f)'
      BY <1>0 DEF InHand, Kept
    <2> QED BY <2>1, <1>0, <1>c, <1>d, KeepAll
  <1>e. ASSUME NEW t \in Stations, t # Last, st[t] # "dead"
        PROVE  t + 1 \in Stations /\ st[t + 1] \notin {"closing", "dead"}
    <2>1. t + 1 \in Stations /\ t + 1 # VAD
      BY <1>e, StationFacts
    <2>2. (t + 1) - 1 = t
      BY DEF Stations
    <2> QED BY <2>1, <2>2, <1>e, <1>c DEF Connected
  <1>f. ASSUME \A t \in Stations : st[t] = "dead" => st'[t] = "dead"
        PROVE  \A t \in Stations : Connected(t)' => Connected(t)
    <2> SUFFICES ASSUME NEW t \in Stations, Connected(t)' PROVE Connected(t)
      OBVIOUS
    <2>1. CASE t = VAD
      BY <2>1, <1>0 DEF Connected
    <2>2. CASE t # VAD
      <3>1. t - 1 \in Stations
        BY <2>2, PipelineAssumption DEF Stations, VAD
      <3> QED BY <2>2, <3>1, <1>f, StationFacts DEF Connected
    <2> QED BY <2>1, <2>2
  <1>g. \A t \in Stations : \A f \in AtStation(t)' : Kept(f)'
    BY DEF Kept
  <1> USE DEF threadVars
  <1>1. CASE Recv(s)
    <2>0. /\ held' = [held EXCEPT ![s] = Head(q[s])] /\ q' = [q EXCEPT ![s] = Tail(q[s])]
          /\ st' = [st EXCEPT ![s] = "process"] /\ st[s] = "recv"
          /\ held[s] = {} /\ q[s] # <<>> /\ UNCHANGED <<acc, pre, handled, filtered>>
      BY <1>1 DEF Recv, Shape
    <2>1. FramesOf(q[s]) = Head(q[s]) \cup FramesOf(q'[s]) /\ held'[s] = Head(q[s])
      BY <1>a, <2>0, TailFrames
    <2>2. \A t \in Stations \ {s} : q'[t] = q[t] /\ held'[t] = held[t] /\ st'[t] = st[t]
      BY <1>a, <2>0
    <2>3. \A t \in Stations : AtStation(t)' = AtStation(t)
      BY <2>0, <2>1, <2>2 DEF AtStation
    <2>4. \A f \in 1..seq' : Kept(f)'
      BY <2>0, <2>3, <1>d, <1>g DEF Written
    <2>5. st'[s] = "process"
      BY <1>a, <2>0
    <2> QED BY <1>0, <1>c, <1>f, <2>0, <2>2, <2>4, <2>5 DEF Draining
  <1>2. CASE Disconnected(s)
    <2>0. /\ st' = [st EXCEPT ![s] = "closing"] /\ q[s] = <<>> /\ ~Connected(s)
          /\ st[s] = "recv" /\ UNCHANGED <<q, held, acc, pre, handled, filtered>>
      BY <1>2 DEF Disconnected
    <2>1. \A t \in Stations : AtStation(t)' = AtStation(t)
      BY <2>0 DEF AtStation
    <2>2. \A f \in 1..seq' : Kept(f)'
      BY <2>0, <2>1, <1>d, <1>g DEF Written
    <2>3. \A t \in Stations : st'[t] = IF t = s THEN "closing" ELSE st[t]
      BY <1>a, <2>0
    <2> QED BY <1>0, <1>c, <1>f, <2>0, <2>2, <2>3 DEF Draining
  <1>3. CASE Forward(s) \/ Drop(s) \/ (s = Last /\ SinkWrite)
    <2>0. /\ UNCHANGED <<q, acc, pre>> /\ st[s] = "process"
          /\ \A t \in Stations \ {s} : held'[t] = held[t]
          /\ \A t \in Stations : st'[t] = st[t] \/ (t = s /\ st'[t] \in {"send", "recv"})
      BY <1>3, <1>a DEF Forward, Drop, SinkWrite
    <2>1. CASE Forward(s)
      <3>1. UNCHANGED <<held, filtered, handled>>
        BY <2>1 DEF Forward
      <3> QED BY <2>0, <3>1, <1>0, <1>c, <1>d, <1>f, <1>g DEF Draining, Written, AtStation
    <2>2. CASE Drop(s)
      <3>1. filtered' = filtered \cup held[s] /\ UNCHANGED handled
        BY <2>2 DEF Drop
      <3>2. \A t \in Stations : AtStation(t) \subseteq AtStation(t)' \cup filtered'
        BY <2>0, <3>1 DEF AtStation
      <3>3. \A f \in 1..seq' : Kept(f)'
        BY <3>1, <3>2, <1>d DEF Kept, Written
      <3> QED BY <2>0, <3>3, <1>0, <1>c, <1>f DEF Draining
    <2>3. CASE s = Last /\ SinkWrite
      <3>1. handled' = Append(handled, held[Last]) /\ UNCHANGED filtered /\ held[Last] \in Items
        BY <2>3, <1>a DEF SinkWrite, Shape, Items
      <3>2. Written' = Written \cup held[Last]
        BY <1>a, <3>1, AppendFrames DEF Written
      <3>3. \A t \in Stations : AtStation(t) \subseteq AtStation(t)' \cup Written'
        BY <2>0, <2>3, <3>2 DEF AtStation
      <3>4. \A f \in 1..seq' : Kept(f)'
        BY <3>1, <3>2, <3>3, <1>d DEF Kept
      <3> QED BY <2>0, <3>4, <1>0, <1>c, <1>f DEF Draining
    <2> QED BY <1>3, <2>1, <2>2, <2>3
  <1>4. CASE Send(s)
    <2>0. /\ UNCHANGED <<acc, pre, handled, filtered>> /\ st[s] = "send"
          /\ \A t \in Stations \ {s} : held'[t] = held[t] /\ st'[t] = st[t]
          /\ st'[s] = "recv" /\ held'[s] = {}
      BY <1>4, <1>a DEF Send
    <2>1. CASE s = Last
      <3>1. UNCHANGED q /\ held[s] = {}
        BY <1>4, <2>1 DEF Send, Shape
      <3>2. \A t \in Stations : AtStation(t) \subseteq AtStation(t)'
        BY <2>0, <3>1 DEF AtStation
      <3>3. \A f \in 1..seq' : Kept(f)'
        BY <2>0, <3>2, <1>d, <1>g DEF Written
      <3> QED BY <2>0, <3>1, <3>3, <1>0, <1>c, <1>f DEF Draining
    <2>2. CASE s # Last
      <3>0. s + 1 \in Stations /\ st[s + 1] \notin {"closing", "dead"} /\ held[s] \in Items
            /\ q' = [q EXCEPT ![s + 1] = Append(q[s + 1], held[s])]
        BY <1>4, <2>0, <2>2, <1>a, <1>e DEF Send, Shape, Items
      <3>1. \A t \in Stations : q'[t] = IF t = s + 1 THEN Append(q[s + 1], held[s]) ELSE q[t]
        BY <1>a, <3>0
      <3>2. FramesOf(q'[s + 1]) = FramesOf(q[s + 1]) \cup held[s]
        BY <1>a, <3>0, <3>1, AppendFrames
      <3>3. held[s] \subseteq AtStation(s + 1)'
        BY <3>0, <3>2 DEF AtStation
      <3>4. \A t \in Stations : AtStation(t) \subseteq AtStation(t)' \cup held[s]
        BY <2>0, <3>0, <3>1, <3>2 DEF AtStation
      <3>5. \A t \in Stations : \A f \in AtStation(t) : Kept(f)'
        BY <3>0, <3>3, <3>4, <1>g
      <3>6. \A f \in 1..seq' : Kept(f)'
        BY <2>0, <3>5, <1>d DEF Written
      <3>7. \A t \in Stations : st'[t] \in {"closing", "dead"} => st[t] = st'[t] /\ q'[t] = q[t]
        BY <2>0, <3>0, <3>1
      <3> QED BY <2>0, <3>6, <3>7, <1>0, <1>c, <1>f DEF Draining
    <2> QED BY <2>1, <2>2
  <1>5. CASE SendFail(s)
    BY <1>5, <1>c, <1>e DEF SendFail, ReceiverAlive
  <1>6. CASE End(s)
    <2>0. /\ UNCHANGED <<held, acc, pre, handled, filtered>> /\ st[s] = "closing"
          /\ \A t \in Stations : st'[t] = IF t = s THEN "dead" ELSE st[t]
          /\ q' = q
      <3>1. q[s] = <<>> /\ st[s] = "closing"
        BY <1>6, <1>c DEF End
      <3> QED BY <1>6, <1>a, <3>1 DEF End
    <2>1. \A t \in Stations : AtStation(t)' = AtStation(t)
      BY <2>0 DEF AtStation
    <2>2. \A f \in 1..seq' : Kept(f)'
      BY <2>0, <2>1, <1>d, <1>g DEF Written
    <2> QED BY <2>0, <2>2, <1>0, <1>c, <1>f DEF Draining
  <1>7. CASE Crash(s)
    BY <1>7, <1>a DEF Crash
  <1>8. CASE s = CHUNKER /\ Feed
    <2>0. /\ UNCHANGED <<q, handled>> /\ st[s] = "process" /\ filtered \subseteq filtered'
          /\ \A t \in Stations \ {s} : held'[t] = held[t]
          /\ \A t \in Stations : st'[t] = st[t] \/ (t = s /\ st'[t] \in {"send", "recv"})
      BY <1>8, <1>a DEF Feed, FeedSilence, FeedSpeech, FeedMore, FeedEmit, feedRest
    <2>1. acc \cup pre \cup held[s] \subseteq acc' \cup pre' \cup held'[s] \cup filtered'
      BY <1>8, <1>a DEF Feed, FeedSilence, FeedSpeech, FeedMore, FeedEmit
    <2>2. \A t \in Stations : AtStation(t) \subseteq AtStation(t)' \cup filtered'
      BY <1>8, <2>0, <2>1 DEF AtStation
    <2>3. \A f \in 1..seq' : Kept(f)'
      BY <2>0, <2>2, <1>d DEF Kept, Written
    <2> QED BY <2>0, <2>3, <1>0, <1>c, <1>f DEF Draining
  <1>9. CASE s = CHUNKER /\ Flush
    <2> DEFINE next == CHUNKER + 1
    <2>0. next \in Stations /\ st[next] \notin {"closing", "dead"} /\ CHUNKER # Last
          /\ CHUNKER \in Stations /\ st[CHUNKER] = "closing"
      <3>1. CHUNKER # Last /\ CHUNKER \in Stations /\ st[CHUNKER] = "closing"
        BY <1>9, StationFacts DEF Flush
      <3> QED BY <3>1, <1>e
    <2>1. /\ UNCHANGED <<st, held, pre, handled, filtered>> /\ acc \in Items
          /\ q' = [q EXCEPT ![next] = Append(q[next], acc)]
      BY <1>9, <2>0 DEF Flush, ReceiverAlive, TypeOK, Items
    <2>2. \A t \in Stations : q'[t] = IF t = next THEN Append(q[next], acc) ELSE q[t]
      BY <1>a, <2>0, <2>1
    <2>3. FramesOf(q'[next]) = FramesOf(q[next]) \cup acc
      BY <1>a, <2>0, <2>1, <2>2, AppendFrames
    <2>4. acc \subseteq AtStation(next)'
      BY <2>0, <2>3 DEF AtStation
    <2>5. \A t \in Stations : AtStation(t) \subseteq AtStation(t)' \cup acc
      BY <2>0, <2>1, <2>2, <2>3 DEF AtStation
    <2>6. \A t \in Stations : \A f \in AtStation(t) : Kept(f)'
      BY <2>0, <2>4, <2>5, <1>g
    <2>7. \A f \in 1..seq' : Kept(f)'
      BY <2>1, <2>6, <1>d DEF Written
    <2> QED BY <2>0, <2>1, <2>2, <2>7, <1>0, <1>c, <1>f DEF Draining
  <1> QED BY <1>1, <1>2, <1>3, <1>4, <1>5, <1>6, <1>7, <1>8, <1>9 DEF Station

(* As long as nobody stopped the pipeline and no thread panicked, every     *)
(* frame captured is in a text, in flight, or reported as discarded.        *)
THEOREM NothingLost == Spec => []NoLossWhileRunning
  <1>1. Init => Draining
    BY DrainingInit
  <1>2. TypeOK /\ Shape /\ Draining /\ [Next]_vars => Draining'
    BY DrainingAudio, DrainingStation, DrainingOther DEF Next
  <1>3. Draining => NoLossWhileRunning
    BY KeptIsNotLost DEF Draining, NoLossWhileRunning
  <1> QED BY <1>1, <1>2, <1>3, TypeCorrect, ShapeCorrect, PTL DEF Spec

-----------------------------------------------------------------------------
(* The pipeline implements TextStream *)

LEMMA TSInit == Init => TS!Init
  BY StationFacts DEF Init, TS!Init

LEMMA TSQuiet == ASSUME UNCHANGED <<seq, handled>>, st'[Last] = st[Last]
                 PROVE  UNCHANGED TS!vars
  BY DEF TS!vars

(* The sink ends once: by returning its result or by a panic. *)
LEMMA TSClose == ASSUME UNCHANGED <<seq, handled>>, st[Last] # "dead", st'[Last] = "dead"
                 PROVE  TS!Next
  BY DEF TS!Next, TS!Close

LEMMA TSAudio == ASSUME TypeOK, Audio PROVE [TS!Next]_TS!vars
  <1>1. UNCHANGED <<handled, st>>
    BY DEF Audio, AudioRead, AudioSend, AudioEmpty, AudioError, AudioExhausted,
           AudioQuit, stationVars
  <1>2. CASE AudioRead
    BY <1>1, <1>2 DEF AudioRead, TS!Next, TS!Hear
  <1>3. CASE Audio /\ ~AudioRead
    <2>1. seq' = seq
      BY <1>3 DEF Audio, AudioSend, AudioEmpty, AudioError, AudioExhausted, AudioQuit
    <2> QED BY <1>1, <2>1, TSQuiet
  <1> QED BY <1>2, <1>3

(* The text in the sink's hands is newer than every text written before.    *)
LEMMA TSWrite == ASSUME TypeOK, Shape, Ordered, SinkWrite PROVE TS!Next
  <1> USE StationFacts
  <1> DEFINE text == held[Last]
  <1>1. /\ text # {} /\ st[Last] = "process" /\ st'[Last] = "send"
        /\ handled' = Append(handled, text) /\ seq' = seq
    BY DEF SinkWrite, Shape, TypeOK, threadVars
  <1>2. text \subseteq AtStation(Last)
    BY DEF AtStation
  <1>3. \A x \in text : x \in 1..seq
    <2>1. \A x \in text : x \in 1..Frames
      BY DEF TypeOK
    <2>2. \A x \in text : x <= seq
      BY <1>2 DEF Ordered, Captured, Old
    <2> QED BY <2>1, <2>2 DEF TypeOK
  <1>4. Precedes(Written, text)
    BY <1>2 DEF Ordered, AfterWritten, Precedes
  <1>5. \A i \in DOMAIN handled : TS!Precedes(handled[i], text)
    BY <1>4 DEF Precedes, TS!Precedes, Written, FramesOf
  <1>6. TS!Write(text)
    BY <1>1, <1>5 DEF TS!Write
  <1> QED BY <1>1, <1>3, <1>6 DEF TS!Next

LEMMA TSStation ==
  ASSUME TypeOK, Shape, Ordered, NEW s \in Stations, Station(s)
  PROVE  [TS!Next]_TS!vars
  <1> USE StationFacts DEF threadVars
  <1>0. st \in [Stations -> {"recv", "process", "send", "closing", "dead"}]
    BY DEF TypeOK
  <1>1. CASE s = Last /\ SinkWrite
    BY <1>1, TSWrite
  <1>2. CASE End(s) \/ Crash(s)
    <2>1. UNCHANGED <<seq, handled>> /\ st' = [st EXCEPT ![s] = "dead"] /\ st[s] # "dead"
      BY <1>2 DEF End, Crash
    <2>2. CASE s = Last
      BY <1>0, <2>1, <2>2, TSClose
    <2>3. CASE s # Last
      BY <1>0, <2>1, <2>3, TSQuiet
    <2> QED BY <2>2, <2>3
  <1>3. CASE \/ Recv(s) \/ Disconnected(s) \/ Forward(s) \/ Drop(s) \/ Send(s)
             \/ SendFail(s)
             \/ s = CHUNKER /\ (Feed \/ Flush)
    <2>1. UNCHANGED <<seq, handled>>
      BY <1>3 DEF Recv, Disconnected, Forward, Drop, Send, SendFail, Flush, Feed,
                  FeedSilence, FeedSpeech, FeedMore, FeedEmit, feedRest
    <2>2. \A t \in Stations : st'[t] = "dead" <=> st[t] = "dead"
      BY <1>0, <1>3 DEF Recv, Disconnected, Forward, Drop, Send, SendFail, Flush, Feed,
                  FeedSilence, FeedSpeech, FeedMore, FeedEmit
    <2> QED BY <2>1, <2>2 DEF TS!vars
  <1> QED
    <2>1. \/ Recv(s) \/ Disconnected(s) \/ Forward(s) \/ Drop(s) \/ Send(s) \/ SendFail(s)
          \/ End(s) \/ Crash(s)
          \/ s = CHUNKER /\ (Feed \/ Flush)
          \/ s = Last /\ SinkWrite
      BY DEF Station
    <2> QED BY <1>1, <1>2, <1>3, <2>1

(* The threads, the channels and the shutdown implement the stream of       *)
(* texts: nothing is written twice, out of order, of audio not yet heard,   *)
(* or after the sink has returned its result.                               *)
THEOREM Implements == Spec => Delivers
  <1>1. Init => TS!Init
    BY TSInit
  <1>2. TypeOK /\ Shape /\ Ordered /\ [Next]_vars => [TS!Next]_TS!vars
    <2> SUFFICES ASSUME TypeOK, Shape, Ordered, [Next]_vars PROVE [TS!Next]_TS!vars
      OBVIOUS
    <2>1. CASE Drain \/ StartOk \/ StartFail \/ Stop \/ Finishing \/ Finished
                 \/ UNCHANGED vars
      <3>1. UNCHANGED <<seq, handled, st>>
        BY <2>1 DEF Drain, DrainCheck, DrainRecv, DrainTimeout, drainRest, StartOk,
             StartFail, Stop, Finishing, TakeResult, NoResult, ResultTimeout, JoinAll,
             Detach, Finished, vars, callerRest, stationVars, threadVars
      <3> QED BY <3>1, TSQuiet
    <2> QED BY <2>1, TSAudio, TSStation DEF Next
  <1> QED BY <1>1, <1>2, OrderedCorrect, TypeCorrect, ShapeCorrect, PTL DEF Spec, Delivers, TS!Spec
-----------------------------------------------------------------------------
(* The result of stop() *)

(* The sink's result is sent when it ends, after its last text, and is the  *)
(* only one; what stop() took is that result.                               *)
Reported ==
  /\ result # <<>> => st[Last] = "dead" /\ result = <<Len(handled)>>
  /\ answer # <<>> => answer = result

LEMMA ReportedAtStation ==
  ASSUME TypeOK, Reported, NEW s \in Stations, Station(s) PROVE Reported'
  <1> USE StationFacts DEF threadVars, callerVars
  <1>0. st \in [Stations -> {"recv", "process", "send", "closing", "dead"}]
    BY DEF TypeOK
  <1>1. CASE s = Last /\ SinkWrite
    <2>1. result = <<>> /\ UNCHANGED <<result, answer>>
      BY <1>1 DEF SinkWrite, Reported
    <2> QED BY <2>1 DEF Reported
  <1>2. CASE End(s)
    <2>1. CASE s = Last
      <3>1. result = <<>>
        BY <1>2, <2>1 DEF End, Reported
      <3>2. answer = <<>> /\ answer' = answer
        BY <3>1, <1>2 DEF End, Reported
      <3>3. st'[Last] = "dead" /\ result' = <<Len(handled')>>
        BY <1>0, <1>2, <2>1 DEF End
      <3> QED BY <3>2, <3>3 DEF Reported
    <2>2. CASE s # Last
      <3>1. UNCHANGED <<result, answer, handled>> /\ st'[Last] = st[Last]
        BY <1>0, <1>2, <2>2 DEF End
      <3> QED BY <3>1 DEF Reported
    <2> QED BY <2>1, <2>2
  <1>3. CASE \/ Recv(s) \/ Disconnected(s) \/ Forward(s) \/ Drop(s) \/ Send(s)
             \/ SendFail(s) \/ Crash(s)
             \/ s = CHUNKER /\ (Feed \/ Flush)
    <2>1. UNCHANGED <<result, answer, handled>>
      BY <1>3 DEF Recv, Disconnected, Forward, Drop, Send, SendFail, Crash, Flush, Feed,
                  FeedSilence, FeedSpeech, FeedMore, FeedEmit, feedRest
    <2>2. st[Last] = "dead" => st'[Last] = "dead"
      BY <1>0, <1>3 DEF Recv, Disconnected, Forward, Drop, Send, SendFail, Crash, Flush, Feed,
                  FeedSilence, FeedSpeech, FeedMore, FeedEmit
    <2> QED BY <2>1, <2>2 DEF Reported
  <1> QED BY <1>1, <1>2, <1>3 DEF Station

(* The result that stop() returns counts every text the sink ever accepts:  *)
(* the sink writes nothing after it, even if threads had to be detached.    *)
THEOREM ResultCounts == Spec => []ResultIsFinal
  <1>1. Init => Reported
    BY DEF Init, Reported
  <1>2. TypeOK /\ Reported /\ [Next]_vars => Reported'
    <2> SUFFICES ASSUME TypeOK, Reported, [Next]_vars PROVE Reported'
      OBVIOUS
    <2>1. CASE Audio \/ Drain \/ StartOk \/ StartFail \/ Stop \/ Finished \/ UNCHANGED vars
      <3>1. UNCHANGED <<result, answer, handled, st>>
        BY <2>1 DEF Audio, AudioRead, AudioSend, AudioEmpty, AudioError, AudioExhausted,
             AudioQuit, audioRest, Drain, DrainCheck, DrainRecv, DrainTimeout, drainRest,
             StartOk, StartFail, Stop, Finished, vars, callerRest, callerVars, stationVars
      <3> QED BY <3>1 DEF Reported
    <2>2. CASE Finishing
      <3>1. UNCHANGED <<result, handled, st>> /\ answer' \in {answer, result}
        BY <2>2 DEF Finishing, TakeResult, NoResult, ResultTimeout, JoinAll, Detach,
             callerRest, stationVars
      <3> QED BY <3>1 DEF Reported
    <2> QED BY <2>1, <2>2, ReportedAtStation DEF Next
  <1>3. Reported => ResultIsFinal
    BY DEF Reported, ResultIsFinal
  <1> QED BY <1>1, <1>2, <1>3, TypeCorrect, PTL DEF Spec

-----------------------------------------------------------------------------
(* The end of a file *)

(* While nobody stopped it and nothing panicked, the threads end in the     *)
(* order of the pipeline, and the reading of a file ends with its end.      *)
Cascade ==
  running /\ crashed = {} =>
    /\ \A s \in Stations : st[s] \in {"closing", "dead"} =>
         audio = "dead" /\ \A t \in Stations : t < s => st[t] = "dead"
    /\ Finite /\ caller = "up" /\ audio = "dead" => seq = Frames

LEMMA CascadeStation ==
  ASSUME TypeOK, Draining, Cascade, NEW s \in Stations, Station(s) PROVE Cascade'
  <1> SUFFICES ASSUME running', crashed' = {} PROVE Cascade'
    BY DEF Cascade
  <1>0. st \in [Stations -> {"recv", "process", "send", "closing", "dead"}] /\ crashed \in SUBSET Stations
    BY DEF TypeOK
  <1>1. running /\ crashed = {} /\ UNCHANGED <<audio, seq, caller>>
    BY <1>0 DEF Station, Recv, Disconnected, Forward, Drop, Send, SendFail, End, Crash, Feed,
           FeedSilence, FeedSpeech, FeedMore, FeedEmit, Flush, SinkWrite, feedRest,
           threadVars, callerVars
  <1>2. /\ \A t \in Stations : st[t] \in {"closing", "dead"} =>
             audio = "dead" /\ \A u \in Stations : u < t => st[u] = "dead"
        /\ Finite /\ caller = "up" /\ audio = "dead" => seq = Frames
        /\ drain # "dead"
    BY <1>1 DEF Cascade, Draining
  <1>3. CASE Disconnected(s)
    <2>1. st' = [st EXCEPT ![s] = "closing"] /\ st[s] = "recv" /\ ~Connected(s)
      BY <1>3 DEF Disconnected
    <2>2. CASE s = VAD
      <3>1. audio = "dead" /\ \A t \in Stations : ~(t < s)
        BY <2>1, <2>2 DEF Connected, VAD, Stations
      <3> QED BY <1>0, <1>1, <1>2, <2>1, <3>1 DEF Cascade
    <2>3. CASE s # VAD
      <3>1. s - 1 \in Stations /\ st[s - 1] = "dead"
        BY <2>1, <2>3, PipelineAssumption DEF Connected, VAD, Stations
      <3>2. \A t \in Stations : t < s => t = s - 1 \/ t < s - 1
        BY DEF Stations
      <3>3. audio = "dead" /\ \A t \in Stations : t < s => st[t] = "dead"
        BY <1>2, <3>1, <3>2
      <3>4. \A t \in Stations : t < s => t # s
        BY DEF Stations
      <3> QED BY <1>0, <1>1, <1>2, <2>1, <3>3, <3>4 DEF Cascade
    <2> QED BY <2>2, <2>3
  <1>4. CASE SendFail(s)
    <2>1. CASE s = Last
      BY <1>2, <1>4, <2>1 DEF SendFail, ReceiverAlive
    <2>2. CASE s # Last
      <3>1. s + 1 \in Stations /\ s < s + 1 /\ st[s + 1] = "dead" /\ st[s] = "send"
        BY <1>4, <2>2, StationFacts DEF SendFail, ReceiverAlive, Stations
      <3> QED BY <1>2, <3>1
    <2> QED BY <2>1, <2>2
  <1>5. CASE End(s)
    <2>1. st[s] = "closing" /\ st' = [st EXCEPT ![s] = "dead"]
      BY <1>5 DEF End
    <2>2. \A t \in Stations : st'[t] \in {"closing", "dead"} => st[t] \in {"closing", "dead"}
      BY <1>0, <2>1
    <2>3. \A t \in Stations : st[t] = "dead" => st'[t] = "dead"
      BY <1>0, <2>1
    <2> QED BY <1>1, <1>2, <2>2, <2>3 DEF Cascade
  <1>6. CASE Crash(s)
    BY <1>0, <1>6 DEF Crash
  <1>7. CASE \/ Recv(s) \/ Forward(s) \/ Drop(s) \/ Send(s)
             \/ s = CHUNKER /\ (Feed \/ Flush)
             \/ s = Last /\ SinkWrite
    <2>1. \A t \in Stations : (st'[t] \in {"closing", "dead"} \/ st[t] \in {"closing", "dead"}) => st'[t] = st[t]
      BY <1>0, <1>7, StationFacts DEF Recv, Forward, Drop, Send, Flush, Feed, FeedSilence,
           FeedSpeech, FeedMore, FeedEmit, SinkWrite
    <2> QED BY <1>1, <1>2, <2>1 DEF Cascade
  <1> QED BY <1>3, <1>4, <1>5, <1>6, <1>7 DEF Station

LEMMA CascadeOther ==
  ASSUME TypeOK, Shape, Cascade,
         Audio \/ Drain \/ StartOk \/ StartFail \/ Stop \/ Finishing \/ Finished
               \/ UNCHANGED vars
  PROVE  Cascade'
  <1> SUFFICES ASSUME running', crashed' = {} PROVE Cascade'
    BY DEF Cascade
  <1>1. CASE Audio
    <2>1. running /\ crashed = {} /\ UNCHANGED <<st, caller>> /\ audio # "dead"
      BY <1>1 DEF Audio, AudioRead, AudioSend, AudioEmpty, AudioError, AudioExhausted, AudioQuit,
             audioRest, stationVars, callerVars
    <2>2. Finite /\ audio' = "dead" => seq' = Frames
      BY <1>1, <2>1 DEF Audio, AudioRead, AudioSend, AudioEmpty, AudioError, AudioExhausted, AudioQuit,
             audioRest
    <2> QED BY <2>1, <2>2 DEF Cascade
  <1>2. CASE Drain \/ StartOk \/ StartFail \/ Stop \/ Finishing \/ Finished \/ UNCHANGED vars
    <2> USE DEF Drain, DrainCheck, DrainRecv, DrainTimeout, drainRest, StartOk, StartFail,
             Stop, Finishing, TakeResult, NoResult, ResultTimeout, JoinAll, Detach,
             Finished, vars, callerRest, stationVars, threadVars, callerVars
    <2>1. running /\ crashed = {} /\ UNCHANGED <<st, seq>>
      BY <1>2
    <2>2. audio = "dead" => audio' = "dead"
      BY <1>2 DEF Shape
    <2>3. caller' = "up" /\ audio' = "dead" => caller = "up" /\ audio = "dead"
      BY <1>2
    <2> QED BY ONLY Cascade, <2>1, <2>2, <2>3 DEF Cascade
  <1> QED BY <1>1, <1>2

LEMMA CascadeCorrect == Spec => [](Draining /\ Cascade)
  <1>1. Init => Draining /\ Cascade
    BY DrainingInit DEF Init, Cascade
  <1>2. TypeOK /\ Shape /\ Draining /\ Cascade /\ [Next]_vars => Draining' /\ Cascade'
    BY DrainingAudio, DrainingStation, DrainingOther, CascadeStation, CascadeOther DEF Next
  <1> QED BY <1>1, <1>2, TypeCorrect, ShapeCorrect, PTL DEF Spec

(* The VAD's channel holds only frames captured before.                     *)
Early ==
  /\ Len(q[VAD]) + (IF audio = "sending" THEN 1 ELSE 0) <= seq
  /\ overrun \cap 1..Capacity[VAD] = {}

LEMMA EarlyCorrect == Spec => []Early
  <1>1. Init => Early
    BY StationFacts DEF Init, Early
  <1>2. TypeOK /\ Shape /\ Early /\ [Next]_vars => Early'
    <2> SUFFICES ASSUME TypeOK, Shape, Early, [Next]_vars PROVE Early'
      OBVIOUS
    <2> USE StationFacts
    <2>0. /\ seq \in Nat /\ q[VAD] \in Seq(Items) /\ Len(q[VAD]) \in Nat
          /\ Capacity[VAD] \in Nat /\ q \in [Stations -> Seq(Items)]
      BY DEF TypeOK
    <2>1. CASE AudioRead
      BY <2>0, <2>1 DEF AudioRead, stationVars, Early
    <2>2. CASE AudioSend
      <3>0. audio = "sending" /\ audio' = "polling" /\ seq' = seq
        BY <2>2 DEF AudioSend
      <3>1. CASE q' = [q EXCEPT ![VAD] = Append(q[VAD], {seq})] /\ UNCHANGED overrun
        <4>1. q'[VAD] = Append(q[VAD], {seq})
          BY <2>0, <3>1
        <4>2. Len(q'[VAD]) = Len(q[VAD]) + 1
          <5>1. {seq} \in SUBSET Nat /\ q[VAD] \in Seq(SUBSET Nat)
            BY <2>0 DEF TypeOK, Items
          <5> QED BY <4>1, <5>1
        <4> QED BY <2>0, <3>0, <3>1, <4>2 DEF Early
      <3>2. CASE UNCHANGED q /\ overrun' = overrun \cup {seq} /\ Len(q[VAD]) >= Capacity[VAD]
        BY <2>0, <3>0, <3>2 DEF Early
      <3>3. CASE UNCHANGED <<q, overrun>>
        BY <2>0, <3>0, <3>3 DEF Early
      <3> QED BY <2>2, <3>1, <3>2, <3>3 DEF AudioSend
    <2>3. CASE AudioEmpty \/ AudioError \/ AudioExhausted \/ AudioQuit
      BY <2>0, <2>3 DEF AudioEmpty, AudioError, AudioExhausted, AudioQuit, stationVars, Early
    <2>4. CASE Drain \/ StartOk \/ StartFail \/ Stop \/ Finishing \/ Finished \/ UNCHANGED vars
      <3>1. UNCHANGED <<q, overrun, seq>> /\ (audio' = "sending" => audio = "sending")
        BY <2>4 DEF Drain, DrainCheck, DrainRecv, DrainTimeout, drainRest, StartOk, StartFail,
             Stop, Finishing, TakeResult, NoResult, ResultTimeout, JoinAll, Detach,
             Finished, vars, callerRest, stationVars, threadVars
      <3> QED BY <2>0, <3>1 DEF Early
    <2>5. ASSUME NEW s \in Stations, Station(s) PROVE Early'
      <3>1. UNCHANGED <<seq, audio, overrun>>
        BY <2>5 DEF Station, Recv, Disconnected, Forward, Drop, Send, SendFail, End, Crash,
             Feed, FeedSilence, FeedSpeech, FeedMore, FeedEmit, Flush, SinkWrite, feedRest,
             threadVars
      <3>2. \/ q'[VAD] = q[VAD] \/ q'[VAD] = <<>>
            \/ q[VAD] # <<>> /\ q'[VAD] = Tail(q[VAD])
        BY <2>0, <2>5 DEF Station, Recv, Disconnected, Forward, Drop, Send, SendFail, End,
             Crash, Feed, FeedSilence, FeedSpeech, FeedMore, FeedEmit, Flush, SinkWrite,
             feedRest, Stations, VAD, CHUNKER
      <3>3. Len(q'[VAD]) \in Nat /\ Len(q'[VAD]) <= Len(q[VAD])
        BY <2>0, <3>2
      <3>4. Len(q[VAD]) + (IF audio = "sending" THEN 1 ELSE 0) <= seq
        BY DEF Early
      <3>5. Len(q'[VAD]) + (IF audio' = "sending" THEN 1 ELSE 0) <= seq'
        <4>1. audio' = audio /\ seq' = seq
          BY <3>1
        <4>2. CASE audio = "sending"
          BY <2>0, <3>3, <3>4, <4>1, <4>2
        <4>3. CASE audio # "sending"
          BY <2>0, <3>3, <3>4, <4>1, <4>3
        <4> QED BY <4>2, <4>3
      <3> QED BY <3>1, <3>5 DEF Early
    <2> QED BY <2>1, <2>2, <2>3, <2>4, <2>5 DEF Next, Audio
  <1> QED BY <1>1, <1>2, TypeCorrect, ShapeCorrect, PTL DEF Spec

(* When the sink of a file or a pipe that ends by itself reports its        *)
(* result, every frame is in a text, reported as discarded, part of the     *)
(* silence before a speech that never came, or one the audio thread dropped *)
(* while the VAD's channel was full; the beginning is never dropped.        *)
THEOREM FileToItsEnd == Spec => []FileDrained
  <1>1. TypeOK /\ Shape /\ Draining /\ Cascade /\ Early => FileDrained
    <2> SUFFICES ASSUME TypeOK, Shape, Draining, Cascade, Early,
                        Finite, running, crashed = {}, caller = "up", st[Last] = "dead"
                 PROVE  /\ seq = Frames
                        /\ (1..Frames) \ overrun \subseteq Written \cup filtered \cup pre
                        /\ overrun \cap 1..Capacity[VAD] = {}
      BY DEF FileDrained
    <2>1. audio = "dead" /\ \A t \in Stations : t < Last => st[t] = "dead"
      BY StationFacts DEF Cascade
    <2>2. \A t \in Stations : st[t] = "dead"
      <3>1. \A t \in Stations : t < Last \/ t = Last
        BY PipelineAssumption DEF Stations
      <3> QED BY <2>1, <3>1
    <2>3. seq = Frames
      BY <2>1 DEF Cascade
    <2>4. \A t \in Stations : held[t] = {} /\ q[t] = <<>>
      BY <2>2 DEF Shape
    <2>5. acc = {} /\ InHand = {} /\ FramesOf(<<>>) = {}
      BY <2>1, <2>2, StationFacts DEF Shape, InHand, FramesOf
    <2>6. \A t \in Stations : AtStation(t) \subseteq pre
      BY <2>4, <2>5 DEF AtStation
    <2>7. \A f \in 1..seq : Kept(f)
      BY DEF Draining
    <2>8. overrun \cap 1..Capacity[VAD] = {}
      BY DEF Early
    <2> QED BY <2>3, <2>5, <2>6, <2>7, <2>8 DEF Kept
  <1> QED BY <1>1, TypeCorrect, ShapeCorrect, CascadeCorrect, EarlyCorrect, PTL

-----------------------------------------------------------------------------
(* What gets lost *)

(* No thread has ended between station s and the sink; what is there can    *)
(* still be written.                                                        *)
Open(s) == \A t \in Stations : s <= t => st[t] # "dead"
Writable == Written \cup UNION {AtStation(s) : s \in {t \in Stations : Open(t)}}

(* What can still be written is older than anything lost; and nothing is    *)
(* lost as long as every thread runs.                                       *)
Truncating ==
  /\ Precedes(Writable, Lost)
  /\ Open(VAD) => Lost = {}

(* A step that loses at most the frames L.                                  *)
LEMMA LostNow ==
  ASSUME NEW L, seq' = seq, Written \subseteq Written', filtered \subseteq filtered',
         overrun \subseteq overrun',
         \A f \in InHand : Kept(f)' \/ f \in L,
         \A s \in Stations : \A f \in AtStation(s) : Kept(f)' \/ f \in L
  PROVE  Lost' \subseteq Lost \cup L
  BY DEF Lost, InFlight, Kept

(* A step that passes frames on, or discards them with a report.            *)
LEMMA TruncatingKeeps ==
  ASSUME Truncating, UNCHANGED <<seq, InHand>>,
         \A s \in Stations : st'[s] = "dead" <=> st[s] = "dead",
         Written \subseteq Written', filtered \subseteq filtered', overrun \subseteq overrun',
         \A s \in Stations : \A f \in AtStation(s) : Kept(f)',
         Writable' \subseteq Writable
  PROVE  Truncating'
  <1>1. \A f \in InHand : Kept(f)'
    BY DEF Kept
  <1>2. Lost' \subseteq Lost \cup {}
    BY <1>1, LostNow
  <1>3. Open(VAD)' => Open(VAD)
    BY DEF Open
  <1> QED BY <1>2, <1>3 DEF Truncating, Precedes

(* A step that loses frames of station s, behind which nothing passes.      *)
LEMMA TruncatingLoses ==
  ASSUME Ordered, Truncating, NEW s \in Stations, NEW L, L \subseteq AtStation(s),
         UNCHANGED <<seq, InHand, Written, filtered, overrun>>,
         \A t \in Stations : Open(t)' => Open(t) /\ s < t,
         \A t \in Stations : AtStation(t)' \subseteq AtStation(t),
         \A t \in Stations : AtStation(t) \subseteq AtStation(t)' \cup L
  PROVE  Truncating'
  <1>1. Lost' \subseteq Lost \cup L
    <2>1. \A f \in InHand : Kept(f)' \/ f \in L
      BY DEF Kept
    <2>2. \A t \in Stations : \A f \in AtStation(t) : Kept(f)' \/ f \in L
      BY DEF Kept
    <2> QED BY <2>1, <2>2, LostNow
  <1>2. Writable' \subseteq Writable
    BY DEF Writable
  <1>3. Precedes(Writable', L)
    <2>1. Precedes(Written', L)
      BY DEF Ordered, AfterWritten, Precedes
    <2>2. \A t \in Stations : Open(t)' => Precedes(AtStation(t)', L)
      BY DEF Ordered, Cross, Precedes
    <2> QED BY <2>1, <2>2 DEF Writable, Precedes
  <1>4. ~Open(VAD)'
    BY StationFacts DEF VAD, Stations
  <1> QED BY <1>1, <1>2, <1>3, <1>4 DEF Truncating, Precedes

LEMMA TruncatingAudio == ASSUME TypeOK, Ordered, Truncating, Audio PROVE Truncating'
  <1> USE StationFacts DEF stationVars, audioRest
  <1>1. seq \in Nat
    BY DEF TypeOK
  <1>0. UNCHANGED <<st, handled>> /\ Written' = Written
        /\ \A s \in Stations : Open(s)' <=> Open(s)
    BY DEF Audio, AudioRead, AudioSend, AudioEmpty, AudioError, AudioExhausted, AudioQuit,
           Open, Written
  <1>2. CASE AudioRead
    <2>1. \A s \in Stations : AtStation(s)' = AtStation(s)
      BY <1>2 DEF AudioRead, AtStation
    <2>2. seq' = seq + 1 /\ InHand' = {seq'} /\ InHand = {} /\ UNCHANGED <<filtered, overrun>>
      BY <1>2 DEF AudioRead, InHand
    <2>3. \A f \in 1..seq' : f \in 1..seq \/ f \in InHand'
      BY <1>1, <2>2
    <2>4. Lost' \subseteq Lost
      BY <1>0, <2>1, <2>2, <2>3 DEF Lost, InFlight
    <2>5. Writable' = Writable
      BY <1>0, <2>1 DEF Writable
    <2> QED BY <1>0, <2>4, <2>5 DEF Truncating, Precedes
  <1>3. CASE AudioSend
    <2>0. InHand = {seq} /\ audio = "sending" /\ seq' = seq
      BY <1>3 DEF AudioSend, InHand
    <2>1. CASE st[VAD] # "dead" /\ UNCHANGED <<q, filtered>> /\ overrun' = overrun \cup {seq}
      <3>1. \A s \in Stations : AtStation(s)' = AtStation(s)
        BY <1>3, <2>1 DEF AudioSend, AtStation
      <3>2. Lost' \subseteq Lost
        BY <1>0, <2>0, <2>1, <3>1 DEF Lost, InFlight
      <3>3. Writable' = Writable
        BY <1>0, <3>1 DEF Writable
      <3> QED BY <1>0, <3>2, <3>3 DEF Truncating, Precedes
    <2>2. CASE st[VAD] # "dead" /\ q' = [q EXCEPT ![VAD] = Append(q[VAD], {seq})] /\ UNCHANGED <<filtered, overrun>>
      <3>0. \A s \in Stations : q'[s] = IF s = VAD THEN Append(q[VAD], {seq}) ELSE q[s]
        BY <2>2 DEF TypeOK
      <3>1. FramesOf(q'[VAD]) = FramesOf(q[VAD]) \cup {seq}
        <4>1. {seq} \in SUBSET Nat /\ q[VAD] \in Seq(SUBSET Nat)
          BY <1>1 DEF TypeOK, Items
        <4> QED BY <3>0, <4>1, AppendFrames
      <3>2. UNCHANGED <<held, acc, pre>>
        BY <1>3 DEF AudioSend
      <3>3. \A s \in Stations : AtStation(s)' = IF s = VAD THEN AtStation(s) \cup {seq} ELSE AtStation(s)
        BY <3>0, <3>1, <3>2 DEF AtStation
      <3>4. Lost' \subseteq Lost
        BY <1>0, <2>0, <2>2, <3>3 DEF Lost, InFlight
      <3>5. CASE Open(VAD)
        <4>1. Lost' = {}
          BY <3>4, <3>5 DEF Truncating
        <4> QED BY <4>1 DEF Truncating, Precedes
      <3>6. CASE ~Open(VAD)
        <4>1. Writable' = Writable
          <5>1. \A s \in Stations : Open(s) => s # VAD
            BY <3>6
          <5>2. \A s \in Stations : Open(s) => AtStation(s)' = AtStation(s)
            BY <3>3, <5>1
          <5> QED BY <1>0, <5>2 DEF Writable
        <4> QED BY <1>0, <3>4, <3>6, <4>1 DEF Truncating, Precedes
      <3> QED BY <3>5, <3>6
    <2>3. CASE st[VAD] = "dead" /\ UNCHANGED <<q, filtered, overrun>>
      <3>1. \A s \in Stations : AtStation(s)' = AtStation(s)
        BY <1>3, <2>3 DEF AudioSend, AtStation
      <3>2. Lost' \subseteq Lost \cup {seq}
        BY <1>0, <2>0, <2>3, <3>1 DEF Lost, InFlight
      <3>3. Writable' = Writable
        BY <1>0, <3>1 DEF Writable
      <3>4. Precedes(Writable, {seq})
        BY <2>0 DEF Writable, Precedes, Ordered, Captured, Old
      <3>5. ~Open(VAD)
        BY <2>3 DEF Open, VAD
      <3> QED BY <1>0, <3>2, <3>3, <3>4, <3>5 DEF Truncating, Precedes
    <2> QED BY <1>3, <2>1, <2>2, <2>3 DEF AudioSend
  <1>4. CASE AudioEmpty \/ AudioError \/ AudioExhausted \/ AudioQuit
    <2>1. UNCHANGED <<stationVars, overrun, seq>> /\ audio = "polling" /\ audio' # "sending"
      BY <1>4 DEF AudioEmpty, AudioError, AudioExhausted, AudioQuit
    <2>2. \A s \in Stations : AtStation(s)' = AtStation(s)
      BY <2>1 DEF AtStation
    <2>3. InHand' = InHand
      BY <2>1 DEF InHand
    <2>4. Lost' = Lost /\ Writable' = Writable
      BY <1>0, <2>1, <2>2, <2>3 DEF Lost, InFlight, Writable
    <2> QED BY <1>0, <2>4 DEF Truncating
  <1> QED BY <1>2, <1>3, <1>4 DEF Audio

LEMMA TruncatingOther ==
  ASSUME Shape, Truncating,
         Drain \/ StartOk \/ StartFail \/ Stop \/ Finishing \/ Finished \/ UNCHANGED vars
  PROVE  Truncating'
  <1>1. UNCHANGED <<stationVars, overrun, seq>> /\ (audio' = "sending" <=> audio = "sending")
    BY DEF Drain, DrainCheck, DrainRecv, DrainTimeout, drainRest, StartOk, StartFail,
           Stop, Finishing, TakeResult, NoResult, ResultTimeout, JoinAll, Detach,
           Finished, vars, callerRest, stationVars, threadVars, Shape
  <1>2. /\ \A s \in Stations : AtStation(s)' = AtStation(s) /\ (Open(s)' <=> Open(s))
        /\ Written' = Written /\ InHand' = InHand
    BY <1>1 DEF stationVars, AtStation, Written, InHand, Open
  <1>3. Lost' = Lost /\ Writable' = Writable
    BY <1>1, <1>2 DEF Lost, InFlight, Writable, stationVars
  <1> QED BY <1>2, <1>3, StationFacts DEF Truncating
LEMMA TruncatingStation ==
  ASSUME TypeOK, Shape, Ordered, Truncating, NEW s \in Stations, Station(s)
  PROVE  Truncating'
  <1>a. /\ q \in [Stations -> Seq(Items)] /\ \A t \in Stations : q[t] \in Seq(Items)
        /\ st \in [Stations -> {"recv", "process", "send", "closing", "dead"}]
        /\ held \in [Stations -> SUBSET (1..Frames)]
        /\ handled \in Seq(Items)
    BY DEF TypeOK
  <1>b. UNCHANGED <<seq, audio, overrun, InHand>>
    BY DEF Station, Recv, Disconnected, Forward, Drop, Send, SendFail, End, Crash, Feed,
           FeedSilence, FeedSpeech, FeedMore, FeedEmit, Flush, SinkWrite, feedRest,
           threadVars, InHand
  <1>c. \A t \in Stations : \A f \in AtStation(t)' : Kept(f)'
    BY DEF Kept
  <1>d. \A t \in Stations : t < s + 1 \/ t = s + 1 \/ s + 1 < t
    BY DEF Stations
  <1>e. \A t \in Stations : t <= t
    BY DEF Stations
  (* Frames X of station s go to the next one. *)
  <1>f. ASSUME s # Last, st[s] # "dead", st' = [st EXCEPT ![s] = "recv"] \/ st' = st,
               NEW X, X \subseteq AtStation(s), X \subseteq AtStation(s + 1)',
               AtStation(s + 1)' \subseteq AtStation(s + 1) \cup X,
               \A t \in Stations : t # s + 1 => AtStation(t)' \subseteq AtStation(t),
               \A t \in Stations : AtStation(t) \subseteq AtStation(t)' \cup X,
               UNCHANGED <<handled, filtered>>
        PROVE  Truncating'
    <2>0. s + 1 \in Stations
      BY <1>f, StationFacts
    <2>1. \A t \in Stations : st'[t] = "dead" <=> st[t] = "dead"
      BY <1>a, <1>f
    <2>2. \A t \in Stations : Open(t)' <=> Open(t)
      BY <2>1 DEF Open
    <2>3. Open(s + 1) => Open(s)
      <3>1. \A t \in Stations : s <= t => t = s \/ s + 1 <= t
        BY DEF Stations
      <3> QED BY <3>1, <1>f DEF Open
    <2>4. Written' = Written /\ filtered' = filtered
      BY <1>f DEF Written
    <2>5. Writable' \subseteq Writable
      <3>1. \A t \in Stations : Open(t)' => AtStation(t)' \subseteq Writable
        <4>1. \A t \in Stations : Open(t) => AtStation(t) \subseteq Writable
          BY DEF Writable
        <4> QED BY <1>f, <2>0, <2>2, <2>3, <4>1
      <3>2. Written \subseteq Writable
        BY DEF Writable
      <3> QED BY <2>4, <3>1, <3>2 DEF Writable
    <2>6. \A t \in Stations : \A f \in AtStation(t) : Kept(f)'
      BY <1>f, <1>c, <2>0
    <2> QED BY <1>b, <2>1, <2>4, <2>5, <2>6, TruncatingKeeps
  (* Frames X of station s are lost when the one behind it has ended. *)
  <1>g. ASSUME s # Last, st[s + 1] = "dead", \A t \in Stations : st[t] = "dead" => st'[t] = "dead",
               NEW X, X \subseteq AtStation(s),
               \A t \in Stations : AtStation(t)' \subseteq AtStation(t),
               \A t \in Stations : AtStation(t) \subseteq AtStation(t)' \cup X,
               UNCHANGED <<handled, filtered>>
        PROVE  Truncating'
    <2>1. s + 1 \in Stations
      BY <1>g, StationFacts
    <2>2. \A t \in Stations : Open(t)' => Open(t)
      BY <1>g DEF Open
    <2>3. \A t \in Stations : Open(t) => ~(t <= s + 1)
      BY <1>g, <2>1 DEF Open
    <2>4. \A t \in Stations : ~(t <= s + 1) => s < t
      BY DEF Stations
    <2>5. Written' = Written /\ filtered' = filtered
      BY <1>g DEF Written
    <2> QED BY <1>b, <1>g, <2>2, <2>3, <2>4, <2>5, TruncatingLoses
  (* Station s ends, and with it what is left there. *)
  <1>h. ASSUME st' = [st EXCEPT ![s] = "dead"], NEW X, X \subseteq AtStation(s),
               \A t \in Stations : AtStation(t)' \subseteq AtStation(t),
               \A t \in Stations : AtStation(t) \subseteq AtStation(t)' \cup X,
               UNCHANGED <<handled, filtered>>
        PROVE  Truncating'
    <2>1. \A t \in Stations : st[t] = "dead" => st'[t] = "dead"
      BY <1>a, <1>h
    <2>2. \A t \in Stations : Open(t)' => Open(t)
      BY <2>1 DEF Open
    <2>3. \A t \in Stations : Open(t)' => ~(t <= s)
      BY <1>a, <1>h DEF Open
    <2>4. \A t \in Stations : ~(t <= s) => s < t
      BY DEF Stations
    <2>5. Written' = Written /\ filtered' = filtered
      BY <1>h DEF Written
    <2> QED BY <1>b, <1>h, <2>2, <2>3, <2>4, <2>5, TruncatingLoses
  (* Frames stay at station s, or are discarded or written there. *)
  <1>i. ASSUME \A t \in Stations : st'[t] = "dead" <=> st[t] = "dead",
               \A t \in Stations : AtStation(t)' \subseteq AtStation(t),
               \A t \in Stations : AtStation(t) \subseteq AtStation(t)' \cup filtered' \cup Written',
               filtered \subseteq filtered', Written \subseteq Written',
               Written' \subseteq Writable
        PROVE  Truncating'
    <2>1. \A t \in Stations : Open(t)' <=> Open(t)
      BY <1>i DEF Open
    <2>2. Writable' \subseteq Writable
      BY <1>i, <2>1 DEF Writable
    <2>3. \A t \in Stations : \A f \in AtStation(t) : Kept(f)'
      BY <1>i DEF Kept
    <2> QED BY <1>b, <1>i, <2>2, <2>3, TruncatingKeeps
  <1>j. UNCHANGED handled => Written' = Written /\ Written' \subseteq Writable
    BY DEF Written, Writable
  <1>1. CASE Recv(s)
    <2>0. /\ held' = [held EXCEPT ![s] = Head(q[s])] /\ q' = [q EXCEPT ![s] = Tail(q[s])]
          /\ st' = [st EXCEPT ![s] = "process"] /\ st[s] = "recv"
          /\ held[s] = {} /\ q[s] # <<>> /\ UNCHANGED <<acc, pre, handled, filtered>>
      BY <1>1 DEF Recv, Shape
    <2>1. FramesOf(q[s]) = Head(q[s]) \cup FramesOf(q'[s]) /\ held'[s] = Head(q[s])
      BY <1>a, <2>0, TailFrames
    <2>2. \A t \in Stations \ {s} : q'[t] = q[t] /\ held'[t] = held[t]
      BY <1>a, <2>0
    <2>3. \A t \in Stations : AtStation(t)' = AtStation(t)
      BY <2>0, <2>1, <2>2 DEF AtStation
    <2>4. \A t \in Stations : st'[t] = "dead" <=> st[t] = "dead"
      BY <1>a, <2>0
    <2> QED BY <1>i, <1>j, <2>0, <2>3, <2>4
  <1>2. CASE Disconnected(s) \/ Forward(s) \/ Drop(s)
    <2>0. UNCHANGED <<q, acc, pre, handled>>
      BY <1>2 DEF Disconnected, Forward, Drop
    <2>1. \A t \in Stations : st'[t] = "dead" <=> st[t] = "dead"
      BY <1>a, <1>2 DEF Disconnected, Forward, Drop
    <2>2. \A t \in Stations : held'[t] \subseteq held[t] /\ held[t] \subseteq held'[t] \cup filtered'
      BY <1>a, <1>2 DEF Disconnected, Forward, Drop
    <2>3. filtered \subseteq filtered'
      BY <1>2 DEF Disconnected, Forward, Drop
    <2>4. \A t \in Stations : AtStation(t)' \subseteq AtStation(t)
                              /\ AtStation(t) \subseteq AtStation(t)' \cup filtered' \cup Written'
      BY <2>0, <2>2 DEF AtStation
    <2> QED BY <1>i, <1>j, <2>0, <2>1, <2>3, <2>4
  <1>3. CASE s = Last /\ SinkWrite
    <2>0. /\ handled' = Append(handled, held[Last]) /\ UNCHANGED <<filtered, q, acc, pre>>
          /\ held[Last] \in Items /\ st[Last] = "process"
      BY <1>3, <1>a DEF SinkWrite, Shape, Items
    <2>1. Written' = Written \cup held[Last]
      BY <1>a, <2>0, AppendFrames DEF Written
    <2>2. \A t \in Stations : held'[t] \subseteq held[t] /\ held[t] \subseteq held'[t] \cup Written'
      BY <1>a, <1>3, <2>1 DEF SinkWrite
    <2>3. \A t \in Stations : AtStation(t)' \subseteq AtStation(t)
                              /\ AtStation(t) \subseteq AtStation(t)' \cup filtered' \cup Written'
      BY <2>0, <2>2 DEF AtStation
    <2>4. \A t \in Stations : st'[t] = "dead" <=> st[t] = "dead"
      BY <1>a, <1>3 DEF SinkWrite
    <2>5. Written' \subseteq Writable
      <3>1. \A t \in Stations : Last <= t => t = Last
        BY PipelineAssumption DEF Stations
      <3>2. Open(Last) /\ Last \in Stations
        BY <2>0, <3>1, StationFacts DEF Open
      <3>3. held[Last] \subseteq AtStation(Last)
        BY DEF AtStation
      <3> QED BY <2>1, <3>2, <3>3 DEF Writable
    <2> QED BY <1>i, <2>0, <2>1, <2>3, <2>4, <2>5
  <1>4. CASE Send(s)
    <2>0. /\ UNCHANGED <<acc, pre, handled, filtered>> /\ st[s] = "send"
          /\ st' = [st EXCEPT ![s] = "recv"]
          /\ \A t \in Stations : held'[t] = IF t = s THEN {} ELSE held[t]
      BY <1>4, <1>a DEF Send
    <2>1. CASE s = Last
      <3>1. UNCHANGED q /\ held[s] = {}
        BY <1>4, <2>1 DEF Send, Shape
      <3>2. \A t \in Stations : AtStation(t)' = AtStation(t)
        BY <2>0, <3>1 DEF AtStation
      <3>3. \A t \in Stations : st'[t] = "dead" <=> st[t] = "dead"
        BY <1>a, <2>0
      <3> QED BY <1>i, <1>j, <2>0, <3>2, <3>3
    <2>2. CASE s # Last
      <3> DEFINE X == held[s]
      <3>0. s + 1 \in Stations /\ X \in Items
            /\ q' = [q EXCEPT ![s + 1] = Append(q[s + 1], X)]
        BY <1>4, <2>0, <2>2, <1>a, StationFacts DEF Send, Shape, Items
      <3>1. \A t \in Stations : q'[t] = IF t = s + 1 THEN Append(q[s + 1], X) ELSE q[t]
        BY <1>a, <3>0
      <3>2. FramesOf(q'[s + 1]) = FramesOf(q[s + 1]) \cup X
        BY <1>a, <3>0, <3>1, AppendFrames
      <3>3. X \subseteq AtStation(s) /\ X \subseteq AtStation(s + 1)'
        BY <3>0, <3>2 DEF AtStation
      <3>4. /\ AtStation(s + 1)' \subseteq AtStation(s + 1) \cup X
            /\ \A t \in Stations : t # s + 1 => AtStation(t)' \subseteq AtStation(t)
            /\ \A t \in Stations : AtStation(t) \subseteq AtStation(t)' \cup X
        BY <2>0, <3>0, <3>1, <3>2 DEF AtStation
      <3>5. st[s] # "dead"
        BY <2>0
      <3> QED BY <1>f, <2>0, <2>2, <3>3, <3>4, <3>5
    <2> QED BY <2>1, <2>2
  <1>5. CASE SendFail(s)
    <2>0. /\ UNCHANGED <<q, acc, pre, handled, filtered>> /\ st[s] = "send"
          /\ \A t \in Stations : held'[t] = IF t = s THEN {} ELSE held[t]
          /\ \A t \in Stations : st'[t] = "dead" <=> st[t] = "dead"
      BY <1>5, <1>a DEF SendFail
    <2>1. held[s] \subseteq AtStation(s)
      BY DEF AtStation
    <2>2. \A t \in Stations : AtStation(t)' \subseteq AtStation(t)
                              /\ AtStation(t) \subseteq AtStation(t)' \cup held[s]
      BY <2>0 DEF AtStation
    <2>3. CASE s = Last
      <3>1. held[s] = {}
        BY <2>0, <2>3 DEF Shape
      <3> QED BY <1>i, <1>j, <2>0, <2>2, <3>1
    <2>4. CASE s # Last
      <3>1. st[s + 1] = "dead"
        BY <1>5, <2>4 DEF SendFail, ReceiverAlive
      <3> QED BY <1>g, <2>0, <2>1, <2>2, <2>4, <3>1
    <2> QED BY <2>3, <2>4
  <1>6. CASE End(s)
    <2>0. /\ UNCHANGED <<held, acc, pre, handled, filtered>>
          /\ st' = [st EXCEPT ![s] = "dead"]
          /\ \A t \in Stations : q'[t] = IF t = s THEN <<>> ELSE q[t]
      BY <1>6, <1>a DEF End
    <2>1. FramesOf(q[s]) \subseteq AtStation(s) /\ FramesOf(<<>>) = {}
      BY DEF AtStation, FramesOf
    <2>2. \A t \in Stations : AtStation(t)' \subseteq AtStation(t)
                              /\ AtStation(t) \subseteq AtStation(t)' \cup FramesOf(q[s])
      BY <2>0, <2>1 DEF AtStation
    <2> QED BY <1>h, <2>0, <2>1, <2>2
  <1>7. CASE Crash(s)
    <2>0. /\ UNCHANGED <<pre, handled, filtered>> /\ acc' \subseteq acc /\ (acc' # acc => s = CHUNKER)
          /\ st' = [st EXCEPT ![s] = "dead"]
          /\ \A t \in Stations : /\ q'[t] = IF t = s THEN <<>> ELSE q[t]
                                 /\ held'[t] = IF t = s THEN {} ELSE held[t]
      BY <1>7, <1>a DEF Crash
    <2> DEFINE X == AtStation(s)
    <2>1. FramesOf(<<>>) = {}
      BY DEF FramesOf
    <2>2. \A t \in Stations : AtStation(t)' \subseteq AtStation(t)
      BY <2>0, <2>1 DEF AtStation
    <2>3. \A t \in Stations : AtStation(t) \subseteq AtStation(t)' \cup X
      <3>1. \A t \in Stations \ {s} : AtStation(t) \subseteq AtStation(t)'
        BY <2>0 DEF AtStation
      <3> QED BY <3>1
    <2>4. X \subseteq AtStation(s)
      OBVIOUS
    <2> QED BY <1>h, <2>0, <2>2, <2>3, <2>4
  <1>8. CASE s = CHUNKER /\ Feed
    <2>0. /\ UNCHANGED <<q, handled>> /\ filtered \subseteq filtered'
          /\ \A t \in Stations \ {s} : held'[t] = held[t]
          /\ \A t \in Stations : st'[t] = "dead" <=> st[t] = "dead"
      BY <1>8, <1>a DEF Feed, FeedSilence, FeedSpeech, FeedMore, FeedEmit, feedRest
    <2>1. /\ acc \cup pre \cup held[s] \subseteq acc' \cup pre' \cup held'[s] \cup filtered'
          /\ acc' \cup pre' \cup held'[s] \subseteq acc \cup pre \cup held[s]
      BY <1>8, <1>a DEF Feed, FeedSilence, FeedSpeech, FeedMore, FeedEmit, Newest
    <2>2. \A t \in Stations : AtStation(t)' \subseteq AtStation(t)
                              /\ AtStation(t) \subseteq AtStation(t)' \cup filtered' \cup Written'
      BY <1>8, <2>0, <2>1 DEF AtStation
    <2> QED BY <1>i, <1>j, <2>0, <2>2
  <1>9. CASE s = CHUNKER /\ Flush
    <2>0. /\ UNCHANGED <<st, held, pre, handled, filtered>> /\ acc' = {} /\ st[s] = "closing"
          /\ s # Last /\ s + 1 \in Stations /\ acc \in Items /\ s + 1 # s
      <3>1. UNCHANGED <<st, held, pre, handled, filtered>> /\ acc' = {} /\ st[s] = "closing"
        BY <1>9 DEF Flush
      <3>2. s # Last /\ s + 1 \in Stations /\ s + 1 # s
        BY <1>9, StationFacts DEF Stations
      <3>3. acc \in Items
        BY <1>9 DEF Flush, TypeOK, Items
      <3> QED BY <3>1, <3>2, <3>3
    <2>1. acc \subseteq AtStation(s)
      BY <1>9 DEF AtStation
    <2>2. CASE q' = [q EXCEPT ![s + 1] = Append(q[s + 1], acc)]
      <3>1. \A t \in Stations : q'[t] = IF t = s + 1 THEN Append(q[s + 1], acc) ELSE q[t]
        BY <1>a, <2>0, <2>2
      <3>2. FramesOf(q'[s + 1]) = FramesOf(q[s + 1]) \cup acc
        BY <1>a, <2>0, <3>1, AppendFrames
      <3>3. acc \subseteq AtStation(s + 1)'
        BY <3>2 DEF AtStation
      <3>4. /\ AtStation(s + 1)' \subseteq AtStation(s + 1) \cup acc
            /\ \A t \in Stations : t # s + 1 => AtStation(t)' \subseteq AtStation(t)
            /\ \A t \in Stations : AtStation(t) \subseteq AtStation(t)' \cup acc
        BY <1>9, <2>0, <3>1, <3>2 DEF AtStation
      <3>5. st[s] # "dead" /\ (st' = [st EXCEPT ![s] = "recv"] \/ st' = st)
        BY <2>0
      <3> QED BY <1>f, <2>0, <2>1, <3>3, <3>4, <3>5
    <2>3. CASE ~ReceiverAlive(CHUNKER) /\ UNCHANGED q
      <3>1. st[s + 1] = "dead"
        BY <1>9, <2>0, <2>3 DEF ReceiverAlive
      <3>2. \A t \in Stations : AtStation(t)' \subseteq AtStation(t)
                                /\ AtStation(t) \subseteq AtStation(t)' \cup acc
        BY <1>9, <2>0, <2>3 DEF AtStation
      <3> QED BY <1>g, <2>0, <2>1, <3>1, <3>2
    <2> QED BY <1>9, <2>2, <2>3 DEF Flush
  <1> QED BY <1>1, <1>2, <1>3, <1>4, <1>5, <1>6, <1>7, <1>8, <1>9 DEF Station

(* Whatever a stop or a panic loses, it loses from the end: no text is      *)
(* written that was spoken after something that got lost.                   *)
THEOREM LostFromTheEnd == Spec => []TruncationOnly
  <1>1. Init => Truncating
    <2> SUFFICES ASSUME Init PROVE Truncating
      OBVIOUS
    <2>1. Lost = {}
      BY DEF Init, Lost
    <2> QED BY <2>1 DEF Truncating, Precedes
  <1>2. TypeOK /\ Shape /\ Ordered /\ Truncating /\ [Next]_vars => Truncating'
    BY TruncatingAudio, TruncatingStation, TruncatingOther DEF Next
  <1>3. Truncating => TruncationOnly
    BY DEF Truncating, TruncationOnly, Writable, Precedes
  <1> QED BY <1>1, <1>2, <1>3, TypeCorrect, ShapeCorrect, OrderedCorrect, PTL DEF Spec
=============================================================================
