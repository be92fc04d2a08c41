------------------------------ MODULE Pipeline ------------------------------
(***************************************************************************)
(* The dictation pipeline of src/pipeline: the audio polling thread, one   *)
(* StationRunner thread per station joined by bounded channels, the thread *)
(* that drains the sink's output, and the caller that starts and stops     *)
(* them (Pipeline::start_with_post_processors and PipelineHandle::stop).   *)
(*                                                                         *)
(* A channel is the sequence of the messages in it.  It is disconnected    *)
(* for its receiver when every thread that holds a sender has ended, and   *)
(* for its senders when the thread that holds its receiver has ended.  An  *)
(* audio frame is its sequence number; what travels between stations is    *)
(* the set of the frames a message was made from.                          *)
(***************************************************************************)
EXTENDS Integers, Sequences, FiniteSets

CONSTANTS
  Last,        \* stations are 1..Last: VAD, chunker, transcriber, ..., sink
  Capacity,    \* Capacity[s]: of the channel into s; Capacity[Last + 1]: sink output
  Droppers,    \* stations whose process may return Ok(None) or a recoverable error
  Crashers,    \* stations whose process may panic
  Gauge,       \* the VAD holds a clone of the chunk sender (with_buffer_gauge)
  Finite,      \* the audio source is a file or a pipe (is_finite)
  Frames,      \* frames the source delivers; for a microphone, a bound of the model
  MaxErrors,   \* MAX_CONSECUTIVE_ERRORS
  PreRoll      \* silent frames the chunker keeps while idle

VAD == 1
CHUNKER == 2
Stations == 1..Last

ASSUME PipelineAssumption ==
  /\ Last \in Nat /\ Last >= 4
  /\ Capacity \in [1..Last + 1 -> Nat \ {0}]
  /\ Droppers \subseteq 3..Last
  /\ Crashers \subseteq Stations
  /\ Gauge \in BOOLEAN /\ Finite \in BOOLEAN
  /\ Frames \in Nat /\ MaxErrors \in Nat \ {0} /\ PreRoll \in Nat

VARIABLES
  running,   \* the AtomicBool shared by the handle, the audio and the drain thread
  seq,       \* frames created (the AtomicU64 sequence)
  errs,      \* consecutive_errors of the audio thread
  audio,     \* audio thread: "off", "polling", "sending", "dead"
  overrun,   \* frames the audio thread dropped, unreported: the VAD's channel was full
  q,         \* q[s]: the channel into station s
  st,        \* st[s]: "recv", "process", "send", "closing", "dead"
  held,      \* held[s]: what station s is processing or sending
  acc, pre,  \* the chunker's accumulated samples and its pre-speech buffer
  out,       \* length of the sink's output channel
  drain,     \* drain thread: "check", "recv", "dead"
  caller,    \* "starting", "up", "failed", "waiting", "joining", "done", "detached"
  result,    \* the result channel: <<n>> once finish() returned n collected texts
  answer,    \* what stop() took out of it
  timedOut,  \* stop() waited 5 seconds in vain
  crashed,   \* stations that panicked
  filtered,  \* frames discarded on purpose: silence, filters, reported errors
  handled    \* what TextSink::handle was called with and accepted, in order

threadVars == <<running, seq, errs, audio, overrun, drain, out>>
callerVars == <<caller, answer, timedOut>>
vars == <<threadVars, callerVars, q, st, held, acc, pre, result, crashed,
          filtered, handled>>

-----------------------------------------------------------------------------
(* Channels *)

(* Definitions named Wrong... are slips a programmer could make in the code *)
(* the next definition models; with one of them in its place, TLC finds the *)
(* property violated that PROJECT.json pairs it with.                       *)

(* The handle keeps a clone of audio_tx. *)
WrongHandleSends(s) == s = VAD \/ st[s - 1] # "dead"

(* The starting thread keeps its clone of chunk_tx. *)
WrongChunkSender(s) ==
  \/ s = VAD /\ audio # "dead"
  \/ s = CHUNKER + 1
  \/ s # VAD /\ st[s - 1] # "dead"

(* Some thread still holds a sender of the channel into s. *)
Connected(s) ==
  IF s = VAD THEN audio # "dead"
  ELSE \/ st[s - 1] # "dead"
       \/ s = CHUNKER + 1 /\ Gauge /\ st[VAD] # "dead"

ReceiverAlive(s) == IF s = Last THEN drain # "dead" ELSE st[s + 1] # "dead"

(* Off by one. *)
WrongHasRoom(s) == IF s = Last THEN out <= Capacity[Last + 1]
                   ELSE Len(q[s + 1]) <= Capacity[s + 1]

HasRoom(s) == IF s = Last THEN out < Capacity[Last + 1]
              ELSE Len(q[s + 1]) < Capacity[s + 1]

AllThreadsDone ==
  /\ audio = "dead" /\ drain = "dead"
  /\ \A s \in Stations : st[s] = "dead"

(* A station is inside process(), the only call that can take seconds. *)
SlowCall == \E s \in Stations : st[s] = "process"

-----------------------------------------------------------------------------
Init ==
  /\ running = TRUE /\ seq = 0 /\ errs = 0 /\ audio = "off" /\ overrun = {}
  /\ q = [s \in Stations |-> <<>>]
  /\ st = [s \in Stations |-> "recv"]
  /\ held = [s \in Stations |-> {}]
  /\ acc = {} /\ pre = {} /\ out = 0 /\ drain = "check"
  /\ caller = "starting" /\ result = <<>> /\ answer = <<>> /\ timedOut = FALSE
  /\ crashed = {} /\ filtered = {} /\ handled = <<>>

-----------------------------------------------------------------------------
(* The audio polling thread *)

stationVars == <<q, st, held, acc, pre, result, crashed, filtered, handled>>
audioRest == <<running, drain, out, callerVars>>

AudioRead ==
  /\ audio = "polling" /\ running
  /\ seq < Frames
  /\ seq' = seq + 1 /\ errs' = 0
  /\ audio' = "sending"
  /\ UNCHANGED <<overrun, audioRest, stationVars>>

(* try_send: a full channel drops the frame (overrun), a disconnected one   *)
(* loses it; the loop goes on in both cases.                                *)
AudioSend ==
  /\ audio = "sending"
  /\ audio' = "polling"
  /\ \/ /\ st[VAD] # "dead" /\ Len(q[VAD]) < Capacity[VAD]
        /\ q' = [q EXCEPT ![VAD] = Append(@, {seq})]
        /\ UNCHANGED overrun
     \/ /\ st[VAD] # "dead" /\ Len(q[VAD]) >= Capacity[VAD]
        /\ overrun' = overrun \cup {seq}
        /\ UNCHANGED q
     \/ /\ st[VAD] = "dead"
        /\ UNCHANGED <<q, overrun>>
  /\ UNCHANGED <<seq, errs, audioRest, st, held, acc, pre, result, crashed, filtered, handled>>

(* An empty read from a microphone resets the error count and polls again. *)
AudioEmpty ==
  /\ audio = "polling" /\ running /\ ~Finite
  /\ errs # 0 /\ errs' = 0
  /\ UNCHANGED <<seq, audio, overrun, audioRest, stationVars>>

AudioError ==
  /\ audio = "polling" /\ running /\ ~Finite
  /\ errs' = errs + 1
  /\ audio' = IF errs' >= MaxErrors THEN "dead" ELSE "polling"
  /\ UNCHANGED <<seq, overrun, audioRest, stationVars>>

(* An empty read from a file or a pipe ends the loop. *)
AudioExhausted ==
  /\ audio = "polling" /\ running /\ Finite
  /\ seq = Frames
  /\ audio' = "dead"
  /\ UNCHANGED <<seq, errs, overrun, audioRest, stationVars>>

AudioQuit ==
  /\ audio = "polling" /\ ~running
  /\ audio' = "dead"
  /\ UNCHANGED <<seq, errs, overrun, audioRest, stationVars>>

Audio == AudioRead \/ AudioSend \/ AudioEmpty \/ AudioError
           \/ AudioExhausted \/ AudioQuit

-----------------------------------------------------------------------------
(* StationRunner::run_station *)

Recv(s) ==
  /\ st[s] = "recv" /\ q[s] # <<>>
  /\ held' = [held EXCEPT ![s] = Head(q[s])]
  /\ q' = [q EXCEPT ![s] = Tail(@)]
  /\ st' = [st EXCEPT ![s] = "process"]
  /\ UNCHANGED <<threadVars, callerVars, acc, pre, result, crashed, filtered, handled>>

(* recv() fails: the channel is empty and nobody can send to it any more. *)
Disconnected(s) ==
  /\ st[s] = "recv" /\ q[s] = <<>> /\ ~Connected(s)
  /\ st' = [st EXCEPT ![s] = "closing"]
  /\ UNCHANGED <<threadVars, callerVars, q, held, acc, pre, result, crashed,
                 filtered, handled>>

(* process() returned Ok(Some(output)) in a station that maps one to one. *)
Forward(s) ==
  /\ s \notin {CHUNKER, Last}
  /\ st[s] = "process"
  /\ st' = [st EXCEPT ![s] = "send"]
  /\ UNCHANGED <<threadVars, callerVars, q, held, acc, pre, result, crashed,
                 filtered, handled>>

(* A recoverable error leaves the loop. *)
WrongDrop(s) ==
  /\ s \in Droppers
  /\ st[s] = "process"
  /\ filtered' = filtered \cup held[s]
  /\ held' = [held EXCEPT ![s] = {}]
  /\ st' = [st EXCEPT ![s] = "closing"]
  /\ UNCHANGED <<threadVars, callerVars, q, acc, pre, result, crashed, handled>>

(* Ok(None), or a recoverable error that is reported: the loop goes on. *)
Drop(s) ==
  /\ s \in Droppers
  /\ st[s] = "process"
  /\ filtered' = filtered \cup held[s]
  /\ held' = [held EXCEPT ![s] = {}]
  /\ st' = [st EXCEPT ![s] = "recv"]
  /\ UNCHANGED <<threadVars, callerVars, q, acc, pre, result, crashed, handled>>

-----------------------------------------------------------------------------
(* ChunkerStation::process: the VAD's verdict and the adaptive chunker's   *)
(* gap decide which of these happens (see Chunker for the decision).       *)

(* The n newest frames of S: the pre-speech buffer drops its oldest.        *)
Newest(S, n) == {x \in S : Cardinality({y \in S : y > x}) < n}

feedRest == <<threadVars, callerVars, q, result, crashed, handled>>

(* Idle, silence: remember the frame for the start of the next chunk. *)
FeedSilence ==
  /\ st[CHUNKER] = "process" /\ acc = {}
  /\ pre' = Newest(pre \cup held[CHUNKER], PreRoll)
  /\ filtered' = filtered \cup ((pre \cup held[CHUNKER]) \ pre')
  /\ held' = [held EXCEPT ![CHUNKER] = {}]
  /\ st' = [st EXCEPT ![CHUNKER] = "recv"]
  /\ UNCHANGED <<feedRest, acc>>

(* The pre-speech buffer is copied, not drained. *)
WrongFeedSpeech ==
  /\ st[CHUNKER] = "process" /\ acc = {}
  /\ acc' = pre \cup held[CHUNKER]
  /\ held' = [held EXCEPT ![CHUNKER] = {}]
  /\ st' = [st EXCEPT ![CHUNKER] = "recv"]
  /\ UNCHANGED <<feedRest, pre, filtered>>

(* Idle, speech: start a chunk with the buffered silence in front. *)
FeedSpeech ==
  /\ st[CHUNKER] = "process" /\ acc = {}
  /\ acc' = pre \cup held[CHUNKER]
  /\ pre' = {}
  /\ held' = [held EXCEPT ![CHUNKER] = {}]
  /\ st' = [st EXCEPT ![CHUNKER] = "recv"]
  /\ UNCHANGED <<feedRest, filtered>>

(* Accumulating: the frame joins the chunk, speech or not. *)
FeedMore ==
  /\ st[CHUNKER] = "process" /\ acc # {}
  /\ acc' = acc \cup held[CHUNKER]
  /\ held' = [held EXCEPT ![CHUNKER] = {}]
  /\ st' = [st EXCEPT ![CHUNKER] = "recv"]
  /\ UNCHANGED <<feedRest, pre, filtered>>

(* The accumulated samples are not reset. *)
WrongFeedEmit ==
  /\ st[CHUNKER] = "process" /\ acc # {}
  /\ held' = [held EXCEPT ![CHUNKER] = acc \cup @]
  /\ st' = [st EXCEPT ![CHUNKER] = "send"]
  /\ UNCHANGED <<feedRest, acc, pre, filtered>>

(* Accumulating, and a gap or the maximum length ends the chunk. *)
FeedEmit ==
  /\ st[CHUNKER] = "process" /\ acc # {}
  /\ held' = [held EXCEPT ![CHUNKER] = acc \cup @]
  /\ acc' = {}
  /\ st' = [st EXCEPT ![CHUNKER] = "send"]
  /\ UNCHANGED <<feedRest, pre, filtered>>

Feed == FeedSilence \/ FeedSpeech \/ FeedMore \/ FeedEmit

(* The result is sent with every text. *)
WrongSinkWrite ==
  /\ st[Last] = "process"
  /\ handled' = Append(handled, held[Last])
  /\ result' = <<Len(handled')>>
  /\ held' = [held EXCEPT ![Last] = {}]
  /\ st' = [st EXCEPT ![Last] = "send"]
  /\ UNCHANGED <<threadVars, callerVars, q, acc, pre, crashed, filtered>>

(* SinkStation::process: the text is written, then () is sent downstream. *)
SinkWrite ==
  /\ st[Last] = "process"
  /\ handled' = Append(handled, held[Last])
  /\ held' = [held EXCEPT ![Last] = {}]
  /\ st' = [st EXCEPT ![Last] = "send"]
  /\ UNCHANGED <<threadVars, callerVars, q, acc, pre, result, crashed, filtered>>

-----------------------------------------------------------------------------
(* output_tx.send: blocks while the channel is full. *)
Send(s) ==
  /\ st[s] = "send" /\ ReceiverAlive(s) /\ HasRoom(s)
  /\ IF s = Last
     THEN out' = out + 1 /\ UNCHANGED q
     ELSE q' = [q EXCEPT ![s + 1] = Append(@, held[s])] /\ UNCHANGED out
  /\ held' = [held EXCEPT ![s] = {}]
  /\ st' = [st EXCEPT ![s] = "recv"]
  /\ UNCHANGED <<running, seq, errs, audio, overrun, drain, callerVars, acc, pre, result,
                 crashed, filtered, handled>>

(* try_send, as for audio frames: no room drops the message. *)
WrongSendFail(s) ==
  /\ st[s] = "send" /\ ~(ReceiverAlive(s) /\ HasRoom(s))
  /\ held' = [held EXCEPT ![s] = {}]
  /\ st' = [st EXCEPT ![s] = "recv"]
  /\ UNCHANGED <<threadVars, callerVars, q, acc, pre, result, crashed, filtered, handled>>

(* The receiver is gone: the message is dropped and the loop is left. *)
SendFail(s) ==
  /\ st[s] = "send" /\ ~ReceiverAlive(s)
  /\ held' = [held EXCEPT ![s] = {}]
  /\ st' = [st EXCEPT ![s] = "closing"]
  /\ UNCHANGED <<threadVars, callerVars, q, acc, pre, result, crashed, filtered, handled>>

(* ChunkerStation::shutdown sends the unfinished chunk through flush_tx,   *)
(* waiting for room; without a receiver the chunk is dropped.              *)
Flush ==
  /\ st[CHUNKER] = "closing" /\ acc # {}
  /\ \/ /\ ReceiverAlive(CHUNKER) /\ HasRoom(CHUNKER)
        /\ q' = [q EXCEPT ![CHUNKER + 1] = Append(@, acc)]
     \/ ~ReceiverAlive(CHUNKER) /\ UNCHANGED q
  /\ acc' = {}
  /\ UNCHANGED <<threadVars, callerVars, st, held, pre, result, crashed,
                 filtered, handled>>

(* shutdown() does not flush the chunker. *)
WrongEnd(s) ==
  /\ st[s] = "closing"
  /\ result' = IF s = Last THEN <<Len(handled)>> ELSE result
  /\ st' = [st EXCEPT ![s] = "dead"]
  /\ q' = [q EXCEPT ![s] = <<>>]
  /\ acc' = IF s = CHUNKER THEN {} ELSE acc
  /\ UNCHANGED <<threadVars, callerVars, held, pre, crashed, filtered, handled>>

(* The rest of shutdown(), the sink's result included; then the thread     *)
(* ends and drops its receiver, with the messages in it, and its senders.  *)
End(s) ==
  /\ st[s] = "closing"
  /\ s = CHUNKER => acc = {}
  /\ result' = IF s = Last THEN <<Len(handled)>> ELSE result
  /\ st' = [st EXCEPT ![s] = "dead"]
  /\ q' = [q EXCEPT ![s] = <<>>]
  /\ UNCHANGED <<threadVars, callerVars, held, acc, pre, crashed, filtered, handled>>

(* A panic in process() unwinds the thread: no shutdown() is run. *)
Crash(s) ==
  /\ s \in Crashers
  /\ st[s] = "process"
  /\ st' = [st EXCEPT ![s] = "dead"]
  /\ q' = [q EXCEPT ![s] = <<>>]
  /\ held' = [held EXCEPT ![s] = {}]
  /\ acc' = IF s = CHUNKER THEN {} ELSE acc
  /\ crashed' = crashed \cup {s}
  /\ UNCHANGED <<threadVars, callerVars, pre, result, filtered, handled>>

Station(s) ==
  \/ Recv(s) \/ Disconnected(s) \/ Forward(s) \/ Drop(s)
  \/ Send(s) \/ SendFail(s) \/ End(s) \/ Crash(s)
  \/ s = CHUNKER /\ (Feed \/ Flush)
  \/ s = Last /\ SinkWrite

-----------------------------------------------------------------------------
(* The thread that drains the sink's output channel *)

drainRest == <<running, seq, errs, audio, overrun, callerVars, stationVars>>

DrainCheck ==
  /\ drain = "check"
  /\ drain' = IF running THEN "recv" ELSE "dead"
  /\ UNCHANGED <<out, drainRest>>

DrainRecv ==
  /\ drain = "recv" /\ out > 0
  /\ out' = out - 1
  /\ drain' = "check"
  /\ UNCHANGED drainRest

(* recv_timeout fails: 100 ms without a message, or a disconnected channel. *)
DrainTimeout ==
  /\ drain = "recv" /\ out = 0
  /\ drain' = IF running THEN "check" ELSE "dead"
  /\ UNCHANGED <<out, drainRest>>

Drain == DrainCheck \/ DrainRecv \/ DrainTimeout

-----------------------------------------------------------------------------
(* The caller: start_with_post_processors, then PipelineHandle::stop *)

callerRest == <<seq, errs, overrun, drain, out, stationVars>>

StartOk ==
  /\ caller = "starting"
  /\ caller' = "up" /\ audio' = "polling"
  /\ UNCHANGED <<running, answer, timedOut, callerRest>>

(* audio_source.start()? returns early: the senders are dropped, the       *)
(* caller gets no handle, and nobody resets running.                       *)
StartFail ==
  /\ caller = "starting"
  /\ caller' = "failed" /\ audio' = "dead"
  /\ UNCHANGED <<running, answer, timedOut, callerRest>>

Stop ==
  /\ caller = "up"
  /\ caller' = "waiting" /\ running' = FALSE
  /\ UNCHANGED <<audio, answer, timedOut, callerRest>>

TakeResult ==
  /\ caller = "waiting" /\ result # <<>>
  /\ caller' = "joining" /\ answer' = result
  /\ UNCHANGED <<running, audio, timedOut, callerRest>>

(* The sink ended without a result: result_rx is disconnected. *)
NoResult ==
  /\ caller = "waiting" /\ result = <<>> /\ st[Last] = "dead"
  /\ caller' = "joining"
  /\ UNCHANGED <<running, audio, answer, timedOut, callerRest>>

ResultTimeout ==
  /\ caller = "waiting" /\ result = <<>> /\ st[Last] # "dead" /\ SlowCall
  /\ caller' = "joining" /\ timedOut' = TRUE
  /\ UNCHANGED <<running, audio, answer, callerRest>>

JoinAll ==
  /\ caller = "joining" /\ AllThreadsDone
  /\ caller' = "done"
  /\ UNCHANGED <<running, audio, answer, timedOut, callerRest>>

Detach ==
  /\ caller = "joining" /\ ~AllThreadsDone /\ SlowCall
  /\ caller' = "detached"
  /\ UNCHANGED <<running, audio, answer, timedOut, callerRest>>

Finishing == TakeResult \/ NoResult \/ ResultTimeout \/ JoinAll \/ Detach

(* stop() has returned and every thread has ended. *)
Finished ==
  /\ caller \in {"done", "detached"} /\ AllThreadsDone
  /\ UNCHANGED vars

-----------------------------------------------------------------------------
Next ==
  \/ Audio \/ Drain
  \/ \E s \in Stations : Station(s)
  \/ StartOk \/ StartFail \/ Stop \/ Finishing
  \/ Finished

Spec == Init /\ [][Next]_vars

(* The operating system schedules every thread, process() and              *)
(* audio_source.start() return, and stop(), once called, runs to its end.  *)
(* Nothing obliges the user to call stop().                                *)
Fairness ==
  /\ WF_vars(Audio)
  /\ WF_vars(Drain)
  /\ \A s \in Stations : WF_vars(Station(s))
  /\ WF_vars(StartOk \/ StartFail)
  /\ WF_vars(Finishing)

FairSpec == Spec /\ Fairness

-----------------------------------------------------------------------------
(* Vocabulary of the properties *)

Items == (SUBSET (1..Frames)) \ {{}}

Precedes(a, b) == \A x \in a, y \in b : x < y

(* The frames of a sequence of messages. *)
FramesOf(msgs) == UNION {msgs[i] : i \in DOMAIN msgs}

(* The frames station s is responsible for. *)
AtStation(s) ==
  held[s] \cup FramesOf(q[s]) \cup (IF s = CHUNKER THEN acc \cup pre ELSE {})

(* Every message was spoken before the ones after it. *)
Sorted(msgs) ==
  \A i, j \in DOMAIN msgs : i < j => Precedes(msgs[i], msgs[j])

Written == FramesOf(handled)
InHand == IF audio = "sending" THEN {seq} ELSE {}
InFlight == InHand \cup UNION {AtStation(s) : s \in Stations}

(* Frames that got into the VAD's channel, or found no VAD any more, and    *)
(* are nowhere now, unreported.  What the audio thread dropped at a full    *)
(* channel is lost too, but by another rule: it is in overrun.              *)
Lost == (1..seq) \ (Written \cup InFlight \cup filtered \cup overrun)

-----------------------------------------------------------------------------
(* Safety *)

(* The type invariant; no channel ever holds more than its capacity. *)
TypeOK ==
  /\ running \in BOOLEAN
  /\ seq \in 0..Frames
  /\ errs \in 0..MaxErrors
  /\ audio \in {"off", "polling", "sending", "dead"}
  /\ q \in [Stations -> Seq(Items)]
  /\ \A s \in Stations : Len(q[s]) <= Capacity[s]
  /\ st \in [Stations -> {"recv", "process", "send", "closing", "dead"}]
  /\ held \in [Stations -> SUBSET (1..Frames)]
  /\ acc \in SUBSET (1..Frames) /\ pre \in SUBSET (1..Frames)
  /\ out \in 0..Capacity[Last + 1]
  /\ drain \in {"check", "recv", "dead"}
  /\ caller \in {"starting", "up", "failed", "waiting", "joining", "done", "detached"}
  /\ result \in Seq(Nat) /\ answer \in Seq(Nat)
  /\ timedOut \in BOOLEAN
  /\ crashed \in SUBSET Stations
  /\ filtered \in SUBSET (1..Frames) /\ overrun \in SUBSET (1..Frames)
  /\ handled \in Seq(Items)

(* Texts reach the sink in the order they were spoken and no audio frame    *)
(* ends up in two texts, whatever the threads' interleaving, the chunker's  *)
(* flush at shutdown included.                                              *)
InOrder == Sorted(handled)

(* As long as nobody stopped the pipeline and no thread panicked, a frame   *)
(* that got past the audio thread (which drops frames at a full channel) is *)
(* in a text, in flight, or was discarded by a station that says so: the    *)
(* end of the audio alone never tears down a station that still has         *)
(* something to hand over.                                                  *)
NoLossWhileRunning == running /\ crashed = {} => Lost = {}

(* Whatever a stop or a panic loses, it loses from the end: no text is      *)
(* written that was spoken after something that got lost.                   *)
TruncationOnly == Precedes(Written, Lost)

(* The result stop() returns counts every text the sink ever accepts: the   *)
(* sink writes nothing after it, even if threads had to be detached.        *)
ResultIsFinal == answer # <<>> => answer = <<Len(handled)>>

(* When the sink of a file or pipe that ends by itself reports its result,  *)
(* the source was read to its end, and the only frames that were neither    *)
(* written, nor discarded by a station that says so, nor left as trailing   *)
(* silence are those the audio thread dropped because the VAD was a full    *)
(* channel behind; that cannot happen to the beginning of the source, so a  *)
(* file that fits into the channel is handed over whole.                    *)
FileDrained ==
  Finite /\ running /\ crashed = {} /\ caller = "up" /\ st[Last] = "dead"
    => /\ seq = Frames
       /\ (1..Frames) \ overrun \subseteq Written \cup filtered \cup pre
       /\ overrun \cap 1..Capacity[VAD] = {}

(* Refinement: threads, channels and shutdown implement TextStream. *)
TS == INSTANCE TextStream WITH heard <- seq, written <- handled,
                               closed <- (st[Last] = "dead")
Delivers == TS!Spec

-----------------------------------------------------------------------------
(* Liveness *)

(* stop() returns: no thread it waits for is left waiting for another, or   *)
(* it gives up after a slow call; and every thread ends, the detached ones  *)
(* too: blocked sends and receives are all released by the cascade of       *)
(* disconnections.                                                          *)
StopReturns ==
  /\ caller = "waiting" ~> caller \in {"done", "detached"}
  /\ ~running ~> AllThreadsDone

(* When the audio ends by itself (end of file, dead microphone) or could    *)
(* not be started at all, the stations shut down one after the other        *)
(* without anybody's help.                                                  *)
SourceEndDrains == audio = "dead" ~> st[Last] = "dead"

-----------------------------------------------------------------------------
(* A claim of a comment that the code does not keep *)

(* orchestrator.rs:102 "Allow up to 5s for in-flight transcription to       *)
(* complete.": a stop() that did not time out has lost nothing.             *)
GracefulStop ==
  caller \in {"done", "detached"} /\ ~timedOut /\ crashed = {} => Lost = {}
=============================================================================
