---------------------------- MODULE Segmentation ----------------------------
(***************************************************************************)
(* How speech is cut into chunks: the voice activity detector              *)
(* (src/audio/vad.rs, run by src/pipeline/vad_station.rs) marks each frame *)
(* and the adaptive chunker (src/pipeline/adaptive_chunker.rs, run by      *)
(* src/pipeline/chunker_station.rs) gathers marked frames and cuts where   *)
(* the speaker pauses, the readier the longer the chunk has grown.         *)
(*                                                                         *)
(* The microphone delivers one frame in one unit of time, so the number of *)
(* frames heard is the clock both stations read.  They read it when they   *)
(* take a frame, not when it was recorded: a station may be some frames    *)
(* late, as its thread is while a later stage is busy.  A frame is its     *)
(* number; what it holds is whether its level is above the threshold.      *)
(* All durations are in units of a frame.                                  *)
(***************************************************************************)
EXTENDS Integers, Sequences, FiniteSets, SequencesExt

CONSTANTS
  Silence, MinSpeech,            \* VadConfig
  Target, MaxChunk,              \* AdaptiveChunkerConfig
  InitialGap, MinGap,
  PreSpeech, PostSpeech,
  Points,       \* the table of calculate_required_gap_static: <<duration, gap>>
  Length,       \* bound: frames heard
  Slack         \* bound: frames a station may be late

ASSUME SegmentationAssumption ==
  /\ Silence \in Nat /\ MinSpeech \in Nat /\ Target \in Nat /\ MaxChunk \in Nat \ {0}
  /\ PreSpeech \in Nat /\ PostSpeech \in Nat
  /\ Length \in Nat /\ Slack \in Nat

(* The gaps are constants of the code: none is 0, or longer than the first. *)
ASSUME TableAssumption ==
  /\ InitialGap \in Nat /\ MinGap \in 1..InitialGap
  /\ Points \in Seq(Nat \X (1..InitialGap)) /\ Len(Points) > 1
  /\ \A i \in 1..(Len(Points) - 1) :
       Points[i][1] < Points[i + 1][1] /\ Points[i][2] >= Points[i + 1][2]

VARIABLES
  heard,       \* level above the threshold?, for every frame recorded
  vad,         \* the detector: its state and its two start times
  event,       \* what it said of the last frame
  speech,      \* is_speech of every frame it has passed on
  fed,         \* frames the chunker has taken
  quietSince,  \* ChunkerStation.silence_start
  talkSince,   \* speech_start while accumulating
  pre,         \* the ring buffer of silence before speech
  buffer,      \* the frames of the growing chunk, <<>> while idle
  chunks,      \* the chunks emitted
  late,        \* a station has taken a frame after its time
  over         \* shutdown() has flushed

detector == <<vad, event, speech>>
chunker == <<fed, quietSince, talkSince, pre, buffer, chunks>>
vars == <<heard, detector, chunker, late, over>>

None == -1   \* Option<Instant>::None
Now == Len(heard)
Elapsed(t) == Now - t
AtLeast(a, b) == IF a < b THEN b ELSE a   \* a.max(b)

-----------------------------------------------------------------------------
(* Vad::process_with_info *)

Idle == [state |-> "idle", talk |-> None, quiet |-> None]
Speaking(t) == [state |-> "speaking", talk |-> t, quiet |-> None]

Loud(v) ==
  IF v.state \in {"idle", "stopped"}
    THEN <<Speaking(Now), "start">>
    ELSE <<Speaking(v.talk), "speech">>

(* Definitions named Wrong... are slips a programmer could make in the code *)
(* the next definition models; with one of them in its place, TLC finds the *)
(* property violated that PROJECT.json pairs it with.                       *)

(* A pause of Silence ends the speech; speech shorter than MinSpeech is     *)
(* taken for noise, and no end is reported.                                 *)
Quiet(v) ==
  CASE v.state = "speaking" -> <<[v EXCEPT !.state = "maybe", !.quiet = Now], "silence">>
    [] v.state = "maybe" /\ Elapsed(v.quiet) >= Silence ->
         IF v.quiet - v.talk < MinSpeech
           THEN <<Idle, "silence">>
           ELSE <<[Idle EXCEPT !.state = "stopped"], "end">>
    [] v.state = "maybe" /\ Elapsed(v.quiet) < Silence -> <<v, "silence">>
    [] v.state \in {"idle", "stopped"} -> <<[v EXCEPT !.state = "idle"], "silence">>

-----------------------------------------------------------------------------
(* calculate_required_gap_static: between two points of the table the gap   *)
(* shrinks with a slope; before Target and behind the table it is constant. *)

Between(a, b, d) == a[2] - ((a[2] - b[2]) * (d - a[1])) \div (b[1] - a[1])

RequiredGap(d) ==
  LET after == {i \in 1..(Len(Points) - 1) : d <= Points[i + 1][1]}
      i == CHOOSE i \in after : \A j \in after : i <= j
  IN  IF d < Target THEN InitialGap
      ELSE IF after = {} THEN MinGap
      ELSE IF d <= Points[i][1] THEN Points[i][2]
      ELSE AtLeast(Between(Points[i], Points[i + 1], d), MinGap)

-----------------------------------------------------------------------------
Init ==
  /\ heard = <<>> /\ vad = Idle /\ event = "silence" /\ speech = <<>>
  /\ fed = 0 /\ quietSince = None /\ talkSince = None
  /\ pre = <<>> /\ buffer = <<>> /\ chunks = <<>>
  /\ late = FALSE /\ over = FALSE

(* The microphone records a frame, and a unit of time is over. *)
Record(loud) ==
  /\ Len(heard) < Length /\ Len(heard) - fed <= Slack
  /\ heard' = Append(heard, loud)
  /\ UNCHANGED <<detector, chunker, late, over>>

(* VadStation::process: is_speech is SpeechStart or Speech. *)
Detect ==
  /\ Len(speech) < Len(heard)
  /\ LET n == Len(speech) + 1
         r == IF heard[n] THEN Loud(vad) ELSE Quiet(vad)
     IN  /\ vad' = r[1] /\ event' = r[2]
         /\ speech' = Append(speech, r[2] \in {"start", "speech"})
         /\ late' = (late \/ n < Now)
  /\ UNCHANGED <<heard, chunker, over>>

-----------------------------------------------------------------------------
(* ChunkerStation::process and AdaptiveChunker::feed *)

(* Every silent frame restarts the pause. *)
WrongQuietSince(isSpeech) == IF isSpeech THEN None ELSE Now

QuietSince(isSpeech) ==
  IF isSpeech THEN None ELSE IF quietSince = None THEN Now ELSE quietSince

SilenceSince(t) == IF t = None THEN 0 ELSE Elapsed(t)

(* One frame too many is kept. *)
WrongNewest(s) == IF Len(s) > PreSpeech THEN SubSeq(s, Len(s) - PreSpeech, Len(s)) ELSE s

(* The ring buffer keeps the newest frames. *)
Newest(s) == IF Len(s) > PreSpeech THEN SubSeq(s, Len(s) - PreSpeech + 1, Len(s)) ELSE s

(* Idle, and still no speech. *)
Wait(n, isSpeech) ==
  /\ buffer = <<>> /\ ~isSpeech
  /\ pre' = Newest(Append(pre, n))
  /\ UNCHANGED <<talkSince, buffer, chunks>>

(* The ring buffer is cleared before it is used. *)
WrongBegin(n, isSpeech) ==
  /\ buffer = <<>> /\ isSpeech
  /\ buffer' = <<n>> /\ pre' = <<>> /\ talkSince' = Now
  /\ UNCHANGED chunks

(* Idle, and speech begins: the silence before it comes along. *)
Begin(n, isSpeech) ==
  /\ buffer = <<>> /\ isSpeech
  /\ buffer' = Append(pre, n) /\ pre' = <<>> /\ talkSince' = Now
  /\ UNCHANGED chunks

(* post_speech_ms is left out. *)
WrongShouldEmit(silence) ==
  Elapsed(talkSince) >= MaxChunk \/ silence >= RequiredGap(Elapsed(talkSince))

ShouldEmit(silence) ==
  \/ Elapsed(talkSince) >= MaxChunk
  \/ silence >= AtLeast(RequiredGap(Elapsed(talkSince)), PostSpeech)

Grow(n, silence) ==
  /\ buffer # <<>> /\ ~ShouldEmit(silence)
  /\ buffer' = Append(buffer, n)
  /\ UNCHANGED <<talkSince, pre, chunks>>

Emit(n, silence) ==
  /\ buffer # <<>> /\ ShouldEmit(silence)
  /\ chunks' = Append(chunks, Append(buffer, n))
  /\ buffer' = <<>> /\ talkSince' = None
  /\ UNCHANGED pre

Feed ==
  /\ fed < Len(speech) /\ ~over
  /\ LET n == fed + 1
         quiet == QuietSince(speech[n])
     IN  /\ quietSince' = quiet
         /\ \/ Wait(n, speech[n]) \/ Begin(n, speech[n])
            \/ Grow(n, SilenceSince(quiet)) \/ Emit(n, SilenceSince(quiet))
         /\ fed' = n
         /\ late' = (late \/ n < Now)
  /\ UNCHANGED <<heard, detector, over>>

(* ChunkerStation::shutdown, when the detector has ended: flush. *)
Shutdown ==
  /\ ~over /\ fed = Len(heard)
  /\ over' = TRUE
  /\ chunks' = IF buffer = <<>> THEN chunks ELSE Append(chunks, buffer)
  /\ buffer' = <<>> /\ talkSince' = None
  /\ UNCHANGED <<heard, detector, fed, quietSince, pre, late>>

Next == (\E loud \in BOOLEAN : ~over /\ Record(loud)) \/ Detect \/ Feed \/ Shutdown

Spec == Init /\ [][Next]_vars

-----------------------------------------------------------------------------
(* Properties *)

TypeOK ==
  /\ heard \in Seq(BOOLEAN) /\ speech \in Seq(BOOLEAN)
  /\ vad \in [state : {"idle", "speaking", "maybe", "stopped"},
             talk : Nat \cup {None}, quiet : Nat \cup {None}]
  /\ event \in {"start", "speech", "silence", "end"}
  /\ fed \in 0..Len(speech)
  /\ {quietSince, talkSince} \subseteq Nat \cup {None}
  /\ pre \in Seq(Nat) /\ Len(pre) <= PreSpeech
  /\ buffer \in Seq(Nat) /\ chunks \in Seq(Seq(Nat) \ {<<>>})
  /\ late \in BOOLEAN /\ over \in BOOLEAN

Pieces == IF buffer = <<>> THEN chunks ELSE Append(chunks, buffer)
IsCut(i) == i < Len(chunks) \/ (i = Len(chunks) /\ ~over)   \* not by the flush

FirstLoud(piece) == SelectInSeq(piece, LAMBDA n : heard[n])
Talk(piece) == Last(piece) - piece[FirstLoud(piece)]
Trailing(piece) == Len(piece) - SelectLastInSeq(piece, LAMBDA n : heard[n])

(* Every loud frame the chunker has taken is in exactly one piece, and a    *)
(* piece is an unbroken run of frames behind the piece before it, whatever  *)
(* the detector made of the frames and however late the stations are; and   *)
(* each begins with the silence that was before its first word: all of it   *)
(* since the last piece, and PreSpeech frames at most.                      *)
SpeechKept ==
  /\ \A n \in 1..fed : heard[n] => \E i \in DOMAIN Pieces : n \in ToSet(Pieces[i])
  /\ \A i \in DOMAIN Pieces : \A k \in 2..Len(Pieces[i]) :
       Pieces[i][k] = Pieces[i][k - 1] + 1
  /\ \A i \in 2..Len(Pieces) : Last(Pieces[i - 1]) < Head(Pieces[i])
  /\ \A i \in DOMAIN Pieces :
      LET word == FirstLoud(Pieces[i])
          before == IF i = 1 THEN 0 ELSE Last(Pieces[i - 1])
      IN  word > 0 /\ word - 1 = Min({PreSpeech, Pieces[i][word] - before - 1})

(* Stations that keep up cut in a pause: a chunk that is not of maximum     *)
(* duration ends with as much silence as its duration requires, so no word  *)
(* is cut in two.                                                           *)
CutInPause ==
  ~late => \A i \in DOMAIN chunks : IsCut(i) =>
    \/ Talk(chunks[i]) >= MaxChunk
    \/ Trailing(chunks[i]) > AtLeast(RequiredGap(Talk(chunks[i])), PostSpeech)

(* Stations that keep up hold no chunk back: not over the maximum duration, *)
(* and not over the longest pause that can be required.                     *)
NotHeldBack ==
  ~late => \A i \in DOMAIN Pieces :
    /\ Talk(Pieces[i]) <= MaxChunk
    /\ Trailing(Pieces[i]) <= AtLeast(InitialGap, PostSpeech) + 1
=============================================================================
