----------------------------- MODULE Microphone -----------------------------
(***************************************************************************)
(* From the microphone to the detector's threshold: the audio source       *)
(* (src/audio/capture.rs) tries a format, waits for a sign of life and     *)
(* tries another, while the sound system's thread fills a buffer that the  *)
(* audio polling thread empties; the detector's station                    *)
(* (src/pipeline/vad_station.rs) measures each frame, adapts the threshold *)
(* to the noise of the last frames, and warns of a silent microphone.      *)
(*                                                                         *)
(* A sample is its stream, its number and its level, the loudness of the   *)
(* sound on a scale of a few steps.  Pipeline has the channel between the  *)
(* polling thread and the station, Segmentation what is made of speech.    *)
(***************************************************************************)
EXTENDS Integers, Sequences, FiniteSets

CONSTANTS
  Levels,       \* the steps of loudness, 0 for no signal
  Threshold,    \* VadConfig.speech_threshold
  Low, High,    \* the limits of an adapted threshold
  Window,       \* level_history_max
  Warm,         \* levels needed before the threshold adapts
  Patience,     \* NO_AUDIO_WARNING_FRAMES
  Length,       \* bound: samples of a recording
  Burst         \* bound: samples in the buffer

ASSUME MicrophoneAssumption ==
  /\ Levels \subseteq Nat /\ 0 \in Levels /\ IsFiniteSet(Levels)
  /\ Threshold \in Nat /\ Low \in Nat /\ High \in Nat /\ Low <= High
  /\ Warm \in Nat \ {0} /\ Window \in Nat /\ Warm <= Window
  /\ Patience \in Nat \ {0} /\ Length \in Nat /\ Burst \in Nat

VARIABLES
  source,     \* start() and stop(): "new", "probing", "doubtful", "up", "off"
  stream,     \* the streams built so far; the last one runs while source is not "off"
  captured,   \* samples the running stream has delivered: callback_count
  buffer,     \* CpalAudioSource.buffer
  taken,      \* history: the samples handed on
  show_levels, \* VadStation.show_levels: the program's verbosity is 1 or more
  history,    \* VadStation.level_history
  threshold,  \* Vad's speech_threshold
  zeros,      \* zero_audio_frames
  warned,     \* no_audio_warning_shown
  levels,     \* history: the level of every frame
  speech,     \* is_speech of every frame
  warnings    \* history: the frames at which the user was warned

capture == <<source, stream, captured, buffer>>
station == <<history, threshold, zeros, warned, levels, speech, warnings>>
vars == <<capture, taken, show_levels, station>>

Sample(n, level) == [id |-> <<stream, n>>, level |-> level]

-----------------------------------------------------------------------------
(* CpalAudioSource: start, the callback, stop *)

Init ==
  /\ source = "new" /\ stream = 0 /\ captured = 0 /\ buffer = <<>> /\ taken = <<>>
  /\ show_levels \in BOOLEAN
  /\ history = <<>> /\ threshold = Threshold
  /\ zeros = 0 /\ warned = FALSE
  /\ levels = <<>> /\ speech = <<>> /\ warnings = {}

(* build_stream takes the first format the device accepts; the stream plays.*)
Start ==
  /\ source = "new" /\ source' = "probing"
  /\ stream' = 1
  /\ UNCHANGED <<captured, buffer, taken, show_levels, station>>

(* No format is accepted, or the stream does not play. *)
StartFails ==
  /\ source = "new" /\ source' = "off"
  /\ UNCHANGED <<stream, captured, buffer, taken, show_levels, station>>

(* On the sound system's thread: what the device heard, converted.  A       *)
(* device may accept a format and never call back.                          *)
Callback(level) ==
  /\ source \in {"probing", "doubtful", "up"}
  /\ Len(taken) + Len(buffer) < Length /\ Len(buffer) < Burst
  /\ captured' = captured + 1
  /\ buffer' = Append(buffer, Sample(captured', level))
  /\ UNCHANGED <<source, stream, taken, show_levels, station>>

(* After 200 ms: a stream that has called back stays.                       *)
Alive ==
  /\ source = "probing" /\ captured > 0
  /\ source' = "up"
  /\ UNCHANGED <<stream, captured, buffer, taken, show_levels, station>>

Doubt ==
  /\ source = "probing" /\ captured = 0
  /\ source' = "doubtful"
  /\ UNCHANGED <<stream, captured, buffer, taken, show_levels, station>>

(* What the abandoned stream delivered after all stays in the buffer.       *)
WrongReplace ==
  /\ source = "doubtful" /\ source' = "up"
  /\ stream' = stream + 1 /\ captured' = 0
  /\ UNCHANGED <<buffer, taken, show_levels, station>>

(* It is dropped, and with it what it delivered after all; the device's own *)
(* format is used, and not probed.                                          *)
Replace ==
  /\ source = "doubtful" /\ source' = "up"
  /\ stream' = stream + 1 /\ captured' = 0
  /\ buffer' = <<>>
  /\ UNCHANGED <<taken, show_levels, station>>

ReplaceFails ==
  /\ source = "doubtful" /\ source' = "off"
  /\ buffer' = <<>>
  /\ UNCHANGED <<stream, captured, taken, show_levels, station>>

(* The polling thread has left its loop. *)
Stop ==
  /\ source = "up" /\ source' = "off"
  /\ UNCHANGED <<stream, captured, buffer, taken, show_levels, station>>

-----------------------------------------------------------------------------
(* VadStation::process *)

AtMost(a, b) == IF a < b THEN a ELSE b
AtLeast(a, b) == IF a < b THEN b ELSE a

(* The oldest level is never dropped. *)
WrongRemember(h, level) == Append(h, level)

Remember(h, level) ==
  LET all == Append(h, level)
  IN  IF Len(all) > Window THEN Tail(all) ELSE all

(* The median in place of the first quarter. *)
WrongNoiseFloor(h) ==
  CHOOSE l \in Levels :
    /\ Cardinality({i \in DOMAIN h : h[i] < l}) <= Len(h) \div 2
    /\ Cardinality({i \in DOMAIN h : h[i] <= l}) > Len(h) \div 2

(* Of the levels in ascending order, the one a quarter of the way up.       *)
NoiseFloor(h) ==
  CHOOSE l \in Levels :
    /\ Cardinality({i \in DOMAIN h : h[i] < l}) <= Len(h) \div 4
    /\ Cardinality({i \in DOMAIN h : h[i] <= l}) > Len(h) \div 4

Adjusted(h) == IF Len(h) < Warm THEN threshold
               ELSE AtMost(AtLeast(2 * NoiseFloor(h), Low), High)

(* A warning once given is never given again. *)
WrongCheckNoAudio(level) ==
  /\ zeros' = IF level = 0 THEN zeros + 1 ELSE 0
  /\ warned' = (warned \/ zeros' >= Patience)
  /\ warnings' = IF warned' /\ ~warned THEN warnings \cup {Len(levels')} ELSE warnings

(* check_no_audio: a warning when there was no signal for long, and again   *)
(* only after there was one.                                                *)
CheckNoAudio(level) ==
  /\ zeros' = IF level = 0 THEN zeros + 1 ELSE 0
  /\ warned' = (zeros' > 0 /\ (warned \/ zeros' >= Patience))
  /\ warnings' = IF warned' /\ ~warned THEN warnings \cup {Len(levels')} ELSE warnings

(* The polling thread takes what there is for a frame.  Its level is a mean *)
(* of the samples'; it is judged by the threshold of the frames before it.  *)
(* Only a program that shows levels looks for a silent microphone.          *)
Frame(level) ==
  /\ source = "up" /\ buffer # <<>>
  /\ \E i, j \in DOMAIN buffer : buffer[i].level <= level /\ level <= buffer[j].level
  /\ taken' = taken \o [i \in DOMAIN buffer |-> buffer[i].id]
  /\ buffer' = <<>>
  /\ levels' = Append(levels, level)
  /\ speech' = Append(speech, level > threshold)
  /\ \/ show_levels /\ CheckNoAudio(level)
     \/ ~show_levels /\ UNCHANGED <<zeros, warned, warnings>>
  /\ history' = Remember(history, level)
  /\ threshold' = Adjusted(history')
  /\ UNCHANGED <<source, stream, captured, show_levels>>

Next ==
  \/ Start \/ StartFails \/ Alive \/ Doubt \/ Replace \/ ReplaceFails \/ Stop
  \/ \E level \in Levels : Callback(level) \/ Frame(level)

Spec == Init /\ [][Next]_vars

-----------------------------------------------------------------------------
(* Properties *)

TypeOK ==
  /\ source \in {"new", "probing", "doubtful", "up", "off"}
  /\ stream \in 0..2 /\ captured \in Nat
  /\ buffer \in Seq([id : (1..2) \X Nat, level : Levels])
  /\ taken \in Seq((1..2) \X Nat)
  /\ show_levels \in BOOLEAN
  /\ history \in Seq(Levels) /\ Len(history) <= Window
  /\ threshold \in {Threshold} \cup Low..High
  /\ zeros \in Nat /\ warned \in BOOLEAN
  /\ levels \in Seq(Levels) /\ speech \in Seq(BOOLEAN) /\ Len(speech) = Len(levels)
  /\ warnings \subseteq DOMAIN levels

(* Every sample of the stream that stays is handed on once and in order,    *)
(* from its first one, which may be older than the end of start(); and none *)
(* of a stream that was given up.                                           *)
SamplesOnce ==
  LET all == taken \o [i \in DOMAIN buffer |-> buffer[i].id]
  IN  source = "up" => all = [i \in 1..captured |-> <<stream, i>>]

(* The frames whose levels decide on frame n, when they are enough.         *)
Before(n) == AtLeast(1, n - Window)..(n - 1)
Share(S, n) == Cardinality({k \in Before(n) : levels[k] \in S})

(* Speech is heard when more than a quarter of the window before it was at  *)
(* most half as loud, so a speaker who pauses is never lost; and noise is   *)
(* passed over when three quarters of the window were as loud, which is     *)
(* also what befalls speech without pauses.                                 *)
Adapts ==
  \A n \in DOMAIN levels :
    LET l == levels[n]
        size == Cardinality(Before(n))
        half == {k \in Levels : 2 * k < l}
        equal == {k \in Levels : k >= l}
    IN  size >= Warm =>
          /\ l > Low /\ Share(half, n) > size \div 4 => speech[n]
          /\ l <= High /\ Share(equal, n) >= size - size \div 4 => ~speech[n]

(* A user to whom levels are shown (verbosity 1 or more) is warned once for *)
(* every time without a signal that lasts, at the frame at which it has     *)
(* lasted long enough; any other user, the default one too, never is.       *)
WarnsOnce ==
  \A n \in DOMAIN levels :
    n \in warnings <=>
      /\ show_levels
      /\ n >= Patience
      /\ \A k \in (n - Patience + 1)..n : levels[k] = 0
      /\ n > Patience => levels[n - Patience] # 0
=============================================================================
