------------------------------ MODULE TextPath ------------------------------
(***************************************************************************)
(* What becomes of one transcription after another: the filters of         *)
(* src/pipeline/transcriber_station.rs, the correction of                  *)
(* src/correction/station.rs, the voice commands of                        *)
(* src/pipeline/post_processor.rs and the sink of src/pipeline/sink.rs.    *)
(*                                                                         *)
(* The four stations are threads joined by channels (see Pipeline); here   *)
(* the channels only hold what waits, in order.  set_language changes the  *)
(* allow-list that the first station reads, at any moment.  Which words    *)
(* are commands, hallucinations or fillers is a parameter.                 *)
(***************************************************************************)
EXTENDS Correction, TLC

CONSTANTS
  Blank,          \* the whitespace that "new line" stands for
  Builtin,        \* Builtin[l][w]: what the phrase w does in language l
  Inserted,       \* Inserted[w]: the text a built-in phrase stands for
  Custom,         \* Custom[w]: the text a configured phrase stands for
  Phrases,        \* Phrases[l]: built-in hallucinations
  Overrides, Added,   \* configured instead of them, and besides
  Fillers, AddedFillers,   \* suspect phrases, built in and configured
  Backend,        \* error_correction.backend
  Utterances,     \* what the transcribers may answer to a chunk, one by one;
                  \* nothing when the chunk has no energy
  Lists,        \* allow-lists that set_language sets
  MinConfidence,
  Count           \* bound: chunks

Effects == {"say", "insert", "blank", "caps_on", "caps_off", "keys"}

(* resolve_hallucination_filters: an override replaces its language; then   *)
(* the phrases of every language count, whatever is spoken.                 *)
Hallucinations == Added \cup UNION Range(Overrides @@ Phrases)
Suspects == AddedFillers \cup UNION Range(Fillers)

(* builtin_commands: English for a language without a table. *)
Commands(l) == Builtin[IF l \in DOMAIN Builtin THEN l ELSE English]

(* VoiceCommandProcessor::new: configured phrases win.  One that stands for *)
(* nothing is as good as one that stands for whitespace.                    *)
Phrasebook(l) ==
  [w \in Words |->
     IF w \notin DOMAIN Custom THEN Commands(l)[w]
     ELSE IF Custom[w] \in {Nothing, Blank} THEN "blank" ELSE "insert"]

Insertion(w) == IF w \in DOMAIN Custom THEN Custom[w] ELSE Inserted[w]

ASSUME TextPathAssumption ==
  /\ Blank \notin Words \cup {Nothing}
  /\ English \in DOMAIN Builtin
  /\ \A l \in DOMAIN Builtin :
       /\ Builtin[l] \in [Words -> Effects]
       /\ \A w \in Words : Builtin[l][w] = "insert" => Inserted[w] \in Words
  /\ DOMAIN Custom \subseteq Words
  /\ \A w \in DOMAIN Custom : Custom[w] \in Words \cup {Nothing, Blank}
  /\ Backend \in {"t5", "symspell", "hybrid"} /\ Lists \subseteq SUBSET Languages
  /\ Utterances \subseteq Seq(Result)
  /\ \A answers \in Utterances : \A i \in DOMAIN answers :
       answers[i].word = Failed => answers[i] = Error
  /\ MinConfidence \in Levels /\ Count \in Nat

VARIABLES
  allowed,   \* the live allow-list
  station,   \* the correction this recording started with
  action,    \* what each phrase does in it
  results,   \* all that was transcribed
  fate,      \* what became of each: "under way" first
  toCorrect, toCommand, toSink,   \* the channels
  said,      \* the word each text was when the voice commands saw it
  caps,      \* VoiceCommandProcessor.caps_active
  written    \* what the sink has written

channels == <<toCorrect, toCommand, toSink>>
setting == <<station, action>>
vars == <<allowed, setting, results, fate, channels, said, caps, written>>

None == Nothing   \* raw_text: None
Text(n, w) == [n |-> n, word |-> w, upper |-> FALSE, raw |-> None,
               origin |-> "transcription", corrector |-> Off]

Init ==
  /\ \E spoken \in Languages \cup {Automatic} :
       /\ station \in Stations(Backend, Automatic, spoken)
       /\ action = Phrasebook(spoken)
  /\ allowed \in Lists
  /\ results = <<>> /\ fate = <<>> /\ said = <<>> /\ written = <<>>
  /\ toCorrect = <<>> /\ toCommand = <<>> /\ toSink = <<>>
  /\ caps = FALSE

-----------------------------------------------------------------------------
(* TranscriberStation *)

(* The reasons to drop a result, in the order they are tried. *)
Reasons == <<"empty", "hallucination", "suspect", "language", "confidence">>

Applies(reason, r) ==
  CASE reason = "empty" -> r.word \in {Nothing, Annotation}
    [] reason = "hallucination" -> r.word \in Hallucinations
    [] reason = "suspect" -> r.word \in Suspects /\ r.confidence < Passing
    [] reason = "language" -> allowed # {} /\ r.language \notin allowed \cup {Unknown}
    [] reason = "confidence" -> r.confidence < MinConfidence

Against(r) == SelectInSeq(Reasons, LAMBDA reason : Applies(reason, r))

(* A result enters the books with what becomes of it first. *)
Enter(r, what) == results' = Append(results, r) /\ fate' = Append(fate, what)

Transcribe(answers) ==
  /\ Len(results) < Count
  /\ LET r == IF answers = <<>> THEN Silence ELSE Heard(answers) IN
       \/ /\ r = Error
          /\ Enter(Silence, "error")
          /\ UNCHANGED toCorrect
       \/ /\ r # Error /\ Against(r) > 0
          /\ Enter(r, Reasons[Against(r)])
          /\ UNCHANGED toCorrect
       \/ /\ r # Error /\ Against(r) = 0
          /\ Enter(r, "under way")
          /\ toCorrect' = Append(toCorrect, Text(Len(results'), r.word))
  /\ UNCHANGED <<allowed, setting, toCommand, toSink, said, caps, written>>

(* handle_set_language writes the shared list. *)
SetLanguage(list) ==
  /\ allowed' = list
  /\ UNCHANGED <<setting, results, fate, channels, said, caps, written>>

-----------------------------------------------------------------------------
(* CorrectionStation *)

(* Definitions named Wrong... are slips a programmer could make in the code *)
(* the next definition models; with one of them in its place, TLC finds the *)
(* property violated that PROJECT.json pairs it with.                       *)

(* The text before is not kept. *)
WrongCorrected(t, w) == [t EXCEPT !.word = w, !.origin = "corrected"]

Corrected(t, w) ==
  [t EXCEPT !.word = w, !.raw = t.word, !.origin = "corrected",
            !.corrector = Engine(station, results[t.n].language)]

Correct ==
  /\ toCorrect # <<>>
  /\ LET t == Head(toCorrect) IN
       \E w \in Corrections(station, results[t.n]) :
         toCommand' = Append(toCommand, IF w = t.word THEN t ELSE Corrected(t, w))
  /\ toCorrect' = Tail(toCorrect)
  /\ UNCHANGED <<allowed, setting, results, fate, toSink, said, caps, written>>

-----------------------------------------------------------------------------
(* VoiceCommandProcessor and PostProcessorStation *)

Output(t) ==
  CASE action[t.word] = "say" -> [word |-> t.word, upper |-> caps]
    [] action[t.word] = "insert" -> [word |-> Insertion(t.word), upper |-> FALSE]
    [] action[t.word] = "blank" -> [word |-> Blank, upper |-> FALSE]
    [] action[t.word] \in {"caps_on", "caps_off", "keys"} -> [word |-> Nothing, upper |-> FALSE]

Processed(t) ==
  LET out == Output(t) IN
    IF out.word = t.word /\ ~out.upper THEN t
    ELSE [t EXCEPT !.word = out.word, !.upper = out.upper,
                   !.raw = IF t.raw = None THEN t.word ELSE t.raw,
                   !.origin = "voice command"]

(* Caps end with the next command, whatever it is. *)
WrongCapsAfter(w) ==
  CASE action[w] = "caps_on" -> TRUE
    [] action[w] = "say" -> caps
    [] action[w] \notin {"say", "caps_on"} -> FALSE

CapsAfter(w) ==
  CASE action[w] = "caps_on" -> TRUE
    [] action[w] = "caps_off" -> FALSE
    [] action[w] \notin {"caps_on", "caps_off"} -> caps

(* Whitespace is not trimmed. *)
WrongIsEmpty(t) == t.word = Nothing

IsEmpty(t) == t.word \in {Nothing, Blank}   \* trim() leaves nothing

(* A text that is empty now goes no further, and its key events with it.   *)
Command ==
  /\ toCommand # <<>>
  /\ LET t == Head(toCommand)
         p == Processed(t)
     IN  /\ caps' = CapsAfter(t.word)
         /\ said' = Append(said, [n |-> t.n, word |-> t.word])
         /\ toSink' = IF IsEmpty(p) THEN toSink ELSE Append(toSink, p)
         /\ fate' = IF IsEmpty(p) THEN [fate EXCEPT ![t.n] = "emptied"] ELSE fate
  /\ toCommand' = Tail(toCommand)
  /\ UNCHANGED <<allowed, setting, results, toCorrect, written>>

-----------------------------------------------------------------------------
(* SinkStation *)

(* Everything that waits is taken, and only the first text written. *)
WrongWrite ==
  /\ toSink # <<>>
  /\ written' = Append(written, Head(toSink))
  /\ fate' = [fate EXCEPT ![Head(toSink).n] = "written"]
  /\ toSink' = <<>>
  /\ UNCHANGED <<allowed, setting, results, toCorrect, toCommand, said, caps>>

Write ==
  /\ toSink # <<>>
  /\ written' = Append(written, Head(toSink))
  /\ fate' = [fate EXCEPT ![Head(toSink).n] = "written"]
  /\ toSink' = Tail(toSink)
  /\ UNCHANGED <<allowed, setting, results, toCorrect, toCommand, said, caps>>

(* "Injection failed": a recoverable error, the text is gone. *)
WriteFails ==
  /\ toSink # <<>>
  /\ fate' = [fate EXCEPT ![Head(toSink).n] = "failed"]
  /\ toSink' = Tail(toSink)
  /\ UNCHANGED <<allowed, setting, results, toCorrect, toCommand, said, caps, written>>

Next ==
  \/ \E answers \in Utterances : Transcribe(answers)
  \/ \E list \in Lists : SetLanguage(list)
  \/ Correct \/ Command \/ Write \/ WriteFails

Spec == Init /\ [][Next]_vars

-----------------------------------------------------------------------------
(* Properties *)

Texts == [n : 1..Count, word : Words, upper : BOOLEAN, raw : Words \cup {None},
          origin : {"transcription", "corrected", "voice command"},
          corrector : Languages \cup {Off, "T5", Backend}]
Fates == {"under way", "emptied", "written", "failed", "error"} \cup ToSet(Reasons)

TypeOK ==
  /\ allowed \subseteq Languages
  /\ station \in UNION {Stations(Backend, Automatic, l) : l \in Languages \cup {Automatic}}
  /\ action \in [Words -> Effects]
  /\ \A n \in DOMAIN results : results[n].word \in Words \cup {Nothing, Annotation}
  /\ fate \in Seq(Fates) /\ Len(fate) = Len(results)
  /\ {toCorrect, toCommand, toSink, written} \subseteq Seq(Texts)
  /\ said \in Seq([n : 1..Count, word : Words])
  /\ caps \in BOOLEAN

(* Every transcription is somewhere: under way in one channel, written once, *)
(* or dropped for a reason that its own text gave, whatever the others met. *)
Accounted ==
  LET places == toCorrect \o toCommand \o toSink \o written
      Copies(n) == Cardinality({i \in DOMAIN places : places[i].n = n})
  IN  \A n \in DOMAIN fate :
        /\ Copies(n) = IF fate[n] \in {"under way", "written"} THEN 1 ELSE 0
        /\ fate[n] = "written" <=> \E i \in DOMAIN written : written[i].n = n
        /\ fate[n] = "emptied" =>
             \E w \in {results[n].word} \cup Near[results[n].word] :
               action[w] \notin {"say", "insert"}

(* Speech is in capitals exactly between "all caps" and "end caps" as they  *)
(* were spoken, with other commands, dropped and failed texts in between.   *)
CapsScope ==
  LET toggles == {i \in DOMAIN said : action[said[i].word] \in {"caps_on", "caps_off"}}
      Before(n) == {i \in toggles : said[i].n < n}
      On(n) == \E i \in Before(n) :
                 action[said[i].word] = "caps_on" /\ \A j \in Before(n) : j <= i
      Spoken(n) == \E i \in DOMAIN said : said[i].n = n /\ action[said[i].word] = "say"
  IN  \A i \in DOMAIN written : written[i].upper = (Spoken(written[i].n) /\ On(written[i].n))

(* Followers can tell what was changed: a written text that was changed     *)
(* says so and still has the transcription as raw text, even when           *)
(* correction and voice commands both changed it; one that says nothing is  *)
(* the transcription; and the part of a hybrid corrector that is named is   *)
(* one for the text's own language.                                         *)
Provenance ==
  \A i \in DOMAIN written :
    LET t == written[i]
        heard == results[t.n].word
    IN  /\ t.raw \in {None, heard}
        /\ t.raw = None <=> t.origin = "transcription"
        /\ t.raw = None => t.word = heard /\ ~t.upper
        /\ station.backend = "hybrid" =>
             /\ t.corrector = "T5" => results[t.n].language = English
             /\ t.corrector \in Languages => results[t.n].language = t.corrector

-----------------------------------------------------------------------------
(* Claims of the documentation that the code does not keep *)

(* README.md:89: "new line" makes a line break; post_processor.rs:157: a key *)
(* command emits a keyboard shortcut.  So only the caps commands may end    *)
(* without an effect at the sink.                                           *)
CommandsTakeEffect ==
  \A i \in DOMAIN said :
    fate[said[i].n] = "emptied" => action[said[i].word] \in {"caps_on", "caps_off"}

(* hybrid.rs:6 "Passes through unchanged": what no corrector was asked for  *)
(* is not changed, above all not into the prompt for T5.                    *)
PassedUnchanged ==
  \A i \in DOMAIN written :
    written[i].origin = "corrected" => written[i].corrector # "hybrid"
=============================================================================
