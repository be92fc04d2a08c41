----------------------------- MODULE Correction -----------------------------
(***************************************************************************)
(* Who hears and who corrects: FanOutTranscriber (src/stt/fan_out.rs), the *)
(* correctors a recording starts with (build_correction_station in         *)
(* src/daemon/handler.rs), their dispatch by language                      *)
(* (src/correction/hybrid.rs) and the conditions of CorrectionStation      *)
(* (src/correction/station.rs).  Everything here is a pure operator; texts *)
(* are words, and what the language models make of a word is a parameter.  *)
(*                                                                         *)
(* A result of whisper is a record: word, its text; language; confidence   *)
(* in bands, see Levels; doubt, how many of its tokens are below the       *)
(* confidence_threshold: none, some, or enough of them (a tenth).          *)
(***************************************************************************)
EXTENDS Integers, Sequences, FiniteSets, SequencesExt, Functions

CONSTANTS
  Words,          \* texts that can be said or written
  Nothing,        \* the empty text
  Annotation,     \* a text of whisper that is no speech, like [music] or "..."
  Noted,          \* Noted[w]: w with the probability behind every token
  Near,           \* Near[w]: what may replace w: 40 % changed, or both short
  Suggest,        \* Suggest[w]: what T5 or a dictionary may make of w
  Languages,
  Unknown,        \* whisper names no language
  Dictionaries,   \* languages the catalog has a dictionary for
  Whitelist       \* symspell_languages

(* Confidence in three bands; the last begins at 0.90, which is both the    *)
(* LANGUAGE_CONFIDENCE_THRESHOLD and the SUSPECT_PASS_THRESHOLD.            *)
Levels == 0..2
Passing == 2
Doubts == {"none", "some", "enough"}
Failed == "failed"
Off == "off"
English == "en"
Automatic == "auto"

ASSUME CorrectionAssumption ==
  /\ {Nothing, Failed, Annotation} \cap Words = {}
  /\ Nothing \notin {Failed, Annotation}
  /\ DOMAIN Noted = Words
  /\ Near \in [Words -> SUBSET Words] /\ Suggest \in [Words -> SUBSET Words]
  /\ Unknown \notin Languages /\ Dictionaries \cup Whitelist \subseteq Languages
  /\ English \in Languages /\ {Automatic, Off, "T5", "hybrid"} \cap Languages = {}

-----------------------------------------------------------------------------
(* FanOutTranscriber: the most confident of the texts that are not empty,   *)
(* the first among equals; without one, an error.                           *)
Result == [word : Words \cup {Nothing, Annotation, Failed},
           language : Languages \cup {Unknown}, confidence : Levels, doubt : Doubts]

Silence == [word |-> Nothing, language |-> Unknown, confidence |-> 0, doubt |-> "none"]

Error == [Silence EXCEPT !.word = Failed]

Success(a) == a.word \notin {Nothing, Failed}

Best(answers) ==
  LET good == {i \in DOMAIN answers : Success(answers[i])}
      best == {i \in good : \A j \in good :
                 \/ answers[i].confidence > answers[j].confidence
                 \/ answers[i].confidence = answers[j].confidence /\ i <= j}
  IN  IF good = {} THEN Error ELSE answers[CHOOSE i \in best : TRUE]

(* One model answers for itself, even with an empty text. *)
Heard(answers) == IF Len(answers) = 1 THEN Head(answers) ELSE Best(answers)

-----------------------------------------------------------------------------
(* The station a recording starts with *)

DictionaryFor(wanted, spoken) ==
  IF wanted # Automatic THEN wanted
  ELSE IF spoken \in Dictionaries THEN spoken ELSE English

Loadable == {l \in Dictionaries : Whitelist = {} \/ l \in Whitelist}

NoStation == [backend |-> Off, t5 |-> FALSE, dictionaries |-> {}]
Hybrid(t5, dictionaries) == [backend |-> "hybrid", t5 |-> t5, dictionaries |-> dictionaries]
T5Alone == [backend |-> "t5", t5 |-> TRUE, dictionaries |-> {}]
SymSpell(l) == [backend |-> "symspell", t5 |-> FALSE, dictionaries |-> {l}]

(* The correctors a build may have compiled in *)
Builds == SUBSET {"error-correction", "symspell"}

(* Any of the files may be missing and fail to download; without one the    *)
(* recording has no correction.                                             *)
T5Stations(build) == IF "error-correction" \in build THEN {T5Alone} ELSE {}

SymSpellStations(build, language) ==
  IF "symspell" \in build THEN {SymSpell(l) : l \in {language} \cap Dictionaries} ELSE {}

BothStations ==
  {Hybrid(t5, ds) : t5 \in BOOLEAN, ds \in SUBSET Loadable} \ {Hybrid(FALSE, {})}

DictionaryStations == {Hybrid(FALSE, ds) : ds \in SUBSET Loadable \ {{}}}

(* Without SymSpell, hybrid means T5. *)
HybridStations(build) ==
  CASE build = {"error-correction", "symspell"} -> BothStations
    [] build = {"symspell"} -> DictionaryStations
    [] "symspell" \notin build -> T5Stations(build)

Stations(backend, wanted, spoken) ==
  {NoStation} \cup UNION {
    CASE backend = "t5" -> T5Stations(build)
      [] backend = "symspell" -> SymSpellStations(build, DictionaryFor(wanted, spoken))
      [] backend = "hybrid" -> HybridStations(build) : build \in Builds}

-----------------------------------------------------------------------------
(* What is corrected, with what *)

UsesT5(l) == l \in {English, Automatic, Unknown}

ShouldCorrect(l) ==
  UsesT5(l) \/ (l \in Dictionaries /\ (Whitelist = {} \/ l \in Whitelist))

Needed(r) ==
  IF UsesT5(r.language) THEN r.doubt = "enough" \/ r.confidence < Passing
  ELSE r.doubt # "none"

(* T5 is given the probabilities with the words. *)
Prompt(r) == IF UsesT5(r.language) THEN Noted[r.word] ELSE r.word

(* The corrector's name: the engine that answered last, if any did. *)
Engine(s, l) ==
  CASE s.backend = "t5" -> "T5"
    [] s.backend = "symspell" -> (CHOOSE d \in s.dictionaries : TRUE)
    [] s.backend = "hybrid" ->
         IF l = English THEN (IF s.t5 THEN "T5" ELSE s.backend)
         ELSE IF l \in Whitelist \cap s.dictionaries THEN l
         ELSE s.backend

(* Hybrid hands on what it was given when it has nobody to ask; T5 fails,   *)
(* or gives its prompt back when its output is garbage.                     *)
Answers(s, r) ==
  LET e == Engine(s, r.language)
  IN  CASE e = s.backend -> {Prompt(r)}
        [] e = "T5" -> Suggest[r.word] \cup {Prompt(r), Failed}
        [] e \notin {s.backend, "T5"} -> Suggest[r.word]

(* What becomes of a text: itself, or a correction that is near enough.     *)
Corrections(s, r) ==
  IF s = NoStation \/ ~ShouldCorrect(r.language) \/ ~Needed(r) THEN {r.word}
  ELSE {IF a \in Near[r.word] THEN a ELSE r.word : a \in Answers(s, r)}
=============================================================================
