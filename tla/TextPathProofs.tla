--------------------------- MODULE TextPathProofs ---------------------------
(***************************************************************************)
(* Theorems about TextPath.  The inductive invariant says, for each text   *)
(* under way, where its number stands among the others, what was made of   *)
(* it so far, and whether it is to be in capitals.                         *)
(***************************************************************************)
EXTENDS TextPath, SequenceTheorems, FiniteSetTheorems, TLAPS

Somewhere == UNION {Stations(Backend, Automatic, l) : l \in Languages \cup {Automatic}}
Whole == {r \in Result : r.word # Failed}
Spoke == [n : 1..Count, word : Words]

Types ==
  /\ allowed \subseteq Languages
  /\ station \in Somewhere
  /\ action \in [Words -> Effects]
  /\ \A w \in Words : action[w] = "insert" => Insertion(w) \in Words
  /\ results \in Seq(Whole) /\ Len(results) <= Count
  /\ fate \in Seq(Fates) /\ Len(fate) = Len(results)
  /\ toCorrect \in Seq(Texts) /\ toCommand \in Seq(Texts)
  /\ toSink \in Seq(Texts) /\ written \in Seq(Texts)
  /\ said \in Seq(Spoke)
  /\ caps \in BOOLEAN

(* Sequences of records with a number n *)
Has(s, n) == \E i \in DOMAIN s : s[i].n = n
Once(s) == \A i, j \in DOMAIN s : s[i].n = s[j].n => i = j
Row(s) == \A i, j \in DOMAIN s : i < j => s[i].n < s[j].n
Ahead(s, t) == \A i \in DOMAIN s : \A j \in DOMAIN t : s[i].n < t[j].n

Ordered ==
  /\ Row(toCorrect) /\ Row(toCommand) /\ Once(toSink) /\ Once(written)
  /\ Ahead(said, toCommand) /\ Ahead(said, toCorrect) /\ Ahead(toCommand, toCorrect)
  /\ \A n \in 1..Count : Has(toSink, n) \/ Has(written, n) => Has(said, n)
  /\ \A n \in 1..Count : \/ Has(toCorrect, n) \/ Has(toCommand, n) \/ Has(said, n)
                         => n <= Len(results)

(* A text that becomes empty was a command as it was spoken, or as it was   *)
(* corrected.                                                               *)
MayEmpty(act, r) == \E w \in {r.word} \cup Near[r.word] : act[w] \notin {"say", "insert"}

Booked ==
  \A n \in DOMAIN fate :
    /\ fate[n] = "under way" <=> Has(toCorrect, n) \/ Has(toCommand, n) \/ Has(toSink, n)
    /\ fate[n] = "written" <=> Has(written, n)
    /\ fate[n] = "emptied" => MayEmpty(action, results[n])

(* What a text t says about itself is true of the result r.                 *)
Honest(st, r, t) ==
  /\ r.word \in Words
  /\ t.raw \in {None, r.word}
  /\ t.raw = None <=> t.origin = "transcription"
  /\ t.raw = None => t.word = r.word /\ ~t.upper
  /\ st.backend = "hybrid" =>
       /\ t.corrector = "T5" => r.language = English
       /\ t.corrector \in Languages => r.language = t.corrector

Nearby(r, t) == t.word \in {r.word} \cup Near[r.word]

Contents ==
  /\ \A i \in DOMAIN toCorrect :
       LET t == toCorrect[i] IN t = Text(t.n, results[t.n].word)
  /\ \A i \in DOMAIN toCommand :
       LET t == toCommand[i] IN
         Honest(station, results[t.n], t) /\ Nearby(results[t.n], t) /\ ~t.upper
  /\ \A i \in DOMAIN toSink : Honest(station, results[toSink[i].n], toSink[i])
  /\ \A i \in DOMAIN written : Honest(station, results[written[i].n], written[i])

(* Of the toggles in s before n, or of all, the latest is "all caps".       *)
Toggles(act, w) == act[w] \in {"caps_on", "caps_off"}
OnAt(act, s, n) ==
  \E i \in DOMAIN s :
    /\ s[i].n < n /\ act[s[i].word] = "caps_on"
    /\ \A j \in DOMAIN s : s[j].n < n /\ Toggles(act, s[j].word) => j <= i
OnNow(act, s) ==
  \E i \in DOMAIN s :
    /\ act[s[i].word] = "caps_on"
    /\ \A j \in DOMAIN s : Toggles(act, s[j].word) => j <= i
Plainly(act, s, n) == \E i \in DOMAIN s : s[i].n = n /\ act[s[i].word] = "say"

Rightly(act, s, t) == t.upper = (Plainly(act, s, t.n) /\ OnAt(act, s, t.n))

Capitals ==
  /\ caps = OnNow(action, said)
  /\ \A i \in DOMAIN toSink : Rightly(action, said, toSink[i])
  /\ \A i \in DOMAIN written : Rightly(action, said, written[i])

IInv == Types /\ Ordered /\ Booked /\ Contents /\ Capitals

-----------------------------------------------------------------------------
(* Sequences: what a station takes is the head, what it hands on is the     *)
(* last.                                                                    *)
LEMMA AppendFacts ==
  ASSUME NEW T, NEW s \in Seq(T), NEW e \in T
  PROVE  /\ Append(s, e) \in Seq(T)
         /\ Len(s) \in Nat /\ DOMAIN s = 1 .. Len(s)
         /\ DOMAIN Append(s, e) = 1 .. Len(s) + 1
         /\ \A i \in DOMAIN s : Append(s, e)[i] = s[i] /\ s[i] \in T
         /\ Append(s, e)[Len(s) + 1] = e
BY AppendProperties, LenProperties, ElementOfSeq

LEMMA TailFacts ==
  ASSUME NEW T, NEW s \in Seq(T), s # <<>>
  PROVE  /\ Tail(s) \in Seq(T)
         /\ Len(s) \in Nat /\ Len(s) > 0 /\ DOMAIN s = 1 .. Len(s)
         /\ Head(s) = s[1] /\ Head(s) \in T
         /\ DOMAIN Tail(s) = 1 .. Len(s) - 1
         /\ \A i \in DOMAIN Tail(s) : i + 1 \in DOMAIN s /\ Tail(s)[i] = s[i + 1]
         /\ \A i \in DOMAIN s : i # 1 => i - 1 \in DOMAIN Tail(s) /\ Tail(s)[i - 1] = s[i]
<1>1. Len(s) \in Nat \ {0} /\ DOMAIN s = 1 .. Len(s)
  BY EmptySeq, LenProperties
<1>2. /\ Tail(s) \in Seq(T) /\ Len(Tail(s)) = Len(s) - 1
      /\ \A i \in 1 .. Len(Tail(s)) : Tail(s)[i] = s[i + 1]
  BY HeadTailProperties
<1>3. DOMAIN Tail(s) = 1 .. Len(s) - 1
  BY <1>2, LenProperties
<1>4. Head(s) = s[1] /\ Head(s) \in T
  BY <1>1, HeadTailProperties
<1>5. \A i \in DOMAIN Tail(s) : i + 1 \in DOMAIN s /\ Tail(s)[i] = s[i + 1]
  BY <1>1, <1>2, <1>3
<1>6. ASSUME NEW i \in DOMAIN s, i # 1
      PROVE  i - 1 \in DOMAIN Tail(s) /\ Tail(s)[i - 1] = s[i]
  <2>1. i - 1 \in DOMAIN Tail(s)
    BY <1>1, <1>3, <1>6
  <2>2. (i - 1) + 1 = i
    BY <1>1
  <2>3. QED
    BY <1>5, <2>1, <2>2
<1>7. QED
  BY <1>1, <1>2, <1>3, <1>4, <1>5, <1>6

LEMMA AppendElements ==
  ASSUME NEW T, NEW s \in Seq(T), NEW e \in T
  PROVE  /\ Append(s, e) \in Seq(T)
         /\ \A i \in DOMAIN Append(s, e) :
              Append(s, e)[i] = e \/ (i \in DOMAIN s /\ Append(s, e)[i] = s[i])
<1>1. /\ Append(s, e) \in Seq(T)
      /\ Len(s) \in Nat /\ DOMAIN s = 1 .. Len(s)
      /\ DOMAIN Append(s, e) = 1 .. Len(s) + 1
      /\ \A i \in DOMAIN s : Append(s, e)[i] = s[i]
      /\ Append(s, e)[Len(s) + 1] = e
  BY AppendFacts
<1>2. ASSUME NEW i \in DOMAIN Append(s, e)
      PROVE  Append(s, e)[i] = e \/ (i \in DOMAIN s /\ Append(s, e)[i] = s[i])
  <2>1. i \in DOMAIN s \/ i = Len(s) + 1
    BY <1>1, <1>2
  <2>2. QED
    BY <1>1, <2>1, Zenon
<1>3. QED
  BY <1>1, <1>2, Zenon

LEMMA TailElements ==
  ASSUME NEW T, NEW s \in Seq(T), s # <<>>
  PROVE  /\ Tail(s) \in Seq(T) /\ Head(s) \in T
         /\ \E i \in DOMAIN s : Head(s) = s[i]
         /\ \A i \in DOMAIN Tail(s) : \E j \in DOMAIN s : Tail(s)[i] = s[j]
<1>1. Len(s) \in Nat /\ Len(s) > 0 /\ DOMAIN s = 1 .. Len(s) /\ Head(s) = s[1]
  BY TailFacts
<1>2. 1 \in DOMAIN s
  BY <1>1
<1>3. QED
  BY <1>1, <1>2, TailFacts

(* Elements with a number that is an integer *)
Numbered(T) == \A e \in T : e.n \in Int

LEMMA AppendNumber ==
  ASSUME NEW T, Numbered(T), NEW s \in Seq(T), NEW e \in T
  PROVE  /\ \A m : Has(Append(s, e), m) <=> Has(s, m) \/ m = e.n
         /\ (Row(s) /\ \A i \in DOMAIN s : s[i].n < e.n) => Row(Append(s, e))
         /\ (Once(s) /\ ~Has(s, e.n)) => Once(Append(s, e))
<1> DEFINE a == Append(s, e)
<1>1. /\ Len(s) \in Nat /\ DOMAIN s = 1 .. Len(s)
      /\ DOMAIN a = 1 .. Len(s) + 1
      /\ \A i \in DOMAIN s : a[i] = s[i]
      /\ a[Len(s) + 1] = e
  BY AppendFacts
<1>2. \A i \in DOMAIN a : i \in DOMAIN s \/ i = Len(s) + 1
  BY <1>1
<1>3. DOMAIN s \subseteq DOMAIN a /\ Len(s) + 1 \in DOMAIN a /\ Len(s) + 1 \notin DOMAIN s
  BY <1>1
<1> HIDE DEF a
<1>4. ASSUME NEW m PROVE Has(a, m) <=> Has(s, m) \/ m = e.n
  BY <1>1, <1>2, <1>3 DEF Has
<1>5. ASSUME Row(s), \A i \in DOMAIN s : s[i].n < e.n PROVE Row(a)
  <2>1. SUFFICES ASSUME NEW i \in DOMAIN a, NEW j \in DOMAIN a, i < j
                 PROVE  a[i].n < a[j].n
    BY DEF Row
  <2>2. i \in DOMAIN s
    BY <1>1, <1>2, <2>1
  <2>3. CASE j \in DOMAIN s
    BY <1>1, <1>5, <2>1, <2>2, <2>3 DEF Row
  <2>4. CASE j = Len(s) + 1
    BY <1>1, <1>5, <2>2, <2>4
  <2>5. QED
    BY <1>2, <2>3, <2>4
<1>6. ASSUME Once(s), ~Has(s, e.n) PROVE Once(a)
  <2>1. SUFFICES ASSUME NEW i \in DOMAIN a, NEW j \in DOMAIN a, a[i].n = a[j].n
                 PROVE  i = j
    BY DEF Once
  <2>2. CASE i \in DOMAIN s /\ j \in DOMAIN s
    BY <1>1, <1>6, <2>1, <2>2 DEF Once
  <2>3. CASE i \in DOMAIN s /\ j = Len(s) + 1
    BY <1>1, <1>6, <2>1, <2>3 DEF Has
  <2>4. CASE i = Len(s) + 1 /\ j \in DOMAIN s
    BY <1>1, <1>6, <2>1, <2>4 DEF Has
  <2>5. QED
    BY <1>2, <2>2, <2>3, <2>4
<1>7. QED
  BY <1>4, <1>5, <1>6 DEF a

LEMMA RowOnce ==
  ASSUME NEW T, Numbered(T), NEW s \in Seq(T), Row(s)
  PROVE  Once(s)
<1>1. SUFFICES ASSUME NEW i \in DOMAIN s, NEW j \in DOMAIN s, s[i].n = s[j].n
               PROVE  i = j
  BY DEF Once
<1>2. i \in Int /\ j \in Int /\ s[i].n \in Int /\ s[j].n \in Int
  BY LenProperties, ElementOfSeq DEF Numbered
<1>3. ~(i < j) /\ ~(j < i)
  BY <1>1, <1>2 DEF Row
<1>4. QED
  BY <1>2, <1>3

LEMMA TailNumber ==
  ASSUME NEW T, Numbered(T), NEW s \in Seq(T), s # <<>>
  PROVE  /\ Has(s, Head(s).n)
         /\ \A m : Has(Tail(s), m) => Has(s, m)
         /\ Once(s) => Once(Tail(s)) /\ (\A m : Has(Tail(s), m) <=> Has(s, m) /\ m # Head(s).n)
         /\ Row(s) => Row(Tail(s)) /\ (\A j \in DOMAIN Tail(s) : Head(s).n < Tail(s)[j].n)
<1> DEFINE t == Tail(s)
<1>1. /\ Len(s) \in Nat /\ 1 \in DOMAIN s /\ DOMAIN s = 1 .. Len(s)
      /\ Head(s) = s[1]
      /\ \A i \in DOMAIN t : i \in Int /\ i > 0 /\ i + 1 \in DOMAIN s /\ t[i] = s[i + 1]
      /\ \A i \in DOMAIN s : i # 1 => i - 1 \in DOMAIN t /\ t[i - 1] = s[i]
  BY TailFacts
<1> HIDE DEF t
<1>2. Has(s, Head(s).n)
  BY <1>1 DEF Has
<1>3. ASSUME NEW m, Has(t, m) PROVE Has(s, m)
  BY <1>1, <1>3 DEF Has
<1>4. ASSUME NEW m, Has(s, m), m # Head(s).n PROVE Has(t, m)
  BY <1>1, <1>4 DEF Has
<1>5. ASSUME Once(s), NEW m, Has(t, m) PROVE m # Head(s).n
  <2>1. PICK i \in DOMAIN t : t[i].n = m
    BY <1>5 DEF Has
  <2>2. i + 1 \in DOMAIN s /\ s[i + 1].n = m /\ i + 1 # 1
    BY <1>1, <2>1
  <2>3. QED
    BY <1>1, <1>5, <2>2 DEF Once
<1>6. ASSUME Once(s) PROVE Once(t)
  <2>1. SUFFICES ASSUME NEW i \in DOMAIN t, NEW j \in DOMAIN t, t[i].n = t[j].n
                 PROVE  i = j
    BY DEF Once
  <2>2. i + 1 = j + 1
    BY <1>1, <1>6, <2>1 DEF Once
  <2>3. QED
    BY <1>1, <2>2
<1>7. ASSUME Row(s) PROVE Row(t) /\ \A j \in DOMAIN t : Head(s).n < t[j].n
  <2>1. ASSUME NEW i \in DOMAIN t, NEW j \in DOMAIN t, i < j PROVE t[i].n < t[j].n
    <3>1. i + 1 < j + 1
      BY <1>1, <2>1
    <3>2. QED
      BY <1>1, <1>7, <3>1 DEF Row
  <2>2. ASSUME NEW j \in DOMAIN t PROVE Head(s).n < t[j].n
    <3>1. 1 < j + 1 /\ j + 1 \in DOMAIN s
      BY <1>1
    <3>2. QED
      BY <1>1, <1>7, <3>1 DEF Row
  <2>3. QED
    BY <2>1, <2>2 DEF Row
<1>8. QED
  BY <1>2, <1>3, <1>4, <1>5, <1>6, <1>7 DEF t

LEMMA AheadFacts ==
  ASSUME NEW T, NEW U, NEW s \in Seq(T), NEW t \in Seq(U), Ahead(s, t)
  PROVE  /\ \A e \in T : (\A j \in DOMAIN t : e.n < t[j].n) => Ahead(Append(s, e), t)
         /\ \A e \in U : (\A i \in DOMAIN s : s[i].n < e.n) => Ahead(s, Append(t, e))
         /\ s # <<>> => Ahead(Tail(s), t) /\ (\A j \in DOMAIN t : Head(s).n < t[j].n)
         /\ t # <<>> => Ahead(s, Tail(t)) /\ (\A i \in DOMAIN s : s[i].n < Head(t).n)
<1>1. ASSUME NEW e \in T, \A j \in DOMAIN t : e.n < t[j].n
      PROVE  Ahead(Append(s, e), t)
  <2>1. \A i \in DOMAIN Append(s, e) :
          (i \in DOMAIN s /\ Append(s, e)[i] = s[i]) \/ Append(s, e)[i] = e
    BY AppendFacts
  <2>2. QED
    BY <1>1, <2>1 DEF Ahead
<1>2. ASSUME NEW e \in U, \A i \in DOMAIN s : s[i].n < e.n
      PROVE  Ahead(s, Append(t, e))
  <2>1. \A j \in DOMAIN Append(t, e) :
          (j \in DOMAIN t /\ Append(t, e)[j] = t[j]) \/ Append(t, e)[j] = e
    BY AppendFacts
  <2>2. QED
    BY <1>2, <2>1 DEF Ahead
<1>3. ASSUME s # <<>>
      PROVE  Ahead(Tail(s), t) /\ \A j \in DOMAIN t : Head(s).n < t[j].n
  <2>1. /\ 1 \in DOMAIN s /\ Head(s) = s[1]
        /\ \A i \in DOMAIN Tail(s) : i + 1 \in DOMAIN s /\ Tail(s)[i] = s[i + 1]
    BY <1>3, TailFacts
  <2>2. QED
    BY <2>1 DEF Ahead
<1>4. ASSUME t # <<>>
      PROVE  Ahead(s, Tail(t)) /\ \A i \in DOMAIN s : s[i].n < Head(t).n
  <2>1. /\ 1 \in DOMAIN t /\ Head(t) = t[1]
        /\ \A i \in DOMAIN Tail(t) : i + 1 \in DOMAIN t /\ Tail(t)[i] = t[i + 1]
    BY <1>4, TailFacts
  <2>2. QED
    BY <2>1 DEF Ahead
<1>5. QED
  BY <1>1, <1>2, <1>3, <1>4

LEMMA TextNumbers == Numbered(Texts) /\ Numbered(Spoke)
<1>1. \A e \in Texts : e.n \in 1 .. Count
  BY DEF Texts
<1>2. \A e \in Spoke : e.n \in 1 .. Count
  BY DEF Spoke
<1>3. QED
  BY <1>1, <1>2 DEF Numbered

-----------------------------------------------------------------------------
(* The stations a recording can start with *)
LEMMA StationFacts ==
  ASSUME NEW s \in Somewhere, s # NoStation
  PROVE  /\ s.backend \in {"t5", "symspell", "hybrid"}
         /\ s.dictionaries \subseteq Dictionaries
         /\ s.backend = "symspell" => s.dictionaries # {}
         /\ s.backend = "hybrid" => Backend = "hybrid"
<1>1. PICK l \in Languages \cup {Automatic} : s \in Stations(Backend, Automatic, l)
  BY DEF Somewhere
<1>2. PICK build \in Builds :
        \/ Backend = "t5" /\ s \in T5Stations(build)
        \/ Backend = "symspell" /\ s \in SymSpellStations(build, DictionaryFor(Automatic, l))
        \/ Backend = "hybrid" /\ s \in HybridStations(build)
  BY <1>1, TextPathAssumption DEF Stations
<1>3. ASSUME s \in T5Stations(build)
      PROVE  s.backend = "t5" /\ s.dictionaries = {}
  BY <1>3 DEF T5Stations, T5Alone
<1>4. CASE Backend = "t5"
  BY <1>2, <1>3, <1>4
<1>5. CASE Backend = "symspell"
  <2>1. PICK d \in Dictionaries : s = SymSpell(d)
    BY <1>2, <1>5 DEF SymSpellStations
  <2>2. QED
    BY <2>1 DEF SymSpell
<1>6. CASE Backend = "hybrid"
  <2>1. Loadable \subseteq Dictionaries
    BY DEF Loadable
  <2>2. s \in BothStations \/ s \in DictionaryStations \/ s \in T5Stations(build)
    <3>1. s \in HybridStations(build)
      BY <1>2, <1>6
    <3>2. build = {"error-correction", "symspell"} \/ build = {"symspell"} \/ "symspell" \notin build
      BY DEF Builds
    <3>3. CASE "symspell" \notin build
      <4>1. build # {"error-correction", "symspell"} /\ build # {"symspell"}
        BY <3>3
      <4>2. QED
        BY <3>1, <3>3, <4>1 DEF HybridStations
    <3>4. CASE build = {"symspell"}
      <4>1. build # {"error-correction", "symspell"} /\ "symspell" \in build
        BY <3>4
      <4>2. QED
        BY <3>1, <3>4, <4>1 DEF HybridStations
    <3>5. CASE build = {"error-correction", "symspell"}
      <4>1. build # {"symspell"} /\ "symspell" \in build
        BY <3>5
      <4>2. QED
        BY <3>1, <3>5, <4>1 DEF HybridStations
    <3>6. QED
      BY <3>2, <3>3, <3>4, <3>5
  <2>3. ASSUME s \notin T5Stations(build)
        PROVE  \E t5 \in BOOLEAN : \E ds \in SUBSET Loadable : s = Hybrid(t5, ds)
    <3>1. CASE s \in BothStations
      BY <3>1 DEF BothStations
    <3>2. CASE s \in DictionaryStations
      BY <3>2 DEF DictionaryStations
    <3>3. QED
      BY <2>2, <2>3, <3>1, <3>2
  <2>4. QED
    BY <1>3, <1>6, <2>1, <2>3 DEF Hybrid
<1>7. QED
  BY <1>2, <1>4, <1>5, <1>6

LEMMA EngineFacts ==
  ASSUME NEW s \in Somewhere, s # NoStation, NEW l
  PROVE  /\ Engine(s, l) \in Languages \cup {"T5", Backend}
         /\ s.backend = "hybrid" =>
              /\ Engine(s, l) = "T5" => l = English
              /\ Engine(s, l) \in Languages => l = Engine(s, l)
<1>1. /\ s.backend \in {"t5", "symspell", "hybrid"}
      /\ s.dictionaries \subseteq Languages
      /\ s.backend = "symspell" => s.dictionaries # {}
      /\ s.backend = "hybrid" => Backend = "hybrid"
  BY StationFacts, CorrectionAssumption
<1>2. CASE s.backend = "t5"
  BY <1>2 DEF Engine
<1>3. CASE s.backend = "symspell"
  <2>1. Engine(s, l) = CHOOSE d \in s.dictionaries : TRUE
    BY <1>3 DEF Engine
  <2>2. QED
    BY <1>1, <1>3, <2>1
<1>4. CASE s.backend = "hybrid"
  <2>1. Engine(s, l) = IF l = English THEN (IF s.t5 THEN "T5" ELSE s.backend)
                       ELSE IF l \in Whitelist \cap s.dictionaries THEN l ELSE s.backend
    BY <1>4 DEF Engine
  <2>2. "T5" \notin Languages /\ "hybrid" \notin Languages /\ Whitelist \subseteq Languages
    BY CorrectionAssumption
  <2>3. QED
    BY <1>1, <1>4, <2>1, <2>2
<1>5. QED
  BY <1>1, <1>2, <1>3, <1>4

LEMMA NoCorrection == \A r : Corrections(NoStation, r) = {r.word}
BY DEF Corrections

LEMMA CorrectionFacts ==
  ASSUME NEW s, NEW r, r.word \in Words, NEW w \in Corrections(s, r)
  PROVE  /\ w \in {r.word} \cup Near[r.word]
         /\ w \in Words
         /\ w # r.word => s # NoStation
<1>1. Near[r.word] \subseteq Words
  BY CorrectionAssumption
<1>2. w \in {r.word} \cup Near[r.word]
  BY DEF Corrections
<1>3. QED
  BY <1>1, <1>2, NoCorrection

-----------------------------------------------------------------------------
(* What the transcribers answer *)

(* Every set of naturals that is not empty has a least member.              *)
LEMMA Least ==
  ASSUME NEW T \in SUBSET Nat, T # {}
  PROVE  \E x \in T : \A y \in T : x <= y
<1> DEFINE U == {1 .. n : n \in T}
<1>1. U \subseteq FiniteSubsetsOf(Nat) /\ U # {}
  <2>1. \A n \in T : 1 .. n \in SUBSET Nat /\ IsFiniteSet(1 .. n)
    BY FS_Interval
  <2>2. QED
    BY <2>1 DEF FiniteSubsetsOf
<1>2. IsWellFoundedOn(StrictSubsetOrdering(Nat), FiniteSubsetsOf(Nat))
  BY FS_StrictSubsetOrderingWellFounded
<1>3. PICK X \in U : \A Y \in U : <<Y, X>> \notin StrictSubsetOrdering(Nat)
  BY <1>1, <1>2, WFMin
<1>4. PICK x \in T : X = 1 .. x
  BY <1>3
<1>5. ASSUME NEW y \in T, y < x PROVE FALSE
  <2>1. 1 .. y \in U /\ 1 .. y \subseteq 1 .. x /\ x \in 1 .. x /\ x \notin 1 .. y
    BY <1>5
  <2>2. <<1 .. y, 1 .. x>> \in StrictSubsetOrdering(Nat)
    BY <2>1 DEF StrictSubsetOrdering
  <2>3. QED
    BY <1>3, <1>4, <2>1, <2>2
<1>6. QED
  BY <1>5

(* Of several answers that succeeded one is the best.                       *)
LEMMA BestFacts ==
  ASSUME NEW answers \in Seq(Result)
  PROVE  Best(answers) = Error \/
         \E i \in DOMAIN answers : Best(answers) = answers[i] /\ Success(answers[i])
<1> DEFINE good == {i \in DOMAIN answers : Success(answers[i])}
           C(i) == answers[i].confidence
           best == {i \in good : \A j \in good :
                      \/ answers[i].confidence > answers[j].confidence
                      \/ answers[i].confidence = answers[j].confidence /\ i <= j}
<1>1. Best(answers) = IF good = {} THEN Error ELSE answers[CHOOSE i \in best : TRUE]
  BY DEF Best
<1>2. DOMAIN answers \subseteq Nat /\ \A i \in DOMAIN answers : C(i) \in 0 .. 2
  <2>1. DOMAIN answers = 1 .. Len(answers) /\ Len(answers) \in Nat
    BY LenProperties
  <2>2. \A i \in DOMAIN answers : answers[i] \in Result
    BY <2>1, ElementOfSeq
  <2>3. \A r \in Result : r.confidence \in 0 .. 2
    BY DEF Result, Levels
  <2>4. QED
    BY <2>1, <2>2, <2>3
<1>3. ASSUME good # {} PROVE best # {}
  <2>1. \E c \in 0 .. 2 : /\ \E i \in good : C(i) = c
                          /\ \A i \in good : C(i) <= c
    BY <1>2, <1>3
  <2>2. PICK c \in 0 .. 2 : /\ \E i \in good : C(i) = c
                            /\ \A i \in good : C(i) <= c
    BY <2>1
  <2> DEFINE top == {i \in good : C(i) = c}
  <2>3. PICK i \in top : \A j \in top : i <= j
    <3>1. top \in SUBSET Nat /\ top # {}
      BY <1>2, <2>2
    <3>2. QED
      BY <3>1, Least
  <2>4. ASSUME NEW j \in good
        PROVE  C(i) > C(j) \/ (C(i) = C(j) /\ i <= j)
    BY <1>2, <2>2, <2>3
  <2>5. QED
    BY <2>3, <2>4
<1>4. QED
  BY <1>1, <1>3

LEMMA SilenceType == Silence \in Whole /\ Error \in Result /\ Error.word = Failed
<1> DEFINE z == Failed
<1>1. Silence \in Result /\ Silence.word = Nothing
  BY DEF Silence, Result, Levels, Doubts
<1>2. Error \in Result /\ Error.word = z
  <2>1. z \in Words \cup {Nothing, Annotation, Failed}
    OBVIOUS
  <2> HIDE DEF z
  <2>2. [Silence EXCEPT !.word = z] \in Result /\ [Silence EXCEPT !.word = z].word = z
    BY <1>1, <2>1 DEF Result
  <2>3. QED
    BY <2>2 DEF Error, z
<1>3. Nothing # Failed
  BY CorrectionAssumption
<1>4. QED
  BY <1>1, <1>2, <1>3 DEF Whole

(* A result is the error itself, or was heard. *)
LEMMA HeardFacts ==
  ASSUME NEW answers \in Utterances, answers # <<>>
  PROVE  Heard(answers) = Error \/ Heard(answers) \in Whole
<1>1. /\ answers \in Seq(Result)
      /\ \A i \in DOMAIN answers : answers[i].word = Failed => answers[i] = Error
  BY TextPathAssumption
<1>2. \A i \in DOMAIN answers : answers[i] = Error \/ answers[i] \in Whole
  BY <1>1, LenProperties, ElementOfSeq DEF Whole
<1>3. Head(answers) = answers[1] /\ 1 \in DOMAIN answers
  <2>1. Head(answers) = answers[1] /\ Len(answers) \in Nat /\ Len(answers) > 0
        /\ DOMAIN answers = 1 .. Len(answers)
    BY <1>1, TailFacts
  <2>2. QED
    BY <2>1
<1>4. QED
  BY <1>1, <1>2, <1>3, BestFacts DEF Heard

LEMMA ReasonFacts ==
  /\ DOMAIN Reasons = 1 .. 5 /\ Len(Reasons) = 5
  /\ Reasons[1] = "empty"
  /\ \A k \in 1 .. 5 : Reasons[k] \in Fates \ {"under way", "emptied", "written", "failed", "error"}
<1>1. DOMAIN Reasons = 1 .. 5 /\ Len(Reasons) = 5
  BY DEF Reasons
<1>2. \A k \in 1 .. 5 : Reasons[k] \in ToSet(Reasons)
  BY <1>1 DEF ToSet
<1>3. /\ Reasons[1] = "empty" /\ Reasons[2] = "hallucination" /\ Reasons[3] = "suspect"
      /\ Reasons[4] = "language" /\ Reasons[5] = "confidence"
  BY DEF Reasons
<1>4. \A k \in 1 .. 5 : k = 1 \/ k = 2 \/ k = 3 \/ k = 4 \/ k = 5
  OBVIOUS
<1>5. \A k \in 1 .. 5 : Reasons[k] \notin {"under way", "emptied", "written", "failed", "error"}
  BY <1>3, <1>4
<1>6. QED
  BY <1>1, <1>2, <1>3, <1>5 DEF Fates

(* What no reason applies to is neither empty nor an annotation. *)
LEMMA AgainstFacts ==
  ASSUME NEW r
  PROVE  /\ Against(r) \in 0 .. 5
         /\ Against(r) = 0 => r.word \notin {Nothing, Annotation}
<1> DEFINE I == {i \in 1 .. Len(Reasons) : Applies(Reasons[i], r)}
<1>1. Against(r) = IF I # {} THEN Min(I) ELSE 0
  BY DEF Against, SelectInSeq
<1>2. ASSUME I # {} PROVE Min(I) \in 1 .. 5
  <2>1. I \in SUBSET Nat /\ I \subseteq 1 .. 5
    <3>1. I \subseteq 1 .. Len(Reasons)
      BY Zenon
    <3> HIDE DEF I
    <3>2. Len(Reasons) = 5
      BY ReasonFacts, Zenon
    <3>3. QED
      BY <3>1, <3>2
  <2>2. \E x \in I : \A y \in I : x <= y
    BY <1>2, <2>1, Least
  <2>3. Min(I) \in I
    BY <2>2 DEF Min
  <2>4. QED
    BY <2>1, <2>3
<1>3. ASSUME I = {} PROVE r.word \notin {Nothing, Annotation}
  <2>1. ~Applies("empty", r)
    <3>1. Reasons[1] = "empty" /\ Len(Reasons) = 5
      BY ReasonFacts, Zenon
    <3>2. 1 \in 1 .. Len(Reasons)
      BY <3>1
    <3>3. ~Applies(Reasons[1], r)
      BY <1>3, <3>2, Zenon
    <3>4. QED
      BY <3>1, <3>3
  <2>2. QED
    BY <2>1 DEF Applies
<1>4. QED
  BY <1>1, <1>2, <1>3

-----------------------------------------------------------------------------
(* What becomes of a text on its way *)
LEMMA TextFacts ==
  ASSUME NEW n \in 1 .. Count, NEW w \in Words
  PROVE  /\ Text(n, w) \in Texts
         /\ Text(n, w).n = n /\ Text(n, w).word = w /\ Text(n, w).upper = FALSE
         /\ Text(n, w).raw = None /\ Text(n, w).origin = "transcription"
         /\ Text(n, w).corrector = Off
BY DEF Text, Texts, None

LEMMA CorrectedFacts ==
  ASSUME NEW t \in Texts, NEW w \in Words, station \in Somewhere, station # NoStation
  PROVE  /\ Corrected(t, w) \in Texts
         /\ Corrected(t, w).n = t.n /\ Corrected(t, w).word = w
         /\ Corrected(t, w).upper = t.upper /\ Corrected(t, w).raw = t.word
         /\ Corrected(t, w).origin = "corrected"
         /\ Corrected(t, w).corrector = Engine(station, results[t.n].language)
<1> DEFINE e == Engine(station, results[t.n].language)
<1>1. e \in Languages \cup {Off, "T5", Backend}
  BY EngineFacts
<1> HIDE DEF e
<1>2. QED
  BY <1>1 DEF Corrected, Texts, e

LEMMA ProcessedFacts ==
  ASSUME Types, NEW t \in Texts, t.upper = FALSE
  PROVE  LET p == Processed(t) IN
         /\ p.n = t.n /\ p.corrector = t.corrector
         /\ p.upper \in BOOLEAN /\ p.upper = (action[t.word] = "say" /\ caps)
         /\ IsEmpty(p) => action[t.word] \notin {"say", "insert"}
         /\ ~IsEmpty(p) => p \in Texts
         /\ \/ p = t
            \/ p.origin = "voice command" /\ p.raw = IF t.raw = None THEN t.word ELSE t.raw
<1> DEFINE out == Output(t)
           w == out.word
           u == out.upper
           a == action[t.word]
           raw == IF t.raw = None THEN t.word ELSE t.raw
           q == [t EXCEPT !.word = w, !.upper = u, !.raw = raw, !.origin = "voice command"]
<1>1. t.word \in Words /\ t.n \in 1 .. Count /\ t.raw \in Words \cup {None}
      /\ t.corrector \in Languages \cup {Off, "T5", Backend}
  BY DEF Texts
<1>2. a \in Effects /\ (a = "insert" => Insertion(t.word) \in Words) /\ caps \in BOOLEAN
  BY <1>1 DEF Types
<1>3. Nothing \notin Words /\ Blank \notin Words
  BY TextPathAssumption, CorrectionAssumption
<1>4. /\ a = "say" => w = t.word /\ u = caps
      /\ a = "insert" => w = Insertion(t.word) /\ u = FALSE
      /\ a = "blank" => w = Blank /\ u = FALSE
      /\ a \in {"caps_on", "caps_off", "keys"} => w = Nothing /\ u = FALSE
  BY DEF Output
<1>5. a \in {"say", "insert", "blank", "caps_on", "caps_off", "keys"}
  BY <1>2 DEF Effects
<1>6. raw \in Words
  BY <1>1
<1>7. Processed(t) = IF w = t.word /\ ~u THEN t ELSE q
  BY DEF Processed
<1>8. u \in BOOLEAN /\ u = (a = "say" /\ caps)
  BY <1>2, <1>4, <1>5
<1>9. w \in Words \/ w \in {Nothing, Blank}
  BY <1>1, <1>2, <1>4, <1>5
<1>10. w \in {Nothing, Blank} => a \notin {"say", "insert"}
  BY <1>1, <1>2, <1>3, <1>4
<1> HIDE DEF w, u, a, raw
<1>11. /\ q.n = t.n /\ q.corrector = t.corrector /\ q.word = w /\ q.upper = u
       /\ q.origin = "voice command" /\ q.raw = raw
       /\ w \in Words => q \in Texts
  BY <1>1, <1>6, <1>8 DEF Texts
<1> HIDE DEF q
<1>12. Processed(t).word = w /\ Processed(t).upper = u
       /\ Processed(t).n = t.n /\ Processed(t).corrector = t.corrector
  BY <1>7, <1>8, <1>11
<1>13. IsEmpty(Processed(t)) <=> w \in {Nothing, Blank}
  BY <1>12 DEF IsEmpty
<1>14. ~IsEmpty(Processed(t)) => Processed(t) \in Texts
  BY <1>7, <1>9, <1>11, <1>13
<1>15. Processed(t) = t \/ (Processed(t).origin = "voice command" /\ Processed(t).raw = raw)
  BY <1>7, <1>11
<1>16. QED
  BY <1>8, <1>10, <1>12, <1>13, <1>14, <1>15 DEF a, raw, u

(* The next text the voice commands see, in the history of what was said    *)
LEMMA SaidFacts ==
  ASSUME NEW act, NEW s \in Seq(Spoke), NEW e \in Spoke, \A i \in DOMAIN s : s[i].n < e.n
  PROVE  LET a == Append(s, e) IN
         /\ \A m \in Int : m <= e.n => (OnAt(act, a, m) <=> OnAt(act, s, m))
         /\ OnAt(act, s, e.n) <=> OnNow(act, s)
         /\ \A m \in Int : m # e.n => (Plainly(act, a, m) <=> Plainly(act, s, m))
         /\ Plainly(act, a, e.n) <=> act[e.word] = "say"
         /\ OnNow(act, a) <=> \/ act[e.word] = "caps_on"
                              \/ ~Toggles(act, e.word) /\ OnNow(act, s)
<1> DEFINE a == Append(s, e)
           N == Len(s) + 1
<1>1. /\ DOMAIN s = 1 .. Len(s) /\ Len(s) \in Nat /\ DOMAIN a = 1 .. N
      /\ \A i \in DOMAIN s : a[i] = s[i] /\ s[i] \in Spoke
      /\ a[N] = e
  BY AppendFacts
<1>2. /\ \A i \in DOMAIN a : i \in DOMAIN s \/ i = N
      /\ DOMAIN s \subseteq DOMAIN a /\ N \in DOMAIN a /\ N \notin DOMAIN s
      /\ \A i \in DOMAIN s : i \in Int /\ i < N /\ ~(N <= i)
      /\ N \in Int
  BY <1>1
<1>3. e.n \in Int /\ \A i \in DOMAIN s : s[i].n \in Int
  BY <1>1, TextNumbers DEF Numbered
<1> HIDE DEF a, N
<1>4. ASSUME NEW m \in Int, m <= e.n PROVE OnAt(act, a, m) <=> OnAt(act, s, m)
  <2>1. ~(a[N].n < m)
    BY <1>1, <1>3, <1>4
  <2>2. ASSUME OnAt(act, a, m) PROVE OnAt(act, s, m)
    <3>1. PICK i \in DOMAIN a :
            /\ a[i].n < m /\ act[a[i].word] = "caps_on"
            /\ \A j \in DOMAIN a : a[j].n < m /\ Toggles(act, a[j].word) => j <= i
      BY <2>2 DEF OnAt
    <3>2. i \in DOMAIN s
      BY <1>2, <2>1, <3>1
    <3>3. \A j \in DOMAIN s : s[j].n < m /\ Toggles(act, s[j].word) => j <= i
      BY <1>1, <1>2, <3>1
    <3>4. QED
      BY <1>1, <3>1, <3>2, <3>3 DEF OnAt
  <2>3. ASSUME OnAt(act, s, m) PROVE OnAt(act, a, m)
    <3>1. PICK i \in DOMAIN s :
            /\ s[i].n < m /\ act[s[i].word] = "caps_on"
            /\ \A j \in DOMAIN s : s[j].n < m /\ Toggles(act, s[j].word) => j <= i
      BY <2>3 DEF OnAt
    <3>2. \A j \in DOMAIN a : a[j].n < m /\ Toggles(act, a[j].word) => j <= i
      BY <1>1, <1>2, <2>1, <3>1
    <3>3. QED
      BY <1>1, <1>2, <3>1, <3>2 DEF OnAt
  <2>4. QED
    BY <2>2, <2>3
<1>5. OnAt(act, s, e.n) <=> OnNow(act, s)
  BY DEF OnAt, OnNow
<1>6. ASSUME NEW m \in Int, m # e.n PROVE Plainly(act, a, m) <=> Plainly(act, s, m)
  BY <1>1, <1>2, <1>6 DEF Plainly
<1>7. Plainly(act, a, e.n) <=> act[e.word] = "say"
  <2>1. \A i \in DOMAIN s : a[i].n # e.n
    BY <1>1, <1>3
  <2>2. QED
    BY <1>1, <1>2, <2>1 DEF Plainly
<1>8. OnNow(act, a) <=> \/ act[e.word] = "caps_on"
                        \/ ~Toggles(act, e.word) /\ OnNow(act, s)
  <2>1. ASSUME act[e.word] = "caps_on" PROVE OnNow(act, a)
    <3>1. \A j \in DOMAIN a : j <= N
      BY <1>2
    <3>2. QED
      BY <1>1, <1>2, <2>1, <3>1 DEF OnNow
  <2>2. ASSUME ~Toggles(act, e.word), OnNow(act, s) PROVE OnNow(act, a)
    <3>1. PICK i \in DOMAIN s :
            /\ act[s[i].word] = "caps_on"
            /\ \A j \in DOMAIN s : Toggles(act, s[j].word) => j <= i
      BY <2>2 DEF OnNow
    <3>2. \A j \in DOMAIN a : Toggles(act, a[j].word) => j <= i
      BY <1>1, <1>2, <2>2, <3>1
    <3>3. QED
      BY <1>1, <1>2, <3>1, <3>2 DEF OnNow
  <2>3. ASSUME OnNow(act, a), act[e.word] # "caps_on"
        PROVE  ~Toggles(act, e.word) /\ OnNow(act, s)
    <3>1. PICK i \in DOMAIN a :
            /\ act[a[i].word] = "caps_on"
            /\ \A j \in DOMAIN a : Toggles(act, a[j].word) => j <= i
      BY <2>3 DEF OnNow
    <3>2. i \in DOMAIN s
      BY <1>1, <1>2, <2>3, <3>1
    <3>3. ~Toggles(act, e.word)
      BY <1>1, <1>2, <3>1, <3>2
    <3>4. \A j \in DOMAIN s : Toggles(act, s[j].word) => j <= i
      BY <1>1, <1>2, <3>1
    <3>5. QED
      BY <1>1, <3>1, <3>2, <3>3, <3>4 DEF OnNow
  <2>4. QED
    BY <2>1, <2>2, <2>3
<1>9. QED
  BY <1>4, <1>5, <1>6, <1>7, <1>8 DEF a

-----------------------------------------------------------------------------
(* The beginning *)
LEMMA InitInv == Init => IInv
<1> SUFFICES ASSUME Init PROVE IInv
  OBVIOUS
<1>1. PICK spoken \in Languages \cup {Automatic} :
        station \in Stations(Backend, Automatic, spoken) /\ action = Phrasebook(spoken)
  BY DEF Init
<1>2. /\ allowed \in Lists
      /\ results = <<>> /\ fate = <<>> /\ said = <<>> /\ written = <<>>
      /\ toCorrect = <<>> /\ toCommand = <<>> /\ toSink = <<>> /\ caps = FALSE
  BY DEF Init
<1>3. \A T : <<>> \in Seq(T)
  BY EmptySeq
<1>4. DOMAIN <<>> = {} /\ Len(<<>>) = 0
  OBVIOUS
<1>5. Commands(spoken) \in [Words -> Effects]
      /\ \A w \in Words : Commands(spoken)[w] = "insert" => Inserted[w] \in Words
  <2>1. PICK l \in DOMAIN Builtin : Commands(spoken) = Builtin[l]
    BY TextPathAssumption DEF Commands
  <2>2. QED
    BY <2>1, TextPathAssumption
<1>6. ASSUME NEW w \in Words
      PROVE  action[w] \in Effects /\ (action[w] = "insert" => Insertion(w) \in Words)
  <2>1. action[w] = IF w \notin DOMAIN Custom THEN Commands(spoken)[w]
                    ELSE IF Custom[w] \in {Nothing, Blank} THEN "blank" ELSE "insert"
    BY <1>1 DEF Phrasebook
  <2>2. w \in DOMAIN Custom => Custom[w] \in Words \cup {Nothing, Blank}
    BY TextPathAssumption
  <2>3. CASE w \notin DOMAIN Custom
    BY <1>5, <2>1, <2>3 DEF Insertion
  <2>4. CASE w \in DOMAIN Custom
    <3>1. action[w] \in {"blank", "insert"}
      BY <2>1, <2>4
    <3>2. action[w] = "insert" => Custom[w] \in Words
      BY <2>1, <2>2, <2>4
    <3>3. QED
      BY <2>4, <3>1, <3>2 DEF Insertion, Effects
  <2>5. QED
    BY <2>3, <2>4
<1>7. Types
  <2>1. action \in [Words -> Effects]
    BY <1>1, <1>6 DEF Phrasebook
  <2>2. station \in Somewhere
    BY <1>1 DEF Somewhere
  <2>3. allowed \subseteq Languages
    BY <1>2, TextPathAssumption
  <2>4. Len(results) <= Count
    BY <1>2, <1>4, TextPathAssumption
  <2>5. QED
    BY <1>2, <1>3, <1>6, <2>1, <2>2, <2>3, <2>4 DEF Types
<1>8. Ordered
  BY <1>2, <1>4 DEF Ordered, Row, Once, Ahead, Has
<1>9. Booked /\ Contents /\ Capitals
  BY <1>2, <1>4 DEF Booked, Contents, Capitals, OnNow
<1>10. QED
  BY <1>7, <1>8, <1>9 DEF IInv

-----------------------------------------------------------------------------
(* The steps *)

(* Whatever is under way or written has its result in the books. *)
LEMMA Known ==
  ASSUME Types, Ordered
  PROVE  /\ Len(results) \in Nat /\ DOMAIN results = 1 .. Len(results)
         /\ DOMAIN fate = DOMAIN results
         /\ \A i \in DOMAIN toCorrect : toCorrect[i] \in Texts /\ toCorrect[i].n \in DOMAIN results
         /\ \A i \in DOMAIN toCommand : toCommand[i] \in Texts /\ toCommand[i].n \in DOMAIN results
         /\ \A i \in DOMAIN toSink : toSink[i] \in Texts /\ toSink[i].n \in DOMAIN results
         /\ \A i \in DOMAIN written : written[i] \in Texts /\ written[i].n \in DOMAIN results
         /\ \A i \in DOMAIN said : said[i] \in Spoke /\ said[i].n \in DOMAIN results
<1>1. /\ Len(results) \in Nat /\ DOMAIN results = 1 .. Len(results)
      /\ DOMAIN fate = DOMAIN results
  BY LenProperties DEF Types
<1>2. /\ \A i \in DOMAIN toCorrect : toCorrect[i] \in Texts
      /\ \A i \in DOMAIN toCommand : toCommand[i] \in Texts
      /\ \A i \in DOMAIN toSink : toSink[i] \in Texts
      /\ \A i \in DOMAIN written : written[i] \in Texts
      /\ \A i \in DOMAIN said : said[i] \in Spoke
  BY LenProperties, ElementOfSeq DEF Types
<1>3. (\A t \in Texts : t.n \in 1 .. Count) /\ (\A t \in Spoke : t.n \in 1 .. Count)
  BY DEF Texts, Spoke
<1>4. Count \in Nat
  BY TextPathAssumption
<1>5. \A m \in 1 .. Count :
        Has(toCorrect, m) \/ Has(toCommand, m) \/ Has(said, m) \/ Has(toSink, m) \/ Has(written, m)
          => m \in DOMAIN results
  BY <1>1, <1>4 DEF Ordered
<1>6. /\ \A i \in DOMAIN toCorrect : Has(toCorrect, toCorrect[i].n)
      /\ \A i \in DOMAIN toCommand : Has(toCommand, toCommand[i].n)
      /\ \A i \in DOMAIN toSink : Has(toSink, toSink[i].n)
      /\ \A i \in DOMAIN written : Has(written, written[i].n)
      /\ \A i \in DOMAIN said : Has(said, said[i].n)
  BY DEF Has
<1>7. QED
  BY <1>1, <1>2, <1>3, <1>5, <1>6

(* A result with what becomes of it enters the books: for the results       *)
(* before nothing changes.                                                  *)
LEMMA EnterFacts ==
  ASSUME Types, NEW r \in Whole, NEW what \in Fates, Enter(r, what), Len(results) < Count
  PROVE  LET n == Len(results) + 1 IN
         /\ n \in 1 .. Count /\ n \notin DOMAIN results /\ Len(results') = n
         /\ results' \in Seq(Whole) /\ Len(results') <= Count
         /\ fate' \in Seq(Fates) /\ Len(fate') = Len(results')
         /\ DOMAIN fate' = DOMAIN fate \cup {n}
         /\ \A m \in DOMAIN results : results'[m] = results[m] /\ fate'[m] = fate[m]
         /\ results'[n] = r /\ fate'[n] = what
<1>1. results' = Append(results, r) /\ fate' = Append(fate, what)
  BY DEF Enter
<1>2. results \in Seq(Whole) /\ fate \in Seq(Fates) /\ Len(fate) = Len(results)
  BY DEF Types
<1>3. /\ results' \in Seq(Whole) /\ Len(results) \in Nat /\ DOMAIN results = 1 .. Len(results)
      /\ Len(results') = Len(results) + 1
      /\ \A m \in DOMAIN results : results'[m] = results[m]
      /\ results'[Len(results) + 1] = r
  BY <1>1, <1>2, AppendFacts, AppendProperties
<1>4. /\ fate' \in Seq(Fates) /\ DOMAIN fate = 1 .. Len(fate)
      /\ Len(fate') = Len(fate) + 1 /\ DOMAIN fate' = 1 .. Len(fate) + 1
      /\ \A m \in DOMAIN fate : fate'[m] = fate[m]
      /\ fate'[Len(fate) + 1] = what
  BY <1>1, <1>2, AppendFacts, AppendProperties
<1>5. Count \in Nat
  BY TextPathAssumption
<1>6. QED
  BY <1>2, <1>3, <1>4, <1>5

(* What no filter was against goes to the correction, the rest nowhere. *)
LEMMA TranscribeFacts ==
  ASSUME NEW answers \in Utterances, Transcribe(answers)
  PROVE  \E r \in Whole : \E what \in Fates :
           /\ Enter(r, what)
           /\ \/ /\ what \notin {"under way", "written", "emptied"}
                 /\ toCorrect' = toCorrect
              \/ /\ what = "under way" /\ r.word \in Words
                 /\ toCorrect' = Append(toCorrect, Text(Len(results'), r.word))
<1> DEFINE r == IF answers = <<>> THEN Silence ELSE Heard(answers)
<1>1. r = Error \/ r \in Whole
  BY HeardFacts, SilenceType
<1>2. \/ r = Error /\ Enter(Silence, "error") /\ toCorrect' = toCorrect
      \/ r # Error /\ Against(r) > 0 /\ Enter(r, Reasons[Against(r)]) /\ toCorrect' = toCorrect
      \/ /\ r # Error /\ Against(r) = 0 /\ Enter(r, "under way")
         /\ toCorrect' = Append(toCorrect, Text(Len(results'), r.word))
  BY DEF Transcribe
<1>3. Against(r) \in 0 .. 5 /\ (Against(r) = 0 => r.word \notin {Nothing, Annotation})
  BY AgainstFacts
<1> HIDE DEF r
<1>4. CASE r = Error
  <2>1. Enter(Silence, "error") /\ toCorrect' = toCorrect
    BY <1>2, <1>4, Zenon
  <2>2. Silence \in Whole /\ "error" \in Fates
    BY SilenceType DEF Fates
  <2>3. "error" \notin {"under way", "written", "emptied"}
    OBVIOUS
  <2>4. QED
    BY <2>1, <2>2, <2>3
<1>5. CASE r # Error /\ Against(r) > 0
  <2>1. Reasons[Against(r)] \in Fates \ {"under way", "emptied", "written"}
    <3>1. Against(r) \in 1 .. 5
      BY <1>3, <1>5
    <3>2. QED
      BY <3>1, ReasonFacts
  <2>2. Enter(r, Reasons[Against(r)]) /\ toCorrect' = toCorrect
    <3>1. Against(r) # 0
      BY <1>3, <1>5
    <3>2. QED
      BY <1>2, <1>5, <3>1, Zenon
  <2>3. QED
    BY <1>1, <1>5, <2>1, <2>2
<1>6. CASE r # Error /\ Against(r) = 0
  <2>1. r.word \in Words
    BY <1>1, <1>3, <1>6 DEF Whole, Result
  <2>2. "under way" \in Fates
    BY DEF Fates
  <2>3. QED
    <3>1. ~(Against(r) > 0)
      BY <1>6
    <3>2. Enter(r, "under way") /\ toCorrect' = Append(toCorrect, Text(Len(results'), r.word))
      BY <1>2, <1>6, <3>1, Zenon
    <3>3. QED
      BY <1>1, <1>6, <2>1, <2>2, <3>2
<1>7. QED
  BY <1>2, <1>4, <1>5, <1>6

LEMMA TranscribeStep ==
  ASSUME IInv, NEW answers \in Utterances, Transcribe(answers)
  PROVE  IInv'
<1> USE DEF IInv
<1>1. PICK r \in Whole, what \in Fates :
        /\ Enter(r, what)
        /\ \/ /\ what \notin {"under way", "written", "emptied"}
              /\ toCorrect' = toCorrect
           \/ /\ what = "under way" /\ r.word \in Words
              /\ toCorrect' = Append(toCorrect, Text(Len(results'), r.word))
  BY TranscribeFacts
<1>2. /\ allowed' = allowed /\ station' = station /\ action' = action
      /\ toCommand' = toCommand /\ toSink' = toSink /\ written' = written
      /\ said' = said /\ caps' = caps /\ Len(results) < Count
  BY DEF Transcribe, setting
<1> DEFINE n == Len(results) + 1
           t == Text(n, r.word)
<1>3. /\ n \in 1 .. Count /\ n \notin DOMAIN results /\ Len(results') = n
      /\ results' \in Seq(Whole) /\ Len(results') <= Count
      /\ fate' \in Seq(Fates) /\ Len(fate') = Len(results')
      /\ DOMAIN fate' = DOMAIN fate \cup {n}
      /\ \A m \in DOMAIN results : results'[m] = results[m] /\ fate'[m] = fate[m]
      /\ results'[n] = r /\ fate'[n] = what
  BY <1>1, <1>2, EnterFacts
<1>4. /\ Len(results) \in Nat /\ DOMAIN results = 1 .. Len(results)
      /\ DOMAIN fate = DOMAIN results
      /\ \A i \in DOMAIN toCorrect : toCorrect[i].n \in DOMAIN results
      /\ \A i \in DOMAIN toCommand : toCommand[i].n \in DOMAIN results
      /\ \A i \in DOMAIN toSink : toSink[i].n \in DOMAIN results
      /\ \A i \in DOMAIN written : written[i].n \in DOMAIN results
      /\ \A i \in DOMAIN said : said[i].n \in DOMAIN results
  BY Known
<1>5. /\ ~Has(toCorrect, n) /\ ~Has(toCommand, n) /\ ~Has(toSink, n)
      /\ ~Has(written, n) /\ ~Has(said, n)
  BY <1>3, <1>4 DEF Has
<1>6. ASSUME r.word \in Words
      PROVE  /\ t \in Texts /\ t.n = n /\ t = Text(t.n, r.word)
             /\ Append(toCorrect, t) \in Seq(Texts)
             /\ \A m : Has(Append(toCorrect, t), m) <=> Has(toCorrect, m) \/ m = n
             /\ Row(Append(toCorrect, t))
             /\ Ahead(said, Append(toCorrect, t)) /\ Ahead(toCommand, Append(toCorrect, t))
             /\ \A i \in DOMAIN Append(toCorrect, t) :
                  Append(toCorrect, t)[i] = t
                  \/ (i \in DOMAIN toCorrect /\ Append(toCorrect, t)[i] = toCorrect[i])
  <2>1. t \in Texts /\ t.n = n
    BY <1>3, <1>6, TextFacts
  <2>2. t = Text(t.n, r.word)
    BY <2>1
  <2> HIDE DEF t
  <2>3. \A m \in DOMAIN results : m < n
    BY <1>4
  <2>4. /\ toCorrect \in Seq(Texts) /\ toCommand \in Seq(Texts) /\ said \in Seq(Spoke)
        /\ Row(toCorrect) /\ Ahead(said, toCorrect) /\ Ahead(toCommand, toCorrect)
    BY DEF Types, Ordered
  <2>5. /\ \A m : Has(Append(toCorrect, t), m) <=> Has(toCorrect, m) \/ m = n
        /\ Row(Append(toCorrect, t))
    BY <1>4, <2>1, <2>3, <2>4, TextNumbers, AppendNumber
  <2>6. Ahead(said, Append(toCorrect, t))
    BY <1>4, <2>1, <2>3, <2>4, AheadFacts
  <2>7. Ahead(toCommand, Append(toCorrect, t))
    BY <1>4, <2>1, <2>3, <2>4, AheadFacts
  <2>8. /\ Append(toCorrect, t) \in Seq(Texts)
        /\ \A i \in DOMAIN Append(toCorrect, t) :
             Append(toCorrect, t)[i] = t
             \/ (i \in DOMAIN toCorrect /\ Append(toCorrect, t)[i] = toCorrect[i])
    BY <2>1, <2>4, AppendElements
  <2>9. QED
    BY <2>1, <2>2, <2>5, <2>6, <2>7, <2>8
<1> HIDE DEF t
<1>7. \/ what \notin {"under way", "written", "emptied"} /\ toCorrect' = toCorrect
      \/ what = "under way" /\ r.word \in Words /\ toCorrect' = Append(toCorrect, t)
  BY <1>1, <1>3 DEF t
<1> HIDE DEF n
<1>8. /\ toCorrect' \in Seq(Texts) /\ Row(toCorrect')
      /\ Ahead(said, toCorrect') /\ Ahead(toCommand, toCorrect')
      /\ \A m : m # n => (Has(toCorrect', m) <=> Has(toCorrect, m))
      /\ Has(toCorrect', n) <=> what = "under way"
  BY <1>5, <1>6, <1>7 DEF Types, Ordered
<1>9. Types'
  BY <1>2, <1>3, <1>8 DEF Types
<1>10. Ordered'
  <2>1. \A m \in 1 .. Count : Has(toCorrect', m) \/ Has(toCommand, m) \/ Has(said, m)
                              => m <= Len(results')
    <3>1. \A m \in DOMAIN results : m <= Len(results')
      BY <1>3, <1>4 DEF n
    <3>2. n <= Len(results')
      BY <1>3
    <3>3. \A m : Has(toCommand, m) \/ Has(said, m) \/ Has(toCorrect, m) => m \in DOMAIN results
      BY <1>4 DEF Has
    <3>4. QED
      BY <1>8, <3>1, <3>2, <3>3
  <2>2. QED
    BY <1>2, <1>8, <2>1 DEF Ordered
<1>11. Booked'
  <2>1. SUFFICES ASSUME NEW m \in DOMAIN fate'
                 PROVE  /\ fate'[m] = "under way" <=>
                             Has(toCorrect', m) \/ Has(toCommand, m) \/ Has(toSink, m)
                        /\ fate'[m] = "written" <=> Has(written, m)
                        /\ fate'[m] = "emptied" => MayEmpty(action, results'[m])
    BY <1>2 DEF Booked
  <2>2. CASE m = n
    BY <1>3, <1>5, <1>7, <1>8, <2>2
  <2>3. CASE m # n
    <3>1. m \in DOMAIN fate /\ fate'[m] = fate[m] /\ results'[m] = results[m]
      BY <1>3, <1>4, <2>1, <2>3
    <3>2. QED
      BY <1>8, <2>3, <3>1 DEF Booked
  <2>4. QED
    BY <2>2, <2>3
<1>12. Contents'
  <2>1. ASSUME NEW i \in DOMAIN toCorrect'
        PROVE  toCorrect'[i] = Text(toCorrect'[i].n, results'[toCorrect'[i].n].word)
    <3>1. CASE i \in DOMAIN toCorrect /\ toCorrect'[i] = toCorrect[i]
      BY <1>3, <1>4, <3>1 DEF Contents
    <3>2. CASE r.word \in Words /\ toCorrect'[i] = t
      BY <1>3, <1>6, <3>2
    <3>3. QED
      BY <1>6, <1>7, <2>1, <3>1, <3>2
  <2>2. \A m \in DOMAIN results : results'[m] = results[m]
    BY <1>3
  <2>3. QED
    BY <1>2, <1>4, <2>1, <2>2 DEF Contents
<1>13. Capitals'
  BY <1>2 DEF Capitals
<1>14. QED
  BY <1>9, <1>10, <1>11, <1>12, <1>13

LEMMA CorrectStep == ASSUME IInv, Correct PROVE IInv'
<1> USE DEF IInv
<1> DEFINE t == Head(toCorrect)
           n == t.n
           r == results[n]
<1>1. /\ toCorrect # <<>> /\ toCorrect' = Tail(toCorrect)
      /\ allowed' = allowed /\ station' = station /\ action' = action
      /\ results' = results /\ fate' = fate /\ toSink' = toSink /\ written' = written
      /\ said' = said /\ caps' = caps
  BY DEF Correct, setting
<1>2. PICK w \in Corrections(station, r) :
        toCommand' = Append(toCommand, IF w = t.word THEN t ELSE Corrected(t, w))
  BY DEF Correct
<1> DEFINE c == IF w = t.word THEN t ELSE Corrected(t, w)
<1>3. /\ toCorrect \in Seq(Texts) /\ toCommand \in Seq(Texts) /\ said \in Seq(Spoke)
      /\ station \in Somewhere
      /\ Row(toCorrect) /\ Row(toCommand)
      /\ Ahead(said, toCommand) /\ Ahead(said, toCorrect) /\ Ahead(toCommand, toCorrect)
  BY DEF Types, Ordered
<1>4. t \in Texts /\ \E i \in DOMAIN toCorrect : t = toCorrect[i]
  BY <1>1, <1>3, TailElements
<1>5. n \in DOMAIN results /\ t = Text(n, r.word)
  BY <1>4, Known DEF Contents
<1>6. n \in 1 .. Count /\ t.word \in Words
  BY <1>4 DEF Texts
<1> HIDE DEF t
<1>7. t.word = r.word
  BY <1>5 DEF Text
<1> HIDE DEF n, r
<1>8. /\ t.n = n /\ t.word = r.word /\ t.upper = FALSE /\ t.raw = None
      /\ t.origin = "transcription" /\ t.corrector = Off
  <2>1. r.word \in Words
    BY <1>6, <1>7
  <2>2. /\ Text(n, r.word).n = n /\ Text(n, r.word).word = r.word
        /\ Text(n, r.word).upper = FALSE /\ Text(n, r.word).raw = None
        /\ Text(n, r.word).origin = "transcription" /\ Text(n, r.word).corrector = Off
    BY <1>6, <2>1, TextFacts
  <2>3. t = Text(n, r.word)
    BY <1>5
  <2>4. QED
    BY <2>2, <2>3
<1>9. w \in {r.word} \cup Near[r.word] /\ w \in Words /\ (w # r.word => station # NoStation)
  BY <1>6, <1>7, CorrectionFacts
<1>10. /\ c \in Texts /\ c.n = n /\ c.upper = FALSE
       /\ Honest(station, r, c) /\ Nearby(r, c)
  <2>1. CASE w = t.word
    <3>1. c = t
      BY <2>1
    <3>2. Off # "T5" /\ Off \notin Languages
      BY CorrectionAssumption DEF Off
    <3> HIDE DEF c
    <3>3. Honest(station, r, c)
      BY <1>6, <1>7, <1>8, <3>1, <3>2 DEF Honest
    <3>4. QED
      BY <1>4, <1>8, <3>1, <3>3 DEF Nearby
  <2>2. CASE w # t.word
    <3> DEFINE e == Engine(station, r.language)
    <3>1. station # NoStation /\ c = Corrected(t, w)
      BY <1>7, <1>9, <2>2
    <3>2. /\ Corrected(t, w) \in Texts
          /\ Corrected(t, w).n = t.n /\ Corrected(t, w).word = w
          /\ Corrected(t, w).upper = t.upper /\ Corrected(t, w).raw = t.word
          /\ Corrected(t, w).origin = "corrected"
          /\ Corrected(t, w).corrector = Engine(station, results[t.n].language)
      BY <1>3, <1>4, <1>9, <3>1, CorrectedFacts
    <3>3. station.backend = "hybrid" =>
            (e = "T5" => r.language = English) /\ (e \in Languages => r.language = e)
      BY <1>3, <3>1, EngineFacts
    <3>4. results[t.n] = r
      BY DEF r, n
    <3> HIDE DEF c, e
    <3>5. /\ c \in Texts /\ c.n = n /\ c.word = w /\ c.upper = FALSE /\ c.raw = r.word
          /\ c.origin = "corrected" /\ c.corrector = e
      BY <1>7, <1>8, <3>1, <3>2, <3>4 DEF e
    <3>6. r.word # None /\ r.word \in Words
      BY <1>6, <1>7, CorrectionAssumption DEF None
    <3>7. Honest(station, r, c)
      BY <3>3, <3>5, <3>6 DEF Honest
    <3>8. QED
      BY <1>9, <3>5, <3>7 DEF Nearby
  <2>3. QED
    BY <2>1, <2>2
<1>11. toCommand' = Append(toCommand, c)
  BY <1>2
<1> HIDE DEF c
<1>12. /\ toCorrect' \in Seq(Texts) /\ Row(toCorrect')
       /\ \A j \in DOMAIN toCorrect' : n < toCorrect'[j].n
       /\ Has(toCorrect, n)
       /\ \A m : Has(toCorrect', m) <=> Has(toCorrect, m) /\ m # n
  <2>1. Once(toCorrect)
    BY <1>3, TextNumbers, RowOnce
  <2>2. QED
    BY <1>1, <1>3, <2>1, TextNumbers, TailNumber, TailElements DEF n, t
<1>13. /\ \A i \in DOMAIN toCommand : toCommand[i].n < n
       /\ \A i \in DOMAIN said : said[i].n < n
       /\ Ahead(said, toCorrect') /\ Ahead(toCommand, toCorrect')
  BY <1>1, <1>3, AheadFacts DEF n, t
<1>14. /\ toCommand' \in Seq(Texts) /\ Row(toCommand')
       /\ \A m : Has(toCommand', m) <=> Has(toCommand, m) \/ m = n
  BY <1>3, <1>10, <1>11, <1>13, TextNumbers, AppendNumber, AppendFacts
<1>15. Ahead(said, toCommand')
  BY <1>3, <1>10, <1>11, <1>13, AheadFacts
<1>16. Ahead(toCommand', toCorrect')
  BY <1>3, <1>10, <1>11, <1>12, <1>13, AheadFacts
<1>17. Types'
  BY <1>1, <1>12, <1>14 DEF Types
<1>18. Ordered'
  <2>1. \A m \in 1 .. Count : Has(toCorrect', m) \/ Has(toCommand', m) \/ Has(said, m)
                                => m <= Len(results)
    BY <1>12, <1>14 DEF Ordered
  <2>2. QED
    BY <1>1, <1>12, <1>13, <1>14, <1>15, <1>16, <2>1 DEF Ordered
<1>19. Booked'
  BY <1>1, <1>12, <1>14 DEF Booked
<1>20. Contents'
  <2>1. ASSUME NEW i \in DOMAIN toCorrect'
        PROVE  toCorrect'[i] = Text(toCorrect'[i].n, results[toCorrect'[i].n].word)
    <3>1. PICK j \in DOMAIN toCorrect : toCorrect'[i] = toCorrect[j]
      BY <1>1, <1>3, <2>1, TailElements
    <3>2. QED
      BY <3>1 DEF Contents
  <2>2. ASSUME NEW i \in DOMAIN toCommand'
        PROVE  /\ Honest(station, results[toCommand'[i].n], toCommand'[i])
               /\ Nearby(results[toCommand'[i].n], toCommand'[i]) /\ ~toCommand'[i].upper
    <3>1. toCommand'[i] = c \/ (i \in DOMAIN toCommand /\ toCommand'[i] = toCommand[i])
      BY <1>3, <1>10, <1>11, <2>2, AppendElements
    <3>2. CASE toCommand'[i] = c
      BY <1>10, <3>2 DEF r
    <3>3. CASE i \in DOMAIN toCommand /\ toCommand'[i] = toCommand[i]
      BY <3>3 DEF Contents
    <3>4. QED
      BY <3>1, <3>2, <3>3
  <2>3. QED
    BY <1>1, <2>1, <2>2 DEF Contents
<1>21. Capitals'
  BY <1>1 DEF Capitals
<1>22. QED
  BY <1>17, <1>18, <1>19, <1>20, <1>21

LEMMA SetLanguageStep == ASSUME IInv, NEW list \in Lists, SetLanguage(list) PROVE IInv'
<1>1. /\ station' = station /\ action' = action
      /\ results' = results /\ fate' = fate /\ toSink' = toSink /\ written' = written
      /\ toCorrect' = toCorrect /\ toCommand' = toCommand
      /\ said' = said /\ caps' = caps /\ allowed' = list
  BY DEF SetLanguage, setting, channels
<1>2. list \subseteq Languages
  BY TextPathAssumption
<1>3. Types'
  BY <1>1, <1>2 DEF Types, IInv
<1>4. QED
  BY <1>1, <1>3 DEF IInv, Ordered, Booked, Contents, Capitals

(* One entry of the books is changed. *)
LEMMA FateFacts ==
  ASSUME NEW f \in Seq(Fates), NEW n \in DOMAIN f, NEW v \in Fates,
         NEW g, g = [f EXCEPT ![n] = v]
  PROVE  /\ g \in Seq(Fates) /\ Len(g) = Len(f) /\ DOMAIN g = DOMAIN f
         /\ g[n] = v /\ \A m \in DOMAIN f : m # n => g[m] = f[m]
<1> DEFINE T == Fates
<1>1. f \in Seq(T) /\ v \in T
  OBVIOUS
<1> HIDE DEF T
<1>2. Len(f) \in Nat /\ DOMAIN f = 1 .. Len(f) /\ f \in [1 .. Len(f) -> T]
  BY <1>1, LenProperties
<1>3. g \in [1 .. Len(f) -> T]
  BY <1>1, <1>2
<1>4. g \in Seq(T) /\ Len(g) = Len(f)
  BY <1>2, <1>3, IsASeq, LenProperties
<1>5. DOMAIN g = DOMAIN f /\ g[n] = v /\ \A m \in DOMAIN f : m # n => g[m] = f[m]
  BY <1>2, <1>3
<1>6. QED
  BY <1>4, <1>5 DEF T

(* The changes of a voice command *)
LEMMA ProcessedHonest ==
  ASSUME Types, NEW t \in Texts, t.upper = FALSE, NEW r, Honest(station, r, t), Nearby(r, t)
  PROVE  /\ ~IsEmpty(Processed(t)) => Honest(station, r, Processed(t))
         /\ IsEmpty(Processed(t)) => MayEmpty(action, r)
<1> DEFINE p == Processed(t)
<1>1. /\ p.corrector = t.corrector
      /\ IsEmpty(p) => action[t.word] \notin {"say", "insert"}
      /\ \/ p = t
         \/ p.origin = "voice command" /\ p.raw = IF t.raw = None THEN t.word ELSE t.raw
  BY ProcessedFacts
<1> HIDE DEF p
<1>2. /\ r.word \in Words /\ t.raw \in {None, r.word}
      /\ t.raw = None => t.word = r.word
      /\ station.backend = "hybrid" =>
           /\ t.corrector = "T5" => r.language = English
           /\ t.corrector \in Languages => r.language = t.corrector
  BY DEF Honest
<1>3. None \notin Words
  BY CorrectionAssumption DEF None
<1>4. Honest(station, r, p)
  <2>1. CASE p = t
    BY <2>1
  <2>2. CASE p # t
    <3>1. p.origin = "voice command" /\ p.raw = r.word
      BY <1>1, <1>2, <2>2
    <3>2. QED
      BY <1>1, <1>2, <1>3, <3>1 DEF Honest
  <2>3. QED
    BY <2>1, <2>2
<1>5. ASSUME IsEmpty(p) PROVE MayEmpty(action, r)
  BY <1>1, <1>5 DEF MayEmpty, Nearby
<1>6. QED
  BY <1>4, <1>5 DEF p

LEMMA CommandStep == ASSUME IInv, Command PROVE IInv'
<1> USE DEF IInv
<1> DEFINE t == Head(toCommand)
           n == t.n
           p == Processed(t)
           e == [n |-> t.n, word |-> t.word]
<1>1. /\ toCommand # <<>> /\ toCommand' = Tail(toCommand)
      /\ allowed' = allowed /\ station' = station /\ action' = action
      /\ results' = results /\ toCorrect' = toCorrect /\ written' = written
      /\ caps' = CapsAfter(t.word) /\ said' = Append(said, e)
      /\ toSink' = IF IsEmpty(p) THEN toSink ELSE Append(toSink, p)
      /\ fate' = IF IsEmpty(p) THEN [fate EXCEPT ![n] = "emptied"] ELSE fate
  BY DEF Command, setting
<1>2. /\ toCorrect \in Seq(Texts) /\ toCommand \in Seq(Texts) /\ toSink \in Seq(Texts)
      /\ said \in Seq(Spoke) /\ fate \in Seq(Fates) /\ Len(fate) = Len(results)
      /\ Row(toCommand) /\ Once(toSink)
      /\ Ahead(said, toCommand) /\ Ahead(said, toCorrect) /\ Ahead(toCommand, toCorrect)
      /\ caps \in BOOLEAN
  BY DEF Types, Ordered
<1>3. t \in Texts /\ \E i \in DOMAIN toCommand : t = toCommand[i]
  BY <1>1, <1>2, TailElements
<1>4. /\ n \in DOMAIN results /\ n \in DOMAIN fate /\ t.upper = FALSE
      /\ Honest(station, results[n], t) /\ Nearby(results[n], t)
  BY <1>3, Known DEF Contents, Texts
<1>5. /\ p.n = n /\ p.upper \in BOOLEAN /\ p.upper = (action[t.word] = "say" /\ caps)
      /\ ~IsEmpty(p) => p \in Texts /\ Honest(station, results[n], p)
      /\ IsEmpty(p) => MayEmpty(action, results[n])
  BY <1>3, <1>4, ProcessedFacts, ProcessedHonest
<1>6. e \in Spoke /\ e.n = n /\ e.word = t.word /\ n \in Int
  <2>1. n \in 1 .. Count /\ t.word \in Words
    BY <1>3 DEF Texts
  <2>2. QED
    BY <2>1 DEF Spoke
<1>7. /\ toCommand' \in Seq(Texts) /\ Row(toCommand')
      /\ \A j \in DOMAIN toCommand' : n < toCommand'[j].n
      /\ Has(toCommand, n)
      /\ \A m : Has(toCommand', m) <=> Has(toCommand, m) /\ m # n
  <2>1. Once(toCommand)
    BY <1>2, TextNumbers, RowOnce
  <2>2. QED
    BY <1>1, <1>2, <2>1, TextNumbers, TailNumber, TailElements
<1> HIDE DEF t, n, p, e
<1>8. \A i \in DOMAIN said : said[i].n < n
  BY <1>1, <1>2, AheadFacts DEF n, t
<1>9. \A j \in DOMAIN toCorrect : n < toCorrect[j].n
  BY <1>1, <1>2, AheadFacts DEF n, t
<1>10. Ahead(said, toCommand') /\ Ahead(toCommand', toCorrect)
  BY <1>1, <1>2, AheadFacts
<1>11. /\ said' \in Seq(Spoke) /\ \A m : Has(said', m) <=> Has(said, m) \/ m = n
  BY <1>1, <1>2, <1>6, TextNumbers, AppendNumber, AppendFacts
<1>12. Ahead(said', toCorrect) /\ Ahead(said', toCommand')
  <2>1. Ahead(said', toCorrect)
    BY <1>1, <1>2, <1>6, <1>9, AheadFacts
  <2>2. Ahead(said', toCommand')
    BY <1>1, <1>2, <1>6, <1>7, <1>10, AheadFacts
  <2>3. QED
    BY <2>1, <2>2
<1>13. \A m \in Int : m < n \/ ~Has(said, m)
  BY <1>8 DEF Has
<1>14. /\ ~Has(toSink, n) /\ ~Has(written, n)
       /\ ~Has(toCorrect, n) /\ fate[n] = "under way"
  <2>1. n \in 1 .. Count
    BY <1>6 DEF Spoke
  <2>2. ~Has(said, n)
    BY <1>6, <1>13
  <2>3. ~Has(toSink, n) /\ ~Has(written, n)
    BY <2>1, <2>2 DEF Ordered
  <2>4. ~Has(toCorrect, n)
    BY <1>6, <1>9 DEF Has
  <2>5. fate[n] = "under way"
    BY <1>4, <1>7 DEF Booked
  <2>6. QED
    BY <2>3, <2>4, <2>5
<1>15. /\ toSink' \in Seq(Texts) /\ Once(toSink')
       /\ \A m : Has(toSink', m) <=> Has(toSink, m) \/ (m = n /\ ~IsEmpty(p))
       /\ \A i \in DOMAIN toSink' :
            (toSink'[i] = p /\ ~IsEmpty(p)) \/ (i \in DOMAIN toSink /\ toSink'[i] = toSink[i])
  <2>1. CASE IsEmpty(p)
    BY <1>1, <1>2, <2>1
  <2>2. CASE ~IsEmpty(p)
    <3>1. p \in Texts /\ p.n = n /\ toSink' = Append(toSink, p)
      BY <1>1, <1>5, <2>2
    <3>2. Once(toSink') /\ \A m : Has(toSink', m) <=> Has(toSink, m) \/ m = n
      BY <1>2, <1>14, <3>1, TextNumbers, AppendNumber
    <3>3. /\ toSink' \in Seq(Texts)
          /\ \A i \in DOMAIN toSink' :
               toSink'[i] = p \/ (i \in DOMAIN toSink /\ toSink'[i] = toSink[i])
      BY <1>2, <3>1, AppendElements
    <3>4. QED
      BY <2>2, <3>2, <3>3
  <2>3. QED
    BY <2>1, <2>2
<1>16. /\ fate' \in Seq(Fates) /\ Len(fate') = Len(fate) /\ DOMAIN fate' = DOMAIN fate
       /\ fate'[n] = IF IsEmpty(p) THEN "emptied" ELSE "under way"
       /\ \A m \in DOMAIN fate : m # n => fate'[m] = fate[m]
  <2>1. CASE IsEmpty(p)
    <3>1. "emptied" \in Fates
      BY DEF Fates
    <3>2. fate' = [fate EXCEPT ![n] = "emptied"]
      BY <1>1, <2>1
    <3>3. QED
      BY <1>2, <1>4, <2>1, <3>1, <3>2, FateFacts
  <2>2. CASE ~IsEmpty(p)
    BY <1>1, <1>2, <1>14, <2>2
  <2>3. QED
    BY <2>1, <2>2
<1>17. caps' \in BOOLEAN /\ caps' = \/ action[t.word] = "caps_on"
                                    \/ ~Toggles(action, t.word) /\ caps
  <2>1. action[t.word] = "caps_on" \/ action[t.word] = "caps_off"
        \/ action[t.word] \notin {"caps_on", "caps_off"}
    OBVIOUS
  <2>2. QED
    BY <1>1, <1>2, <2>1 DEF CapsAfter, Toggles
<1>18. Types'
  BY <1>1, <1>2, <1>7, <1>11, <1>15, <1>16, <1>17 DEF Types
<1>19. Ordered'
  <2>1. \A m \in 1 .. Count : Has(toSink', m) \/ Has(written, m) => Has(said', m)
    BY <1>11, <1>15 DEF Ordered
  <2>2. \A m \in 1 .. Count : Has(toCorrect, m) \/ Has(toCommand', m) \/ Has(said', m)
                              => m <= Len(results)
    BY <1>7, <1>11 DEF Ordered
  <2>3. QED
    BY <1>1, <1>7, <1>10, <1>12, <1>15, <2>1, <2>2 DEF Ordered
<1>20. Booked'
  <2>1. SUFFICES ASSUME NEW m \in DOMAIN fate'
                 PROVE  /\ fate'[m] = "under way" <=>
                             Has(toCorrect, m) \/ Has(toCommand', m) \/ Has(toSink', m)
                        /\ fate'[m] = "written" <=> Has(written, m)
                        /\ fate'[m] = "emptied" => MayEmpty(action, results[m])
    BY <1>1 DEF Booked
  <2>2. CASE m = n
    BY <1>5, <1>7, <1>14, <1>15, <1>16, <2>2
  <2>3. CASE m # n
    <3>1. m \in DOMAIN fate /\ fate'[m] = fate[m]
      BY <1>16, <2>1, <2>3
    <3>2. QED
      BY <1>7, <1>15, <2>3, <3>1 DEF Booked
  <2>4. QED
    BY <2>2, <2>3
<1>21. Contents'
  <2>1. ASSUME NEW i \in DOMAIN toCommand'
        PROVE  /\ Honest(station, results[toCommand'[i].n], toCommand'[i])
               /\ Nearby(results[toCommand'[i].n], toCommand'[i]) /\ ~toCommand'[i].upper
    <3>1. PICK j \in DOMAIN toCommand : toCommand'[i] = toCommand[j]
      BY <1>1, <1>2, <2>1, TailElements
    <3>2. QED
      BY <3>1 DEF Contents
  <2>2. ASSUME NEW i \in DOMAIN toSink'
        PROVE  Honest(station, results[toSink'[i].n], toSink'[i])
    BY <1>5, <1>15, <2>2 DEF Contents
  <2>3. QED
    BY <1>1, <2>1, <2>2 DEF Contents
<1>22. Capitals'
  <2>1. /\ \A m \in Int : m <= n => (OnAt(action, said', m) <=> OnAt(action, said, m))
        /\ OnAt(action, said, n) <=> OnNow(action, said)
        /\ \A m \in Int : m # n => (Plainly(action, said', m) <=> Plainly(action, said, m))
        /\ Plainly(action, said', n) <=> action[t.word] = "say"
        /\ OnNow(action, said') <=> \/ action[t.word] = "caps_on"
                                    \/ ~Toggles(action, t.word) /\ OnNow(action, said)
    <3>1. \A i \in DOMAIN said : said[i].n < e.n
      BY <1>6, <1>8
    <3>2. /\ \A m \in Int : m <= e.n =>
               (OnAt(action, Append(said, e), m) <=> OnAt(action, said, m))
          /\ OnAt(action, said, e.n) <=> OnNow(action, said)
          /\ \A m \in Int : m # e.n =>
               (Plainly(action, Append(said, e), m) <=> Plainly(action, said, m))
          /\ Plainly(action, Append(said, e), e.n) <=> action[e.word] = "say"
          /\ OnNow(action, Append(said, e)) <=>
               \/ action[e.word] = "caps_on"
               \/ ~Toggles(action, e.word) /\ OnNow(action, said)
      BY <1>2, <1>6, <3>1, SaidFacts
    <3>3. said' = Append(said, e) /\ e.n = n /\ e.word = t.word
      BY <1>1, <1>6
    <3>4. QED
      BY <3>2, <3>3
  <2>2. caps = OnNow(action, said)
    BY DEF Capitals
  <2>3. caps' = OnNow(action, said')
    BY <1>17, <2>1, <2>2 DEF OnNow
  <2>4. ASSUME NEW x \in Texts, Has(said, x.n), Rightly(action, said, x)
        PROVE  Rightly(action, said', x)
    <3>1. x.n \in Int /\ x.n <= n /\ x.n # n
      BY <1>6, <1>13, <2>4, TextNumbers DEF Numbered
    <3>2. QED
      BY <2>1, <2>4, <3>1 DEF Rightly, OnAt, Plainly
  <2>5. \A x \in Texts : Has(toSink, x.n) \/ Has(written, x.n) => Has(said, x.n)
    BY DEF Ordered, Texts
  <2>6. ASSUME NEW i \in DOMAIN written PROVE Rightly(action, said', written[i])
    <3>1. written[i] \in Texts /\ Has(written, written[i].n)
      BY <2>6, Known DEF Has
    <3>2. QED
      BY <2>4, <2>5, <2>6, <3>1 DEF Capitals
  <2>7. ASSUME NEW i \in DOMAIN toSink' PROVE Rightly(action, said', toSink'[i])
    <3>1. CASE i \in DOMAIN toSink /\ toSink'[i] = toSink[i]
      <4>1. toSink[i] \in Texts /\ Has(toSink, toSink[i].n) /\ Rightly(action, said, toSink[i])
        BY <3>1, Known DEF Has, Capitals
      <4>2. QED
        BY <2>4, <2>5, <3>1, <4>1
    <3>2. CASE toSink'[i] = p
      <4>1. p.upper = (Plainly(action, said', n) /\ OnAt(action, said', n))
        BY <1>5, <1>6, <2>1, <2>2 DEF Plainly, OnAt
      <4>2. QED
        BY <1>5, <3>2, <4>1 DEF Rightly
    <3>3. QED
      BY <1>15, <2>7, <3>1, <3>2
  <2>8. QED
    BY <1>1, <2>3, <2>6, <2>7 DEF Capitals
<1>23. QED
  BY <1>18, <1>19, <1>20, <1>21, <1>22

LEMMA SinkStep == ASSUME IInv, Write \/ WriteFails PROVE IInv'
<1> USE DEF IInv
<1> DEFINE t == Head(toSink)
           n == t.n
<1>1. /\ toSink # <<>> /\ toSink' = Tail(toSink)
      /\ allowed' = allowed /\ station' = station /\ action' = action
      /\ results' = results /\ toCorrect' = toCorrect /\ toCommand' = toCommand
      /\ said' = said /\ caps' = caps
      /\ \/ written' = Append(written, t) /\ fate' = [fate EXCEPT ![n] = "written"]
         \/ written' = written /\ fate' = [fate EXCEPT ![n] = "failed"]
  BY DEF Write, WriteFails, setting
<1>2. /\ toSink \in Seq(Texts) /\ written \in Seq(Texts)
      /\ fate \in Seq(Fates) /\ Len(fate) = Len(results)
      /\ Once(toSink) /\ Once(written) /\ Row(toCommand)
      /\ Ahead(said, toCommand) /\ Ahead(said, toCorrect)
  BY DEF Types, Ordered
<1>3. t \in Texts /\ \E i \in DOMAIN toSink : t = toSink[i]
  BY <1>1, <1>2, TailElements
<1>4. /\ n \in DOMAIN results /\ n \in DOMAIN fate
      /\ Honest(station, results[n], t) /\ Rightly(action, said, t)
  BY <1>3, Known DEF Contents, Capitals
<1>5. /\ toSink' \in Seq(Texts) /\ Once(toSink') /\ Has(toSink, n)
      /\ \A m : Has(toSink', m) <=> Has(toSink, m) /\ m # n
  BY <1>1, <1>2, TextNumbers, TailNumber, TailElements
<1>6. n \in 1 .. Count /\ n \in Int
  <2>1. \A x \in Texts : x.n \in 1 .. Count
    BY DEF Texts
  <2>2. t.n \in 1 .. Count
    BY <1>3, <2>1
  <2>3. QED
    BY <2>2
<1> HIDE DEF t
<1>7. t.n = n
  OBVIOUS
<1> HIDE DEF n
<1>8. fate[n] = "under way" /\ ~Has(written, n) /\ Has(said, n)
  <2>1. fate[n] = "under way"
    BY <1>4, <1>5 DEF Booked
  <2>2. ~Has(written, n)
    BY <1>4, <2>1 DEF Booked
  <2>3. QED
    BY <1>5, <1>6, <2>1, <2>2 DEF Ordered
<1>9. ~Has(toCorrect, n) /\ ~Has(toCommand, n)
  <2>1. PICK i \in DOMAIN said : said[i].n = n
    BY <1>8 DEF Has
  <2>2. /\ \A j \in DOMAIN toCorrect : n < toCorrect[j].n
        /\ \A j \in DOMAIN toCommand : n < toCommand[j].n
    BY <1>2, <2>1 DEF Ahead
  <2>3. QED
    BY <1>6, <2>2 DEF Has
<1>10. PICK what \in {"written", "failed"} :
         /\ fate' = [fate EXCEPT ![n] = what]
         /\ written' = IF what = "written" THEN Append(written, t) ELSE written
  BY <1>1 DEF n
<1>11. /\ fate' \in Seq(Fates) /\ Len(fate') = Len(fate) /\ DOMAIN fate' = DOMAIN fate
       /\ fate'[n] = what /\ \A m \in DOMAIN fate : m # n => fate'[m] = fate[m]
  <2>1. what \in Fates
    BY DEF Fates
  <2>2. QED
    BY <1>2, <1>4, <1>10, <2>1, FateFacts
<1>12. /\ written' \in Seq(Texts) /\ Once(written')
       /\ \A m : Has(written', m) <=> Has(written, m) \/ (m = n /\ what = "written")
       /\ \A i \in DOMAIN written' :
            written'[i] = t \/ (i \in DOMAIN written /\ written'[i] = written[i])
  <2>1. CASE what = "written"
    <3>1. written' = Append(written, t)
      BY <1>10, <2>1
    <3>2. Once(written') /\ \A m : Has(written', m) <=> Has(written, m) \/ m = n
      BY <1>2, <1>3, <1>7, <1>8, <3>1, TextNumbers, AppendNumber
    <3>3. /\ written' \in Seq(Texts)
          /\ \A i \in DOMAIN written' :
               written'[i] = t \/ (i \in DOMAIN written /\ written'[i] = written[i])
      BY <1>2, <1>3, <3>1, AppendElements
    <3>4. QED
      BY <2>1, <3>2, <3>3
  <2>2. CASE what = "failed"
    BY <1>2, <1>10, <2>2
  <2>3. QED
    BY <2>1, <2>2
<1>13. Types'
  BY <1>1, <1>2, <1>5, <1>11, <1>12 DEF Types
<1>14. Ordered'
  <2>1. \A m \in 1 .. Count : Has(toSink', m) \/ Has(written', m) => Has(said, m)
    BY <1>5, <1>8, <1>12 DEF Ordered
  <2>2. QED
    BY <1>1, <1>5, <1>12, <2>1 DEF Ordered
<1>15. Booked'
  <2>1. SUFFICES ASSUME NEW m \in DOMAIN fate'
                 PROVE  /\ fate'[m] = "under way" <=>
                             Has(toCorrect, m) \/ Has(toCommand, m) \/ Has(toSink', m)
                        /\ fate'[m] = "written" <=> Has(written', m)
                        /\ fate'[m] = "emptied" => MayEmpty(action, results[m])
    BY <1>1 DEF Booked
  <2>2. CASE m = n
    BY <1>5, <1>8, <1>9, <1>11, <1>12, <2>2
  <2>3. CASE m # n
    <3>1. m \in DOMAIN fate /\ fate'[m] = fate[m]
      BY <1>11, <2>1, <2>3
    <3>2. QED
      BY <1>5, <1>12, <2>3, <3>1 DEF Booked
  <2>4. QED
    BY <2>2, <2>3
<1>16. ASSUME NEW i \in DOMAIN toSink' PROVE \E j \in DOMAIN toSink : toSink'[i] = toSink[j]
  BY <1>1, <1>2, <1>16, TailElements
<1>17. Contents'
  <2>1. ASSUME NEW i \in DOMAIN toSink'
        PROVE  Honest(station, results[toSink'[i].n], toSink'[i])
    BY <1>16, <2>1 DEF Contents
  <2>2. ASSUME NEW i \in DOMAIN written'
        PROVE  Honest(station, results[written'[i].n], written'[i])
    BY <1>4, <1>7, <1>12, <2>2 DEF Contents
  <2>3. QED
    BY <1>1, <2>1, <2>2 DEF Contents
<1>18. Capitals'
  <2>1. ASSUME NEW i \in DOMAIN toSink' PROVE Rightly(action, said, toSink'[i])
    BY <1>16, <2>1 DEF Capitals
  <2>2. ASSUME NEW i \in DOMAIN written' PROVE Rightly(action, said, written'[i])
    BY <1>4, <1>12, <2>2 DEF Capitals
  <2>3. QED
    BY <1>1, <2>1, <2>2 DEF Capitals
<1>19. QED
  BY <1>13, <1>14, <1>15, <1>17, <1>18

LEMMA IInvStep == IInv /\ [Next]_vars => IInv'
<1> SUFFICES ASSUME IInv, [Next]_vars PROVE IInv'
  OBVIOUS
<1>1. ASSUME NEW answers \in Utterances, Transcribe(answers) PROVE IInv'
  BY <1>1, TranscribeStep
<1>2. ASSUME NEW list \in Lists, SetLanguage(list) PROVE IInv'
  BY <1>2, SetLanguageStep
<1>3. CASE Correct
  BY <1>3, CorrectStep
<1>4. CASE Command
  BY <1>4, CommandStep
<1>5. CASE Write \/ WriteFails
  BY <1>5, SinkStep
<1>6. CASE UNCHANGED vars
  BY <1>6 DEF vars, setting, channels, IInv, Types, Ordered, Booked, Contents, Capitals
<1>7. QED
  BY <1>1, <1>2, <1>3, <1>4, <1>5, <1>6 DEF Next

LEMMA IInvCorrect == Spec => []IInv
BY InitInv, IInvStep, PTL DEF Spec

-----------------------------------------------------------------------------
(* The stations hand on texts of the right kind, numbered as their results  *)
(* are: what the station.rs types promise, for any words and any tables.    *)
THEOREM TypeCorrect == Spec => []TypeOK
<1>1. IInv => TypeOK
  <2> SUFFICES ASSUME IInv PROVE TypeOK
    OBVIOUS
  <2>1. \A n \in DOMAIN results : results[n].word \in Words \cup {Nothing, Annotation}
    <3>1. \A n \in DOMAIN results : results[n] \in Whole
      BY LenProperties, ElementOfSeq DEF IInv, Types
    <3>2. \A r \in Whole : r.word \in Words \cup {Nothing, Annotation}
      BY DEF Whole, Result
    <3>3. QED
      BY <3>1, <3>2
  <2>2. QED
    BY <2>1 DEF IInv, Types, TypeOK, Somewhere, Spoke
<1>2. QED
  BY <1>1, IInvCorrect, PTL

(* CorrectionStation and PostProcessorStation keep the transcription with   *)
(* the text they change (raw_text), whatever the correctors, the tables of  *)
(* commands and the words are; and a hybrid corrector names a part of it    *)
(* that is for the language of the text.                                    *)
THEOREM ChangesTold == Spec => []Provenance
<1>1. IInv => Provenance
  BY DEF IInv, Contents, Provenance, Honest
<1>2. QED
  BY <1>1, IInvCorrect, PTL

(* VoiceCommandProcessor.caps_active: whatever is dropped, corrected or     *)
(* lost in between, speech is in capitals exactly between the toggles.      *)
THEOREM CapitalsScoped == Spec => []CapsScope
<1>1. IInv => CapsScope
  <2> SUFFICES ASSUME IInv, NEW i \in DOMAIN written
               PROVE  LET toggles == {k \in DOMAIN said :
                                        action[said[k].word] \in {"caps_on", "caps_off"}}
                          Before(n) == {k \in toggles : said[k].n < n}
                          On(n) == \E k \in Before(n) :
                                     action[said[k].word] = "caps_on" /\ \A j \in Before(n) : j <= k
                          Spoken(n) == \E k \in DOMAIN said :
                                         said[k].n = n /\ action[said[k].word] = "say"
                      IN  written[i].upper = (Spoken(written[i].n) /\ On(written[i].n))
    BY DEF CapsScope
  <2> DEFINE n == written[i].n
             toggles == {k \in DOMAIN said : action[said[k].word] \in {"caps_on", "caps_off"}}
             Before == {k \in toggles : said[k].n < n}
             On == \E k \in Before : action[said[k].word] = "caps_on" /\ \A j \in Before : j <= k
  <2>1. written[i].upper = (Plainly(action, said, n) /\ OnAt(action, said, n))
    BY DEF IInv, Capitals, Rightly
  <2>2. OnAt(action, said, n) <=> On
    BY DEF OnAt, Toggles
  <2>3. QED
    BY <2>1, <2>2 DEF Plainly
<1>2. QED
  BY <1>1, IInvCorrect, PTL

(* The number m is once in s, or not at all. *)
LEMMA CopiesFacts ==
  ASSUME NEW T, NEW s \in Seq(T), Once(s), NEW m
  PROVE  Cardinality({i \in DOMAIN s : s[i].n = m}) = IF Has(s, m) THEN 1 ELSE 0
<1>1. CASE Has(s, m)
  <2>1. PICK k \in DOMAIN s : s[k].n = m
    BY <1>1 DEF Has
  <2>2. {i \in DOMAIN s : s[i].n = m} = {k}
    BY <2>1 DEF Once
  <2>3. QED
    BY <1>1, <2>2, FS_Singleton
<1>2. CASE ~Has(s, m)
  <2>1. {i \in DOMAIN s : s[i].n = m} = {}
    BY <1>2 DEF Has
  <2>2. QED
    BY <1>2, <2>1, FS_EmptySet
<1>3. QED
  BY <1>1, <1>2

LEMMA ConcatNumber ==
  ASSUME NEW T, NEW s \in Seq(T), NEW t \in Seq(T), Once(s), Once(t),
         \A m : ~(Has(s, m) /\ Has(t, m))
  PROVE  /\ s \o t \in Seq(T) /\ Once(s \o t)
         /\ \A m : Has(s \o t, m) <=> Has(s, m) \/ Has(t, m)
<1> DEFINE c == s \o t
           p == Len(s)
           q == Len(t)
<1>1. /\ c \in Seq(T) /\ Len(c) = p + q
      /\ \A i \in 1 .. p + q : c[i] = IF i <= p THEN s[i] ELSE t[i - p]
  BY ConcatProperties
<1>2. /\ p \in Nat /\ q \in Nat /\ DOMAIN s = 1 .. p /\ DOMAIN t = 1 .. q
      /\ DOMAIN c = 1 .. p + q
  BY <1>1, LenProperties
<1> HIDE DEF c, p, q
<1>3. ASSUME NEW i \in DOMAIN c
      PROVE  \/ i \in DOMAIN s /\ c[i] = s[i]
             \/ i - p \in DOMAIN t /\ c[i] = t[i - p] /\ i = (i - p) + p
  BY <1>1, <1>2, <1>3
<1>4. ASSUME NEW i \in DOMAIN s PROVE i \in DOMAIN c /\ c[i] = s[i]
  BY <1>1, <1>2, <1>4
<1>5. ASSUME NEW i \in DOMAIN t PROVE i + p \in DOMAIN c /\ c[i + p] = t[i]
  <2>1. i + p \in 1 .. p + q /\ ~(i + p <= p) /\ (i + p) - p = i
    BY <1>2, <1>5
  <2>2. QED
    BY <1>1, <1>2, <2>1
<1>6. ASSUME NEW m PROVE Has(c, m) <=> Has(s, m) \/ Has(t, m)
  <2>1. ASSUME Has(c, m) PROVE Has(s, m) \/ Has(t, m)
    <3>1. PICK i \in DOMAIN c : c[i].n = m
      BY <2>1 DEF Has
    <3>2. CASE i \in DOMAIN s /\ c[i] = s[i]
      BY <3>1, <3>2 DEF Has
    <3>3. CASE i - p \in DOMAIN t /\ c[i] = t[i - p]
      BY <3>1, <3>3 DEF Has
    <3>4. QED
      BY <1>3, <3>2, <3>3
  <2>2. ASSUME Has(s, m) PROVE Has(c, m)
    BY <1>4, <2>2 DEF Has
  <2>3. ASSUME Has(t, m) PROVE Has(c, m)
    BY <1>5, <2>3 DEF Has
  <2>4. QED
    BY <2>1, <2>2, <2>3
<1>7. Once(c)
  <2>1. SUFFICES ASSUME NEW i \in DOMAIN c, NEW j \in DOMAIN c, c[i].n = c[j].n
                 PROVE  i = j
    BY DEF Once
  <2>2. CASE i \in DOMAIN s /\ c[i] = s[i] /\ j \in DOMAIN s /\ c[j] = s[j]
    BY <2>1, <2>2 DEF Once
  <2>3. CASE /\ i - p \in DOMAIN t /\ c[i] = t[i - p] /\ i = (i - p) + p
             /\ j - p \in DOMAIN t /\ c[j] = t[j - p] /\ j = (j - p) + p
    <3>1. i - p = j - p
      BY <2>1, <2>3 DEF Once
    <3>2. QED
      BY <2>3, <3>1
  <2>4. CASE i \in DOMAIN s /\ c[i] = s[i] /\ j - p \in DOMAIN t /\ c[j] = t[j - p]
    <3>1. Has(s, c[i].n) /\ Has(t, c[i].n)
      BY <2>1, <2>4 DEF Has
    <3>2. QED
      BY <3>1
  <2>5. CASE i - p \in DOMAIN t /\ c[i] = t[i - p] /\ j \in DOMAIN s /\ c[j] = s[j]
    <3>1. Has(s, c[j].n) /\ Has(t, c[j].n)
      BY <2>1, <2>5 DEF Has
    <3>2. QED
      BY <3>1
  <2>6. QED
    BY <1>3, <2>2, <2>3, <2>4, <2>5
<1>8. QED
  BY <1>1, <1>6, <1>7 DEF c

(* Every transcription ends in one place, once, for a reason of its own     *)
(* (the Ok(None) of each station's process()), whatever the filters, the    *)
(* settings that change meanwhile and the number of chunks.                 *)
THEOREM NothingVanishes == Spec => []Accounted
<1>1. IInv => Accounted
  <2> SUFFICES ASSUME IInv PROVE Accounted
    OBVIOUS
  <2> DEFINE front == toCorrect \o toCommand
             middle == front \o toSink
             places == middle \o written
  <2>1. /\ toCorrect \in Seq(Texts) /\ toCommand \in Seq(Texts)
        /\ toSink \in Seq(Texts) /\ written \in Seq(Texts)
        /\ Once(toCorrect) /\ Once(toCommand) /\ Once(toSink) /\ Once(written)
    BY TextNumbers, RowOnce DEF IInv, Types, Ordered
  <2>2. /\ DOMAIN fate = DOMAIN results
        /\ \A m : Has(toCorrect, m) \/ Has(toCommand, m) \/ Has(toSink, m) \/ Has(written, m)
                  => m \in DOMAIN fate /\ m \in 1 .. Count /\ m \in Int
    <3>1. \A x \in Texts : x.n \in 1 .. Count /\ x.n \in Int
      BY TextNumbers DEF Texts, Numbered
    <3>2. QED
      BY <3>1, Known DEF IInv, Has
  <2>3. \A m : ~(Has(toCorrect, m) /\ Has(toCommand, m))
    <3>1. ASSUME NEW m, Has(toCorrect, m), Has(toCommand, m) PROVE FALSE
      <4>1. PICK i \in DOMAIN toCorrect : toCorrect[i].n = m
        BY <3>1 DEF Has
      <4>2. PICK j \in DOMAIN toCommand : toCommand[j].n = m
        BY <3>1 DEF Has
      <4>3. m < m /\ m \in Int
        BY <2>2, <3>1, <4>1, <4>2 DEF IInv, Ordered, Ahead
      <4>4. QED
        BY <4>3
    <3>2. QED
      BY <3>1
  <2>4. \A m : ~((Has(toCorrect, m) \/ Has(toCommand, m)) /\ Has(toSink, m))
    <3>1. ASSUME NEW m, Has(toCorrect, m) \/ Has(toCommand, m), Has(toSink, m) PROVE FALSE
      <4>1. m \in Int /\ Has(said, m)
        BY <2>2, <3>1 DEF IInv, Ordered
      <4>2. PICK i \in DOMAIN said : said[i].n = m
        BY <4>1 DEF Has
      <4>3. CASE Has(toCorrect, m)
        <5>1. PICK j \in DOMAIN toCorrect : toCorrect[j].n = m
          BY <4>3 DEF Has
        <5>2. m < m
          BY <4>2, <5>1 DEF IInv, Ordered, Ahead
        <5>3. QED
          BY <4>1, <5>2
      <4>4. CASE Has(toCommand, m)
        <5>1. PICK j \in DOMAIN toCommand : toCommand[j].n = m
          BY <4>4 DEF Has
        <5>2. m < m
          BY <4>2, <5>1 DEF IInv, Ordered, Ahead
        <5>3. QED
          BY <4>1, <5>2
      <4>5. QED
        BY <3>1, <4>3, <4>4
    <3>2. QED
      BY <3>1
  <2>5. \A m : ~((Has(toCorrect, m) \/ Has(toCommand, m) \/ Has(toSink, m)) /\ Has(written, m))
    <3>1. ASSUME NEW m, Has(toCorrect, m) \/ Has(toCommand, m) \/ Has(toSink, m), Has(written, m)
          PROVE  FALSE
      <4>1. m \in DOMAIN fate
        BY <2>2, <3>1
      <4>2. fate[m] = "under way" /\ fate[m] = "written"
        BY <3>1, <4>1 DEF IInv, Booked
      <4>3. QED
        BY <4>2
    <3>2. QED
      BY <3>1
  <2>6. /\ front \in Seq(Texts) /\ Once(front)
        /\ \A m : Has(front, m) <=> Has(toCorrect, m) \/ Has(toCommand, m)
    BY <2>1, <2>3, ConcatNumber
  <2> HIDE DEF front
  <2>7. /\ middle \in Seq(Texts) /\ Once(middle)
        /\ \A m : Has(middle, m) <=> Has(front, m) \/ Has(toSink, m)
    <3>1. \A m : ~(Has(front, m) /\ Has(toSink, m))
      BY <2>4, <2>6
    <3>2. QED
      BY <2>1, <2>6, <3>1, ConcatNumber
  <2> HIDE DEF middle
  <2>8. /\ places \in Seq(Texts) /\ Once(places)
        /\ \A m : Has(places, m) <=> Has(middle, m) \/ Has(written, m)
    <3>1. \A m : ~(Has(middle, m) /\ Has(written, m))
      BY <2>5, <2>6, <2>7
    <3>2. QED
      BY <2>1, <2>7, <3>1, ConcatNumber
  <2> HIDE DEF places
  <2>9. ASSUME NEW n \in DOMAIN fate
        PROVE  /\ Cardinality({i \in DOMAIN places : places[i].n = n})
                    = IF fate[n] \in {"under way", "written"} THEN 1 ELSE 0
               /\ fate[n] = "written" <=> \E i \in DOMAIN written : written[i].n = n
               /\ fate[n] = "emptied" =>
                    \E w \in {results[n].word} \cup Near[results[n].word] :
                      action[w] \notin {"say", "insert"}
    <3>1. /\ fate[n] = "under way" <=>
               Has(toCorrect, n) \/ Has(toCommand, n) \/ Has(toSink, n)
          /\ fate[n] = "written" <=> Has(written, n)
          /\ fate[n] = "emptied" => MayEmpty(action, results[n])
      BY <2>9 DEF IInv, Booked
    <3>2. Has(places, n) <=> fate[n] \in {"under way", "written"}
      BY <2>6, <2>7, <2>8, <3>1
    <3>3. Cardinality({i \in DOMAIN places : places[i].n = n}) = IF Has(places, n) THEN 1 ELSE 0
      BY <2>8, CopiesFacts
    <3>4. QED
      BY <3>1, <3>2, <3>3 DEF Has, MayEmpty
  <2>10. QED
    BY <2>9 DEF Accounted, places, middle, front
<1>2. QED
  BY <1>1, IInvCorrect, PTL
=============================================================================
