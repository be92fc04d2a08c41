-------------------------- MODULE MicrophoneProofs --------------------------
(***************************************************************************)
(* Theorems about Microphone, for any loudness scale, thresholds, window   *)
(* and lengths of recording:                                               *)
(*   TypeCorrect      the type invariant                                   *)
(*   SamplesKept      every sample of the stream that stays, once, in order*)
(*   ThresholdAdapts  speech above the noise is heard, noise passed over   *)
(*   OneWarning       one warning for every lasting silence, if levels are *)
(*                    shown, and none otherwise                            *)
(***************************************************************************)
EXTENDS Microphone, FiniteSetTheorems, WellFoundedInduction, TLAPS

-----------------------------------------------------------------------------
(* The inductive invariants *)

Ids(q) == [i \in DOMAIN q |-> q[i].id]
Row(n) == [i \in 1..n |-> <<stream, i>>]

(* Handed on or still in the buffer, the samples are all those the running  *)
(* stream delivered, and nothing is handed on before the stream is settled. *)
Delivered ==
  /\ source = "new" => stream = 0 /\ captured = 0 /\ buffer = <<>>
  /\ source \in {"probing", "doubtful"} => stream = 1
  /\ source = "up" => stream \in 1..2
  /\ source \in {"new", "probing", "doubtful"} => taken = <<>>
  /\ source \in {"probing", "doubtful", "up"} => taken \o Ids(buffer) = Row(captured)

(* Where levels are shown, zeros counts the frames without a signal up to   *)
(* now, and the user has been warned when they were many enough.            *)
Unwarned == ~show_levels => warnings = {}
Counted ==
  show_levels =>
    /\ zeros <= Len(levels)
    /\ \A k \in (Len(levels) - zeros + 1)..Len(levels) : levels[k] = 0
    /\ zeros < Len(levels) => levels[Len(levels) - zeros] # 0
    /\ warned <=> zeros >= Patience

(* The history is the last levels, as many as the window has room for, and  *)
(* the threshold is the one that belongs to it.                             *)
Size == AtMost(Window, Len(levels))
Remembered ==
  history = [i \in 1..Size |-> levels[Len(levels) - Size + i]]
Adapted ==
  Len(history) >= Warm =>
    threshold = AtMost(AtLeast(2 * NoiseFloor(history), Low), High)

(* TypeOK in two halves. *)
Id == (1..2) \X Nat
Samples == [id : Id, level : Levels]
CaptureTypes ==
  /\ source \in {"new", "probing", "doubtful", "up", "off"}
  /\ stream \in 0..2 /\ captured \in Nat
  /\ buffer \in Seq(Samples)
  /\ taken \in Seq(Id)

StationTypes ==
  /\ show_levels \in BOOLEAN
  /\ history \in Seq(Levels) /\ Len(history) <= Window
  /\ threshold \in {Threshold} \cup Low..High
  /\ zeros \in Nat /\ warned \in BOOLEAN
  /\ levels \in Seq(Levels) /\ speech \in Seq(BOOLEAN) /\ Len(speech) = Len(levels)
  /\ warnings \subseteq DOMAIN levels

-----------------------------------------------------------------------------
(* Sequences *)

LEMMA AppendFacts ==
  ASSUME NEW S, NEW q \in Seq(S), NEW e \in S
  PROVE  /\ Append(q, e) \in Seq(S) /\ Len(q) \in Nat
         /\ DOMAIN q = 1 .. Len(q) /\ DOMAIN Append(q, e) = 1 .. Len(q) + 1
         /\ Len(Append(q, e)) = Len(q) + 1
         /\ \A i \in 1 .. Len(q) : Append(q, e)[i] = q[i]
         /\ Append(q, e)[Len(q) + 1] = e
  OBVIOUS

LEMMA AsFunction ==
  ASSUME NEW S, NEW q \in Seq(S)
  PROVE  q = [i \in 1 .. Len(q) |-> q[i]]
  OBVIOUS

LEMMA AppendAsFunction ==
  ASSUME NEW S, NEW q \in Seq(S), NEW e \in S
  PROVE  Append(q, e) = [i \in 1 .. Len(q) + 1 |-> IF i = Len(q) + 1 THEN e ELSE q[i]]
<1> DEFINE a == Append(q, e)
<1>1. /\ a \in Seq(S) /\ Len(a) = Len(q) + 1 /\ Len(q) \in Nat
      /\ \A i \in 1 .. Len(q) : a[i] = q[i]
      /\ a[Len(q) + 1] = e
  BY AppendFacts
<1> HIDE DEF a
<1>2. a = [i \in 1 .. Len(q) + 1 |-> a[i]]
  BY <1>1, AsFunction
<1>3. \A i \in 1 .. Len(q) + 1 : a[i] = IF i = Len(q) + 1 THEN e ELSE q[i]
  BY <1>1
<1>4. a = [i \in 1 .. Len(q) + 1 |-> IF i = Len(q) + 1 THEN e ELSE q[i]]
  BY <1>2, <1>3
<1>5. QED
  BY <1>4 DEF a

LEMMA TailAsFunction ==
  ASSUME NEW S, NEW q \in Seq(S), q # <<>>
  PROVE  Tail(q) = [i \in 1 .. Len(q) - 1 |-> q[i + 1]]
<1>1. Len(q) \in Nat \ {0} /\ Tail(q) \in Seq(S) /\ Len(Tail(q)) = Len(q) - 1
  OBVIOUS
<1>2. \A i \in 1 .. Len(q) - 1 : Tail(q)[i] = q[i + 1]
  BY <1>1
<1>3. Tail(q) = [i \in 1 .. Len(q) - 1 |-> Tail(q)[i]]
  BY <1>1, AsFunction
<1>4. QED
  BY <1>2, <1>3

(* The ids of a buffer of samples, as one more is appended. *)
LEMMA IdsAppend ==
  ASSUME NEW q \in Seq(Samples), NEW x \in Samples
  PROVE  /\ Ids(q) \in Seq(Id) /\ Len(Ids(q)) = Len(q)
         /\ Ids(Append(q, x)) = Append(Ids(q), x.id)
<1>1. Ids(q) \in Seq(Id) /\ Len(Ids(q)) = Len(q) /\ Len(q) \in Nat /\ DOMAIN q = 1 .. Len(q)
  <2>1. Len(q) \in Nat /\ DOMAIN q = 1 .. Len(q) /\ \A i \in 1 .. Len(q) : q[i] \in Samples
    OBVIOUS
  <2>2. Ids(q) = [i \in 1 .. Len(q) |-> q[i].id]
    BY <2>1 DEF Ids
  <2>3. \A i \in 1 .. Len(q) : q[i].id \in Id
    BY <2>1 DEF Samples
  <2>4. QED
    BY <2>1, <2>2, <2>3
<1>2. Append(q, x) \in Seq(Samples) /\ DOMAIN Append(q, x) = 1 .. Len(q) + 1
      /\ \A i \in 1 .. Len(q) + 1 : Append(q, x)[i] = IF i = Len(q) + 1 THEN x ELSE q[i]
  OBVIOUS
<1>3. Append(Ids(q), x.id) = [i \in 1 .. Len(q) + 1 |-> IF i = Len(q) + 1 THEN x.id ELSE Ids(q)[i]]
  BY <1>1
<1>4. Ids(Append(q, x)) = [i \in 1 .. Len(q) + 1 |-> Append(q, x)[i].id]
  BY <1>2 DEF Ids
<1>5. \A i \in 1 .. Len(q) : Ids(q)[i] = q[i].id
  BY <1>1 DEF Ids
<1>6. QED
  BY <1>1, <1>2, <1>3, <1>4, <1>5

LEMMA ConcatAppend ==
  ASSUME NEW S, NEW p \in Seq(S), NEW q \in Seq(S), NEW e \in S
  PROVE  p \o Append(q, e) = Append(p \o q, e)
  OBVIOUS

-----------------------------------------------------------------------------
(* The type invariant *)

LEMMA RememberType ==
  ASSUME NEW h \in Seq(Levels), NEW l \in Levels, Len(h) <= Window
  PROVE  Remember(h, l) \in Seq(Levels) /\ Len(Remember(h, l)) <= Window
<1>1. Append(h, l) \in Seq(Levels) /\ Len(Append(h, l)) = Len(h) + 1 /\ Len(h) \in Nat
  OBVIOUS
<1>2. /\ Tail(Append(h, l)) \in Seq(Levels)
      /\ Len(Tail(Append(h, l))) = Len(h)
  BY <1>1
<1>3. QED
  BY <1>1, <1>2, MicrophoneAssumption DEF Remember


-----------------------------------------------------------------------------
(* The noise floor *)

(* Every set of naturals that is not empty has a least member.              *)
LEMMA Least ==
  ASSUME NEW T \in SUBSET Nat, T # {}
  PROVE  \E x \in T : \A y \in T : x <= y
<1> DEFINE U == {1 .. n : n \in T}
<1>1. U \subseteq FiniteSubsetsOf(Nat) /\ U # {}
  <2>1. \A n \in T : 1 .. n \in SUBSET Nat /\ IsFiniteSet(1 .. n)
    BY FS_Interval
  <2>2. QED
    BY <2>1 DEF FiniteSubsetsOf
<1>2. IsWellFoundedOn(StrictSubsetOrdering(Nat), FiniteSubsetsOf(Nat))
  BY FS_StrictSubsetOrderingWellFounded
<1>3. PICK X \in U : \A Y \in U : <<Y, X>> \notin StrictSubsetOrdering(Nat)
  BY <1>1, <1>2, WFMin
<1>4. PICK x \in T : X = 1 .. x
  BY <1>3
<1>5. ASSUME NEW y \in T, y < x PROVE FALSE
  <2>1. 1 .. y \in U /\ 1 .. y \subseteq 1 .. x /\ x \in 1 .. x /\ x \notin 1 .. y
    BY <1>5
  <2>2. <<1 .. y, 1 .. x>> \in StrictSubsetOrdering(Nat)
    BY <2>1 DEF StrictSubsetOrdering
  <2>3. QED
    BY <1>3, <1>4, <2>1, <2>2
<1>6. QED
  BY <1>5

(* One of the levels of a history is the loudest: of the shortest beginning *)
(* of it without a loudest level, the last level would be the loudest.      *)
Top(h, k, m) == \A i \in 1 .. k : h[i] <= h[m]

LEMMA Loudest ==
  ASSUME NEW n \in Nat \ {0}, NEW h \in [1 .. n -> Nat]
  PROVE  \E m \in 1 .. n : Top(h, n, m)
<1> DEFINE T == {k \in 1 .. n : \A m \in 1 .. k : ~Top(h, k, m)}
<1>1. SUFFICES ASSUME T # {} PROVE FALSE
  <2>1. n \in 1 .. n
    OBVIOUS
  <2>2. n \notin T
    BY <1>1
  <2>3. QED
    BY <2>1, <2>2
<1>2. PICK k \in T : \A j \in T : k <= j
  <2>1. T \in SUBSET Nat
    OBVIOUS
  <2>2. QED
    BY <1>1, <2>1, Least
<1>3. k \in 1 .. n /\ \A m \in 1 .. k : ~Top(h, k, m)
  BY <1>2
<1>4. CASE k = 1
  <2>1. Top(h, 1, 1)
    BY DEF Top
  <2>2. QED
    BY <1>3, <1>4, <2>1
<1>5. CASE k # 1
  <2>1. k - 1 \in 1 .. n /\ k - 1 \notin T
    BY <1>2, <1>3, <1>5
  <2>2. PICK m \in 1 .. k - 1 : Top(h, k - 1, m)
    BY <2>1
  <2>3. CASE h[k] <= h[m]
    <3>1. Top(h, k, m) /\ m \in 1 .. k
      BY <1>3, <2>2, <2>3 DEF Top
    <3>2. QED
      BY <1>3, <3>1
  <2>4. CASE h[m] <= h[k]
    <3>1. \A i \in 1 .. k - 1 : h[i] <= h[k]
      BY <1>3, <2>2, <2>4 DEF Top
    <3>2. Top(h, k, k) /\ k \in 1 .. k
      BY <1>3, <3>1 DEF Top
    <3>3. QED
      BY <1>3, <3>2
  <2>5. QED
    BY <1>3, <2>2, <2>3, <2>4
<1>6. QED
  BY <1>4, <1>5

Upto(h, l) == {i \in DOMAIN h : h[i] <= l}
Below(h, l) == {i \in DOMAIN h : h[i] < l}

LEMMA LevelFacts ==
  ASSUME NEW h \in Seq(Levels)
  PROVE  /\ Len(h) \in Nat /\ DOMAIN h = 1 .. Len(h)
         /\ \A i \in 1 .. Len(h) : h[i] \in Levels /\ h[i] \in Nat
         /\ h \in [1 .. Len(h) -> Nat]
<1>1. Len(h) \in Nat /\ DOMAIN h = 1 .. Len(h) /\ h = [i \in 1 .. Len(h) |-> h[i]]
  OBVIOUS
<1>2. \A i \in 1 .. Len(h) : h[i] \in Levels
  OBVIOUS
<1>3. Levels \subseteq Nat
  BY MicrophoneAssumption
<1>4. QED
  BY <1>1, <1>2, <1>3

(* Some of the frames of a history are a set that can be counted. *)
LEMMA CountFacts ==
  ASSUME NEW h \in Seq(Levels), NEW I \in SUBSET DOMAIN h
  PROVE  /\ IsFiniteSet(I) /\ Cardinality(I) \in Nat /\ Cardinality(I) <= Len(h)
         /\ Cardinality(DOMAIN h) = Len(h)
         /\ I # {} <=> Cardinality(I) > 0
         /\ \A J \in SUBSET I : Cardinality(J) <= Cardinality(I)
         /\ Cardinality(DOMAIN h \ I) = Len(h) - Cardinality(I)
<1>1. Len(h) \in Nat /\ DOMAIN h = 1 .. Len(h)
  BY LevelFacts
<1>2. IsFiniteSet(DOMAIN h) /\ Cardinality(DOMAIN h) = Len(h)
  <2>1. IsFiniteSet(1 .. Len(h))
        /\ Cardinality(1 .. Len(h)) = IF 1 > Len(h) THEN 0 ELSE Len(h) - 1 + 1
    BY <1>1, FS_Interval
  <2>2. QED
    BY <1>1, <2>1
<1>3. IsFiniteSet(I) /\ Cardinality(I) <= Len(h)
  BY <1>2, FS_Subset
<1>4. Cardinality(I) \in Nat
  BY <1>3, FS_CardinalityType
<1>5. I # {} <=> Cardinality(I) > 0
  BY <1>3, <1>4, FS_EmptySet
<1>6. \A J \in SUBSET I : Cardinality(J) <= Cardinality(I)
  BY <1>3, FS_Subset
<1>7. Cardinality(DOMAIN h \ I) = Len(h) - Cardinality(I)
  <2>1. DOMAIN h \cap I = I
    OBVIOUS
  <2>2. QED
    BY <1>2, <2>1, FS_Difference
<1>8. QED
  BY <1>2, <1>3, <1>4, <1>5, <1>6, <1>7

(* There is a level with at most k frames below it and more than k up to it: *)
(* the least one with more than k up to it.                                  *)
LEMMA Quantile ==
  ASSUME NEW h \in Seq(Levels), NEW k \in Nat, k < Len(h)
  PROVE  \E l \in Levels : Cardinality(Below(h, l)) <= k /\ Cardinality(Upto(h, l)) > k
<1> DEFINE T == {l \in Levels : Cardinality(Upto(h, l)) > k}
<1>1. /\ Len(h) \in Nat \ {0} /\ DOMAIN h = 1 .. Len(h) /\ h \in [1 .. Len(h) -> Nat]
      /\ \A i \in 1 .. Len(h) : h[i] \in Levels
  BY LevelFacts
<1>2. T \in SUBSET Nat
  BY MicrophoneAssumption
<1>3. T # {}
  <2>1. PICK m \in 1 .. Len(h) : Top(h, Len(h), m)
    BY <1>1, Loudest
  <2>2. Upto(h, h[m]) = DOMAIN h
    BY <1>1, <2>1 DEF Upto, Top
  <2>3. Cardinality(Upto(h, h[m])) = Len(h)
    BY <2>2, CountFacts
  <2>4. h[m] \in T
    BY <1>1, <2>3
  <2>5. QED
    BY <2>4
<1>4. PICK l \in T : \A x \in T : l <= x
  BY <1>2, <1>3, Least
<1>5. Below(h, l) \in SUBSET DOMAIN h
  BY DEF Below
<1>6. Cardinality(Below(h, l)) \in Nat /\ l \in Nat
  BY <1>2, <1>5, CountFacts
<1>7. ASSUME Cardinality(Below(h, l)) > k PROVE FALSE
  <2> DEFINE G == {l - h[i] : i \in Below(h, l)}
  <2>1. G \in SUBSET Nat
    BY <1>1, <1>6 DEF Below
  <2>2. Below(h, l) # {}
    <3>1. Cardinality(Below(h, l)) > 0
      BY <1>6, <1>7
    <3>2. QED
      BY <1>5, <3>1, CountFacts
  <2>3. PICK g \in G : \A x \in G : g <= x
    <3>1. G # {}
      BY <2>2
    <3>2. QED
      BY <2>1, <3>1, Least
  <2>4. PICK j \in Below(h, l) : g = l - h[j]
    BY <2>3
  <2>5. \A i \in Below(h, l) : l - h[j] <= l - h[i]
    BY <2>3, <2>4
  <2>6. Upto(h, h[j]) = Below(h, l)
    BY <1>1, <1>6, <2>5 DEF Upto, Below
  <2>7. h[j] \in T /\ h[j] < l
    BY <1>1, <1>7, <2>6 DEF Below
  <2>8. QED
    BY <1>2, <1>4, <1>6, <2>7
<1>8. QED
  BY <1>4, <1>6, <1>7

(* What adapt_threshold finds: at most a quarter of the history is quieter. *)
LEMMA FloorFacts ==
  ASSUME NEW h \in Seq(Levels), Len(h) >= 1
  PROVE  /\ NoiseFloor(h) \in Levels
         /\ Cardinality(Below(h, NoiseFloor(h))) <= Len(h) \div 4
         /\ Cardinality(Upto(h, NoiseFloor(h))) > Len(h) \div 4
<1>1. Len(h) \div 4 \in Nat /\ Len(h) \div 4 < Len(h)
  BY LevelFacts
<1>2. \E l \in Levels : /\ Cardinality(Below(h, l)) <= Len(h) \div 4
                        /\ Cardinality(Upto(h, l)) > Len(h) \div 4
  BY <1>1, Quantile
<1>3. QED
  BY <1>2 DEF NoiseFloor, Below, Upto

-----------------------------------------------------------------------------
(* The source: types, and what is delivered *)

LEMMA IdsFacts ==
  ASSUME CaptureTypes
  PROVE  Ids(buffer) \in Seq(Id) /\ taken \in Seq(Id) /\ taken \o Ids(buffer) \in Seq(Id)
<1>1. Len(buffer) \in Nat /\ DOMAIN buffer = 1 .. Len(buffer)
      /\ \A i \in 1 .. Len(buffer) : buffer[i] \in Samples
  BY DEF CaptureTypes
<1>2. \A i \in 1 .. Len(buffer) : buffer[i].id \in Id
  BY <1>1 DEF Samples
<1>3. Ids(buffer) = [i \in 1 .. Len(buffer) |-> buffer[i].id]
  BY <1>1 DEF Ids
<1>4. Ids(buffer) \in Seq(Id)
  BY <1>1, <1>2, <1>3
<1>5. QED
  BY <1>4 DEF CaptureTypes

LEMMA IdsEmpty == Ids(<<>>) = <<>>
  BY DEF Ids

(* A sample of the running stream comes in. *)
LEMMA CallbackStep ==
  ASSUME CaptureTypes, Delivered, NEW level \in Levels, Callback(level)
  PROVE  CaptureTypes' /\ Delivered'
<1> DEFINE x == Sample(captured + 1, level)
<1>1. stream \in 1..2 /\ source \in {"probing", "doubtful", "up"}
  BY DEF Callback, Delivered
<1>2. x \in Samples /\ x.id = <<stream, captured + 1>>
  BY <1>1 DEF Sample, Samples, Id, CaptureTypes
<1>3. buffer' = Append(buffer, x) /\ captured' = captured + 1
      /\ UNCHANGED <<source, stream, taken>>
  BY DEF Callback, Sample
<1>4. buffer' \in Seq(Samples)
  BY <1>2, <1>3 DEF CaptureTypes
<1>5. CaptureTypes'
  BY <1>3, <1>4 DEF CaptureTypes
<1>6. Ids(buffer') = Append(Ids(buffer), <<stream, captured + 1>>)
  <2>1. buffer \in Seq(Samples)
    BY DEF CaptureTypes
  <2>2. Ids(Append(buffer, x)) = Append(Ids(buffer), x.id)
    BY <1>2, <2>1, IdsAppend
  <2>3. QED
    BY <1>2, <1>3, <2>2
<1>7. taken \o Ids(buffer') = Append(taken \o Ids(buffer), <<stream, captured + 1>>)
  <2>1. <<stream, captured + 1>> \in Id
    BY <1>1 DEF Id, CaptureTypes
  <2>2. QED
    BY <1>6, <2>1, IdsFacts, ConcatAppend
<1>8. Append(Row(captured), <<stream, captured + 1>>) = Row(captured + 1)
  BY DEF Row, CaptureTypes
<1>9. QED
  BY <1>1, <1>3, <1>5, <1>7, <1>8 DEF Delivered, Row

(* The buffer is taken for a frame: what was handed on or waited has been   *)
(* handed on.                                                               *)
LEMMA FrameTakes ==
  ASSUME CaptureTypes, Delivered, NEW level \in Levels, Frame(level)
  PROVE  CaptureTypes' /\ Delivered'
<1>1. taken' = taken \o Ids(buffer) /\ buffer' = <<>> /\ source = "up"
      /\ UNCHANGED <<source, stream, captured>>
  BY DEF Frame, Ids
<1>2. taken' \in Seq(Id)
  BY <1>1, IdsFacts
<1>3. taken' \o Ids(buffer') = taken \o Ids(buffer)
  <2>1. taken' \o <<>> = taken'
    BY <1>2
  <2>2. QED
    BY <1>1, <2>1, IdsEmpty
<1>4. CaptureTypes'
  BY <1>1, <1>2 DEF CaptureTypes
<1>5. Row(captured)' = Row(captured)
  BY <1>1 DEF Row
<1>6. QED
  BY <1>1, <1>3, <1>4, <1>5 DEF Delivered

(* start(), its retries, and stop(). *)
LEMMA SourceStep ==
  ASSUME CaptureTypes, Delivered,
         Start \/ StartFails \/ Alive \/ Doubt \/ Replace \/ ReplaceFails \/ Stop
  PROVE  CaptureTypes' /\ Delivered'
<1>1. CASE Start
  <2>1. taken \o Ids(buffer) = <<>>
    BY <1>1, IdsEmpty DEF Start, Delivered
  <2>2. QED
    BY <1>1, <2>1 DEF Start, CaptureTypes, Delivered, Row
<1>2. CASE Replace
  <2>1. taken' \o Ids(buffer') = <<>>
    BY <1>2, IdsEmpty DEF Replace, Delivered
  <2>2. QED
    BY <1>2, <2>1 DEF Replace, CaptureTypes, Delivered, Row
<1>3. CASE StartFails \/ ReplaceFails \/ Stop
  BY <1>3 DEF StartFails, ReplaceFails, Stop, CaptureTypes, Delivered
<1>4. CASE Alive \/ Doubt
  BY <1>4 DEF Alive, Doubt, CaptureTypes, Delivered, Row
<1>5. QED
  BY <1>1, <1>2, <1>3, <1>4

-----------------------------------------------------------------------------
(* The detector's station: types, history and warnings *)

LEMMA FrameFacts ==
  ASSUME StationTypes, NEW level \in Levels, Frame(level)
  PROVE  /\ Len(levels) \in Nat /\ DOMAIN levels = 1 .. Len(levels)
         /\ levels' \in Seq(Levels) /\ Len(levels') = Len(levels) + 1
         /\ DOMAIN levels' = 1 .. Len(levels) + 1
         /\ \A i \in 1 .. Len(levels) : levels'[i] = levels[i] /\ levels[i] \in Levels
         /\ levels'[Len(levels) + 1] = level
  BY DEF StationTypes, Frame

LEMMA ThresholdType ==
  ASSUME NEW h \in Seq(Levels), Len(h) >= Warm
  PROVE  AtMost(AtLeast(2 * NoiseFloor(h), Low), High) \in Low..High
<1>1. Len(h) >= 1
  BY LevelFacts, MicrophoneAssumption
<1>2. NoiseFloor(h) \in Nat
  BY <1>1, FloorFacts, MicrophoneAssumption
<1>3. Low \in Nat /\ High \in Nat /\ Low <= High
  BY MicrophoneAssumption
<1>4. QED
  BY <1>2, <1>3 DEF AtMost, AtLeast

LEMMA FrameTypes ==
  ASSUME StationTypes, NEW level \in Levels, Frame(level)
  PROVE  StationTypes' /\ Adapted'
<1>1. history' \in Seq(Levels) /\ Len(history') <= Window
  BY RememberType DEF StationTypes, Frame
<1>2. threshold' = Adjusted(history')
  BY DEF Frame
<1>3. threshold' \in {Threshold} \cup Low..High
  BY <1>1, <1>2, ThresholdType, LevelFacts, MicrophoneAssumption DEF Adjusted, StationTypes
<1>4. Adapted'
  <2>1. Len(history') \in Nat /\ Warm \in Nat
    BY <1>1, LevelFacts, MicrophoneAssumption
  <2>2. QED
    BY <1>2, <2>1 DEF Adapted, Adjusted
<1>5. zeros' \in Nat /\ warned' \in BOOLEAN
  <2>1. CASE CheckNoAudio(level)
    <3>1. zeros' \in Nat
      BY <2>1 DEF CheckNoAudio, StationTypes
    <3>2. warned' \in BOOLEAN
      BY <2>1, Zenon DEF CheckNoAudio
    <3>3. QED
      BY <3>1, <3>2
  <2>2. CASE UNCHANGED <<zeros, warned, warnings>>
    BY <2>2 DEF StationTypes
  <2>3. QED
    BY <2>1, <2>2 DEF Frame
<1>6. speech' \in Seq(BOOLEAN) /\ Len(speech') = Len(levels')
  <2>1. speech' = Append(speech, level > threshold) /\ levels' = Append(levels, level)
    BY DEF Frame
  <2>2. (level > threshold) \in BOOLEAN
    BY MicrophoneAssumption DEF StationTypes
  <2>3. speech \in Seq(BOOLEAN) /\ levels \in Seq(Levels) /\ Len(speech) = Len(levels)
    BY DEF StationTypes
  <2>4. QED
    BY <2>1, <2>2, <2>3
<1>7. warnings' \subseteq DOMAIN levels'
  BY FrameFacts DEF Frame, CheckNoAudio, StationTypes
<1>8. levels' \in Seq(Levels)
  BY FrameFacts
<1>9. QED
  <2>1. show_levels' \in BOOLEAN
    BY DEF Frame, StationTypes
  <2>2. QED
    BY <1>1, <1>3, <1>4, <1>5, <1>6, <1>7, <1>8, <2>1 DEF StationTypes

LEMMA FrameRemembers ==
  ASSUME StationTypes, Remembered, NEW level \in Levels, Frame(level)
  PROVE  Remembered'
<1> DEFINE n == Len(levels)
<1>1. Window \in Nat \ {0}
  BY MicrophoneAssumption
<1>2. n \in Nat /\ Len(levels') = n + 1 /\ levels'[n + 1] = level
      /\ \A i \in 1 .. n : levels'[i] = levels[i] /\ levels[i] \in Levels
  BY FrameFacts
<1>3. Size \in 0 .. n /\ Size = IF Window < n THEN Window ELSE n
  BY <1>1, <1>2 DEF Size, AtMost
<1>4. history \in Seq(Levels) /\ Len(history) = Size
      /\ \A i \in 1 .. Size : history[i] = levels[n - Size + i]
  <2>1. history = [i \in 1 .. Size |-> levels[n - Size + i]]
    BY DEF Remembered
  <2>2. history \in Seq(Levels)
    BY DEF StationTypes
  <2>3. Size \in Nat
    BY <1>2, <1>3
  <2>4. Len(history) = Size
    BY <2>1, <2>2, <2>3
  <2>5. QED
    BY <2>1, <2>2, <2>4
<1>5. history' = LET all == Append(history, level)
                 IN  IF Len(all) > Window THEN Tail(all) ELSE all
  BY DEF Frame, Remember
<1>6. Len(Append(history, level)) = Size + 1
  BY <1>4
<1>7. CASE n < Window
  <2>1. Size = n /\ Size' = n + 1
    BY <1>1, <1>2, <1>3, <1>7 DEF Size, AtMost
  <2>2. history' = Append(history, level)
    BY <1>1, <1>2, <1>5, <1>6, <1>7, <2>1
  <2>3. history' = [i \in 1 .. n + 1 |-> IF i = n + 1 THEN level ELSE history[i]]
    BY <1>4, <2>1, <2>2, AppendAsFunction
  <2>4. \A i \in 1 .. n + 1 : history'[i] = levels'[i]
    BY <1>2, <1>4, <2>1, <2>3
  <2>5. \A i \in 1 .. n + 1 : Len(levels') - Size' + i = i
    BY <1>2, <2>1
  <2>6. history' = [i \in 1 .. n + 1 |-> levels'[Len(levels') - Size' + i]]
    BY <2>3, <2>4, <2>5
  <2>7. QED
    BY <2>1, <2>6 DEF Remembered
<1>8. CASE n >= Window
  <2>1. Size = Window /\ Size' = Window
    BY <1>1, <1>2, <1>3, <1>8 DEF Size, AtMost
  <2>2. history' = Tail(Append(history, level))
    BY <1>1, <1>5, <1>6, <2>1
  <2>3. history' = [i \in 1 .. Window |-> IF i = Window THEN level ELSE history[i + 1]]
    <3> DEFINE all == Append(history, level)
    <3>1. all = [i \in 1 .. Window + 1 |-> IF i = Window + 1 THEN level ELSE history[i]]
      BY <1>4, <2>1, AppendAsFunction
    <3>2. all \in Seq(Levels) /\ Len(all) = Window + 1 /\ all # <<>>
      <4>1. all \in Seq(Levels) /\ Len(all) = Len(history) + 1
        BY <1>4
      <4>2. QED
        BY <1>1, <1>4, <2>1, <4>1
    <3>3. Tail(all) = [i \in 1 .. Window |-> all[i + 1]]
      <4> HIDE DEF all
      <4>1. Tail(all) = [i \in 1 .. Len(all) - 1 |-> all[i + 1]]
        BY <3>2, TailAsFunction
      <4>2. QED
        BY <1>1, <3>2, <4>1
    <3>4. \A i \in 1 .. Window : all[i + 1] = IF i = Window THEN level ELSE history[i + 1]
      BY <1>1, <3>1
    <3>5. QED
      BY <2>2, <3>3, <3>4
  <2>4. \A i \in 1 .. Window : history'[i] = levels'[n + 1 - Window + i]
    <3>1. TAKE i \in 1 .. Window
    <3>2. CASE i = Window
      BY <1>1, <1>2, <2>3, <3>2
    <3>3. CASE i # Window
      <4>1. history'[i] = history[i + 1] /\ i + 1 \in 1 .. Size
        BY <1>1, <2>1, <2>3, <3>3
      <4>2. history[i + 1] = levels[n - Window + (i + 1)]
        BY <1>4, <2>1, <4>1
      <4>3. n - Window + (i + 1) \in 1 .. n /\ n - Window + (i + 1) = n + 1 - Window + i
        BY <1>1, <1>2, <1>8, <3>3
      <4>4. QED
        BY <1>2, <4>1, <4>2, <4>3
    <3>4. QED
      BY <3>2, <3>3
  <2>5. history' = [i \in 1 .. Window |-> levels'[Len(levels') - Size' + i]]
    <3>1. \A i \in 1 .. Window : Len(levels') - Size' + i = n + 1 - Window + i
      BY <1>1, <1>2, <2>1
    <3>2. history' = [i \in 1 .. Window |-> history'[i]]
      BY <2>3
    <3>3. QED
      BY <2>4, <3>1, <3>2
  <2>6. QED
    BY <2>1, <2>5 DEF Remembered
<1>9. QED
  BY <1>1, <1>2, <1>7, <1>8

(* A frame lengthens the silence by one or ends it; the warning comes at    *)
(* the frame that makes it long enough.                                     *)
LEMMA FrameCounts ==
  ASSUME StationTypes, Counted, show_levels, NEW level \in Levels, Frame(level)
  PROVE  /\ Counted'
         /\ warnings' = IF zeros' = Patience THEN warnings \cup {Len(levels')} ELSE warnings
<1>1. /\ Len(levels) \in Nat /\ Len(levels') = Len(levels) + 1
      /\ \A i \in 1 .. Len(levels) : levels'[i] = levels[i]
      /\ levels'[Len(levels) + 1] = level
  BY FrameFacts
<1>2. zeros \in Nat /\ Patience \in Nat \ {0} /\ warned \in BOOLEAN
  BY MicrophoneAssumption DEF StationTypes
<1>3. CheckNoAudio(level)
  BY DEF Frame
<1>4. CASE level = 0
  <2>1. zeros' = zeros + 1
    BY <1>3, <1>4 DEF CheckNoAudio
  <2>2. warned' <=> zeros' >= Patience
    <3>1. warned' <=> zeros' > 0 /\ (warned \/ zeros' >= Patience)
      BY <1>3 DEF CheckNoAudio
    <3>2. warned => zeros >= Patience
      BY DEF Counted
    <3>3. QED
      BY <1>2, <2>1, <3>1, <3>2
  <2>3. \A k \in (Len(levels') - zeros' + 1)..Len(levels') : levels'[k] = 0
    BY <1>1, <1>2, <1>4, <2>1 DEF Counted
  <2>4. zeros' < Len(levels') => levels'[Len(levels') - zeros'] # 0
    BY <1>1, <1>2, <2>1 DEF Counted
  <2>5. warned' /\ ~warned <=> zeros' = Patience
    BY <1>2, <2>1, <2>2 DEF Counted
  <2>6. QED
    BY <1>1, <1>2, <1>3, <2>1, <2>2, <2>3, <2>4, <2>5 DEF Counted, CheckNoAudio
<1>5. CASE level # 0
  <2>1. zeros' = 0 /\ ~warned'
    <3>1. zeros' = 0 /\ (warned' => zeros' > 0)
      BY <1>3, <1>5 DEF CheckNoAudio
    <3>2. QED
      BY <3>1
  <2>2. QED
    BY <1>1, <1>2, <1>3, <1>5, <2>1 DEF Counted, CheckNoAudio
<1>6. QED
  BY <1>4, <1>5

LEMMA FrameWarns ==
  ASSUME StationTypes, Counted, WarnsOnce, show_levels, NEW level \in Levels, Frame(level)
  PROVE  WarnsOnce'
<1> DEFINE n == Len(levels) + 1
<1>1. /\ n \in Nat \ {0} /\ Len(levels') = n /\ DOMAIN levels = 1 .. n - 1
      /\ DOMAIN levels' = 1 .. n
      /\ \A i \in 1 .. n - 1 : levels'[i] = levels[i]
  BY FrameFacts
<1>2. Patience \in Nat \ {0} /\ zeros' \in Nat /\ Counted'
  BY FrameCounts, FrameTypes, MicrophoneAssumption DEF StationTypes
<1>3. warnings' = IF zeros' = Patience THEN warnings \cup {n} ELSE warnings
  BY <1>1, FrameCounts
<1>4. n \notin warnings
  BY <1>1 DEF StationTypes
<1> DEFINE Silent(m, L) == /\ m >= Patience
                           /\ \A k \in (m - Patience + 1)..m : L[k] = 0
                           /\ m > Patience => L[m - Patience] # 0
<1>0. show_levels'
  BY DEF Frame
<1>5. ASSUME NEW m \in 1 .. n - 1
      PROVE  m \in warnings' <=> Silent(m, levels')
  <2>1. m \in warnings' <=> m \in warnings
    BY <1>1, <1>3
  <2>2. m \in warnings <=> Silent(m, levels)
    BY <1>1 DEF WarnsOnce
  <2>3. Silent(m, levels) <=> Silent(m, levels')
    BY <1>1, <1>2
  <2>4. QED
    BY <2>1, <2>2, <2>3
<1>6. n \in warnings' <=> Silent(n, levels')
  <2>1. n \in warnings' <=> zeros' = Patience
    BY <1>3, <1>4
  <2>2. /\ zeros' <= n
        /\ \A k \in (n - zeros' + 1)..n : levels'[k] = 0
        /\ zeros' < n => levels'[n - zeros'] # 0
    BY <1>0, <1>1, <1>2 DEF Counted
  <2>3. ASSUME zeros' = Patience PROVE Silent(n, levels')
    BY <2>2, <2>3
  <2>4. ASSUME Silent(n, levels') PROVE zeros' = Patience
    <3>1. CASE zeros' < Patience
      <4>1. n - zeros' \in (n - Patience + 1)..n /\ zeros' < n
        BY <1>1, <1>2, <2>4, <3>1
      <4>2. QED
        BY <2>2, <2>4, <4>1
    <3>2. CASE zeros' > Patience
      <4>1. n > Patience /\ n - Patience \in (n - zeros' + 1)..n
        BY <1>1, <1>2, <2>2, <3>2
      <4>2. QED
        BY <2>2, <2>4, <4>1
    <3>3. QED
      BY <1>2, <3>1, <3>2
  <2>5. QED
    BY <2>1, <2>3, <2>4
<1>7. QED
  <2>1. \A m \in 1 .. n : m \in warnings' <=> Silent(m, levels')
    BY <1>1, <1>5, <1>6
  <2>2. QED
    BY <1>0, <1>1, <2>1 DEF WarnsOnce

(* Where levels are not shown, a frame is not looked at.                    *)
LEMMA FrameUnwatched ==
  ASSUME StationTypes, Unwarned, WarnsOnce, ~show_levels, NEW level \in Levels, Frame(level)
  PROVE  Counted' /\ Unwarned' /\ WarnsOnce'
<1>1. ~show_levels' /\ warnings' = {}
  BY DEF Frame, Unwarned
<1>2. Counted' /\ Unwarned'
  BY <1>1 DEF Counted, Unwarned
<1>3. WarnsOnce'
  BY <1>1 DEF WarnsOnce
<1>4. QED
  BY <1>2, <1>3

(* The silence is counted, and warned of, if levels are shown.              *)
LEMMA FrameWatched ==
  ASSUME StationTypes, Counted, Unwarned, WarnsOnce, NEW level \in Levels, Frame(level)
  PROVE  Counted' /\ Unwarned' /\ WarnsOnce'
<1>1. CASE show_levels
  <2>1. Unwarned'
    BY <1>1 DEF Frame, Unwarned
  <2>2. QED
    BY <1>1, <2>1, FrameCounts, FrameWarns
<1>2. CASE ~show_levels
  BY <1>2, FrameUnwatched
<1>3. QED
  BY <1>1, <1>2

-----------------------------------------------------------------------------
(* The adapted threshold *)

(* With the threshold that belongs to a history, what more than a quarter   *)
(* of it was at most half as loud as is above it, and what three quarters   *)
(* were as loud as is not.                                                  *)
LEMMA Judged ==
  ASSUME NEW h \in Seq(Levels), Len(h) >= 1, NEW l \in Levels, NEW t,
         t = AtMost(AtLeast(2 * NoiseFloor(h), Low), High)
  PROVE  /\ l > Low /\ Cardinality({i \in DOMAIN h : 2 * h[i] < l}) > Len(h) \div 4 => l > t
         /\ l <= High /\ Cardinality({i \in DOMAIN h : h[i] >= l}) >= Len(h) - Len(h) \div 4
              => ~(l > t)
<1> DEFINE f == NoiseFloor(h)
<1> DEFINE half == {i \in DOMAIN h : 2 * h[i] < l}
<1> DEFINE equal == {i \in DOMAIN h : h[i] >= l}
<1>1. f \in Nat /\ l \in Nat /\ Low \in Nat /\ High \in Nat /\ Low <= High
  BY FloorFacts, MicrophoneAssumption
<1>2. Cardinality(Below(h, f)) <= Len(h) \div 4 /\ Cardinality(Upto(h, f)) > Len(h) \div 4
  BY FloorFacts
<1>3. Len(h) \in Nat /\ DOMAIN h = 1 .. Len(h) /\ \A i \in DOMAIN h : h[i] \in Nat
  BY LevelFacts
<1>4. Len(h) \div 4 \in Nat
  BY <1>3
<1>5. /\ Below(h, f) \in SUBSET DOMAIN h /\ half \in SUBSET DOMAIN h /\ equal \in SUBSET DOMAIN h
      /\ Upto(h, f) \in SUBSET DOMAIN h
  BY DEF Below, Upto
<1>6. /\ Cardinality(Below(h, f)) \in Nat /\ Cardinality(half) \in Nat
      /\ Cardinality(equal) \in Nat /\ Cardinality(Upto(h, f)) \in Nat
  BY <1>5, CountFacts
<1> HIDE DEF f
<1>7. ASSUME l > Low, Cardinality(half) > Len(h) \div 4 PROVE l > t
  <2>1. ASSUME 2 * f >= l PROVE FALSE
    <3>1. half \in SUBSET Below(h, f)
      BY <1>1, <1>3, <2>1 DEF Below
    <3>2. Cardinality(half) <= Cardinality(Below(h, f))
      BY <1>5, <3>1, CountFacts
    <3>3. QED
      BY <1>2, <1>4, <1>6, <1>7, <3>2
  <2>2. 2 * f < l
    BY <1>1, <2>1
  <2>3. QED
    BY <1>1, <1>7, <2>2 DEF AtMost, AtLeast, f
<1>8. ASSUME l <= High, Cardinality(equal) >= Len(h) - Len(h) \div 4 PROVE ~(l > t)
  <2>1. ASSUME f < l PROVE FALSE
    <3>1. Cardinality(DOMAIN h \ equal) = Len(h) - Cardinality(equal)
      BY <1>5, CountFacts
    <3>2. Upto(h, f) \in SUBSET (DOMAIN h \ equal)
      BY <1>1, <1>3, <2>1 DEF Upto
    <3>3. DOMAIN h \ equal \in SUBSET DOMAIN h
      OBVIOUS
    <3>4. Cardinality(Upto(h, f)) <= Cardinality(DOMAIN h \ equal)
      BY <3>2, <3>3, CountFacts
    <3>5. QED
      BY <1>2, <1>3, <1>4, <1>6, <1>8, <3>1, <3>4
  <2>2. f >= l
    BY <1>1, <2>1
  <2>3. QED
    BY <1>1, <1>8, <2>2 DEF AtMost, AtLeast, f
<1>9. QED
  BY <1>7, <1>8

(* After m frames the next one's window is of z frames. *)
LEMMA BeforeFacts ==
  ASSUME NEW m \in Nat, NEW z \in Nat, z = AtMost(Window, m)
  PROVE  /\ z <= m
         /\ Before(m + 1) = (m - z + 1)..m
         /\ Cardinality(Before(m + 1)) = z
<1>1. Window \in Nat \ {0}
  BY MicrophoneAssumption
<1>2. z <= m
  BY <1>1 DEF AtMost
<1>3. AtLeast(1, (m + 1) - Window) = m - z + 1
  BY <1>1 DEF AtLeast, AtMost
<1>4. Before(m + 1) = (m - z + 1)..m
  <2>1. (m + 1) - 1 = m
    OBVIOUS
  <2>2. QED
    BY <1>3, <2>1 DEF Before
<1>5. Cardinality((m - z + 1)..m) = z
  <2>1. Cardinality((m - z + 1)..m) = IF m - z + 1 > m THEN 0 ELSE m - (m - z + 1) + 1
    <3>1. m - z + 1 \in Int /\ m \in Int
      OBVIOUS
    <3>2. QED
      BY <3>1, FS_Interval
  <2>2. QED
    BY <1>2, <2>1
<1>6. QED
  BY <1>2, <1>4, <1>5

Hits(h, S) == {i \in DOMAIN h : h[i] \in S}
HitsAmong(L, m, z, S) == {k \in (m - z + 1)..m : L[k] \in S}

(* A history that is the last z of m levels has as many of some kind as     *)
(* there are among these.                                                   *)
LEMMA ShareShifted ==
  ASSUME NEW m \in Nat, NEW z \in Nat, z <= m, NEW L, NEW S,
         NEW h \in Seq(Levels), Len(h) = z, \A i \in 1 .. z : h[i] = L[m - z + i]
  PROVE  Cardinality(HitsAmong(L, m, z, S)) = Cardinality(Hits(h, S))
<1> DEFINE I == {i \in DOMAIN h : h[i] \in S}
<1> DEFINE K == {k \in (m - z + 1)..m : L[k] \in S}
<1> DEFINE b == [i \in I |-> m - z + i]
<1>1. DOMAIN h = 1 .. z /\ IsFiniteSet(I)
  BY CountFacts, LevelFacts
<1>2. \A i \in I : i \in 1 .. z /\ m - z + i \in K
  BY <1>1
<1>3. b \in [I -> K]
  BY <1>2
<1>4. \A i, j \in I : b[i] = b[j] => i = j
  BY <1>2
<1>5. ASSUME NEW k \in K PROVE \E i \in I : b[i] = k
  <2>1. k \in (m - z + 1)..m /\ L[k] \in S
    OBVIOUS
  <2>2. k - m + z \in 1 .. z /\ m - z + (k - m + z) = k
    BY <2>1
  <2>3. k - m + z \in I
    BY <1>1, <2>1, <2>2
  <2>4. QED
    BY <2>2, <2>3
<1>6. ExistsBijection(I, K)
  <2> HIDE DEF b, I, K
  <2>1. b \in Bijection(I, K)
    BY <1>3, <1>4, <1>5 DEF Bijection, Injection, Surjection, IsInjective
  <2>2. QED
    BY <2>1 DEF ExistsBijection
<1>7. QED
  BY <1>1, <1>6, FS_Bijection DEF Hits, HitsAmong

(* The frames before the next one are those of the history. *)
LEMMA ShareOfHistory ==
  ASSUME StationTypes, Remembered
  PROVE  /\ Cardinality(Before(Len(levels) + 1)) = Len(history)
         /\ \A S : Cardinality({k \in Before(Len(levels) + 1) : levels[k] \in S}) =
                     Cardinality({i \in DOMAIN history : history[i] \in S})
<1>1. Len(levels) \in Nat /\ Size \in Nat /\ Size = AtMost(Window, Len(levels))
  BY MicrophoneAssumption DEF StationTypes, Size, AtMost
<1>2. /\ Size <= Len(levels)
      /\ Before(Len(levels) + 1) = (Len(levels) - Size + 1)..Len(levels)
      /\ Cardinality(Before(Len(levels) + 1)) = Size
  BY <1>1, BeforeFacts
<1>3. /\ history \in Seq(Levels) /\ Len(history) = Size
      /\ \A i \in 1 .. Size : history[i] = levels[Len(levels) - Size + i]
  <2>1. history = [i \in 1 .. Size |-> levels[Len(levels) - Size + i]]
    BY DEF Remembered
  <2>2. history \in Seq(Levels)
    BY DEF StationTypes
  <2>3. Len(history) = Size
    BY <1>1, <2>1, <2>2
  <2>4. QED
    BY <2>1, <2>2, <2>3
<1>4. ASSUME NEW S
      PROVE  Cardinality({k \in Before(Len(levels) + 1) : levels[k] \in S}) =
               Cardinality({i \in DOMAIN history : history[i] \in S})
  <2>1. Cardinality(HitsAmong(levels, Len(levels), Size, S)) = Cardinality(Hits(history, S))
    BY <1>1, <1>2, <1>3, ShareShifted
  <2>2. QED
    BY <1>2, <2>1 DEF Hits, HitsAmong
<1>5. QED
  BY <1>2, <1>3, <1>4

(* Adapts, of one frame of a recording with levels L. *)
Half(l) == {k \in Levels : 2 * k < l}
Equal(l) == {k \in Levels : k >= l}
ShareOf(L, S, m) == Cardinality({k \in Before(m) : L[k] \in S})
RightAt(L, sp, m) ==
  Cardinality(Before(m)) >= Warm =>
    /\ L[m] > Low /\ ShareOf(L, Half(L[m]), m) > Cardinality(Before(m)) \div 4 => sp[m]
    /\ L[m] <= High
         /\ ShareOf(L, Equal(L[m]), m) >= Cardinality(Before(m)) - Cardinality(Before(m)) \div 4
         => ~sp[m]

LEMMA AdaptsAt == Adapts <=> \A m \in DOMAIN levels : RightAt(levels, speech, m)
  BY DEF Adapts, RightAt, ShareOf, Share, Half, Equal

LEMMA FrameAdapts ==
  ASSUME StationTypes, Remembered, Adapted, Adapts, NEW level \in Levels, Frame(level)
  PROVE  Adapts'
<1> DEFINE n == Len(levels) + 1
<1>1. /\ Len(levels) \in Nat /\ DOMAIN levels = 1 .. Len(levels) /\ DOMAIN levels' = 1 .. n
      /\ \A i \in 1 .. Len(levels) : levels'[i] = levels[i] /\ levels[i] \in Levels
      /\ levels'[n] = level
  BY FrameFacts
<1>2. /\ \A i \in 1 .. Len(levels) : speech'[i] = speech[i]
      /\ speech'[n] = (level > threshold)
  <2>1. speech' = Append(speech, level > threshold)
    BY DEF Frame
  <2>2. speech \in Seq(BOOLEAN) /\ Len(speech) = Len(levels)
    BY DEF StationTypes
  <2>3. (level > threshold) \in BOOLEAN
    BY MicrophoneAssumption DEF StationTypes
  <2>4. QED
    BY <2>1, <2>2, <2>3, AppendFacts
<1>3. Window \in Nat /\ Warm \in Nat \ {0}
  BY MicrophoneAssumption
<1>4. ASSUME NEW m \in 1 .. n, NEW S PROVE ShareOf(levels', S, m) = ShareOf(levels, S, m)
  <2>1. \A k \in Before(m) : k \in 1 .. Len(levels)
    BY <1>1, <1>3 DEF Before, AtLeast
  <2>2. {k \in Before(m) : levels'[k] \in S} = {k \in Before(m) : levels[k] \in S}
    BY <1>1, <2>1
  <2>3. QED
    BY <2>2 DEF ShareOf
<1>5. ASSUME NEW m \in 1 .. Len(levels) PROVE RightAt(levels', speech', m)
  <2>1. RightAt(levels, speech, m)
    BY <1>1, AdaptsAt
  <2>2. levels'[m] = levels[m] /\ speech'[m] = speech[m]
    BY <1>1, <1>2
  <2>3. m \in 1 .. n
    BY <1>1
  <2>4. \A S : ShareOf(levels', S, m) = ShareOf(levels, S, m)
    BY <1>4, <2>3
  <2>5. QED
    BY <2>1, <2>2, <2>4 DEF RightAt
<1>6. RightAt(levels', speech', n)
  <2>1. SUFFICES ASSUME Cardinality(Before(n)) >= Warm PROVE RightAt(levels', speech', n)
    BY DEF RightAt
  <2>2. history \in Seq(Levels) /\ Cardinality(Before(n)) = Len(history)
    BY ShareOfHistory DEF StationTypes
  <2>3. Len(history) >= Warm /\ Len(history) >= 1
    BY <1>3, <2>1, <2>2, LevelFacts
  <2>4. threshold = AtMost(AtLeast(2 * NoiseFloor(history), Low), High)
    BY <2>3 DEF Adapted
  <2>5. {i \in DOMAIN history : history[i] \in Half(level)} =
          {i \in DOMAIN history : 2 * history[i] < level}
    BY <2>2, LevelFacts DEF Half
  <2>6. {i \in DOMAIN history : history[i] \in Equal(level)} =
          {i \in DOMAIN history : history[i] >= level}
    BY <2>2, LevelFacts DEF Equal
  <2>7. /\ ShareOf(levels, Half(level), n) =
             Cardinality({i \in DOMAIN history : 2 * history[i] < level})
        /\ ShareOf(levels, Equal(level), n) =
             Cardinality({i \in DOMAIN history : history[i] >= level})
    BY <2>5, <2>6, ShareOfHistory DEF ShareOf
  <2>8. /\ level > Low /\ ShareOf(levels, Half(level), n) > Len(history) \div 4
             => level > threshold
        /\ level <= High
             /\ ShareOf(levels, Equal(level), n) >= Len(history) - Len(history) \div 4
             => ~(level > threshold)
    BY <2>2, <2>3, <2>4, <2>7, Judged
  <2>9. n \in 1 .. n
    BY <1>1
  <2>10. \A S : ShareOf(levels', S, n) = ShareOf(levels, S, n)
    BY <1>4, <2>9
  <2>11. QED
    BY <1>1, <1>2, <2>2, <2>8, <2>10 DEF RightAt
<1>7. \A m \in 1 .. n : RightAt(levels', speech', m)
  BY <1>1, <1>5, <1>6
<1>8. Adapts' <=> \A m \in DOMAIN levels' : RightAt(levels', speech', m)
  BY DEF Adapts, RightAt, ShareOf, Share, Half, Equal, Before
<1>9. QED
  BY <1>1, <1>7, <1>8

-----------------------------------------------------------------------------
(* The theorems *)

IInv ==
  /\ CaptureTypes /\ Delivered
  /\ StationTypes /\ Remembered /\ Adapted /\ Counted /\ Unwarned /\ Adapts /\ WarnsOnce

LEMMA IInvInit == Init => IInv
<1> SUFFICES ASSUME Init PROVE IInv
  OBVIOUS
<1>1. CaptureTypes /\ Delivered
  BY DEF Init, CaptureTypes, Delivered
<1>2. /\ levels = <<>> /\ history = <<>> /\ Len(levels) = 0 /\ DOMAIN levels = {}
      /\ speech = <<>> /\ Len(speech) = 0
  BY DEF Init
<1>3. Window \in Nat /\ Warm \in Nat \ {0} /\ Patience \in Nat \ {0}
  BY MicrophoneAssumption
<1>4. StationTypes
  <2>1. history \in Seq(Levels) /\ levels \in Seq(Levels) /\ speech \in Seq(BOOLEAN)
    BY <1>2
  <2>2. threshold = Threshold /\ zeros = 0 /\ warned = FALSE /\ warnings = {}
    BY DEF Init
  <2>3. Len(history) <= Window /\ Len(speech) = Len(levels)
    BY <1>2, <1>3
  <2>4. show_levels \in BOOLEAN
    BY DEF Init
  <2>5. QED
    BY <2>1, <2>2, <2>3, <2>4 DEF StationTypes
<1>5. Remembered /\ Adapted
  BY <1>2, <1>3 DEF Remembered, Adapted, Size, AtMost
<1>6. Counted /\ Unwarned
  BY <1>2, <1>3 DEF Init, Counted, Unwarned
<1>7. Adapts /\ WarnsOnce
  BY <1>2 DEF Adapts, WarnsOnce
<1>8. QED
  BY <1>1, <1>4, <1>5, <1>6, <1>7 DEF IInv

(* The source's own steps leave the detector's station alone. *)
LEMMA StationUnchanged ==
  ASSUME IInv, UNCHANGED <<show_levels, station>>
  PROVE  /\ StationTypes' /\ Remembered' /\ Adapted' /\ Counted' /\ Unwarned'
         /\ Adapts' /\ WarnsOnce'
<1>1. StationTypes' /\ Adapted' /\ Counted' /\ Unwarned'
  BY DEF IInv, station, StationTypes, Adapted, Counted, Unwarned
<1>2. Remembered'
  BY DEF IInv, station, Remembered, Size
<1>3. Adapts'
  BY DEF IInv, station, Adapts, Share, Before
<1>4. WarnsOnce'
  BY DEF IInv, station, WarnsOnce
<1>5. QED
  BY <1>1, <1>2, <1>3, <1>4

LEMMA IInvStep == IInv /\ [Next]_vars => IInv'
<1> SUFFICES ASSUME IInv, [Next]_vars PROVE IInv'
  OBVIOUS
<1>1. CASE Start \/ StartFails \/ Alive \/ Doubt \/ Replace \/ ReplaceFails \/ Stop
  <2>1. UNCHANGED <<show_levels, station>>
    BY <1>1 DEF Start, StartFails, Alive, Doubt, Replace, ReplaceFails, Stop
  <2>2. QED
    BY <1>1, <2>1, SourceStep, StationUnchanged DEF IInv
<1>2. ASSUME NEW level \in Levels, Callback(level) PROVE IInv'
  <2>1. UNCHANGED <<show_levels, station>>
    BY <1>2 DEF Callback
  <2>2. QED
    BY <1>2, <2>1, CallbackStep, StationUnchanged DEF IInv
<1>3. ASSUME NEW level \in Levels, Frame(level) PROVE IInv'
  BY <1>3, FrameTakes, FrameTypes, FrameRemembers, FrameWatched, FrameAdapts
     DEF IInv
<1>4. CASE UNCHANGED vars
  <2>1. UNCHANGED <<show_levels, station>> /\ UNCHANGED capture /\ UNCHANGED taken
    BY <1>4 DEF vars
  <2>2. CaptureTypes' /\ Delivered'
    BY <2>1 DEF IInv, capture, CaptureTypes, Delivered, Row
  <2>3. QED
    BY <2>1, <2>2, StationUnchanged DEF IInv
<1>5. QED
  BY <1>1, <1>2, <1>3, <1>4 DEF Next

LEMMA IInvCorrect == Spec => []IInv
<1>1. Init => IInv
  BY IInvInit
<1>2. IInv /\ [Next]_vars => IInv'
  BY IInvStep
<1>3. QED
  BY <1>1, <1>2, PTL DEF Spec

(* CpalAudioSource and VadStation: the adapted threshold stays within its   *)
(* limits (a noise floor exists whatever the levels are), the history       *)
(* within its window.                                                       *)
THEOREM TypeCorrect == Spec => []TypeOK
<1>1. IInv => TypeOK
  BY DEF IInv, CaptureTypes, StationTypes, Samples, Id, TypeOK
<1>2. QED
  BY <1>1, IInvCorrect, PTL

(* The callback, the retries of start() and the polling thread: every       *)
(* sample of the stream that stays is handed on once and in order, whatever *)
(* an abandoned stream still delivered.                                     *)
THEOREM SamplesKept == Spec => []SamplesOnce
<1>1. IInv => SamplesOnce
  BY DEF IInv, Delivered, Ids, Row, SamplesOnce
<1>2. QED
  BY <1>1, IInvCorrect, PTL

(* VadStation's adapt_threshold: what stands out of the last window is      *)
(* speech, and noise that lasts is not, for every scale of loudness, window *)
(* and limits of the threshold.                                             *)
THEOREM ThresholdAdapts == Spec => []Adapts
<1>1. IInv => Adapts
  BY DEF IInv
<1>2. QED
  BY <1>1, IInvCorrect, PTL

(* check_no_audio under show_levels: one warning for every time without a   *)
(* signal that lasts, at the frame at which it has lasted long enough, and  *)
(* no warning at all at the default verbosity.                              *)
THEOREM OneWarning == Spec => []WarnsOnce
<1>1. IInv => WarnsOnce
  BY DEF IInv
<1>2. QED
  BY <1>1, IInvCorrect, PTL
=============================================================================
