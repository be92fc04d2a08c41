------------------------- MODULE SegmentationProofs -------------------------
(***************************************************************************)
(* Theorems about Segmentation, for any durations, table of gaps, sound    *)
(* and lateness of the stations:                                           *)
(*   TypeCorrect      the type invariant                                   *)
(*   NoSpeechLost     every word is in one chunk, with its lead-in         *)
(*   CutsAtPauses     stations that keep up cut in pauses                  *)
(*   ChunksInTime     stations that keep up hold no chunk back             *)
(***************************************************************************)
EXTENDS Segmentation, FiniteSetTheorems, WellFoundedInduction, TLAPS

-----------------------------------------------------------------------------
(* The inductive invariants *)

Types ==
  /\ heard \in Seq(BOOLEAN) /\ speech \in Seq(BOOLEAN)
  /\ vad \in [state : {"idle", "speaking", "maybe", "stopped"},
             talk : Nat \cup {None}, quiet : Nat \cup {None}]
  /\ event \in {"start", "speech", "silence", "end"}
  /\ fed \in Nat /\ fed <= Len(speech) /\ Len(speech) <= Len(heard)
  /\ quietSince \in Nat \cup {None} /\ talkSince \in Nat \cup {None}
  /\ pre \in Seq(Nat) /\ Len(pre) <= PreSpeech
  /\ buffer \in Seq(Nat) /\ chunks \in Seq(Seq(Nat) \ {<<>>})
  /\ late \in BOOLEAN /\ over \in BOOLEAN

(* The detector marks exactly the loud frames, whatever it makes of them.   *)
Marked == \A n \in 1..Len(speech) : speech[n] = heard[n]

(* The pause that is required of a chunk of duration d. *)
Gap(d) == AtLeast(RequiredGap(d), PostSpeech)
Fewer(a, b) == IF a < b THEN a ELSE b

(* In sound h, of which m frames are fed, p is an unbroken run of frames    *)
(* behind frame b, f is its first loud frame and l its last one, and it has *)
(* the lead-in that f deserves.                                             *)
Piece(h, m, p, b, f, l) ==
  /\ p \in Seq(Nat) /\ p # <<>> /\ b \in Nat /\ b < p[1]
  /\ \A k \in 1..Len(p) : p[k] = p[1] + k - 1
  /\ f \in Nat /\ l \in Nat
  /\ p[1] <= f /\ f <= l /\ l <= Last(p) /\ Last(p) <= m
  /\ h[f] /\ h[l]
  /\ \A n \in p[1]..(f - 1) : ~h[n]
  /\ \A n \in (l + 1)..Last(p) : ~h[n]
  /\ f - p[1] = Fewer(PreSpeech, f - b - 1)

(* What holds of an emitted piece from a station that keeps up.             *)
InTime(p, f, l) ==
  /\ Last(p) - f <= MaxChunk
  /\ Last(p) - l <= AtLeast(InitialGap, PostSpeech) + 1
AtPause(p, f, l) ==
  Last(p) - f >= MaxChunk \/ Last(p) - l > Gap(Last(p) - f)

(* The last frame of a chunk, 0 before the first. *)
End(i) == IF i = 0 THEN 0 ELSE Last(chunks[i])
Behind == End(Len(chunks))

ChunkAt(i) ==
  \E f, l \in Nat :
    /\ Piece(heard, fed, chunks[i], End(i - 1), f, l)
    /\ ~late => InTime(chunks[i], f, l) /\ (IsCut(i) => AtPause(chunks[i], f, l))

Chunked == \A i \in 1..Len(chunks) : ChunkAt(i)

(* While a chunk grows the two clocks of the chunker agree with its frames: *)
(* it began with its first loud frame, the silence with the one after the   *)
(* last, and the chunk was not due to be emitted.                           *)
Growing ==
  buffer # <<>> =>
    /\ pre = <<>> /\ Last(buffer) = fed
    /\ \E f, l \in Nat :
         /\ Piece(heard, fed, buffer, Behind, f, l)
         /\ ~late =>
              /\ talkSince = f
              /\ quietSince = IF l = fed THEN None ELSE l + 1
              /\ fed - f < MaxChunk
              /\ fed - l <= Gap(fed - f)

(* While none grows, the frames since the last were silent, and the newest  *)
(* are in the ring buffer.                                                  *)
Waiting ==
  /\ Behind \in Nat /\ Behind <= fed
  /\ buffer = <<>> =>
       /\ Len(pre) = Fewer(PreSpeech, fed - Behind)
       /\ \A k \in 1..Len(pre) : pre[k] = fed - Len(pre) + k
       /\ \A n \in (Behind + 1)..fed : ~heard[n]

Covered ==
  \A n \in 1..fed : heard[n] =>
    n \in ToSet(buffer) \/ \E i \in 1..Len(chunks) : n \in ToSet(chunks[i])

IInv == Types /\ Marked /\ Chunked /\ Growing /\ Waiting /\ Covered

-----------------------------------------------------------------------------
(* The table of gaps *)

(* Every set of naturals that is not empty has a least member.              *)
LEMMA Least ==
  ASSUME NEW T \in SUBSET Nat, T # {}
  PROVE  \E x \in T : \A y \in T : x <= y
<1> DEFINE U == {1 .. n : n \in T}
<1>1. U \subseteq FiniteSubsetsOf(Nat) /\ U # {}
  <2>1. \A n \in T : 1 .. n \in SUBSET Nat /\ IsFiniteSet(1 .. n)
    BY FS_Interval
  <2>2. QED
    BY <2>1 DEF FiniteSubsetsOf
<1>2. IsWellFoundedOn(StrictSubsetOrdering(Nat), FiniteSubsetsOf(Nat))
  BY FS_StrictSubsetOrderingWellFounded
<1>3. PICK X \in U : \A Y \in U : <<Y, X>> \notin StrictSubsetOrdering(Nat)
  BY <1>1, <1>2, WFMin
<1>4. PICK x \in T : X = 1 .. x
  BY <1>3
<1>5. ASSUME NEW y \in T, y < x PROVE FALSE
  <2>1. 1 .. y \in U /\ 1 .. y \subseteq 1 .. x /\ x \in 1 .. x /\ x \notin 1 .. y
    BY <1>5
  <2>2. <<1 .. y, 1 .. x>> \in StrictSubsetOrdering(Nat)
    BY <2>1 DEF StrictSubsetOrdering
  <2>3. QED
    BY <1>3, <1>4, <2>1, <2>2
<1>6. QED
  BY <1>5

(* Between two points of the table the gap is one between theirs. *)
LEMMA BetweenFacts ==
  ASSUME NEW a \in Nat \X (1..InitialGap), NEW b \in Nat \X (1..InitialGap),
         a[1] < b[1], a[2] >= b[2], NEW d \in Nat, a[1] < d
  PROVE  Between(a, b, d) \in Int /\ Between(a, b, d) <= InitialGap
<1>1. /\ a[1] \in Nat /\ b[1] \in Nat /\ a[2] \in Nat /\ b[2] \in Nat
      /\ a[2] <= InitialGap /\ InitialGap \in Nat
  BY TableAssumption
<1> DEFINE x == (a[2] - b[2]) * (d - a[1])
<1> DEFINE m == b[1] - a[1]
<1>2. x \in Nat
  <2>1. a[2] - b[2] \in Nat /\ d - a[1] \in Nat
    BY <1>1
  <2>2. \A y, z \in Nat : y * z \in Nat
    OBVIOUS
  <2>3. QED
    BY <2>1, <2>2
<1>3. m \in Nat \ {0}
  BY <1>1
<1> HIDE DEF x, m
<1>4. x \div m \in Nat
  BY <1>2, <1>3
<1>5. a[2] - x \div m \in Int /\ a[2] - x \div m <= InitialGap
  BY <1>1, <1>4
<1>6. QED
  BY <1>5 DEF Between, x, m

(* calculate_required_gap_static: at least one unit, at most the first gap. *)
LEMMA GapFacts ==
  ASSUME NEW d \in Nat
  PROVE  RequiredGap(d) \in 1..InitialGap
<1> DEFINE after == {i \in 1..(Len(Points) - 1) : d <= Points[i + 1][1]}
<1> DEFINE first == CHOOSE i \in after : \A j \in after : i <= j
<1>1. /\ InitialGap \in Nat /\ MinGap \in 1..InitialGap /\ Len(Points) \in Nat
      /\ \A i \in 1..Len(Points) : Points[i] \in Nat \X (1..InitialGap)
      /\ \A i \in 1..(Len(Points) - 1) :
           Points[i][1] < Points[i + 1][1] /\ Points[i][2] >= Points[i + 1][2]
  BY TableAssumption
<1>2. ASSUME after # {} PROVE first \in 1..(Len(Points) - 1)
  <2>1. after \in SUBSET Nat
    BY <1>1
  <2>2. \E i \in after : \A j \in after : i <= j
    BY <1>2, <2>1, Least
  <2>3. first \in after
    BY <2>2
  <2>4. QED
    BY <2>3
<1> DEFINE gap == IF d <= Points[first][1] THEN Points[first][2]
                  ELSE AtLeast(Between(Points[first], Points[first + 1], d), MinGap)
<1>3. ASSUME after # {} PROVE gap \in 1..InitialGap
  <2>1. /\ first \in 1..Len(Points) /\ first + 1 \in 1..Len(Points)
        /\ first \in 1..(Len(Points) - 1)
    <3>1. first \in 1..(Len(Points) - 1)
      BY <1>2, <1>3
    <3> HIDE DEF first
    <3>2. QED
      BY <1>1, <3>1
  <2> HIDE DEF first
  <2>2. /\ Points[first] \in Nat \X (1..InitialGap)
        /\ Points[first + 1] \in Nat \X (1..InitialGap)
        /\ Points[first][1] < Points[first + 1][1]
        /\ Points[first][2] >= Points[first + 1][2]
    BY <1>1, <2>1
  <2>3. CASE d <= Points[first][1]
    BY <2>2, <2>3
  <2>4. CASE ~(d <= Points[first][1])
    <3>1. Points[first][1] < d
      BY <2>2, <2>4
    <3>2. /\ Between(Points[first], Points[first + 1], d) \in Int
          /\ Between(Points[first], Points[first + 1], d) <= InitialGap
      BY <2>2, <3>1, BetweenFacts
    <3>3. AtLeast(Between(Points[first], Points[first + 1], d), MinGap) \in 1..InitialGap
      BY <1>1, <3>2 DEF AtLeast
    <3>4. QED
      BY <2>4, <3>3
  <2>5. QED
    BY <2>3, <2>4
<1>4. RequiredGap(d) = IF d < Target THEN InitialGap ELSE IF after = {} THEN MinGap ELSE gap
  BY DEF RequiredGap
<1> HIDE DEF after, first, gap
<1>5. InitialGap \in 1..InitialGap
  BY <1>1
<1>6. QED
  BY <1>1, <1>3, <1>4, <1>5

LEMMA RequiredPause ==
  ASSUME NEW d \in Nat
  PROVE  /\ Gap(d) \in Nat \ {0} /\ Gap(d) <= AtLeast(InitialGap, PostSpeech)
         /\ AtLeast(InitialGap, PostSpeech) \in Nat
<1>1. RequiredGap(d) \in Nat /\ 1 <= RequiredGap(d) /\ RequiredGap(d) <= InitialGap
      /\ InitialGap \in Nat
  <2>1. InitialGap \in Nat
    BY TableAssumption
  <2>2. RequiredGap(d) \in 1..InitialGap
    BY GapFacts
  <2>3. QED
    BY <2>1, <2>2
<1>2. PostSpeech \in Nat
  BY SegmentationAssumption
<1>3. QED
  BY <1>1, <1>2 DEF Gap, AtLeast

-----------------------------------------------------------------------------
(* Runs of frames *)

LEMMA AppendFacts ==
  ASSUME NEW S, NEW q \in Seq(S), NEW e \in S
  PROVE  /\ Append(q, e) \in Seq(S) /\ Append(q, e) # <<>>
         /\ Len(Append(q, e)) = Len(q) + 1 /\ Len(q) \in Nat
         /\ DOMAIN q = 1..Len(q) /\ DOMAIN Append(q, e) = 1..Len(q) + 1
         /\ \A i \in 1..Len(q) : Append(q, e)[i] = q[i]
         /\ Append(q, e)[Len(q) + 1] = e
         /\ Last(Append(q, e)) = e
  BY DEF Last

(* The place of frame n in an unbroken run of k frames from frame a. *)
LEMMA Place ==
  ASSUME NEW a \in Nat, NEW k \in Nat, NEW n \in Nat, a <= n, n <= a + k - 1
  PROVE  /\ n - a + 1 \in 1..k /\ n - a + 1 \in Nat
         /\ a + (n - a + 1) - 1 = n
  OBVIOUS

LEMMA Inside ==
  ASSUME NEW a \in Nat, NEW k \in Nat, NEW n \in Nat, NEW i \in Nat
  PROVE  /\ i >= 1 /\ i < n - a + 1 => a + i - 1 \in a..(n - 1)
         /\ i <= k /\ i > n - a + 1 => a + i - 1 \in (n + 1)..(a + k - 1)
  OBVIOUS

(* What a piece tells of its ends. *)
LEMMA PieceEnds ==
  ASSUME NEW p, NEW b, NEW f, NEW l, Piece(heard, fed, p, b, f, l)
  PROVE  /\ Len(p) \in Nat \ {0} /\ p[1] \in Nat /\ Last(p) \in Nat
         /\ Last(p) = p[1] + Len(p) - 1
         /\ \A k \in 1..Len(p) : p[k] \in Nat /\ p[k] = p[1] + k - 1
         /\ f - p[1] + 1 \in 1..Len(p) /\ p[f - p[1] + 1] = f
         /\ l - p[1] + 1 \in 1..Len(p) /\ p[l - p[1] + 1] = l
<1>1. Len(p) \in Nat \ {0} /\ \A k \in 1..Len(p) : p[k] \in Nat
  BY DEF Piece
<1>2. \A k \in 1..Len(p) : p[k] = p[1] + k - 1
  BY DEF Piece
<1>3. Last(p) = p[1] + Len(p) - 1 /\ p[1] \in Nat /\ Last(p) \in Nat
  BY <1>1, <1>2 DEF Last
<1>4. f \in Nat /\ l \in Nat /\ p[1] <= f /\ f <= l /\ l <= Last(p)
  BY DEF Piece
<1>5. f <= p[1] + Len(p) - 1 /\ p[1] <= l /\ l <= p[1] + Len(p) - 1
  BY <1>1, <1>3, <1>4
<1>6. /\ f - p[1] + 1 \in 1..Len(p) /\ p[f - p[1] + 1] = f
      /\ l - p[1] + 1 \in 1..Len(p) /\ p[l - p[1] + 1] = l
  <2>1. /\ f - p[1] + 1 \in 1..Len(p) /\ p[1] + (f - p[1] + 1) - 1 = f
        /\ l - p[1] + 1 \in 1..Len(p) /\ p[1] + (l - p[1] + 1) - 1 = l
    BY <1>1, <1>3, <1>4, <1>5, Place
  <2>2. QED
    BY <1>2, <2>1
<1>7. QED
  BY <1>1, <1>2, <1>3, <1>6

(* The frames of a piece are those from its first to its last. *)
LEMMA PieceFrames ==
  ASSUME NEW p, NEW b, NEW f, NEW l, Piece(heard, fed, p, b, f, l)
  PROVE  \A n : n \in ToSet(p) <=> n \in p[1]..Last(p)
<1>1. /\ Len(p) \in Nat \ {0} /\ p[1] \in Nat /\ Last(p) = p[1] + Len(p) - 1
      /\ \A k \in 1..Len(p) : p[k] = p[1] + k - 1
  BY PieceEnds
<1>2. DOMAIN p = 1..Len(p)
  BY DEF Piece
<1>3. ASSUME NEW n \in ToSet(p) PROVE n \in p[1]..Last(p)
  BY <1>1, <1>2 DEF ToSet
<1>4. ASSUME NEW n \in p[1]..Last(p) PROVE n \in ToSet(p)
  <2>1. n - p[1] + 1 \in 1..Len(p) /\ p[1] + (n - p[1] + 1) - 1 = n
    BY <1>1
  <2>2. p[n - p[1] + 1] = n
    BY <1>1, <2>1
  <2>3. QED
    BY <1>2, <2>1, <2>2 DEF ToSet
<1>5. QED
  BY <1>3, <1>4

(* Talk and Trailing find the first and the last loud frame. *)
LEMMA PieceLoud ==
  ASSUME NEW p, NEW b, NEW f, NEW l, Piece(heard, fed, p, b, f, l)
  PROVE  /\ FirstLoud(p) = f - p[1] + 1
         /\ Talk(p) = Last(p) - f
         /\ Trailing(p) = Last(p) - l
<1> DEFINE I == {i \in 1..Len(p) : heard[p[i]]}
<1> DEFINE x == f - p[1] + 1
<1> DEFINE y == l - p[1] + 1
<1>1. /\ Len(p) \in Nat \ {0} /\ p[1] \in Nat /\ Last(p) = p[1] + Len(p) - 1
      /\ \A k \in 1..Len(p) : p[k] = p[1] + k - 1
      /\ x \in 1..Len(p) /\ p[x] = f /\ y \in 1..Len(p) /\ p[y] = l
  BY PieceEnds
<1>2. /\ f \in Nat /\ l \in Nat /\ heard[f] /\ heard[l]
      /\ \A n \in p[1]..(f - 1) : ~heard[n]
      /\ \A n \in (l + 1)..Last(p) : ~heard[n]
  BY DEF Piece
<1>3. x \in I /\ y \in I
  BY <1>1, <1>2
<1>4. \A i \in I : x <= i /\ i <= y
  <2>1. ASSUME NEW i \in 1..Len(p), i < x PROVE ~heard[p[i]]
    <3>1. p[i] = p[1] + i - 1 /\ i \in Nat /\ i >= 1
      BY <1>1, <2>1
    <3>2. i < f - p[1] + 1
      BY <2>1
    <3> HIDE DEF x
    <3>3. p[1] \in Nat /\ f \in Nat
      BY <1>1, <1>2
    <3>4. p[1] + i - 1 \in p[1]..(f - 1)
      BY <3>1, <3>2, <3>3, Inside
    <3>5. QED
      BY <1>2, <3>1, <3>4
  <2>2. ASSUME NEW i \in 1..Len(p), i > y PROVE ~heard[p[i]]
    <3>1. p[i] = p[1] + i - 1 /\ i \in Nat /\ i <= Len(p)
      BY <1>1, <2>2
    <3>2. i > l - p[1] + 1
      BY <2>2
    <3> HIDE DEF y
    <3>3. p[1] \in Nat /\ l \in Nat /\ Len(p) \in Nat
      BY <1>1, <1>2
    <3>4. p[1] + i - 1 \in (l + 1)..(p[1] + Len(p) - 1)
      BY <3>1, <3>2, <3>3, Inside
    <3>5. QED
      BY <1>1, <1>2, <3>1, <3>4
  <2>3. QED
    BY <1>1, <2>1, <2>2
<1> HIDE DEF x, y
<1>5. Min(I) = x /\ Max(I) = y
  <2>1. I \in SUBSET Nat
    BY <1>1
  <2>2. \A m \in I : (\A i \in I : m <= i) => m = x
    BY <1>3, <1>4, <2>1
  <2>3. \A m \in I : (\A i \in I : m >= i) => m = y
    BY <1>3, <1>4, <2>1
  <2>4. \A i \in I : y >= i
    BY <1>3, <1>4, <2>1
  <2> HIDE DEF I
  <2>5. Min(I) \in I /\ \A i \in I : Min(I) <= i
    BY <1>3, <1>4 DEF Min
  <2>6. Max(I) \in I /\ \A i \in I : Max(I) >= i
    BY <1>3, <2>4 DEF Max
  <2>7. QED
    BY <2>2, <2>3, <2>5, <2>6
<1>6. FirstLoud(p) = x
  BY <1>3, <1>5 DEF FirstLoud, SelectInSeq
<1>7. Trailing(p) = Len(p) - y
  BY <1>3, <1>5 DEF Trailing, SelectLastInSeq
<1>8. Talk(p) = Last(p) - f
  BY <1>1, <1>6 DEF Talk
<1>9. Len(p) - y = Last(p) - l
  BY <1>1, <1>2 DEF y
<1>10. QED
  BY <1>6, <1>7, <1>8, <1>9 DEF x

-----------------------------------------------------------------------------
(* What the steps do with the pieces *)

(* A piece remains one while more is heard and more is fed. *)
LEMMA PieceKept ==
  ASSUME NEW h, NEW g, NEW m \in Nat, NEW k \in Nat, m <= k,
         \A n \in 1..m : g[n] = h[n],
         NEW p, NEW b, NEW f, NEW l, Piece(h, m, p, b, f, l)
  PROVE  Piece(g, k, p, b, f, l)
<1>1. /\ Len(p) \in Nat \ {0} /\ p[1] \in Nat /\ Last(p) \in Nat
  <2>1. Len(p) \in Nat \ {0} /\ \A j \in 1..Len(p) : p[j] \in Nat
    BY DEF Piece
  <2>2. QED
    BY <2>1 DEF Last
<1>2. /\ p \in Seq(Nat) /\ p # <<>> /\ b \in Nat /\ b < p[1]
      /\ \A j \in 1..Len(p) : p[j] = p[1] + j - 1
      /\ f \in Nat /\ l \in Nat
      /\ p[1] <= f /\ f <= l /\ l <= Last(p) /\ Last(p) <= m
      /\ h[f] /\ h[l]
      /\ f - p[1] = Fewer(PreSpeech, f - b - 1)
  BY DEF Piece
<1>3. /\ \A n \in p[1]..(f - 1) : ~h[n]
      /\ \A n \in (l + 1)..Last(p) : ~h[n]
  BY DEF Piece
<1>4. Last(p) <= k
  BY <1>1, <1>2
<1>5. g[f] = h[f] /\ g[l] = h[l]
  <2>1. f \in 1..m /\ l \in 1..m
    BY <1>1, <1>2
  <2>2. QED
    BY <2>1
<1>6. /\ \A n \in p[1]..(f - 1) : n \in 1..m
      /\ \A n \in (l + 1)..Last(p) : n \in 1..m
  BY <1>1, <1>2
<1>7. /\ \A n \in p[1]..(f - 1) : ~g[n]
      /\ \A n \in (l + 1)..Last(p) : ~g[n]
  BY <1>3, <1>6
<1>8. QED
  BY <1>2, <1>4, <1>5, <1>7 DEF Piece

(* A chunk that stays where it is remains one. *)
LEMMA ChunkKept ==
  ASSUME NEW i \in 1..Len(chunks), ChunkAt(i), Types, Types',
         chunks'[i] = chunks[i], End(i - 1)' = End(i - 1),
         \A n \in 1..fed : heard'[n] = heard[n], fed <= fed',
         late => late', IsCut(i)' => IsCut(i)
  PROVE  ChunkAt(i)'
<1>1. PICK f, l \in Nat :
        /\ Piece(heard, fed, chunks[i], End(i - 1), f, l)
        /\ ~late => InTime(chunks[i], f, l) /\ (IsCut(i) => AtPause(chunks[i], f, l))
  BY DEF ChunkAt
<1>2. Piece(heard', fed', chunks[i], End(i - 1), f, l)
  <2> DEFINE p == chunks[i]
  <2> DEFINE b == End(i - 1)
  <2> DEFINE g == heard'
  <2> DEFINE k == fed'
  <2>1. fed \in Nat /\ k \in Nat /\ fed <= k
    BY DEF Types
  <2>2. \A n \in 1..fed : g[n] = heard[n]
    OBVIOUS
  <2>3. Piece(heard, fed, p, b, f, l)
    BY <1>1
  <2> HIDE DEF p, b, g, k
  <2>4. Piece(g, k, p, b, f, l)
    BY <2>1, <2>2, <2>3, PieceKept
  <2>5. QED
    BY <2>4 DEF p, b, g, k
<1>3. Piece(heard', fed', chunks'[i], End(i - 1)', f, l)
  BY <1>2
<1>4. ~late' => InTime(chunks'[i], f, l) /\ (IsCut(i)' => AtPause(chunks'[i], f, l))
  BY <1>1
<1>5. QED
  BY <1>3, <1>4 DEF ChunkAt

(* The newest frames of a sequence, as many as the ring buffer holds. *)
LEMMA NewestFacts ==
  ASSUME NEW q \in Seq(Nat)
  PROVE  /\ Newest(q) \in Seq(Nat)
         /\ Len(Newest(q)) = Fewer(PreSpeech, Len(q))
         /\ \A k \in 1..Len(Newest(q)) : Newest(q)[k] = q[Len(q) - Len(Newest(q)) + k]
<1>1. PreSpeech \in Nat /\ Len(q) \in Nat
  BY SegmentationAssumption
<1>2. CASE Len(q) > PreSpeech
  <2> DEFINE x == Len(q) - PreSpeech + 1
  <2>1. x \in 1..Len(q) + 1 /\ Len(q) - x + 1 = PreSpeech
    BY <1>1, <1>2
  <2>2. Newest(q) = SubSeq(q, x, Len(q))
    BY <1>2 DEF Newest
  <2>3. /\ \A k \in 1..PreSpeech : x + k - 1 \in 1..Len(q)
        /\ \A k \in 1..PreSpeech : x + k - 1 = Len(q) - PreSpeech + k
    BY <1>1, <1>2
  <2> HIDE DEF x
  <2>4. /\ SubSeq(q, x, Len(q)) \in Seq(Nat)
        /\ Len(SubSeq(q, x, Len(q))) = PreSpeech
        /\ \A k \in 1..PreSpeech : SubSeq(q, x, Len(q))[k] = q[x + k - 1]
    BY <1>1, <2>1
  <2>5. Fewer(PreSpeech, Len(q)) = PreSpeech
    BY <1>1, <1>2 DEF Fewer
  <2>6. QED
    BY <2>2, <2>3, <2>4, <2>5
<1>3. CASE ~(Len(q) > PreSpeech)
  <2>1. Newest(q) = q /\ Fewer(PreSpeech, Len(q)) = Len(q)
    BY <1>1, <1>3 DEF Newest, Fewer
  <2>2. \A k \in 1..Len(q) : Len(q) - Len(q) + k = k
    BY <1>1
  <2>3. QED
    BY <2>1, <2>2
<1>4. QED
  BY <1>2, <1>3

(* Begin: a piece is the ring buffer and the first loud frame. *)
LEMMA PieceBegun ==
  ASSUME NEW h, NEW m \in Nat, NEW b \in Nat, b <= m, NEW q \in Seq(Nat),
         Len(q) = Fewer(PreSpeech, m - b),
         \A k \in 1..Len(q) : q[k] = m - Len(q) + k,
         \A n \in (b + 1)..m : ~h[n], h[m + 1]
  PROVE  Piece(h, m + 1, Append(q, m + 1), b, m + 1, m + 1)
<1> DEFINE p == Append(q, m + 1)
<1> DEFINE x == Len(q)
<1>1. PreSpeech \in Nat /\ x \in Nat /\ x <= m - b
  BY SegmentationAssumption DEF Fewer
<1>2. /\ p \in Seq(Nat) /\ p # <<>> /\ Len(p) = x + 1 /\ Last(p) = m + 1
      /\ \A k \in 1..x : p[k] = q[k]
      /\ p[x + 1] = m + 1
  BY m + 1 \in Nat, AppendFacts
<1>3. /\ x = Fewer(PreSpeech, m - b)
      /\ \A k \in 1..x : q[k] = m - x + k
  OBVIOUS
<1> HIDE DEF p, x
<1>4. p[1] = m + 1 - x
  <2>1. CASE x = 0
    BY <1>2, <2>1
  <2>2. CASE x # 0
    <3>1. 1 \in 1..x
      BY <1>1, <2>2
    <3>2. p[1] = m - x + 1
      BY <1>2, <1>3, <3>1
    <3>3. QED
      BY <1>1, <3>2
  <2>3. QED
    BY <2>1, <2>2
<1>5. \A k \in 1..(x + 1) : p[k] = p[1] + k - 1
  <2>1. ASSUME NEW k \in 1..x PROVE p[k] = p[1] + k - 1
    <3>1. p[k] = m - x + k
      BY <1>2, <1>3
    <3>2. QED
      BY <1>1, <1>4, <3>1
  <2>2. p[x + 1] = p[1] + (x + 1) - 1
    BY <1>1, <1>2, <1>4
  <2>3. QED
    BY <1>1, <2>1, <2>2
<1>6. p[1] \in Nat /\ b < p[1] /\ p[1] <= m + 1 /\ (m + 1) - p[1] = x
  BY <1>1, <1>4
<1>7. \A n \in p[1]..((m + 1) - 1) : ~h[n]
  <2>1. \A n \in p[1]..((m + 1) - 1) : n \in (b + 1)..m
    BY <1>6
  <2>2. QED
    BY <2>1
<1>8. (m + 1) - b - 1 = m - b
  OBVIOUS
<1>9. \A n \in ((m + 1) + 1)..(m + 1) : ~h[n]
  OBVIOUS
<1>10. h[m + 1] /\ m + 1 \in Nat
  OBVIOUS
<1>11. Piece(h, m + 1, p, b, m + 1, m + 1)
  BY <1>2, <1>3, <1>5, <1>6, <1>7, <1>8, <1>9, <1>10 DEF Piece
<1>12. QED
  BY <1>11 DEF p

(* Grow and Emit: one frame more, and perhaps a later last loud one. *)
LEMMA PieceGrown ==
  ASSUME NEW h, NEW m \in Nat, NEW p, NEW b, NEW f, NEW l,
         Piece(h, m, p, b, f, l), Last(p) = m
  PROVE  Piece(h, m + 1, Append(p, m + 1), b, f, IF h[m + 1] THEN m + 1 ELSE l)
<1> DEFINE q == Append(p, m + 1)
<1> DEFINE y == IF h[m + 1] THEN m + 1 ELSE l
<1>1. /\ p \in Seq(Nat) /\ p # <<>> /\ b \in Nat /\ b < p[1]
      /\ \A k \in 1..Len(p) : p[k] = p[1] + k - 1
      /\ f \in Nat /\ l \in Nat
      /\ p[1] <= f /\ f <= l /\ l <= m
      /\ h[f] /\ h[l]
      /\ \A n \in p[1]..(f - 1) : ~h[n]
      /\ \A n \in (l + 1)..m : ~h[n]
      /\ f - p[1] = Fewer(PreSpeech, f - b - 1)
  BY DEF Piece
<1>2. Len(p) \in Nat \ {0} /\ p[1] \in Nat /\ p[Len(p)] = m
  BY <1>1 DEF Last
<1>3. m = p[1] + Len(p) - 1
  <2>1. Len(p) \in 1..Len(p)
    BY <1>2
  <2>2. QED
    BY <1>1, <1>2, <2>1
<1>4. /\ q \in Seq(Nat) /\ q # <<>> /\ Len(q) = Len(p) + 1 /\ Last(q) = m + 1
      /\ \A k \in 1..Len(p) : q[k] = p[k]
      /\ q[Len(p) + 1] = m + 1
  <2>1. p \in Seq(Nat) /\ m + 1 \in Nat
    BY <1>1
  <2>2. QED
    BY <2>1, AppendFacts
<1> HIDE DEF q
<1>5. q[1] = p[1]
  BY <1>2, <1>4
<1>6. \A k \in 1..Len(q) : q[k] = q[1] + k - 1
  <2>1. ASSUME NEW k \in 1..Len(p) PROVE q[k] = q[1] + k - 1
    BY <1>1, <1>4, <1>5
  <2>2. q[Len(p) + 1] = q[1] + (Len(p) + 1) - 1
    BY <1>2, <1>3, <1>4, <1>5
  <2>3. \A k \in 1..Len(q) : k \in 1..Len(p) \/ k = Len(p) + 1
    BY <1>2, <1>4
  <2>4. QED
    BY <2>1, <2>2, <2>3
<1>7. /\ y \in Nat /\ f <= y /\ y <= m + 1 /\ h[y]
      /\ \A n \in (y + 1)..(m + 1) : ~h[n]
  <2>1. CASE h[m + 1]
    <3>1. y = m + 1
      BY <2>1
    <3> HIDE DEF y
    <3>2. f <= m + 1 /\ \A n \in ((m + 1) + 1)..(m + 1) : ~h[n]
      BY <1>1
    <3>3. QED
      BY <2>1, <3>1, <3>2
  <2>2. CASE ~h[m + 1]
    <3>1. y = l
      BY <2>2
    <3> HIDE DEF y
    <3>2. \A n \in (l + 1)..(m + 1) : n \in (l + 1)..m \/ n = m + 1
      BY <1>1
    <3>3. \A n \in (l + 1)..(m + 1) : ~h[n]
      BY <1>1, <2>2, <3>2
    <3>4. l <= m + 1
      BY <1>1
    <3>5. QED
      BY <1>1, <3>1, <3>3, <3>4
  <2>3. QED
    BY <2>1, <2>2
<1> HIDE DEF y
<1>8. Piece(h, m + 1, q, b, f, y)
  BY <1>1, <1>4, <1>5, <1>6, <1>7 DEF Piece
<1>9. QED
  BY <1>8 DEF q, y

-----------------------------------------------------------------------------
(* The steps *)

LEMMA InitInv == Init => IInv
<1> SUFFICES ASSUME Init PROVE IInv
  OBVIOUS
<1>1. Types
  <2>1. /\ <<>> \in Seq(BOOLEAN) /\ <<>> \in Seq(Nat) /\ <<>> \in Seq(Seq(Nat) \ {<<>>})
        /\ Len(<<>>) = 0 /\ 0 <= PreSpeech
    BY SegmentationAssumption
  <2>2. Idle \in [state : {"idle", "speaking", "maybe", "stopped"},
                  talk : Nat \cup {None}, quiet : Nat \cup {None}]
    BY DEF Idle
  <2>3. /\ heard \in Seq(BOOLEAN) /\ speech \in Seq(BOOLEAN)
        /\ fed \in Nat /\ fed <= Len(speech) /\ Len(speech) <= Len(heard)
    BY <2>1 DEF Init
  <2>4. /\ pre \in Seq(Nat) /\ Len(pre) <= PreSpeech
        /\ buffer \in Seq(Nat) /\ chunks \in Seq(Seq(Nat) \ {<<>>})
    BY <2>1 DEF Init
  <2>5. /\ quietSince \in Nat \cup {None} /\ talkSince \in Nat \cup {None}
        /\ event \in {"start", "speech", "silence", "end"}
        /\ late \in BOOLEAN /\ over \in BOOLEAN
    BY DEF Init
  <2>6. vad = Idle
    BY DEF Init
  <2>7. QED
    BY <2>2, <2>3, <2>4, <2>5, <2>6 DEF Types
<1>2. Behind = 0
  BY DEF Init, Behind, End
<1>3. Waiting
  BY <1>2, SegmentationAssumption DEF Init, Waiting, Fewer
<1>4. QED
  BY <1>1, <1>3 DEF Init, IInv, Marked, Chunked, Growing, Covered

(* A step that leaves the chunker alone keeps what holds of it. *)
LEMMA ChunkerSteady ==
  ASSUME IInv, Types', UNCHANGED <<chunker, over>>,
         \A n \in 1..fed : heard'[n] = heard[n], late => late'
  PROVE  Chunked' /\ Growing' /\ Waiting' /\ Covered'
<1>1. /\ Types /\ Chunked /\ Growing /\ Waiting /\ Covered
      /\ UNCHANGED <<fed, quietSince, talkSince, pre, buffer, chunks, over>>
  BY DEF IInv, chunker
<1>2. fed \in Nat /\ Behind' = Behind /\ \A i : End(i)' = End(i)
  BY <1>1 DEF Types, Behind, End
<1>3. Chunked'
  <2> SUFFICES ASSUME NEW i \in 1..Len(chunks) PROVE ChunkAt(i)'
    BY <1>1 DEF Chunked
  <2>1. ChunkAt(i)
    BY <1>1 DEF Chunked
  <2>2. IsCut(i)' => IsCut(i)
    BY <1>1 DEF IsCut
  <2>3. End(i - 1)' = End(i - 1) /\ chunks'[i] = chunks[i] /\ fed <= fed'
    BY <1>1, <1>2
  <2>4. QED
    BY <1>1, <2>1, <2>2, <2>3, ChunkKept
<1>4. Growing'
  <2> SUFFICES ASSUME buffer # <<>> PROVE Growing'
    BY <1>1 DEF Growing
  <2>1. PICK f, l \in Nat :
         /\ Piece(heard, fed, buffer, Behind, f, l)
         /\ ~late =>
              /\ talkSince = f
              /\ quietSince = IF l = fed THEN None ELSE l + 1
              /\ fed - f < MaxChunk
              /\ fed - l <= Gap(fed - f)
    BY <1>1 DEF Growing
  <2>2. Piece(heard', fed', buffer', Behind', f, l)
    <3> DEFINE g == heard'
    <3> DEFINE b == Behind
    <3>1. fed \in Nat /\ fed <= fed /\ \A n \in 1..fed : g[n] = heard[n]
      BY <1>2
    <3>2. Piece(heard, fed, buffer, b, f, l)
      BY <2>1
    <3> HIDE DEF g, b
    <3>3. Piece(g, fed, buffer, b, f, l)
      BY <3>1, <3>2, PieceKept
    <3>4. QED
      BY <1>1, <1>2, <3>3 DEF g, b
  <2>3. pre' = <<>> /\ Last(buffer') = fed'
    BY <1>1 DEF Growing
  <2>4. ~late' =>
              /\ talkSince' = f
              /\ quietSince' = IF l = fed' THEN None ELSE l + 1
              /\ fed' - f < MaxChunk
              /\ fed' - l <= Gap(fed' - f)
    BY <1>1, <2>1
  <2>5. QED
    BY <2>2, <2>3, <2>4 DEF Growing
<1>5. Waiting'
  <2>1. Behind' \in Nat /\ Behind' <= fed'
    BY <1>1, <1>2 DEF Waiting
  <2>2. ASSUME buffer' = <<>>
        PROVE  /\ Len(pre') = Fewer(PreSpeech, fed' - Behind')
               /\ \A k \in 1..Len(pre') : pre'[k] = fed' - Len(pre') + k
               /\ \A n \in (Behind' + 1)..fed' : ~heard'[n]
    <3>1. /\ Len(pre) = Fewer(PreSpeech, fed - Behind)
          /\ \A k \in 1..Len(pre) : pre[k] = fed - Len(pre) + k
          /\ \A n \in (Behind + 1)..fed : ~heard[n]
      BY <1>1, <2>2 DEF Waiting
    <3>2. \A n \in (Behind + 1)..fed : n \in 1..fed
      BY <1>2, <2>1
    <3>3. \A n \in (Behind + 1)..fed : ~heard'[n]
      BY <3>1, <3>2
    <3>4. QED
      BY <1>1, <1>2, <3>1, <3>3
  <2>3. QED
    BY <2>1, <2>2 DEF Waiting
<1>6. Covered'
  BY <1>1, <1>2 DEF Covered
<1>7. QED
  BY <1>3, <1>4, <1>5, <1>6

LEMMA RecordStep ==
  ASSUME IInv, NEW loud \in BOOLEAN, Record(loud)
  PROVE  IInv'
<1>1. /\ heard' = Append(heard, loud) /\ UNCHANGED <<detector, chunker, late, over>>
      /\ UNCHANGED <<vad, event, speech, fed, quietSince, talkSince, pre, buffer, chunks>>
      /\ Types /\ Marked
  BY DEF Record, IInv, detector, chunker
<1>2. /\ heard' \in Seq(BOOLEAN) /\ Len(heard') = Len(heard) + 1 /\ Len(heard) \in Nat
      /\ \A i \in 1..Len(heard) : heard'[i] = heard[i]
  BY <1>1, AppendFacts DEF Types
<1>3. Types'
  BY <1>1, <1>2 DEF Types
<1>4. fed \in Nat /\ Len(speech) \in Nat /\ fed <= Len(speech) /\ Len(speech) <= Len(heard)
  BY <1>1 DEF Types
<1>5. /\ \A n \in 1..fed : heard'[n] = heard[n]
      /\ \A n \in 1..Len(speech) : heard'[n] = heard[n]
  BY <1>2, <1>4
<1>6. Marked'
  BY <1>1, <1>5 DEF Marked
<1>7. Chunked' /\ Growing' /\ Waiting' /\ Covered'
  BY <1>1, <1>3, <1>5, ChunkerSteady
<1>8. QED
  BY <1>3, <1>6, <1>7 DEF IInv

(* Vad::process_with_info: a loud frame is speech, a quiet one is not. *)
LEMMA LoudFacts ==
  ASSUME Types
  PROVE  /\ Loud(vad)[1] \in [state : {"idle", "speaking", "maybe", "stopped"},
                               talk : Nat \cup {None}, quiet : Nat \cup {None}]
         /\ Loud(vad)[2] \in {"start", "speech"}
  BY DEF Types, Loud, Speaking, Now

LEMMA QuietFacts ==
  ASSUME Types
  PROVE  /\ Quiet(vad)[1] \in [state : {"idle", "speaking", "maybe", "stopped"},
                                talk : Nat \cup {None}, quiet : Nat \cup {None}]
         /\ Quiet(vad)[2] \in {"silence", "end"}
<1> DEFINE R == [state : {"idle", "speaking", "maybe", "stopped"},
                 talk : Nat \cup {None}, quiet : Nat \cup {None}]
<1>1. vad \in R /\ Now \in Nat /\ vad.state \in {"idle", "speaking", "maybe", "stopped"}
      /\ Idle \in R
  BY DEF Types, Now, Idle
<1>2. CASE vad.state = "speaking"
  BY <1>1, <1>2 DEF Quiet
<1>3. CASE vad.state = "maybe" /\ Elapsed(vad.quiet) >= Silence
  BY <1>1, <1>3 DEF Quiet
<1>4. CASE vad.state = "maybe" /\ ~(Elapsed(vad.quiet) >= Silence)
  BY <1>1, <1>4, SegmentationAssumption DEF Quiet, Elapsed, None
<1>5. CASE vad.state \in {"idle", "stopped"}
  BY <1>1, <1>5 DEF Quiet
<1>6. QED
  BY <1>1, <1>2, <1>3, <1>4, <1>5

LEMMA DetectStep ==
  ASSUME IInv, Detect
  PROVE  IInv'
<1> DEFINE n == Len(speech) + 1
<1> DEFINE r == IF heard[n] THEN Loud(vad) ELSE Quiet(vad)
<1> DEFINE mark == r[2] \in {"start", "speech"}
<1>1. /\ vad' = r[1] /\ event' = r[2] /\ speech' = Append(speech, mark)
      /\ late' = (late \/ n < Now) /\ Len(speech) < Len(heard)
      /\ UNCHANGED <<heard, chunker, over>>
      /\ UNCHANGED <<fed, quietSince, talkSince, pre, buffer, chunks>>
      /\ Types /\ Marked
  BY DEF Detect, IInv, chunker
<1>2. /\ r[1] \in [state : {"idle", "speaking", "maybe", "stopped"},
                    talk : Nat \cup {None}, quiet : Nat \cup {None}]
      /\ r[2] \in {"start", "speech", "silence", "end"}
  BY <1>1, LoudFacts, QuietFacts
<1>3. heard \in Seq(BOOLEAN) /\ speech \in Seq(BOOLEAN) /\ Len(speech) \in Nat
      /\ Len(heard) \in Nat
  BY <1>1 DEF Types
<1>4. mark = heard[n]
  <2>1. heard[n] \in BOOLEAN
    BY <1>1, <1>3
  <2>2. CASE heard[n]
    BY <1>1, <2>2, LoudFacts
  <2>3. CASE ~heard[n]
    <3>1. r[2] \in {"silence", "end"}
      BY <1>1, <2>3, QuietFacts
    <3>2. ~mark
      BY <3>1
    <3>3. QED
      BY <2>1, <2>3, <3>2
  <2>4. QED
    BY <2>1, <2>2, <2>3
<1> HIDE DEF r
<1>5. /\ speech' \in Seq(BOOLEAN) /\ Len(speech') = Len(speech) + 1
      /\ \A i \in 1..Len(speech) : speech'[i] = speech[i]
      /\ speech'[n] = mark
  <2>1. mark \in BOOLEAN
    OBVIOUS
  <2> HIDE DEF mark
  <2>2. QED
    BY <1>1, <1>3, <2>1, AppendFacts
<1> HIDE DEF mark
<1>6. Types'
  <2>1. late' \in BOOLEAN
    BY <1>1 DEF Types
  <2>2. fed' <= Len(speech') /\ Len(speech') <= Len(heard')
    BY <1>1, <1>3, <1>5 DEF Types
  <2>3. QED
    BY <1>1, <1>2, <1>5, <2>1, <2>2 DEF Types
<1>7. Marked'
  BY <1>1, <1>3, <1>4, <1>5 DEF Marked
<1>8. Chunked' /\ Growing' /\ Waiting' /\ Covered'
  BY <1>1, <1>6, ChunkerSteady
<1>9. QED
  BY <1>6, <1>7, <1>8 DEF IInv

(* What every frame does that the chunker takes, whatever becomes of it. *)
LEMMA FeedFacts ==
  ASSUME IInv, Feed
  PROVE  /\ fed \in Nat /\ fed' = fed + 1 /\ fed' \in Nat /\ fed + 1 \in 1..Len(speech)
         /\ heard[fed + 1] \in BOOLEAN /\ speech[fed + 1] = heard[fed + 1]
         /\ quietSince' = QuietSince(heard[fed + 1])
         /\ quietSince' \in Nat \cup {None}
         /\ Now \in Nat /\ late' \in BOOLEAN /\ (late => late')
         /\ ~late' => ~late /\ fed + 1 = Now
         /\ ~over /\ UNCHANGED <<heard, vad, event, speech, over>>
<1>1. Types /\ Marked
  BY DEF IInv
<1>2. /\ fed < Len(speech) /\ ~over /\ quietSince' = QuietSince(speech[fed + 1])
      /\ fed' = fed + 1 /\ late' = (late \/ fed + 1 < Now)
      /\ UNCHANGED <<heard, vad, event, speech, over>>
  BY DEF Feed, detector
<1>3. /\ fed \in Nat /\ Len(speech) \in Nat /\ Len(heard) \in Nat /\ Now \in Nat
      /\ Len(speech) <= Len(heard) /\ Now = Len(heard) /\ heard \in Seq(BOOLEAN)
      /\ late \in BOOLEAN /\ quietSince \in Nat \cup {None}
  BY <1>1 DEF Types, Now
<1>4. fed + 1 \in 1..Len(speech) /\ fed + 1 \in 1..Len(heard)
  BY <1>2, <1>3
<1>5. heard[fed + 1] \in BOOLEAN /\ speech[fed + 1] = heard[fed + 1]
  BY <1>1, <1>3, <1>4 DEF Marked
<1>6. QuietSince(heard[fed + 1]) \in Nat \cup {None}
  BY <1>3, <1>5 DEF QuietSince
<1>7. late' \in BOOLEAN /\ (late => late')
  BY <1>2, <1>3
<1>8. ASSUME ~late' PROVE ~late /\ fed + 1 = Now
  <2>1. ~late /\ ~(fed + 1 < Now)
    BY <1>2, <1>8
  <2>2. QED
    BY <1>3, <1>4, <2>1
<1>9. QED
  BY <1>2, <1>3, <1>4, <1>5, <1>6, <1>7, <1>8

(* What holds of the chunks once a frame is fed that adds none. *)
LEMMA FeedKeepsChunks ==
  ASSUME IInv, Feed, Types', NEW i \in 1..Len(chunks), chunks'[i] = chunks[i],
         End(i - 1)' = End(i - 1)
  PROVE  ChunkAt(i)'
<1>1. Types /\ ChunkAt(i) /\ fed <= fed' /\ ~over
  BY FeedFacts DEF IInv, Chunked
<1>2. IsCut(i)
  BY <1>1 DEF IsCut, Types
<1>3. (\A n \in 1..fed : heard'[n] = heard[n]) /\ (late => late')
  BY FeedFacts
<1>4. QED
  BY <1>1, <1>2, <1>3, ChunkKept

(* The same while the chunks are left alone. *)
LEMMA FeedSteady ==
  ASSUME IInv, Feed, Types', chunks' = chunks
  PROVE  Chunked' /\ Behind' = Behind /\ Behind \in Nat /\ Behind <= fed
<1>1. Behind' = Behind /\ \A i : End(i)' = End(i)
  BY DEF Behind, End
<1>2. ASSUME NEW i \in 1..Len(chunks) PROVE ChunkAt(i)'
  <2>1. chunks'[i] = chunks[i] /\ End(i - 1)' = End(i - 1)
    BY <1>1
  <2>2. QED
    BY <2>1, FeedKeepsChunks
<1>3. Chunked'
  BY <1>2 DEF Chunked
<1>4. QED
  BY <1>1, <1>3 DEF IInv, Waiting

LEMMA WaitStep ==
  ASSUME IInv, Feed, Wait(fed + 1, speech[fed + 1])
  PROVE  IInv'
<1> DEFINE n == fed + 1
<1>1. /\ Types /\ Marked /\ Waiting /\ Covered
      /\ buffer = <<>> /\ pre' = Newest(Append(pre, n))
      /\ UNCHANGED <<talkSince, buffer, chunks>>
  BY DEF IInv, Wait
<1>2. ~heard[n]
  BY FeedFacts DEF Wait
<1>3. fed \in Nat /\ n \in Nat /\ pre \in Seq(Nat) /\ Len(pre) \in Nat /\ PreSpeech \in Nat
  BY <1>1, FeedFacts, SegmentationAssumption DEF Types
<1> DEFINE q == Append(pre, n)
<1>4. /\ q \in Seq(Nat) /\ Len(q) = Len(pre) + 1
      /\ \A k \in 1..Len(pre) : q[k] = pre[k]
      /\ q[Len(pre) + 1] = n
  BY <1>3, AppendFacts
<1> HIDE DEF q
<1>5. /\ pre' \in Seq(Nat) /\ Len(pre') = Fewer(PreSpeech, Len(pre) + 1)
      /\ Len(pre') \in Nat
      /\ \A k \in 1..Len(pre') : pre'[k] = q[Len(q) - Len(pre') + k]
  <2>1. pre' = Newest(q)
    BY <1>1 DEF q
  <2>2. /\ Newest(q) \in Seq(Nat) /\ Len(Newest(q)) = Fewer(PreSpeech, Len(q))
        /\ \A k \in 1..Len(Newest(q)) : Newest(q)[k] = q[Len(q) - Len(Newest(q)) + k]
    BY <1>4, NewestFacts
  <2>3. Len(Newest(q)) \in Nat
    BY <2>2
  <2>4. Fewer(PreSpeech, Len(q)) = Fewer(PreSpeech, Len(pre) + 1)
    BY <1>4
  <2>5. QED
    BY <2>1, <2>2, <2>3, <2>4
<1>6. Types'
  <2>1. Len(pre') <= PreSpeech
    BY <1>3, <1>5 DEF Fewer
  <2>2. QED
    BY <1>1, <1>5, <2>1, FeedFacts DEF Types
<1>7. Chunked' /\ Behind' = Behind /\ Behind \in Nat /\ Behind <= fed
  BY <1>1, <1>6, FeedSteady
<1>8. Marked'
  BY <1>1, FeedFacts DEF Marked
<1>9. Growing'
  BY <1>1 DEF Growing
<1>10. Waiting'
  <2>1. /\ Len(pre) = Fewer(PreSpeech, fed - Behind)
        /\ \A k \in 1..Len(pre) : pre[k] = fed - Len(pre) + k
        /\ \A j \in (Behind + 1)..fed : ~heard[j]
    BY <1>1 DEF Waiting
  <2>2. Len(pre') = Fewer(PreSpeech, n - Behind)
    BY <1>3, <1>5, <1>7, <2>1 DEF Fewer
  <2>3. \A k \in 1..(Len(pre) + 1) : q[k] = n - (Len(pre) + 1) + k
    <3>1. \A k \in 1..Len(pre) : q[k] = n - (Len(pre) + 1) + k
      BY <1>3, <1>4, <2>1
    <3>2. q[Len(pre) + 1] = n - (Len(pre) + 1) + (Len(pre) + 1)
      BY <1>3, <1>4
    <3>3. \A k \in 1..(Len(pre) + 1) : k \in 1..Len(pre) \/ k = Len(pre) + 1
      BY <1>3
    <3>4. QED
      BY <3>1, <3>2, <3>3
  <2>4. ASSUME NEW k \in 1..Len(pre') PROVE pre'[k] = n - Len(pre') + k
    <3>1. Len(pre') <= Len(pre) + 1
      BY <1>3, <1>5 DEF Fewer
    <3> DEFINE x == (Len(pre) + 1) - Len(pre') + k
    <3>2. x \in 1..(Len(pre) + 1)
      BY <1>3, <1>5, <3>1
    <3>3. pre'[k] = q[x]
      BY <1>4, <1>5
    <3>4. q[x] = n - (Len(pre) + 1) + x
      BY <2>3, <3>2
    <3>5. n - (Len(pre) + 1) + x = n - Len(pre') + k
      BY <1>3, <1>5
    <3>6. QED
      BY <3>3, <3>4, <3>5
  <2>5. \A j \in (Behind + 1)..n : ~heard[j]
    <3>1. \A j \in (Behind + 1)..n : j \in (Behind + 1)..fed \/ j = n
      BY <1>3, <1>7
    <3>2. QED
      BY <1>2, <2>1, <3>1
  <2>6. Behind <= n /\ fed' = n /\ heard' = heard
    BY <1>3, <1>7, FeedFacts
  <2> HIDE DEF n
  <2>7. QED
    BY <1>7, <2>2, <2>4, <2>5, <2>6 DEF Waiting
<1>11. Covered'
  <2>1. \A j \in 1..n : j \in 1..fed \/ j = n
    BY <1>3
  <2>2. QED
    BY <1>1, <1>2, <2>1, FeedFacts DEF Covered
<1>12. QED
  BY <1>6, <1>7, <1>8, <1>9, <1>10, <1>11 DEF IInv

LEMMA BeginStep ==
  ASSUME IInv, Feed, Begin(fed + 1, speech[fed + 1])
  PROVE  IInv'
<1> DEFINE n == fed + 1
<1>1. /\ Types /\ Marked /\ Waiting /\ Covered
      /\ buffer = <<>> /\ buffer' = Append(pre, n) /\ pre' = <<>> /\ talkSince' = Now
      /\ chunks' = chunks
  BY DEF IInv, Begin
<1>2. heard[n]
  BY FeedFacts DEF Begin
<1>3. fed \in Nat /\ n \in Nat /\ pre \in Seq(Nat) /\ Len(pre) \in Nat /\ PreSpeech \in Nat
  BY <1>1, FeedFacts, SegmentationAssumption DEF Types
<1>4. /\ buffer' \in Seq(Nat) /\ buffer' # <<>> /\ Last(buffer') = n
      /\ Len(buffer') = Len(pre) + 1 /\ buffer'[Len(pre) + 1] = n
  BY <1>1, <1>3, AppendFacts
<1>5. Types'
  <2>1. pre' \in Seq(Nat) /\ Len(pre') <= PreSpeech
    BY <1>1, <1>3
  <2>2. talkSince' \in Nat \cup {None}
    BY <1>1, FeedFacts
  <2>3. QED
    BY <1>1, <1>4, <2>1, <2>2, FeedFacts DEF Types
<1>6. Chunked' /\ Behind' = Behind /\ Behind \in Nat /\ Behind <= fed
  BY <1>1, <1>5, FeedSteady
<1>7. Marked'
  BY <1>1, FeedFacts DEF Marked
<1>8. Piece(heard, n, buffer', Behind, n, n)
  <2>1. /\ Len(pre) = Fewer(PreSpeech, fed - Behind)
        /\ \A k \in 1..Len(pre) : pre[k] = fed - Len(pre) + k
        /\ \A j \in (Behind + 1)..fed : ~heard[j]
    BY <1>1 DEF Waiting
  <2> DEFINE b == Behind
  <2>2. /\ b \in Nat /\ b <= fed /\ Len(pre) = Fewer(PreSpeech, fed - b)
        /\ \A j \in (b + 1)..fed : ~heard[j]
    BY <1>6, <2>1
  <2> HIDE DEF b
  <2>3. Piece(heard, fed + 1, Append(pre, fed + 1), b, fed + 1, fed + 1)
    BY <1>2, <1>3, <2>1, <2>2, PieceBegun
  <2>4. QED
    BY <1>1, <2>3 DEF b
<1>9. Growing'
  <2>1. Piece(heard', fed', buffer', Behind', n, n)
    BY <1>6, <1>8, FeedFacts
  <2>2. ASSUME ~late'
        PROVE  /\ talkSince' = n /\ quietSince' = None
               /\ n - n < MaxChunk /\ n - n <= Gap(n - n)
    <3>1. talkSince' = n
      BY <1>1, <2>2, FeedFacts
    <3>2. quietSince' = None
      BY <1>2, FeedFacts DEF QuietSince
    <3>3. n - n = 0 /\ MaxChunk \in Nat \ {0}
      BY <1>3, SegmentationAssumption
    <3>4. Gap(0) \in Nat
      BY RequiredPause
    <3>5. QED
      BY <3>1, <3>2, <3>3, <3>4
  <2>3. n \in Nat /\ fed' = n
    BY <1>3, FeedFacts
  <2> HIDE DEF n
  <2>4. QED
    BY <1>1, <1>4, <2>1, <2>2, <2>3 DEF Growing
<1>10. Waiting'
  <2>1. Behind <= fed'
    BY <1>3, <1>6, FeedFacts
  <2>2. QED
    BY <1>4, <1>6, <2>1 DEF Waiting
<1>11. Covered'
  <2>1. \A j \in 1..n : j \in 1..fed \/ j = n
    BY <1>3
  <2>2. n \in ToSet(buffer')
    <3>1. Len(pre) + 1 \in DOMAIN buffer'
      BY <1>3, <1>4
    <3>2. QED
      BY <1>4, <3>1 DEF ToSet
  <2>3. buffer = <<>> => ToSet(buffer) = {}
    BY DEF ToSet
  <2>4. QED
    BY <1>1, <2>1, <2>2, <2>3, FeedFacts DEF Covered
<1>12. QED
  BY <1>5, <1>6, <1>7, <1>9, <1>10, <1>11 DEF IInv

(* The growing chunk with one frame more, and what its clocks say of it. *)
Extended(f, l) ==
  /\ Piece(heard, fed + 1, Append(buffer, fed + 1), Behind, f, l)
  /\ f <= fed + 1 /\ l <= fed + 1
  /\ ~late' =>
       /\ talkSince = f /\ Elapsed(talkSince) = (fed + 1) - f
       /\ quietSince' = IF l = fed + 1 THEN None ELSE l + 1
       /\ SilenceSince(quietSince') = IF l = fed + 1 THEN 0 ELSE fed - l
       /\ (fed + 1) - f <= MaxChunk
       /\ (fed + 1) - l <= AtLeast(InitialGap, PostSpeech) + 1

LEMMA OneMore ==
  ASSUME IInv, Feed, buffer # <<>>
  PROVE  \E f, l \in Nat : Extended(f, l)
<1> DEFINE n == fed + 1
<1>1. PICK f, k \in Nat :
        /\ Piece(heard, fed, buffer, Behind, f, k)
        /\ ~late =>
             /\ talkSince = f
             /\ quietSince = IF k = fed THEN None ELSE k + 1
             /\ fed - f < MaxChunk
             /\ fed - k <= Gap(fed - f)
  BY DEF IInv, Growing
<1>2. Last(buffer) = fed
  BY DEF IInv, Growing
<1> DEFINE l == IF heard[n] THEN n ELSE k
<1>3. Piece(heard, n, Append(buffer, n), Behind, f, l)
  <2> DEFINE b == Behind
  <2>1. Piece(heard, fed, buffer, b, f, k) /\ fed \in Nat
    BY <1>1, FeedFacts
  <2> HIDE DEF b
  <2>2. Piece(heard, fed + 1, Append(buffer, fed + 1), b, f,
              IF heard[fed + 1] THEN fed + 1 ELSE k)
    BY <1>2, <2>1, PieceGrown
  <2>3. QED
    BY <2>2 DEF b
<1>4. /\ fed \in Nat /\ n \in Nat /\ f <= k /\ k <= fed /\ heard[n] \in BOOLEAN
      /\ MaxChunk \in Nat \ {0} /\ AtLeast(InitialGap, PostSpeech) \in Nat
  <2>1. f <= k /\ k <= Last(buffer)
    BY <1>1 DEF Piece
  <2>2. QED
    BY <1>2, <2>1, FeedFacts, SegmentationAssumption, RequiredPause
<1>5. l \in Nat /\ f <= n /\ l <= n
  BY <1>4
<1>6. ASSUME ~late'
      PROVE  /\ talkSince = f /\ Elapsed(talkSince) = n - f
             /\ quietSince' = IF l = n THEN None ELSE l + 1
             /\ SilenceSince(quietSince') = IF l = n THEN 0 ELSE fed - l
             /\ n - f <= MaxChunk
             /\ n - l <= AtLeast(InitialGap, PostSpeech) + 1
  <2>1. /\ talkSince = f
        /\ quietSince = IF k = fed THEN None ELSE k + 1
        /\ fed - f < MaxChunk
        /\ fed - k <= Gap(fed - f)
    BY <1>1, <1>6, FeedFacts
  <2>2. heard' = heard /\ Now = n /\ quietSince' = QuietSince(heard[n])
    BY <1>6, FeedFacts
  <2>3. Elapsed(talkSince) = n - f
    BY <2>1, <2>2 DEF Elapsed
  <2>4. n - f <= MaxChunk
    BY <1>4, <2>1
  <2>5. Gap(fed - f) \in Nat /\ Gap(fed - f) <= AtLeast(InitialGap, PostSpeech)
    <3>1. fed - f \in Nat
      BY <1>4
    <3>2. QED
      BY <3>1, RequiredPause
  <2>6. fed - k <= AtLeast(InitialGap, PostSpeech)
    BY <1>4, <2>1, <2>5
  <2>7. n - l <= AtLeast(InitialGap, PostSpeech) + 1
    <3>1. CASE heard[n]
      <4>1. l = n
        BY <3>1
      <4> HIDE DEF l
      <4>2. QED
        BY <1>4, <4>1
    <3>2. CASE ~heard[n]
      <4>1. l = k
        BY <3>2
      <4> HIDE DEF l
      <4>2. QED
        BY <1>4, <2>6, <4>1
    <3>3. QED
      BY <3>1, <3>2
  <2>8. quietSince' = IF l = n THEN None ELSE l + 1
    <3>1. CASE heard[n]
      BY <2>2, <3>1 DEF QuietSince
    <3>2. CASE ~heard[n]
      <4>1. l = k /\ k # n
        BY <1>4, <3>2
      <4>2. quietSince' = IF quietSince = None THEN n ELSE quietSince
        BY <2>2, <3>2 DEF QuietSince
      <4>3. k + 1 # None
        BY <1>1 DEF None
      <4> HIDE DEF l
      <4>4. quietSince' = k + 1
        BY <2>1, <4>2, <4>3
      <4>5. QED
        BY <4>1, <4>4
    <3>3. QED
      BY <3>1, <3>2
  <2>9. SilenceSince(quietSince') = IF l = n THEN 0 ELSE fed - l
    <3>1. CASE l = n
      BY <2>8, <3>1 DEF SilenceSince
    <3>2. CASE l # n
      <4> HIDE DEF l
      <4>1. quietSince' = l + 1 /\ l + 1 # None
        BY <1>5, <2>8, <3>2 DEF None
      <4>2. SilenceSince(quietSince') = n - (l + 1)
        BY <2>2, <4>1 DEF SilenceSince, Elapsed
      <4>3. n - (l + 1) = fed - l
        BY <1>4, <1>5
      <4>4. QED
        BY <3>2, <4>2, <4>3
    <3>3. QED
      BY <3>1, <3>2
  <2>10. QED
    BY <2>1, <2>3, <2>4, <2>7, <2>8, <2>9
<1> HIDE DEF l
<1>7. Extended(f, l)
  BY <1>3, <1>5, <1>6 DEF Extended
<1>8. QED
  BY <1>1, <1>5, <1>7

LEMMA GrowStep ==
  ASSUME IInv, Feed, NEW s, s = SilenceSince(quietSince'), Grow(fed + 1, s)
  PROVE  IInv'
<1> DEFINE n == fed + 1
<1>1. /\ Types /\ Marked /\ Waiting /\ Covered /\ Growing
      /\ buffer # <<>> /\ ~ShouldEmit(s) /\ buffer' = Append(buffer, n)
      /\ UNCHANGED <<talkSince, pre, chunks>>
  BY DEF IInv, Grow
<1>2. fed \in Nat /\ n \in Nat /\ buffer \in Seq(Nat) /\ Len(buffer) \in Nat
  BY <1>1, FeedFacts DEF Types
<1>3. /\ buffer' \in Seq(Nat) /\ buffer' # <<>> /\ Last(buffer') = n
      /\ DOMAIN buffer = 1..Len(buffer) /\ DOMAIN buffer' = 1..Len(buffer) + 1
      /\ \A i \in 1..Len(buffer) : buffer'[i] = buffer[i]
      /\ buffer'[Len(buffer) + 1] = n
  BY <1>1, <1>2, AppendFacts
<1>4. Types'
  BY <1>1, <1>3, FeedFacts DEF Types
<1>5. Chunked' /\ Behind' = Behind /\ Behind \in Nat /\ Behind <= fed
  BY <1>1, <1>4, FeedSteady
<1>6. Marked'
  BY <1>1, FeedFacts DEF Marked
<1>7. Growing'
  <2>1. PICK f, l \in Nat : Extended(f, l)
    BY <1>1, OneMore
  <2>2. Piece(heard', fed', buffer', Behind', f, l)
    BY <1>1, <1>5, <2>1, FeedFacts DEF Extended
  <2>3. ASSUME ~late'
        PROVE  /\ talkSince' = f
               /\ quietSince' = IF l = n THEN None ELSE l + 1
               /\ n - f < MaxChunk
               /\ n - l <= Gap(n - f)
    <3>1. /\ ~(n - f >= MaxChunk) /\ ~(s >= Gap(n - f))
      BY <1>1, <2>1, <2>3 DEF ShouldEmit, Gap, Extended
    <3>2. n - f \in Nat /\ MaxChunk \in Nat
      BY <1>2, <2>1, SegmentationAssumption DEF Extended
    <3>3. Gap(n - f) \in Nat
      BY <3>2, RequiredPause
    <3>4. n - l <= Gap(n - f)
      <4>1. CASE l = n
        BY <1>2, <3>3, <4>1
      <4>2. CASE l # n
        <5>1. s = fed - l /\ fed - l \in Int
          BY <1>2, <2>1, <2>3, <4>2 DEF Extended
        <5>2. fed - l < Gap(n - f)
          BY <3>1, <3>3, <5>1
        <5>3. QED
          BY <1>2, <2>1, <3>3, <5>2
      <4>3. QED
        BY <4>1, <4>2
    <3>5. QED
      BY <1>1, <2>1, <2>3, <3>1, <3>2, <3>4 DEF Extended
  <2>4. fed' = n /\ pre' = <<>>
    BY <1>1, FeedFacts DEF Growing
  <2> HIDE DEF n
  <2>5. QED
    BY <1>3, <2>2, <2>3, <2>4 DEF Growing
<1>8. Waiting'
  <2>1. Behind <= fed'
    BY <1>2, <1>5, FeedFacts
  <2>2. QED
    BY <1>3, <1>5, <2>1 DEF Waiting
<1>9. Covered'
  <2>1. \A j \in 1..n : j \in 1..fed \/ j = n
    BY <1>2
  <2>2. n \in ToSet(buffer') /\ ToSet(buffer) \subseteq ToSet(buffer')
    BY <1>2, <1>3 DEF ToSet
  <2>3. QED
    BY <1>1, <2>1, <2>2, FeedFacts DEF Covered
<1>10. QED
  BY <1>4, <1>5, <1>6, <1>7, <1>8, <1>9 DEF IInv

(* The chunks with one more behind them. *)
LEMMA OneChunkMore ==
  ASSUME Types, NEW piece \in Seq(Nat) \ {<<>>}, chunks' = Append(chunks, piece)
  PROVE  /\ chunks' \in Seq(Seq(Nat) \ {<<>>}) /\ Len(chunks) \in Nat
         /\ Len(chunks') = Len(chunks) + 1 /\ chunks'[Len(chunks) + 1] = piece
         /\ \A i \in 1..Len(chunks) : chunks'[i] = chunks[i] /\ End(i - 1)' = End(i - 1)
         /\ Behind' = Last(piece)
         /\ \A i \in 1..Len(chunks') :
              \/ i \in 1..Len(chunks)
              \/ i = Len(chunks) + 1 /\ chunks'[i] = piece /\ End(i - 1)' = Behind
<1>1. /\ chunks' \in Seq(Seq(Nat) \ {<<>>}) /\ Len(chunks) \in Nat
      /\ Len(chunks') = Len(chunks) + 1 /\ chunks'[Len(chunks) + 1] = piece
      /\ \A i \in 1..Len(chunks) : chunks'[i] = chunks[i]
  <2>1. chunks \in Seq(Seq(Nat) \ {<<>>})
    BY DEF Types
  <2>2. QED
    BY <2>1, AppendFacts
<1>2. \A i \in 0..Len(chunks) : End(i)' = End(i)
  <2>1. \A i \in 0..Len(chunks) : i = 0 \/ i \in 1..Len(chunks)
    BY <1>1
  <2>2. QED
    BY <1>1, <2>1 DEF End
<1>3. \A i \in 1..Len(chunks) : End(i - 1)' = End(i - 1)
  <2>1. \A i \in 1..Len(chunks) : i - 1 \in 0..Len(chunks)
    BY <1>1
  <2>2. QED
    BY <1>2, <2>1
<1>4. ASSUME NEW i, i = Len(chunks) + 1 PROVE End(i - 1)' = Behind
  <2>1. i - 1 = Len(chunks) /\ i - 1 \in 0..Len(chunks)
    BY <1>1, <1>4
  <2>2. End(i - 1)' = End(i - 1)
    BY <1>2, <2>1
  <2>3. End(i - 1) = Behind
    BY <2>1 DEF Behind
  <2>4. QED
    BY <2>2, <2>3
<1>5. Behind' = Last(piece)
  BY <1>1 DEF Behind, End
<1>6. ASSUME NEW i \in 1..Len(chunks'), i \notin 1..Len(chunks)
      PROVE  i = Len(chunks) + 1 /\ chunks'[i] = piece /\ End(i - 1)' = Behind
  <2>1. i = Len(chunks) + 1
    BY <1>1, <1>6
  <2>2. QED
    BY <1>1, <1>4, <2>1
<1>7. QED
  BY <1>1, <1>3, <1>4, <1>5, <1>6

LEMMA EmitStep ==
  ASSUME IInv, Feed, NEW s, s = SilenceSince(quietSince'), Emit(fed + 1, s)
  PROVE  IInv'
<1> DEFINE n == fed + 1
<1> DEFINE piece == Append(buffer, n)
<1>1. /\ Types /\ Marked /\ Waiting /\ Covered /\ Growing
      /\ buffer # <<>> /\ ShouldEmit(s) /\ chunks' = Append(chunks, piece)
      /\ buffer' = <<>> /\ talkSince' = None /\ pre' = pre
  BY DEF IInv, Emit
<1>2. fed \in Nat /\ n \in Nat /\ buffer \in Seq(Nat) /\ Len(buffer) \in Nat
  BY <1>1, FeedFacts DEF Types
<1>3. /\ piece \in Seq(Nat) /\ piece # <<>> /\ Last(piece) = n
      /\ DOMAIN buffer = 1..Len(buffer) /\ DOMAIN piece = 1..Len(buffer) + 1
      /\ \A i \in 1..Len(buffer) : piece[i] = buffer[i]
      /\ piece[Len(buffer) + 1] = n
  BY <1>1, <1>2, AppendFacts
<1>4. PICK f, l \in Nat : Extended(f, l)
  BY <1>1, OneMore
<1>5. ASSUME ~late' PROVE InTime(piece, f, l) /\ AtPause(piece, f, l)
  <2>1. /\ talkSince = f /\ Elapsed(talkSince) = n - f
        /\ s = (IF l = n THEN 0 ELSE fed - l)
        /\ n - f <= MaxChunk
        /\ n - l <= AtLeast(InitialGap, PostSpeech) + 1
        /\ f <= n /\ l <= n
    BY <1>4, <1>5 DEF Extended
  <2>2. n - f \in Nat /\ MaxChunk \in Nat
    BY <1>2, <2>1, SegmentationAssumption
  <2>3. Gap(n - f) \in Nat \ {0}
    BY <2>2, RequiredPause
  <2>4. n - f >= MaxChunk \/ s >= Gap(n - f)
    BY <1>1, <2>1 DEF ShouldEmit, Gap
  <2>5. s >= Gap(n - f) => n - l > Gap(n - f)
    <3>1. CASE l = n
      BY <2>1, <2>3, <3>1
    <3>2. CASE l # n
      <4>1. s = fed - l
        BY <2>1, <3>2
      <4>2. n - l = (fed - l) + 1
        BY <1>2, <2>1
      <4> HIDE DEF n
      <4>3. QED
        BY <1>2, <2>3, <4>1, <4>2
    <3>3. QED
      BY <3>1, <3>2
  <2>6. InTime(piece, f, l)
    BY <1>3, <2>1 DEF InTime
  <2>7. AtPause(piece, f, l)
    BY <1>3, <2>4, <2>5 DEF AtPause
  <2>8. QED
    BY <2>6, <2>7
<1>6. Piece(heard', fed', piece, Behind, f, l)
  BY <1>4, FeedFacts DEF Extended
<1> HIDE DEF piece
<1>7. /\ chunks' \in Seq(Seq(Nat) \ {<<>>}) /\ Len(chunks) \in Nat
      /\ Len(chunks') = Len(chunks) + 1
      /\ \A i \in 1..Len(chunks) : chunks'[i] = chunks[i] /\ End(i - 1)' = End(i - 1)
      /\ Behind' = n
      /\ \A i \in 1..Len(chunks') :
           \/ i \in 1..Len(chunks)
           \/ i = Len(chunks) + 1 /\ chunks'[i] = piece /\ End(i - 1)' = Behind
  <2>1. piece \in Seq(Nat) \ {<<>>}
    BY <1>3
  <2>2. QED
    BY <1>1, <1>3, <2>1, OneChunkMore
<1>8. Types'
  <2>1. talkSince' \in Nat \cup {None} /\ buffer' \in Seq(Nat)
    BY <1>1
  <2>2. QED
    BY <1>1, <1>7, <2>1, FeedFacts DEF Types
<1>9. Marked'
  BY <1>1, FeedFacts DEF Marked
<1>10. Chunked'
  <2> SUFFICES ASSUME NEW i \in 1..Len(chunks') PROVE ChunkAt(i)'
    BY DEF Chunked
  <2>1. CASE i \in 1..Len(chunks)
    BY <1>7, <1>8, <2>1, FeedKeepsChunks
  <2>2. CASE i \notin 1..Len(chunks)
    <3>1. chunks'[i] = piece /\ End(i - 1)' = Behind
      BY <1>7, <2>2
    <3>2. Piece(heard', fed', chunks'[i], End(i - 1)', f, l)
      BY <1>6, <3>1
    <3>3. ~late' => InTime(chunks'[i], f, l) /\ (IsCut(i)' => AtPause(chunks'[i], f, l))
      BY <1>5, <3>1
    <3>4. QED
      BY <3>2, <3>3 DEF ChunkAt
  <2>3. QED
    BY <2>1, <2>2
<1>11. Growing'
  BY <1>1 DEF Growing
<1>12. Waiting'
  <2>1. pre' = <<>>
    BY <1>1 DEF Growing
  <2>2. n - n = 0 /\ PreSpeech \in Nat
    BY <1>2, SegmentationAssumption
  <2>3. Len(pre') = Fewer(PreSpeech, n - n)
    BY <2>1, <2>2 DEF Fewer
  <2>4. /\ \A k \in 1..Len(pre') : pre'[k] = n - Len(pre') + k
        /\ \A j \in (n + 1)..n : ~heard'[j]
    BY <1>2, <2>1
  <2>5. fed' = n
    BY FeedFacts
  <2> HIDE DEF n
  <2>6. QED
    BY <1>2, <1>7, <2>3, <2>4, <2>5 DEF Waiting
<1>13. Covered'
  <2>1. \A j \in 1..n : j \in 1..fed \/ j = n
    BY <1>2
  <2>2. n \in ToSet(piece) /\ ToSet(buffer) \subseteq ToSet(piece)
    BY <1>2, <1>3 DEF ToSet
  <2>3. /\ \A i \in 1..Len(chunks) : i \in 1..Len(chunks') /\ chunks'[i] = chunks[i]
        /\ \E i \in 1..Len(chunks') : chunks'[i] = piece
    BY <1>7
  <2>4. ASSUME NEW j \in 1..n, heard[j]
        PROVE  \E i \in 1..Len(chunks') : j \in ToSet(chunks'[i])
    <3>1. j \in ToSet(piece) \/ \E i \in 1..Len(chunks) : j \in ToSet(chunks[i])
      BY <1>1, <2>1, <2>2, <2>4 DEF Covered
    <3>2. QED
      BY <2>3, <3>1
  <2>5. QED
    BY <2>4, FeedFacts DEF Covered
<1>14. QED
  BY <1>8, <1>9, <1>10, <1>11, <1>12, <1>13 DEF IInv

LEMMA FeedStep ==
  ASSUME IInv, Feed
  PROVE  IInv'
<1>1. quietSince' = QuietSince(speech[fed + 1])
  BY DEF Feed
<1>2. \/ Wait(fed + 1, speech[fed + 1]) \/ Begin(fed + 1, speech[fed + 1])
      \/ Grow(fed + 1, SilenceSince(quietSince')) \/ Emit(fed + 1, SilenceSince(quietSince'))
  BY DEF Feed
<1>3. QED
  BY <1>2, WaitStep, BeginStep, GrowStep, EmitStep

(* Shutdown: what grows becomes the last chunk, which no pause has cut. *)
LEMMA ShutdownStep ==
  ASSUME IInv, Shutdown
  PROVE  IInv'
<1>1. /\ Types /\ Marked /\ Chunked /\ Growing /\ Waiting /\ Covered
      /\ ~over /\ over' = TRUE /\ buffer' = <<>> /\ talkSince' = None
      /\ chunks' = IF buffer = <<>> THEN chunks ELSE Append(chunks, buffer)
      /\ UNCHANGED <<heard, vad, event, speech, fed, quietSince, pre, late>>
  BY DEF IInv, Shutdown, detector
<1>2. /\ fed \in Nat /\ Len(chunks) \in Nat
      /\ fed <= fed' /\ (\A n \in 1..fed : heard'[n] = heard[n]) /\ (late => late')
  BY <1>1 DEF Types
<1>3. /\ talkSince' \in Nat \cup {None} /\ buffer' \in Seq(Nat) /\ over' \in BOOLEAN
  BY <1>1
<1>4. \A i \in 1..Len(chunks) : IsCut(i)
  BY <1>1, <1>2 DEF IsCut
<1>5. Marked' /\ Growing'
  BY <1>1 DEF Marked, Growing
<1>6. CASE buffer = <<>>
  <2>1. chunks' = chunks /\ Types'
    BY <1>1, <1>3, <1>6 DEF Types
  <2>2. Behind' = Behind /\ \A i : End(i)' = End(i)
    BY <2>1 DEF Behind, End
  <2>3. ASSUME NEW i \in 1..Len(chunks) PROVE ChunkAt(i)'
    <3>1. ChunkAt(i) /\ chunks'[i] = chunks[i] /\ End(i - 1)' = End(i - 1)
      BY <1>1, <2>1, <2>2 DEF Chunked
    <3>2. QED
      BY <1>1, <1>2, <1>4, <2>1, <3>1, ChunkKept
  <2>4. Chunked'
    BY <2>1, <2>3 DEF Chunked
  <2>5. Waiting'
    BY <1>1, <1>6, <2>2 DEF Waiting
  <2>6. Covered'
    BY <1>1, <1>6, <2>1 DEF Covered
  <2>7. QED
    BY <1>5, <2>1, <2>4, <2>5, <2>6 DEF IInv
<1>7. CASE buffer # <<>>
  <2>1. /\ chunks' = Append(chunks, buffer) /\ buffer \in Seq(Nat) \ {<<>>}
        /\ pre = <<>> /\ Last(buffer) = fed
    BY <1>1, <1>7 DEF Types, Growing
  <2>2. /\ chunks' \in Seq(Seq(Nat) \ {<<>>})
        /\ Len(chunks') = Len(chunks) + 1
        /\ chunks'[Len(chunks) + 1] = buffer
        /\ \A i \in 1..Len(chunks) : chunks'[i] = chunks[i] /\ End(i - 1)' = End(i - 1)
        /\ Behind' = fed
        /\ \A i \in 1..Len(chunks') :
             \/ i \in 1..Len(chunks)
             \/ i = Len(chunks) + 1 /\ chunks'[i] = buffer /\ End(i - 1)' = Behind
    BY <1>1, <2>1, OneChunkMore
  <2>3. Types'
    BY <1>1, <1>3, <2>2 DEF Types
  <2>4. PICK f, l \in Nat :
          /\ Piece(heard, fed, buffer, Behind, f, l)
          /\ ~late => fed - f < MaxChunk /\ fed - l <= Gap(fed - f)
    BY <1>1, <1>7 DEF Growing
  <2>5. f <= fed /\ l <= fed
    BY <1>2, <2>1, <2>4 DEF Piece
  <2>6. ASSUME ~late PROVE InTime(buffer, f, l)
    <3>1. fed - f \in Nat /\ MaxChunk \in Nat
      BY <1>2, <2>5, SegmentationAssumption
    <3>2. /\ Gap(fed - f) \in Nat /\ Gap(fed - f) <= AtLeast(InitialGap, PostSpeech)
          /\ AtLeast(InitialGap, PostSpeech) \in Nat
      BY <3>1, RequiredPause
    <3>3. fed - f <= MaxChunk
      BY <2>4, <2>6, <3>1
    <3>4. fed - l <= AtLeast(InitialGap, PostSpeech) + 1
      BY <1>2, <2>4, <2>6, <3>2
    <3>5. QED
      BY <2>1, <3>3, <3>4 DEF InTime
  <2>7. Chunked'
    <3> SUFFICES ASSUME NEW i \in 1..Len(chunks') PROVE ChunkAt(i)'
      BY DEF Chunked
    <3>1. CASE i \in 1..Len(chunks)
      <4>1. ChunkAt(i) /\ chunks'[i] = chunks[i] /\ End(i - 1)' = End(i - 1)
        BY <1>1, <2>2, <3>1 DEF Chunked
      <4>2. QED
        BY <1>1, <1>2, <1>4, <2>3, <3>1, <4>1, ChunkKept
    <3>2. CASE i \notin 1..Len(chunks)
      <4>1. i = Len(chunks) + 1 /\ chunks'[i] = buffer /\ End(i - 1)' = Behind
        BY <2>2, <3>2
      <4>2. Piece(heard', fed', chunks'[i], End(i - 1)', f, l)
        BY <1>1, <2>4, <4>1
      <4>3. ~IsCut(i)'
        BY <1>1, <1>2, <2>2, <4>1 DEF IsCut
      <4>4. ~late' => InTime(chunks'[i], f, l) /\ (IsCut(i)' => AtPause(chunks'[i], f, l))
        BY <1>1, <2>6, <4>1, <4>3
      <4>5. QED
        BY <4>2, <4>4 DEF ChunkAt
    <3>3. QED
      BY <3>1, <3>2
  <2>8. Waiting'
    <3>1. fed - fed = 0 /\ PreSpeech \in Nat
      BY <1>2, SegmentationAssumption
    <3>2. Len(pre') = Fewer(PreSpeech, fed - fed)
      BY <1>1, <2>1, <3>1 DEF Fewer
    <3>3. /\ \A k \in 1..Len(pre') : pre'[k] = fed - Len(pre') + k
          /\ \A j \in (fed + 1)..fed : ~heard'[j]
      BY <1>1, <1>2, <2>1
    <3>4. QED
      BY <1>1, <1>2, <2>2, <3>2, <3>3 DEF Waiting
  <2>9. Covered'
    <3>1. /\ \A i \in 1..Len(chunks) : i \in 1..Len(chunks') /\ chunks'[i] = chunks[i]
          /\ Len(chunks) + 1 \in 1..Len(chunks')
      BY <1>2, <2>2
    <3>2. ASSUME NEW j \in 1..fed, heard[j]
          PROVE  \E i \in 1..Len(chunks') : j \in ToSet(chunks'[i])
      <4>1. CASE j \in ToSet(buffer)
        BY <2>2, <3>1, <4>1
      <4>2. CASE \E i \in 1..Len(chunks) : j \in ToSet(chunks[i])
        BY <3>1, <4>2
      <4>3. QED
        BY <1>1, <3>2, <4>1, <4>2 DEF Covered
    <3>3. QED
      BY <1>1, <3>2 DEF Covered
  <2>10. QED
    BY <1>5, <2>3, <2>7, <2>8, <2>9 DEF IInv
<1>8. QED
  BY <1>6, <1>7

LEMMA Invariance == Spec => []IInv
<1>1. Init => IInv
  BY InitInv
<1>2. IInv /\ [Next]_vars => IInv'
  <2> SUFFICES ASSUME IInv, [Next]_vars PROVE IInv'
    OBVIOUS
  <2>1. ASSUME NEW loud \in BOOLEAN, Record(loud) PROVE IInv'
    BY <2>1, RecordStep
  <2>2. CASE Detect
    BY <2>2, DetectStep
  <2>3. CASE Feed
    BY <2>3, FeedStep
  <2>4. CASE Shutdown
    BY <2>4, ShutdownStep
  <2>5. CASE UNCHANGED vars
    <3>1. /\ UNCHANGED <<heard, vad, event, speech>>
          /\ UNCHANGED <<fed, quietSince, talkSince, pre, buffer, chunks, late, over>>
          /\ UNCHANGED <<chunker, over>>
      BY <2>5 DEF vars, detector, chunker
    <3>2. Types' /\ Marked'
      BY <3>1 DEF IInv, Types, Marked
    <3>3. Chunked' /\ Growing' /\ Waiting' /\ Covered'
      BY <3>1, <3>2, ChunkerSteady
    <3>4. QED
      BY <3>2, <3>3 DEF IInv
  <2>6. QED
    BY <2>1, <2>2, <2>3, <2>4, <2>5 DEF Next
<1>3. QED
  BY <1>1, <1>2, PTL DEF Spec

-----------------------------------------------------------------------------
(* The theorems *)

(* Every frame has one mark, the ring buffer is never larger than its       *)
(* bound, and no chunk is empty (vad.rs, adaptive_chunker.rs).              *)
THEOREM TypeCorrect == Spec => []TypeOK
<1>1. IInv => TypeOK
  BY DEF IInv, Types, TypeOK
<1>2. QED
  BY <1>1, Invariance, PTL

(* All the pieces, the growing one among them. *)
LEMMA AllPieces ==
  ASSUME IInv
  PROVE  /\ DOMAIN Pieces = 1..Len(Pieces) /\ Len(Pieces) \in Nat
         /\ \A i \in 1..Len(chunks) : i \in 1..Len(Pieces) /\ Pieces[i] = chunks[i]
         /\ buffer # <<>> =>
              Len(chunks) + 1 \in 1..Len(Pieces) /\ Pieces[Len(chunks) + 1] = buffer
         /\ \A i \in 1..Len(Pieces) : i > Len(chunks) =>
              i = Len(chunks) + 1 /\ Pieces[i] = buffer /\ buffer # <<>>
         /\ Len(chunks) \in Nat
<1>1. /\ chunks \in Seq(Seq(Nat) \ {<<>>}) /\ buffer \in Seq(Nat) /\ Len(chunks) \in Nat
  BY DEF IInv, Types
<1>2. CASE buffer = <<>>
  BY <1>1, <1>2 DEF Pieces
<1>3. CASE buffer # <<>>
  <2>1. Pieces = Append(chunks, buffer) /\ buffer \in Seq(Nat) \ {<<>>}
    BY <1>1, <1>3 DEF Pieces
  <2>2. /\ DOMAIN Pieces = 1..Len(chunks) + 1 /\ Len(Pieces) = Len(chunks) + 1
        /\ \A i \in 1..Len(chunks) : Pieces[i] = chunks[i]
        /\ Pieces[Len(chunks) + 1] = buffer
    BY <1>1, <2>1, AppendFacts
  <2>3. QED
    BY <1>1, <1>3, <2>2
<1>4. QED
  BY <1>2, <1>3

(* Each of them is an unbroken run behind the one before it. *)
LEMMA EveryPiece ==
  ASSUME IInv, NEW i \in 1..Len(Pieces)
  PROVE  \E f, l \in Nat :
           Piece(heard, fed, Pieces[i], IF i = 1 THEN 0 ELSE Last(Pieces[i - 1]), f, l)
<1>1. Len(chunks) \in Nat /\ Len(Pieces) \in Nat /\ Chunked /\ Growing
  BY AllPieces DEF IInv
<1> DEFINE b == IF i = 1 THEN 0 ELSE Last(Pieces[i - 1])
<1>2. CASE i \in 1..Len(chunks)
  <2>1. PICK f, l \in Nat : Piece(heard, fed, chunks[i], End(i - 1), f, l)
    BY <1>1, <1>2 DEF Chunked, ChunkAt
  <2>2. End(i - 1) = b
    <3>1. CASE i = 1
      BY <3>1 DEF End
    <3>2. CASE i # 1
      <4>1. i - 1 \in 1..Len(chunks) /\ i - 1 # 0
        BY <1>1, <1>2, <3>2
      <4>2. QED
        BY <3>2, <4>1, AllPieces DEF End
    <3>3. QED
      BY <3>1, <3>2
  <2>3. QED
    BY <1>2, <2>1, <2>2, AllPieces
<1>3. CASE i \notin 1..Len(chunks)
  <2>1. i = Len(chunks) + 1 /\ Pieces[i] = buffer /\ buffer # <<>>
    <3>1. i > Len(chunks)
      BY <1>1, <1>3
    <3>2. QED
      BY <3>1, AllPieces
  <2>2. PICK f, l \in Nat : Piece(heard, fed, buffer, Behind, f, l)
    BY <1>1, <2>1 DEF Growing
  <2>3. Behind = b
    <3>1. CASE Len(chunks) = 0
      BY <2>1, <3>1 DEF End, Behind
    <3>2. CASE Len(chunks) # 0
      <4>1. i - 1 = Len(chunks) /\ i # 1 /\ Len(chunks) \in 1..Len(chunks)
        BY <1>1, <2>1, <3>2
      <4>2. Pieces[Len(chunks)] = chunks[Len(chunks)]
        BY <4>1, AllPieces
      <4>3. QED
        BY <3>2, <4>1, <4>2 DEF End, Behind
    <3>3. QED
      BY <3>1, <3>2
  <2>4. QED
    BY <2>1, <2>2, <2>3
<1>4. QED
  BY <1>2, <1>3

LEMMA LeastOfTwo ==
  ASSUME NEW a \in Nat, NEW b \in Nat
  PROVE  Min({a, b}) = Fewer(a, b)
<1> DEFINE T == {a, b}
<1>1. Fewer(a, b) \in T /\ \A y \in T : Fewer(a, b) <= y
  BY DEF Fewer
<1>2. \A x \in T : (\A y \in T : x <= y) => x = Fewer(a, b)
  BY DEF Fewer
<1> HIDE DEF T
<1>3. Min(T) \in T /\ \A y \in T : Min(T) <= y
  BY <1>1 DEF Min
<1>4. Min(T) = Fewer(a, b)
  BY <1>2, <1>3
<1>5. QED
  BY <1>4 DEF T

(* No word is lost: every loud frame the chunker took is in exactly one     *)
(* chunk, chunks are unbroken and in order, and each has its lead-in        *)
(* (AdaptiveChunker::feed and flush).                                       *)
THEOREM NoSpeechLost == Spec => []SpeechKept
<1>1. IInv => SpeechKept
  <2> SUFFICES ASSUME IInv PROVE SpeechKept
    OBVIOUS
  <2>0. Len(Pieces) \in Nat /\ DOMAIN Pieces = 1..Len(Pieces) /\ Covered
    BY AllPieces DEF IInv
  <2>1. ASSUME NEW n \in 1..fed, heard[n]
        PROVE  \E i \in DOMAIN Pieces : n \in ToSet(Pieces[i])
    <3>1. CASE n \in ToSet(buffer)
      <4>1. buffer # <<>>
        BY <3>1 DEF ToSet
      <4>2. QED
        BY <2>0, <3>1, <4>1, AllPieces
    <3>2. CASE \E i \in 1..Len(chunks) : n \in ToSet(chunks[i])
      BY <2>0, <3>2, AllPieces
    <3>3. QED
      BY <2>0, <2>1, <3>1, <3>2 DEF Covered
  <2>2. ASSUME NEW i \in 1..Len(Pieces)
        PROVE  \A k \in 2..Len(Pieces[i]) : Pieces[i][k] = Pieces[i][k - 1] + 1
    <3> DEFINE p == Pieces[i]
    <3> DEFINE b == IF i = 1 THEN 0 ELSE Last(Pieces[i - 1])
    <3>1. PICK f, l \in Nat : Piece(heard, fed, p, b, f, l)
      BY EveryPiece
    <3> HIDE DEF p, b
    <3>2. /\ Len(p) \in Nat \ {0} /\ p[1] \in Nat
          /\ \A k \in 1..Len(p) : p[k] = p[1] + k - 1
      BY <3>1, PieceEnds
    <3>3. ASSUME NEW k \in 2..Len(p) PROVE p[k] = p[k - 1] + 1
      <4>1. k \in 1..Len(p) /\ k - 1 \in 1..Len(p)
        BY <3>2
      <4>2. p[k] = p[1] + k - 1 /\ p[k - 1] = p[1] + (k - 1) - 1
        BY <3>2, <4>1
      <4>3. k \in Nat /\ p[1] \in Nat
        BY <3>2, <4>1
      <4>4. \A a, j \in Nat : a + j - 1 = (a + (j - 1) - 1) + 1
        OBVIOUS
      <4>5. QED
        BY <4>2, <4>3, <4>4
    <3>4. QED
      BY <3>3 DEF p
  <2>3. ASSUME NEW i \in 2..Len(Pieces)
        PROVE  Last(Pieces[i - 1]) < Head(Pieces[i])
    <3> DEFINE p == Pieces[i]
    <3> DEFINE b == IF i = 1 THEN 0 ELSE Last(Pieces[i - 1])
    <3>1. i \in 1..Len(Pieces) /\ b = Last(Pieces[i - 1])
      BY <2>0
    <3>2. PICK f, l \in Nat : Piece(heard, fed, p, b, f, l)
      BY <3>1, EveryPiece
    <3>3. b < p[1]
      BY <3>2 DEF Piece
    <3>4. Head(p) = p[1]
      BY <3>2 DEF Piece
    <3>5. QED
      BY <3>1, <3>3, <3>4
  <2>4. ASSUME NEW i \in 1..Len(Pieces)
        PROVE  LET word == FirstLoud(Pieces[i])
                   before == IF i = 1 THEN 0 ELSE Last(Pieces[i - 1])
               IN  word > 0 /\ word - 1 = Min({PreSpeech, Pieces[i][word] - before - 1})
    <3> DEFINE p == Pieces[i]
    <3> DEFINE b == IF i = 1 THEN 0 ELSE Last(Pieces[i - 1])
    <3>1. PICK f, l \in Nat : Piece(heard, fed, p, b, f, l)
      BY EveryPiece
    <3> HIDE DEF p, b
    <3>2. /\ Len(p) \in Nat \ {0} /\ p[1] \in Nat
          /\ f - p[1] + 1 \in 1..Len(p) /\ p[f - p[1] + 1] = f
      BY <3>1, PieceEnds
    <3>3. FirstLoud(p) = f - p[1] + 1
      BY <3>1, PieceLoud
    <3> DEFINE word == FirstLoud(p)
    <3>4. word \in Nat /\ word > 0 /\ p[word] = f /\ word - 1 = f - p[1]
      BY <3>2, <3>3
    <3>5. f - b - 1 \in Nat /\ f - p[1] = Fewer(PreSpeech, f - b - 1)
      BY <3>1, <3>2 DEF Piece
    <3>6. Min({PreSpeech, f - b - 1}) = Fewer(PreSpeech, f - b - 1)
      BY <3>5, LeastOfTwo, SegmentationAssumption
    <3>7. word > 0 /\ word - 1 = Min({PreSpeech, p[word] - b - 1})
      BY <3>4, <3>5, <3>6
    <3>8. QED
      BY <3>7 DEF p, b
  <2>5. QED
    BY <2>0, <2>1, <2>2, <2>3, <2>4 DEF SpeechKept
<1>2. QED
  BY <1>1, Invariance, PTL

(* Stations that keep up cut no word in two: a chunk of less than the       *)
(* maximum duration ends with the pause its duration requires               *)
(* (AdaptiveChunker::should_emit).                                          *)
THEOREM CutsAtPauses == Spec => []CutInPause
<1>1. IInv => CutInPause
  <2> SUFFICES ASSUME IInv, ~late, NEW i \in 1..Len(chunks), IsCut(i)
               PROVE  \/ Talk(chunks[i]) >= MaxChunk
                      \/ Trailing(chunks[i]) >
                           AtLeast(RequiredGap(Talk(chunks[i])), PostSpeech)
    <3>1. DOMAIN chunks = 1..Len(chunks)
      BY DEF IInv, Types
    <3>2. QED
      BY <3>1 DEF CutInPause
  <2> DEFINE p == chunks[i]
  <2> DEFINE b == End(i - 1)
  <2>1. PICK f, l \in Nat : Piece(heard, fed, p, b, f, l) /\ AtPause(p, f, l)
    BY DEF IInv, Chunked, ChunkAt
  <2> HIDE DEF p, b
  <2>2. Talk(p) = Last(p) - f /\ Trailing(p) = Last(p) - l
    BY <2>1, PieceLoud
  <2>3. Talk(p) >= MaxChunk \/ Trailing(p) > Gap(Talk(p))
    BY <2>1, <2>2 DEF AtPause
  <2>4. QED
    BY <2>3 DEF p, Gap
<1>2. QED
  BY <1>1, Invariance, PTL

(* Stations that keep up hold no chunk back, neither over the maximum       *)
(* duration nor over the longest pause (AdaptiveChunker::should_emit).      *)
THEOREM ChunksInTime == Spec => []NotHeldBack
<1>1. IInv => NotHeldBack
  <2> SUFFICES ASSUME IInv, ~late, NEW i \in 1..Len(Pieces)
               PROVE  /\ Talk(Pieces[i]) <= MaxChunk
                      /\ Trailing(Pieces[i]) <= AtLeast(InitialGap, PostSpeech) + 1
    BY AllPieces DEF NotHeldBack
  <2>1. \E b : \E f, l \in Nat : Piece(heard, fed, Pieces[i], b, f, l) /\ InTime(Pieces[i], f, l)
    <3>1. CASE i \in 1..Len(chunks)
      <4>1. \E f, l \in Nat :
              Piece(heard, fed, chunks[i], End(i - 1), f, l) /\ InTime(chunks[i], f, l)
        BY <3>1 DEF IInv, Chunked, ChunkAt
      <4>2. QED
        BY <3>1, <4>1, AllPieces
    <3>2. CASE i \notin 1..Len(chunks)
      <4>1. i > Len(chunks)
        BY <3>2, AllPieces
      <4>2. Pieces[i] = buffer /\ buffer # <<>>
        BY <4>1, AllPieces
      <4>3. PICK f, l \in Nat :
              /\ Piece(heard, fed, buffer, Behind, f, l) /\ Last(buffer) = fed
              /\ fed - f < MaxChunk /\ fed - l <= Gap(fed - f)
        BY <4>2 DEF IInv, Growing
      <4>4. fed \in Nat /\ f <= fed /\ l <= fed
        BY <4>3 DEF Piece, IInv, Types
      <4>5. fed - f \in Nat /\ MaxChunk \in Nat
        BY <4>4, SegmentationAssumption
      <4>6. /\ Gap(fed - f) \in Nat /\ Gap(fed - f) <= AtLeast(InitialGap, PostSpeech)
            /\ AtLeast(InitialGap, PostSpeech) \in Nat
        BY <4>5, RequiredPause
      <4>7. fed - f <= MaxChunk
        BY <4>3, <4>5
      <4>8. fed - l <= AtLeast(InitialGap, PostSpeech) + 1
        BY <4>3, <4>4, <4>6
      <4>9. InTime(buffer, f, l)
        BY <4>3, <4>7, <4>8 DEF InTime
      <4>10. QED
        BY <4>2, <4>3, <4>9
    <3>3. QED
      BY <3>1, <3>2
  <2> DEFINE p == Pieces[i]
  <2>2. PICK b : \E f, l \in Nat : Piece(heard, fed, p, b, f, l) /\ InTime(p, f, l)
    BY <2>1
  <2>3. PICK f, l \in Nat : Piece(heard, fed, p, b, f, l) /\ InTime(p, f, l)
    BY <2>2
  <2> HIDE DEF p
  <2>4. Talk(p) = Last(p) - f /\ Trailing(p) = Last(p) - l
    BY <2>3, PieceLoud
  <2>5. Talk(p) <= MaxChunk /\ Trailing(p) <= AtLeast(InitialGap, PostSpeech) + 1
    BY <2>3, <2>4 DEF InTime
  <2>6. QED
    BY <2>5 DEF p
<1>2. QED
  BY <1>1, Invariance, PTL
=============================================================================
