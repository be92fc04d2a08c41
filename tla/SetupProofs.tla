----------------------------- MODULE SetupProofs -----------------------------
(***************************************************************************)
(* Theorems about Setup, for any catalog, jobs, machines and number of     *)
(* processes:                                                              *)
(*   TypeCorrect     the type invariant                                    *)
(*   SettingsStay    no setting is lost but by two saves at once or a kill *)
(*   FilesSound      a model file is whole, or known not to be             *)
(*   TuningChoosesWell  auto-tuning saves a model that fits, the best fast  *)
(***************************************************************************)
EXTENDS Setup, FiniteSetTheorems, FunctionTheorems, SequenceTheorems,
        WellFoundedInduction, TLAPS

-----------------------------------------------------------------------------
(* The inductive invariant *)

Contents == [1..Blocks -> {"hole", "good", "bad"}]
Fetches == [file : Names \cup {None}, next : 0..(Blocks + 1), clean : BOOLEAN,
            linked : BOOLEAN]

Types ==
  /\ cfg \in Seq(Config) /\ Len(cfg) <= 1
  /\ disk \in [Names -> Contents \cup {Absent}]
  /\ pc \in [Procs -> Labels]
  /\ job \in [Procs -> Jobs \cup {[cmd |-> None]}]
  /\ conf \in [Procs -> Config]
  /\ fetch \in [Procs -> Fetches]
  /\ opened \in [Procs -> Seq(Names)]
  /\ DOMAIN change = Procs /\ DOMAIN queue = Procs /\ DOMAIN tuning = Procs
  /\ settled \in Config /\ overlap \in BOOLEAN /\ spoilt \in SUBSET Names
  /\ commands \in Nat /\ commands <= MaxCommands
  /\ faults \in Nat /\ faults <= MaxFaults

Busy(p, labels, cmds) == pc[p] \in labels /\ job[p].cmd \in cmds

Transfer == {"fetch", "create", "stream"}
Sessions == {"record", "daemon"}
Tunings == {"tune", "init"}

(* Where each command can be, and what it then has in hand.                 *)
Places(p) ==
  /\ pc[p] \in {"load", "truncate", "write"} => job[p].cmd \in {"set", "use", "tune", "init"}
  /\ pc[p] \in Transfer => job[p].cmd \in {"install"} \cup Tunings \cup Sessions
  /\ pc[p] = "init" => job[p].cmd = "init"
  /\ pc[p] \in {"tune", "bench"} => job[p].cmd \in Tunings
  /\ pc[p] = "pick" => job[p].cmd \in Sessions
  /\ pc[p] \in {"record", "open"} => job[p].cmd = "record"
  /\ pc[p] = "daemon" => job[p].cmd = "daemon"
  /\ pc[p] \in Transfer \cup {"bench", "open"} => fetch[p].file \in Names
  /\ pc[p] = "stream" => fetch[p].next # 0
  /\ pc[p] \in Sessions => opened[p] = <<>>

(* What is to be saved; once the value was accepted it stays acceptable.    *)
Asked(p) ==
  /\ pc[p] \in {"load", "truncate", "write"} /\ change[p].key = "model" =>
       change[p].value \in ModelName
  /\ Saving(p) => Valid(change[p])

(* One saves at a time, or it is noted: then the file, or what is about to  *)
(* be written to it, is all that was asked for.                             *)
Kept1 ==
  ~overlap =>
    /\ \A p, q \in Procs : Saving(p) /\ Saving(q) => p = q
    /\ \A p \in Procs : Saving(p) =>
         conf[p] = [settled EXCEPT ![change[p].key] = change[p].value]
    /\ (\A p \in Procs : ~At(p, "write")) => Effective = settled

(* A file that is not spoilt has one writer, and what the writer has found  *)
(* sound so far is sound in the file.                                       *)
SoFar(p, f) ==
  fetch[p].clean => \A b \in 1..Blocks : b < fetch[p].next => disk[f][b] = "good"

Files ==
  /\ \A p \in Procs, f \in Names : Writing(p, f) => disk[f] # Absent
  /\ \A p \in Procs, f \in Names : Writing(p, f) /\ f \notin spoilt =>
       SoFar(p, f) /\ \A q \in Procs : Writing(q, f) => q = p
  /\ FilesWhole

(* What auto-tuning chose, as TunedWell wants it: n, for the language l on   *)
(* the machine mach, out of V, after the models in slow were tried.         *)
Better(l, V, n) == {m \in V : AdjustedQuality(m, l) > AdjustedQuality(Info(n), l)}
Headroom(l, mach, m) == EstimatedBelow(70, m, Probe(l), mach.rtf)
Room(m, mach) == m.size * 12 < mach.ram * 10 /\ m.size + 100 < mach.disk

Chosen(l, mach, V, slow, n) ==
  /\ l # English => ~Info(n).en
  /\ n \notin slow \/ n = Probe(l)
  /\ n = Probe(l) \/ ((\E m \in V : m.name = n) /\ Room(Info(n), mach))
  /\ \A m \in Better(l, V, n) : m.name \in slow \/ ~Headroom(l, mach, m)

Well(t) == Chosen(t.language, t.machine, t.viable, t.slow, t.stage)

Sorted(q, l) ==
  /\ q \in Seq(Offered)
  /\ \A i, j \in 1..Len(q) : i < j =>
       q[i].name # q[j].name /\ AdjustedQuality(q[i], l) >= AdjustedQuality(q[j], l)

(* Models q are still to try after f: those of V that were neither too slow *)
(* nor without headroom, none of them better than f.                        *)
Trying(l, mach, V, slow, f, q) ==
  /\ V \subseteq Offered
  /\ \A m \in V : (l # English => ~m.en) /\ Room(m, mach)
  /\ f \notin slow /\ \E m \in V : m.name = f
  /\ Sorted(q, l)
  /\ \A i \in 1..Len(q) :
       /\ q[i] \in V /\ q[i].name \notin slow \cup {f}
       /\ AdjustedQuality(q[i], l) <= AdjustedQuality(Info(f), l)
  /\ \A m \in V :
       m.name \in slow \cup {f} \/ ~Headroom(l, mach, m) \/ \E i \in 1..Len(q) : q[i] = m

TuningFields == {"stage", "slow", "viable", "language", "machine"}

Tuned(p) ==
  LET t == tuning[p] IN
  /\ Busy(p, Transfer \cup {"bench"}, Tunings) =>
       /\ DOMAIN t = TuningFields
       /\ t.language = Language(p) /\ t.machine = Machine(p)
       /\ \/ t.stage = "probe" /\ fetch[p].file = Probe(Language(p)) /\ t.slow = {}
          \/ /\ t.stage \in {"recommended", "alternative"}
             /\ Trying(t.language, t.machine, t.viable, t.slow, fetch[p].file, queue[p])
  /\ pc[p] = "init" => t.stage = None
  /\ pc[p] \in {"load", "truncate", "write"} /\ t.stage # None =>
       change[p].key = "model" /\ Well([t EXCEPT !.stage = change[p].value])

(* What a session or the daemon has still to look for.                      *)
Queued(p) ==
  Busy(p, Transfer \cup {"pick", "open"}, Sessions) => queue[p] \in Seq(ModelName \cup {None})

Each(p) == Places(p) /\ Asked(p) /\ Tuned(p) /\ Queued(p)

IInv ==
  /\ Types /\ \A p \in Procs : Each(p)
  /\ Kept1 /\ Files /\ TunedWell

-----------------------------------------------------------------------------
(* Lemmas on the sequences of the catalog *)

Total(S, R) ==
  /\ \A x \in S : <<x, x>> \notin R
  /\ \A x, y, z \in S : <<x, y>> \in R /\ <<y, z>> \in R => <<x, z>> \in R
  /\ \A x, y \in S : x # y => <<x, y>> \in R \/ <<y, x>> \in R

(* The number of those before x tells the place of x. *)
LEMMA InOrderFacts ==
  ASSUME NEW S, IsFiniteSet(S), NEW R, Total(S, R)
  PROVE  /\ Cardinality(S) \in Nat
         /\ InOrder(S, R) \in [1..Cardinality(S) -> S]
         /\ \A x \in S : \E k \in 1..Cardinality(S) : InOrder(S, R)[k] = x
         /\ \A j, k \in 1..Cardinality(S) :
              j < k => <<InOrder(S, R)[j], InOrder(S, R)[k]>> \in R
<1> DEFINE n == Cardinality(S)
<1> DEFINE Before(x) == {y \in S : <<y, x>> \in R}
<1> DEFINE rank(x) == Cardinality(Before(x))
<1> DEFINE o == InOrder(S, R)
<1>1. n \in Nat
  BY FS_CardinalityType
<1>2. ASSUME NEW x \in S
      PROVE  /\ IsFiniteSet(Before(x)) /\ rank(x) \in Nat /\ x \notin Before(x)
             /\ Before(x) \subseteq S
  <2>1. Before(x) \in SUBSET S /\ x \notin Before(x)
    BY <1>2 DEF Total
  <2> HIDE DEF Before
  <2>2. IsFiniteSet(Before(x))
    BY <2>1, FS_Subset
  <2>3. QED
    BY <2>1, <2>2, FS_CardinalityType
<1>3. ASSUME NEW x \in S, NEW T \in SUBSET S, Before(x) \subseteq T, x \in T
      PROVE  rank(x) + 1 <= Cardinality(T) /\ Cardinality(T) \in Nat
  <2>1. IsFiniteSet(T) /\ Cardinality(T) \in Nat
    BY FS_Subset, FS_CardinalityType
  <2>2. /\ IsFiniteSet(Before(x)) /\ x \notin Before(x) /\ rank(x) \in Nat
    BY <1>2
  <2> DEFINE U == Before(x) \cup {x}
  <2>3. Cardinality(U) = rank(x) + 1
    <3> HIDE DEF Before
    <3>1. QED
      BY <2>2, FS_AddElement
  <2>4. U \in SUBSET T
    BY <1>3
  <2> HIDE DEF U
  <2>5. Cardinality(U) <= Cardinality(T)
    BY <2>1, <2>4, FS_Subset
  <2>6. QED
    BY <2>1, <2>3, <2>5
<1>4. ASSUME NEW x \in S PROVE rank(x) + 1 \in 1..n
  <2>1. rank(x) + 1 <= n /\ rank(x) \in Nat
    BY <1>2, <1>3
  <2>2. QED
    BY <1>1, <2>1
<1>5. ASSUME NEW x \in S, NEW y \in S, <<x, y>> \in R PROVE rank(x) < rank(y)
  <2>1. Before(x) \subseteq Before(y) /\ x \in Before(y)
    BY <1>5 DEF Total
  <2>2. Before(y) \in SUBSET S /\ rank(x) \in Nat /\ rank(y) \in Nat
    BY <1>2
  <2>3. rank(x) + 1 <= rank(y)
    BY <1>3, <2>1, <2>2
  <2>4. QED
    BY <2>2, <2>3
<1>6. \A x, y \in S : rank(x) = rank(y) => x = y
  <2>1. \A x \in S : rank(x) \in Nat
    BY <1>2
  <2> HIDE DEF rank
  <2>2. ASSUME NEW x \in S, NEW y \in S, rank(x) = rank(y), x # y PROVE FALSE
    <3>1. rank(x) \in Nat /\ ~(rank(x) < rank(y)) /\ ~(rank(y) < rank(x))
      BY <2>1, <2>2
    <3>2. <<x, y>> \in R \/ <<y, x>> \in R
      BY <2>2 DEF Total
    <3>3. QED
      BY <1>5, <3>1, <3>2
  <2>3. QED
    BY <2>2
<1> DEFINE f == [x \in S |-> rank(x) + 1]
<1>7. f \in Surjection(S, 1..n)
  <2>1. f \in [S -> 1..n]
    BY <1>4
  <2>2. \A x \in S : rank(x) \in Nat
    BY <1>2
  <2>3. IsInjective(f)
    <3> HIDE DEF rank
    <3>1. \A x, y \in S : f[x] = f[y] => x = y
      BY <1>6, <2>2
    <3>2. QED
      BY <3>1, <2>1 DEF IsInjective
  <2>4. f \in Injection(S, 1..n)
    BY <2>1, <2>3 DEF Injection
  <2>5. IsFiniteSet(1..n) /\ Cardinality(1..n) = n
    <3> HIDE DEF n
    <3>1. IsFiniteSet(1..n) /\ Cardinality(1..n) = IF 1 > n THEN 0 ELSE (n - 1) + 1
      BY <1>1, FS_Interval
    <3>2. QED
      BY <1>1, <3>1
  <2> HIDE DEF f
  <2> DEFINE I == 1..n
  <2>6. f \in Injection(S, I) /\ IsFiniteSet(I) /\ Cardinality(S) = Cardinality(I)
    BY <2>4, <2>5
  <2> HIDE DEF I
  <2>7. f \in Surjection(S, I)
    BY <2>6, FS_Injection
  <2>8. QED
    BY <2>7 DEF I
<1>8. ASSUME NEW k \in 1..n PROVE o[k] \in S /\ rank(o[k]) = k - 1
  <2>1. PICK x \in S : f[x] = k
    BY <1>7 DEF Surjection
  <2>2. rank(x) = k - 1
    <3>1. rank(x) \in Nat /\ rank(x) + 1 = k
      BY <1>2, <2>1
    <3> HIDE DEF rank
    <3>2. QED
      BY <3>1
  <2>3. o[k] = CHOOSE z \in S : rank(z) = k - 1
    <3>1. k \in 1..Cardinality(S)
      BY <1>8
    <3>2. QED
      BY <3>1 DEF InOrder, Nth
  <2> HIDE DEF rank, o
  <2>4. QED
    BY <2>2, <2>3
<1>9. o \in [1..n -> S]
  <2>1. o = [k \in 1..n |-> o[k]]
    BY DEF InOrder
  <2> HIDE DEF o, n
  <2>2. QED
    BY <1>8, <2>1
<1>10. ASSUME NEW x \in S PROVE \E k \in 1..n : o[k] = x
  <2> DEFINE k == rank(x) + 1
  <2>1. k \in 1..n /\ rank(x) \in Nat
    BY <1>2, <1>4
  <2>2. k - 1 = rank(x)
    <3> HIDE DEF rank
    <3>1. QED
      BY <2>1
  <2>3. o[k] \in S /\ rank(o[k]) = rank(x)
    BY <1>8, <2>1, <2>2
  <2>4. o[k] = x
    BY <1>6, <2>3
  <2> HIDE DEF k, o, n
  <2>5. QED
    BY <2>1, <2>4
<1>11. ASSUME NEW j \in 1..n, NEW k \in 1..n, j < k PROVE <<o[j], o[k]>> \in R
  <2>1. o[j] \in S /\ o[k] \in S /\ rank(o[j]) = j - 1 /\ rank(o[k]) = k - 1
    BY <1>8
  <2> HIDE DEF rank, o
  <2>2. rank(o[j]) < rank(o[k])
    BY <2>1, <1>11
  <2>3. o[j] # o[k]
    BY <2>1, <1>11
  <2>4. ~(<<o[k], o[j]>> \in R)
    <3>1. ASSUME <<o[k], o[j]>> \in R PROVE FALSE
      <4>1. rank(o[k]) < rank(o[j])
        BY <1>5, <2>1, <3>1
      <4>2. QED
        BY <2>1, <1>11, <4>1
    <3>2. QED
      BY <3>1
  <2>5. QED
    BY <2>1, <2>3, <2>4 DEF Total
<1>12. QED
  BY <1>1, <1>9, <1>10, <1>11

(* Where the elements that are kept were before. *)
Moved(s, S, q, g) ==
  /\ g \in [1..Len(q) -> 1..Len(s)]
  /\ \A i, j \in 1..Len(q) : i < j => g[i] < g[j]
  /\ \A k \in 1..Len(q) : q[k] = s[g[k]] /\ s[g[k]] \in S
  /\ \A i \in 1..Len(s) : s[i] \in S => \E k \in 1..Len(q) : g[k] = i

LEMMA KeptFacts ==
  ASSUME NEW T, NEW s \in Seq(T), NEW S
  PROVE  Kept(s, S) \in Seq(T) /\ \E g : Moved(s, S, Kept(s, S), g)
<1> DEFINE places == {i \in 1..Len(s) : s[i] \in S}
<1> DEFINE R == {p \in places \X places : p[1] < p[2]}
<1> DEFINE o == InOrder(places, R)
<1> DEFINE n == Cardinality(places)
<1> DEFINE q == Kept(s, S)
<1>1. DOMAIN s = 1..Len(s) /\ Len(s) \in Nat /\ \A i \in 1..Len(s) : s[i] \in T
  OBVIOUS
<1>2. IsFiniteSet(places) /\ places \subseteq 1..Len(s)
  <2>1. places \in SUBSET (1..Len(s)) /\ IsFiniteSet(1..Len(s))
    BY <1>1, FS_Interval
  <2> HIDE DEF places
  <2>2. QED
    BY <2>1, FS_Subset
<1>3. Total(places, R)
  <2>1. \A x \in places : x \in Nat
    BY <1>2
  <2> HIDE DEF places
  <2>2. \A x, y \in places : <<x, y>> \in R <=> x < y
    OBVIOUS
  <2> HIDE DEF R
  <2>3. QED
    BY <2>1, <2>2 DEF Total
<1>4. \A x, y : <<x, y>> \in R => x < y
  OBVIOUS
<1>5. q = [k \in DOMAIN o |-> s[o[k]]]
  BY <1>1 DEF Kept
<1>6. \A i \in places : i \in 1..Len(s) /\ s[i] \in S
  OBVIOUS
<1>7. \A i \in 1..Len(s) : s[i] \in S => i \in places
  OBVIOUS
<1> HIDE DEF places, R
<1>8. /\ n \in Nat /\ o \in [1..n -> places]
      /\ \A x \in places : \E k \in 1..n : o[k] = x
      /\ \A j, k \in 1..n : j < k => <<o[j], o[k]>> \in R
  <2>1. /\ Cardinality(places) \in Nat
        /\ InOrder(places, R) \in [1..Cardinality(places) -> places]
        /\ \A x \in places : \E k \in 1..Cardinality(places) : InOrder(places, R)[k] = x
        /\ \A j, k \in 1..Cardinality(places) :
             j < k => <<InOrder(places, R)[j], InOrder(places, R)[k]>> \in R
    BY <1>2, <1>3, InOrderFacts, Zenon
  <2>2. QED
    BY <2>1
<1> HIDE DEF o, n, q
<1>9. q \in Seq(T) /\ Len(q) = n
  <2>1. q \in [1..n -> T]
    BY <1>1, <1>5, <1>6, <1>8
  <2>2. QED
    BY <1>8, <2>1, LenProperties, SeqDef
<1>10. Moved(s, S, q, o)
  <2>1. o \in [1..Len(q) -> 1..Len(s)]
    BY <1>6, <1>8, <1>9
  <2>2. \A i, j \in 1..Len(q) : i < j => o[i] < o[j]
    BY <1>4, <1>8, <1>9
  <2>3. \A k \in 1..Len(q) : q[k] = s[o[k]] /\ s[o[k]] \in S
    BY <1>5, <1>6, <1>8, <1>9
  <2>4. \A i \in 1..Len(s) : s[i] \in S => \E k \in 1..Len(q) : o[k] = i
    BY <1>7, <1>8, <1>9
  <2>5. QED
    BY <2>1, <2>2, <2>3, <2>4 DEF Moved
<1>11. QED
  BY <1>9, <1>10 DEF q

(* What the elements that are kept have of those they are kept from. *)
LEMMA KeptSorted ==
  ASSUME NEW q, NEW l, Sorted(q, l), NEW S
  PROVE  /\ Sorted(Kept(q, S), l)
         /\ \A i \in 1..Len(Kept(q, S)) :
              Kept(q, S)[i] \in S /\ \E j \in 1..Len(q) : q[j] = Kept(q, S)[i]
         /\ \A j \in 1..Len(q) : q[j] \in S =>
              \E i \in 1..Len(Kept(q, S)) : Kept(q, S)[i] = q[j]
<1> DEFINE r == Kept(q, S)
<1>1. q \in Seq(Offered)
  BY DEF Sorted
<1>2. r \in Seq(Offered) /\ \E g : Moved(q, S, r, g)
  BY <1>1, KeptFacts
<1> HIDE DEF r
<1>3. PICK g : Moved(q, S, r, g)
  BY <1>2
<1>4. /\ g \in [1..Len(r) -> 1..Len(q)]
      /\ \A i, j \in 1..Len(r) : i < j => g[i] < g[j]
      /\ \A k \in 1..Len(r) : r[k] = q[g[k]] /\ q[g[k]] \in S
      /\ \A i \in 1..Len(q) : q[i] \in S => \E k \in 1..Len(r) : g[k] = i
  BY <1>3 DEF Moved
<1>5. Sorted(r, l)
  <2>1. ASSUME NEW i \in 1..Len(r), NEW j \in 1..Len(r), i < j
        PROVE  r[i].name # r[j].name /\ AdjustedQuality(r[i], l) >= AdjustedQuality(r[j], l)
    <3>1. g[i] \in 1..Len(q) /\ g[j] \in 1..Len(q) /\ g[i] < g[j]
          /\ r[i] = q[g[i]] /\ r[j] = q[g[j]]
      BY <1>4, <2>1
    <3>2. QED
      BY <3>1 DEF Sorted
  <2>2. QED
    BY <1>2, <2>1 DEF Sorted
<1>6. QED
  BY <1>4, <1>5 DEF r

-----------------------------------------------------------------------------
(* Lemmas on the models of the catalog *)

LEMMA CatalogFacts ==
  /\ Builtin \in Seq(Offered) /\ Remote \in Seq(Offered)
  /\ \A i \in 1..Len(Builtin) : Builtin[i] \in Offered
  /\ \A i \in 1..Len(Remote) : Remote[i] \in Offered
  /\ \A m \in Offered : m.size \in Nat \ {0} /\ m.quality \in Nat /\ m.en \in BOOLEAN
  /\ \A m \in Offered : m.name \notin DOMAIN Alias /\ m.name \in Names
  /\ \A n \in DOMAIN Alias : Alias[n] \in Names
<1>1. Builtin \in Seq(Offered) /\ Remote \in Seq(Offered)
  BY CatalogAssumption DEF CatalogAssumption
<1>2. /\ \A m \in Offered : m.size \in Nat \ {0} /\ m.quality \in Nat /\ m.en \in BOOLEAN
      /\ \A m \in Offered : m.name \notin DOMAIN Alias
  BY CatalogAssumption DEF CatalogAssumption
<1>3. \A m \in Offered : m.name \in Names
  BY DEF Names
<1>4. \A n \in DOMAIN Alias : Alias[n] \in Names
  <2>1. \A n \in DOMAIN Alias : \E m \in ToSet(Builtin) : m.name = Alias[n]
    BY CatalogAssumption DEF CatalogAssumption
  <2>2. ToSet(Builtin) \subseteq Offered
    BY DEF Offered
  <2>3. QED
    BY <2>1, <2>2 DEF Names
<1>5. /\ \A i \in 1..Len(Builtin) : Builtin[i] \in Offered
      /\ \A i \in 1..Len(Remote) : Remote[i] \in Offered
  BY <1>1
<1>6. QED
  BY <1>1, <1>2, <1>3, <1>4, <1>5

(* Models at different places of the two lists have different names.        *)
LEMMA DistinctNames ==
  /\ \A i, j \in 1..Len(Builtin) : Builtin[i].name = Builtin[j].name => i = j
  /\ \A i, j \in 1..Len(Remote) : Remote[i].name = Remote[j].name => i = j
  /\ \A i \in 1..Len(Builtin), j \in 1..Len(Remote) : Builtin[i].name # Remote[j].name
<1> DEFINE both == Builtin \o Remote
<1> DEFINE b == Len(Builtin)
<1> DEFINE r == Len(Remote)
<1>1. /\ b \in Nat /\ r \in Nat /\ Len(both) = b + r /\ DOMAIN both = 1..(b + r)
      /\ \A i \in 1..(b + r) : both[i] = IF i <= b THEN Builtin[i] ELSE Remote[i - b]
  <2>1. Builtin \in Seq(Offered) /\ Remote \in Seq(Offered)
    BY CatalogFacts
  <2>2. both \in Seq(Offered) /\ Len(both) = b + r /\ b \in Nat /\ r \in Nat
        /\ \A i \in 1..(b + r) : both[i] = IF i <= b THEN Builtin[i] ELSE Remote[i - b]
    BY <2>1, ConcatProperties
  <2> HIDE DEF both
  <2>3. QED
    BY <2>2
<1>2. \A i, j \in DOMAIN both : both[i].name = both[j].name => i = j
  BY CatalogAssumption DEF CatalogAssumption
<1> HIDE DEF both, b, r
<1>3. \A i \in 1..b : i \in DOMAIN both /\ both[i] = Builtin[i]
  BY <1>1
<1>4. \A j \in 1..r : b + j \in DOMAIN both /\ both[b + j] = Remote[j]
  <2> SUFFICES ASSUME NEW j \in 1..r
               PROVE  b + j \in DOMAIN both /\ both[b + j] = Remote[j]
    OBVIOUS
  <2>1. b + j \in 1..(b + r) /\ ~(b + j <= b) /\ (b + j) - b = j
    BY <1>1
  <2>2. QED
    BY <1>1, <2>1
<1>5. \A i, j \in 1..b : Builtin[i].name = Builtin[j].name => i = j
  BY <1>2, <1>3
<1>6. \A i, j \in 1..r : Remote[i].name = Remote[j].name => i = j
  <2>1. \A i, j \in 1..r : Remote[i].name = Remote[j].name => b + i = b + j
    BY <1>2, <1>4
  <2>2. \A i, j \in 1..r : b + i = b + j => i = j
    BY <1>1
  <2>3. QED
    BY <2>1, <2>2
<1>7. \A i \in 1..b, j \in 1..r : Builtin[i].name # Remote[j].name
  <2>1. \A i \in 1..b, j \in 1..r : i # b + j
    BY <1>1
  <2>2. QED
    BY <1>2, <1>3, <1>4, <2>1
<1>8. QED
  BY <1>5, <1>6, <1>7 DEF b, r

LEMMA SameName ==
  ASSUME NEW m \in Offered, NEW o \in Offered, m.name = o.name
  PROVE  m = o
<1>1. DOMAIN Builtin = 1..Len(Builtin) /\ DOMAIN Remote = 1..Len(Remote)
  BY CatalogFacts
<1>2. \A x \in Offered : \/ \E i \in 1..Len(Builtin) : x = Builtin[i]
                         \/ \E i \in 1..Len(Remote) : x = Remote[i]
  BY <1>1 DEF Offered, ToSet
<1>3. QED
  BY <1>2, DistinctNames

LEMMA InfoFacts ==
  ASSUME NEW m \in Offered
  PROVE  ResolveName(m.name) = m.name /\ Info(m.name) = m
<1>1. ResolveName(m.name) = m.name
  BY CatalogFacts DEF ResolveName
<1>2. Info(m.name) = CHOOSE o \in Offered : o.name = m.name
  BY <1>1 DEF Info
<1>3. QED
  BY <1>1, <1>2, SameName

LEMMA ResolveFacts ==
  /\ \A n \in ModelName : ResolveName(n) \in Names
  /\ \A n \in Names : ResolveName(n) = n /\ n \in ModelName
  BY CatalogFacts DEF ResolveName, ModelName, Names

LEMMA ProbeFacts ==
  ASSUME NEW l
  PROVE  /\ Probe(l) \in Names /\ ResolveName(Probe(l)) = Probe(l)
         /\ l # English => ~Info(Probe(l)).en
<1>1. {"tiny.en", "tiny"} \subseteq Names
  BY CatalogAssumption DEF CatalogAssumption, Names, Offered
<1>2. Probe(l) \in Names
  BY <1>1 DEF Probe
<1>3. \A m \in Offered : m.name = "tiny" => ~m.en
  BY CatalogAssumption DEF CatalogAssumption
<1>4. l # English => ~Info(Probe(l)).en
  <2> SUFFICES ASSUME l # English PROVE ~Info(Probe(l)).en
    OBVIOUS
  <2>1. PICK m \in Offered : m.name = "tiny"
    BY <1>1 DEF Names
  <2>2. Probe(l) = "tiny"
    BY DEF Probe
  <2>3. Info(Probe(l)) = m
    BY <2>1, <2>2, InfoFacts
  <2>4. QED
    BY <1>3, <2>1, <2>3
<1>5. QED
  BY <1>2, <1>4, ResolveFacts

LEMMA QualityType ==
  ASSUME NEW m \in Offered, NEW l
  PROVE  AdjustedQuality(m, l) \in Nat
<1>1. m.quality \in Nat
  BY CatalogFacts
<1>2. QED
  BY <1>1 DEF AdjustedQuality

-----------------------------------------------------------------------------
(* Lemmas on the candidates of auto-tuning *)

Distinct(s) == \A i, j \in 1..Len(s) : s[i].name = s[j].name => i = j

LEMMA KeptDistinct ==
  ASSUME NEW s \in Seq(Offered), Distinct(s), NEW S
  PROVE  /\ Kept(s, S) \in Seq(Offered) /\ Distinct(Kept(s, S))
         /\ \A i \in 1..Len(Kept(s, S)) : Kept(s, S)[i] \in S
<1> DEFINE r == Kept(s, S)
<1>1. r \in Seq(Offered) /\ \E g : Moved(s, S, r, g)
  BY KeptFacts
<1> HIDE DEF r
<1>2. PICK g : Moved(s, S, r, g)
  BY <1>1
<1>3. /\ g \in [1..Len(r) -> 1..Len(s)]
      /\ \A i, j \in 1..Len(r) : i < j => g[i] < g[j]
      /\ \A k \in 1..Len(r) : r[k] = s[g[k]] /\ s[g[k]] \in S
  BY <1>2 DEF Moved
<1>4. ASSUME NEW i \in 1..Len(r), NEW j \in 1..Len(r), r[i].name = r[j].name
      PROVE  i = j
  <2>1. g[i] \in 1..Len(s) /\ g[j] \in 1..Len(s) /\ r[i] = s[g[i]] /\ r[j] = s[g[j]]
    BY <1>3, <1>4
  <2>2. g[i] = g[j]
    BY <1>4, <2>1 DEF Distinct
  <2>3. ~(i < j) /\ ~(j < i)
    BY <1>3, <1>4, <2>1, <2>2
  <2>4. QED
    BY <1>4, <2>3
<1>5. QED
  BY <1>1, <1>3, <1>4 DEF r, Distinct

LEMMA CandidatesFacts ==
  ASSUME NEW reached \in BOOLEAN, NEW allow
  PROVE  Candidates(reached, allow) \in Seq(Offered) /\ Distinct(Candidates(reached, allow))
<1> DEFINE S == {m \in Offered : (allow \/ ~m.quantized) /\ ~InCatalog(m.name)}
<1> DEFINE r == Kept(Listed(reached), S)
<1> DEFINE c == Builtin \o r
<1>1. Candidates(reached, allow) = c
  BY DEF Candidates
<1>2. Listed(reached) \in Seq(Offered) /\ Distinct(Listed(reached))
  <2>1. Remote \in Seq(Offered) /\ Distinct(Remote)
    BY CatalogFacts, DistinctNames DEF Distinct
  <2>2. <<>> \in Seq(Offered) /\ Distinct(<<>>)
    BY DEF Distinct
  <2>3. QED
    BY <2>1, <2>2 DEF Listed
<1>3. \A m \in S : ~InCatalog(m.name) /\ m \in Offered
  OBVIOUS
<1> HIDE DEF S
<1>4. r \in Seq(Offered) /\ Distinct(r) /\ \A i \in 1..Len(r) : r[i] \in S
  BY <1>2, KeptDistinct
<1> HIDE DEF r
<1> DEFINE b == Len(Builtin)
<1>5. Builtin \in Seq(Offered) /\ b \in Nat /\ DOMAIN Builtin = 1..b
  BY CatalogFacts
<1>6. /\ c \in Seq(Offered) /\ Len(c) = b + Len(r) /\ Len(r) \in Nat
      /\ \A i \in 1..(b + Len(r)) : c[i] = IF i <= b THEN Builtin[i] ELSE r[i - b]
  BY <1>4, <1>5, ConcatProperties
<1>7. \A i \in 1..b, j \in 1..Len(r) : Builtin[i].name # r[j].name
  <2> SUFFICES ASSUME NEW i \in 1..b, NEW j \in 1..Len(r), Builtin[i].name = r[j].name
               PROVE  FALSE
    OBVIOUS
  <2>1. r[j] \in Offered /\ ~InCatalog(r[j].name)
    BY <1>3, <1>4
  <2>2. ResolveName(r[j].name) = r[j].name
    BY <2>1, InfoFacts
  <2>3. Builtin[i] \in ToSet(Builtin)
    BY <1>5 DEF ToSet
  <2>4. QED
    BY <2>1, <2>2, <2>3 DEF InCatalog
<1> HIDE DEF c, b
<1>8. Distinct(c)
  <2> SUFFICES ASSUME NEW i \in 1..Len(c), NEW j \in 1..Len(c), c[i].name = c[j].name
               PROVE  i = j
    BY DEF Distinct
  <2>1. CASE i <= b /\ j <= b
    <3>1. i \in 1..b /\ j \in 1..b /\ c[i] = Builtin[i] /\ c[j] = Builtin[j]
      BY <1>5, <1>6, <2>1
    <3>2. QED
      BY <3>1, DistinctNames DEF b
  <2>2. CASE ~(i <= b) /\ ~(j <= b)
    <3>1. i - b \in 1..Len(r) /\ j - b \in 1..Len(r) /\ c[i] = r[i - b] /\ c[j] = r[j - b]
      BY <1>5, <1>6, <2>2
    <3>2. i - b = j - b
      BY <1>4, <3>1 DEF Distinct
    <3>3. QED
      BY <1>5, <1>6, <3>2
  <2>3. CASE i <= b /\ ~(j <= b)
    <3>1. i \in 1..b /\ j - b \in 1..Len(r) /\ c[i] = Builtin[i] /\ c[j] = r[j - b]
      BY <1>5, <1>6, <2>3
    <3>2. QED
      BY <1>7, <3>1
  <2>4. CASE ~(i <= b) /\ j <= b
    <3>1. j \in 1..b /\ i - b \in 1..Len(r) /\ c[j] = Builtin[j] /\ c[i] = r[i - b]
      BY <1>5, <1>6, <2>4
    <3>2. QED
      BY <1>7, <3>1
  <2>5. QED
    BY <2>1, <2>2, <2>3, <2>4
<1>9. QED
  BY <1>1, <1>6, <1>8

LEMMA RankedFacts ==
  ASSUME NEW s \in Seq(Offered), Distinct(s), NEW l
  PROVE  /\ Sorted(Ranked(s, l), l)
         /\ \A i \in 1..Len(Ranked(s, l)) : \E j \in 1..Len(s) : Ranked(s, l)[i] = s[j]
<1> DEFINE quality(i) == AdjustedQuality(s[i], l)
<1> DEFINE n == Len(s)
<1> DEFINE S == 1..n
<1> DEFINE R == {p \in S \X S : \/ quality(p[1]) > quality(p[2])
                                \/ quality(p[1]) = quality(p[2]) /\ p[1] < p[2]}
<1> DEFINE o == InOrder(S, R)
<1> DEFINE r == Ranked(s, l)
<1>1. DOMAIN s = S /\ n \in Nat /\ \A i \in S : s[i] \in Offered
  OBVIOUS
<1>2. \A i \in S : quality(i) \in Nat
  BY <1>1, QualityType
<1>3. r = [k \in S |-> s[o[k]]]
  BY <1>1 DEF Ranked
<1> HIDE DEF quality
<1>4. \A i, j \in S : <<i, j>> \in R <=>
        quality(i) > quality(j) \/ (quality(i) = quality(j) /\ i < j)
  OBVIOUS
<1> HIDE DEF R
<1>5. Total(S, R)
  <2>1. \A x \in S : <<x, x>> \notin R
    BY <1>2, <1>4
  <2>2. ASSUME NEW x \in S, NEW y \in S, NEW z \in S, <<x, y>> \in R, <<y, z>> \in R
        PROVE  <<x, z>> \in R
    BY <1>2, <1>4, <2>2
  <2>3. \A x, y \in S : x # y => <<x, y>> \in R \/ <<y, x>> \in R
    BY <1>2, <1>4
  <2> HIDE DEF S
  <2>4. QED
    BY <2>1, <2>2, <2>3 DEF Total
<1>6. IsFiniteSet(S) /\ Cardinality(S) = n
  <2> HIDE DEF n
  <2>1. IsFiniteSet(S) /\ Cardinality(S) = IF 1 > n THEN 0 ELSE (n - 1) + 1
    BY <1>1, FS_Interval
  <2>2. QED
    BY <1>1, <2>1
<1>7. /\ o \in [1..n -> S]
      /\ \A j, k \in 1..n : j < k => <<o[j], o[k]>> \in R
  <2> HIDE DEF S, n
  <2>1. /\ InOrder(S, R) \in [1..Cardinality(S) -> S]
        /\ \A j, k \in 1..Cardinality(S) :
             j < k => <<InOrder(S, R)[j], InOrder(S, R)[k]>> \in R
    BY <1>5, <1>6, InOrderFacts, Zenon
  <2>2. QED
    BY <1>6, <2>1
<1> HIDE DEF o, r
<1>8. r \in Seq(Offered) /\ Len(r) = n
  <2>1. r \in [1..n -> Offered]
    BY <1>1, <1>3, <1>7
  <2>2. QED
    BY <1>1, <2>1, LenProperties, SeqDef
<1>9. ASSUME NEW i \in 1..n, NEW j \in 1..n, i < j
      PROVE  r[i].name # r[j].name /\ AdjustedQuality(r[i], l) >= AdjustedQuality(r[j], l)
  <2>1. o[i] \in S /\ o[j] \in S /\ <<o[i], o[j]>> \in R /\ r[i] = s[o[i]] /\ r[j] = s[o[j]]
    BY <1>3, <1>7, <1>9
  <2>2. <<o[i], o[i]>> \notin R
    BY <1>2, <1>4, <2>1
  <2>3. o[i] # o[j]
    BY <2>1, <2>2
  <2>4. quality(o[i]) >= quality(o[j])
    BY <1>2, <1>4, <2>1
  <2>5. s[o[i]].name # s[o[j]].name
    BY <2>1, <2>3 DEF Distinct
  <2>6. QED
    BY <2>1, <2>4, <2>5 DEF quality
<1>10. QED
  BY <1>3, <1>7, <1>8, <1>9 DEF r, Sorted

LEMMA ViableFacts ==
  ASSUME NEW reached \in BOOLEAN, NEW allow, NEW l, NEW ram, NEW disk_, NEW rtf
  PROVE  /\ Sorted(Viable(reached, allow, l, ram, disk_, rtf), l)
         /\ \A i \in 1..Len(Viable(reached, allow, l, ram, disk_, rtf)) :
              LET m == Viable(reached, allow, l, ram, disk_, rtf)[i] IN
                /\ l # English => ~m.en
                /\ m.size * 12 < ram * 10 /\ m.size + 100 < disk_
<1> DEFINE S == {m \in Offered : Fits(m, l, ram, disk_, Probe(l), rtf)}
<1> DEFINE c == Candidates(reached, allow)
<1> DEFINE k == Kept(c, S)
<1> DEFINE v == Ranked(k, l)
<1>1. Viable(reached, allow, l, ram, disk_, rtf) = v
  BY DEF Viable
<1>2. \A m \in S : (l # English => ~m.en) /\ m.size * 12 < ram * 10 /\ m.size + 100 < disk_
  BY DEF Fits
<1>3. c \in Seq(Offered) /\ Distinct(c)
  BY CandidatesFacts
<1> HIDE DEF c, S
<1>4. k \in Seq(Offered) /\ Distinct(k) /\ \A i \in 1..Len(k) : k[i] \in S
  BY <1>3, KeptDistinct
<1> HIDE DEF k
<1>5. /\ Sorted(v, l)
      /\ \A i \in 1..Len(v) : \E j \in 1..Len(k) : v[i] = k[j]
  BY <1>4, RankedFacts
<1> HIDE DEF v
<1>6. QED
  BY <1>1, <1>2, <1>4, <1>5

-----------------------------------------------------------------------------
(* Lemmas on trying one model after the other *)

LEMMA NonEmpty ==
  ASSUME NEW T, NEW q \in Seq(T), q # <<>>
  PROVE  /\ Len(q) \in Nat \ {0} /\ 1 \in 1..Len(q) /\ Head(q) = q[1] /\ q[1] \in T
         /\ Tail(q) \in Seq(T) /\ Len(Tail(q)) = Len(q) - 1
         /\ \A i \in 1..(Len(q) - 1) : Tail(q)[i] = q[i + 1] /\ i + 1 \in 1..Len(q)
  OBVIOUS

(* The first of a ranking is tried, the others are left.                    *)
LEMMA TryFirst ==
  ASSUME NEW l, NEW mach, NEW V, NEW slow, NEW q, Sorted(q, l), q # <<>>,
         V \subseteq Offered, \A m \in V : (l # English => ~m.en) /\ Room(m, mach),
         \A i \in 1..Len(q) : q[i] \in V /\ q[i].name \notin slow,
         \A m \in V : m.name \in slow \/ ~Headroom(l, mach, m) \/ \E i \in 1..Len(q) : q[i] = m
  PROVE  Trying(l, mach, V, slow, Head(q).name, Tail(q))
<1> DEFINE f == Head(q).name
<1> DEFINE r == Tail(q)
<1>1. q \in Seq(Offered)
  BY DEF Sorted
<1>2. /\ Len(q) \in Nat \ {0} /\ 1 \in 1..Len(q) /\ Head(q) = q[1] /\ q[1] \in Offered
      /\ r \in Seq(Offered) /\ Len(r) = Len(q) - 1
      /\ \A i \in 1..(Len(q) - 1) : r[i] = q[i + 1] /\ i + 1 \in 1..Len(q)
  BY <1>1, NonEmpty
<1> HIDE DEF r
<1>3. f = q[1].name /\ Info(f) = q[1]
  BY <1>2, InfoFacts
<1> HIDE DEF f
<1>4. \A i, j \in 1..Len(q) : i < j =>
        q[i].name # q[j].name /\ AdjustedQuality(q[i], l) >= AdjustedQuality(q[j], l)
  BY DEF Sorted
<1>5. Sorted(r, l)
  <2>1. ASSUME NEW i \in 1..Len(r), NEW j \in 1..Len(r), i < j
        PROVE  r[i].name # r[j].name /\ AdjustedQuality(r[i], l) >= AdjustedQuality(r[j], l)
    <3>1. /\ i + 1 \in 1..Len(q) /\ j + 1 \in 1..Len(q) /\ i + 1 < j + 1
          /\ r[i] = q[i + 1] /\ r[j] = q[j + 1]
      BY <1>2, <2>1
    <3>2. QED
      BY <1>4, <3>1
  <2>2. QED
    BY <1>2, <2>1 DEF Sorted
<1>6. ASSUME NEW i \in 1..Len(r)
      PROVE  /\ r[i] \in V /\ r[i].name \notin slow \cup {f}
             /\ AdjustedQuality(r[i], l) <= AdjustedQuality(Info(f), l)
  <2>1. i + 1 \in 1..Len(q) /\ 1 < i + 1 /\ r[i] = q[i + 1]
    BY <1>2, <1>6
  <2>2. q[1].name # q[i + 1].name /\ AdjustedQuality(q[1], l) >= AdjustedQuality(q[i + 1], l)
    BY <1>2, <1>4, <2>1
  <2>3. AdjustedQuality(q[1], l) \in Nat /\ AdjustedQuality(q[i + 1], l) \in Nat
    BY <1>2, <2>1, QualityType
  <2>4. QED
    BY <1>3, <2>1, <2>2, <2>3
<1>7. ASSUME NEW m \in V
      PROVE  m.name \in slow \cup {f} \/ ~Headroom(l, mach, m) \/ \E i \in 1..Len(r) : r[i] = m
  <2> SUFFICES ASSUME NEW i \in 1..Len(q), q[i] = m, i # 1
               PROVE  \E k \in 1..Len(r) : r[k] = m
    BY <1>3
  <2>1. i - 1 \in 1..(Len(q) - 1) /\ (i - 1) + 1 = i
    BY <1>2
  <2>2. r[i - 1] = q[i] /\ i - 1 \in 1..Len(r)
    BY <1>2, <2>1
  <2>3. QED
    BY <2>2
<1>8. f \notin slow /\ \E m \in V : m.name = f
  BY <1>2, <1>3
<1>9. QED
  BY <1>5, <1>6, <1>7, <1>8 DEF Trying, f, r

(* What may be tried once the models of gone were too slow: r.              *)
Remaining(l, mach, V, gone, r) ==
  /\ Sorted(r, l)
  /\ \A i \in 1..Len(r) : r[i] \in V /\ r[i].name \notin gone
  /\ \A m \in V : m.name \in gone \/ ~Headroom(l, mach, m) \/ \E i \in 1..Len(r) : r[i] = m

(* f was too slow: those with headroom are left.                            *)
LEMMA TryLeft ==
  ASSUME NEW l, NEW mach, NEW V, NEW slow, NEW f, NEW q, Trying(l, mach, V, slow, f, q),
         NEW S, \A m \in Offered : Headroom(l, mach, m) => m \in S
  PROVE  Remaining(l, mach, V, slow \cup {f}, Kept(q, S))
<1> DEFINE r == Kept(q, S)
<1>1. Sorted(q, l) /\ V \subseteq Offered
  BY DEF Trying
<1>2. /\ Sorted(r, l)
      /\ \A i \in 1..Len(r) : r[i] \in S /\ \E j \in 1..Len(q) : q[j] = r[i]
      /\ \A j \in 1..Len(q) : q[j] \in S => \E i \in 1..Len(r) : r[i] = q[j]
  <2>1. /\ Sorted(Kept(q, S), l)
        /\ \A i \in 1..Len(Kept(q, S)) : Kept(q, S)[i] \in S /\ \E j \in 1..Len(q) : q[j] = Kept(q, S)[i]
        /\ \A j \in 1..Len(q) : q[j] \in S => \E i \in 1..Len(Kept(q, S)) : Kept(q, S)[i] = q[j]
    BY <1>1, KeptSorted, Zenon
  <2>2. QED
    BY <2>1
<1> HIDE DEF r
<1>3. \A m \in V : Headroom(l, mach, m) => m \in S
  BY <1>1
<1>4. \A i \in 1..Len(r) : r[i] \in V /\ r[i].name \notin slow \cup {f}
  BY <1>2 DEF Trying
<1>5. \A m \in V : m.name \in slow \cup {f} \/ ~Headroom(l, mach, m) \/ \E i \in 1..Len(r) : r[i] = m
  <2> SUFFICES ASSUME NEW m \in V, m.name \notin slow \cup {f}, Headroom(l, mach, m)
               PROVE  \E i \in 1..Len(r) : r[i] = m
    OBVIOUS
  <2>1. PICK j \in 1..Len(q) : q[j] = m
    BY DEF Trying
  <2>2. QED
    BY <1>2, <1>3, <2>1
<1>6. QED
  BY <1>2, <1>4, <1>5 DEF r, Remaining

(* f is fast: what is better was slow, or had no headroom.                  *)
LEMMA ChooseFast ==
  ASSUME NEW l, NEW mach, NEW V, NEW slow, NEW f, NEW q, Trying(l, mach, V, slow, f, q)
  PROVE  Chosen(l, mach, V, slow, f)
<1>1. PICK m \in V : m.name = f
  BY DEF Trying
<1>2. m \in Offered /\ Info(f) = m
  <2>1. m \in Offered
    BY <1>1 DEF Trying
  <2>2. QED
    BY <1>1, <2>1, InfoFacts
<1>3. (l # English => ~Info(f).en) /\ Room(Info(f), mach)
  BY <1>1, <1>2 DEF Trying
<1>4. f \notin slow
  BY DEF Trying
<1>5. ASSUME NEW o \in Better(l, V, f) PROVE o.name \in slow \/ ~Headroom(l, mach, o)
  <2>1. o \in V /\ o \in Offered /\ AdjustedQuality(o, l) > AdjustedQuality(m, l)
    BY <1>2, <1>5 DEF Better, Trying
  <2>2. AdjustedQuality(o, l) \in Nat /\ AdjustedQuality(m, l) \in Nat
    BY <1>2, <2>1, QualityType
  <2>3. o.name # f
    <3>1. o # m
      BY <2>1, <2>2
    <3>2. QED
      BY <1>1, <1>2, <2>1, <3>1, SameName
  <2>4. ASSUME NEW i \in 1..Len(q) PROVE q[i] # o
    <3>1. AdjustedQuality(q[i], l) <= AdjustedQuality(m, l)
      BY <1>2, <2>4 DEF Trying
    <3>2. QED
      BY <2>1, <2>2, <3>1
  <2>5. QED
    BY <2>1, <2>3, <2>4 DEF Trying
<1>6. QED
  BY <1>1, <1>3, <1>4, <1>5 DEF Chosen

(* Nothing is left: the probe it is.                                        *)
LEMMA ChooseProbe ==
  ASSUME NEW l, NEW mach, NEW V, NEW slow,
         \A m \in V : m.name \in slow \/ ~Headroom(l, mach, m)
  PROVE  Chosen(l, mach, V, slow, Probe(l))
  BY ProbeFacts DEF Chosen, Better

LEMMA WellTuned == TunedWell <=> \A t \in tuned : Well(t)
  BY DEF TunedWell, Well, Chosen, Better, Headroom, Room

-----------------------------------------------------------------------------
(* Lemmas on the settings and the models they ask for *)

Fit(c) == ResolveForLanguage(c.model, c.language)

LEMMA FitFacts ==
  ASSUME NEW c \in Config
  PROVE  Fit(c) \in ModelName
<1> DEFINE n == c.model
<1> DEFINE v == MultilingualVariant(n)
<1>1. n \in ModelName
  BY DEF Config
<1>2. v # None => v \in ModelName
  BY DEF MultilingualVariant, InCatalog, ModelName, Offered
<1>3. (Fit(c) = v /\ v # None) \/ Fit(c) = n
  BY DEF Fit, ResolveForLanguage
<1>4. QED
  BY <1>1, <1>2, <1>3

LEMMA EnglishFacts ==
  ASSUME NEW n
  PROVE  EnglishVariant(n) \in ModelName \cup {None}
<1> DEFINE found == {m \in ToSet(Builtin) : m.stem = Stem(n) /\ m.stem # m.name}
<1>1. CASE found = {}
  BY <1>1 DEF EnglishVariant
<1>2. CASE found # {}
  <2>1. EnglishVariant(n) = (CHOOSE m \in found : TRUE).name
    BY <1>2 DEF EnglishVariant
  <2>2. found \subseteq Offered
    BY DEF Offered
  <2> HIDE DEF found
  <2>3. (CHOOSE m \in found : TRUE) \in found
    BY <1>2
  <2>4. (CHOOSE m \in found : TRUE).name \in ModelName
    BY <2>2, <2>3 DEF ModelName
  <2>5. QED
    BY <2>1, <2>4
<1>3. QED
  BY <1>1, <1>2

LEMMA ModelsFacts ==
  ASSUME NEW c \in Config, NEW q, q \in {SessionModels(c), DaemonModels(c)}
  PROVE  q \in Seq(ModelName \cup {None})
<1>1. Fit(c) \in ModelName /\ EnglishVariant(Fit(c)) \in ModelName \cup {None}
  BY FitFacts, EnglishFacts
<1>2. SessionModels(c) \in {<<Fit(c), EnglishVariant(Fit(c))>>, <<Fit(c)>>}
  BY DEF SessionModels, Fit
<1>3. DaemonModels(c) \in {<<Fit(c), EnglishVariant(Fit(c))>>, <<Fit(c)>>}
  BY DEF DaemonModels, Fit
<1>4. q \in {<<Fit(c), EnglishVariant(Fit(c))>>, <<Fit(c)>>}
  BY <1>2, <1>3
<1> DEFINE f == Fit(c)
<1> DEFINE v == EnglishVariant(f)
<1>5. f \in ModelName \cup {None} /\ v \in ModelName \cup {None}
  BY <1>1
<1>6. q = <<f, v>> \/ q = <<f>>
  BY <1>4
<1> HIDE DEF f, v
<1> DEFINE T == ModelName \cup {None}
<1>7. f \in T /\ v \in T
  BY <1>5
<1> HIDE DEF T
<1>8. CASE q = <<f, v>>
  <2>1. <<f, v>> \in Seq(T)
    BY <1>7
  <2>2. QED
    BY <1>8, <2>1 DEF T
<1>9. CASE q = <<f>>
  <2>1. <<f>> \in Seq(T)
    BY <1>7
  <2>2. QED
    BY <1>9, <2>1 DEF T
<1>10. QED
  BY <1>6, <1>8, <1>9

LEMMA ConfigFacts ==
  ASSUME NEW c
  PROVE  c \in Config <=>
           /\ c = [k \in Keys |-> c[k]]
           /\ c["model"] \in ModelName /\ c["language"] \in STRING
           /\ c["backend"] \in Backends /\ c["fan_out"] \in BOOLEAN
<1>1. Keys = {"model", "language", "backend", "fan_out"}
  BY DEF Keys, Default
<1>2. QED
  BY <1>1 DEF Config

LEMMA SetFacts ==
  ASSUME NEW c \in Config, NEW d, Valid(d),
         d.key = "model" => d.value \in ModelName
  PROVE  [c EXCEPT ![d.key] = d.value] \in Config
<1> DEFINE r == [c EXCEPT ![d.key] = d.value]
<1>1. Keys = {"model", "language", "backend", "fan_out"} /\ DOMAIN c = Keys
  BY DEF Keys, Default, Config
<1>2. r = [k \in Keys |-> r[k]]
  BY <1>1
<1>3. /\ c["model"] \in ModelName /\ c["language"] \in STRING
      /\ c["backend"] \in Backends /\ c["fan_out"] \in BOOLEAN
  BY ConfigFacts
<1>4. /\ r["model"] = IF d.key = "model" THEN d.value ELSE c["model"]
      /\ r["language"] = IF d.key = "language" THEN d.value ELSE c["language"]
      /\ r["backend"] = IF d.key = "backend" THEN d.value ELSE c["backend"]
      /\ r["fan_out"] = IF d.key = "fan_out" THEN d.value ELSE c["fan_out"]
  BY <1>1
<1>5. /\ d.key = "language" => d.value \in STRING
      /\ d.key = "backend" => d.value \in Backends
      /\ d.key = "fan_out" => d.value \in BOOLEAN
  BY DEF Valid
<1> HIDE DEF r
<1>6. /\ r["model"] \in ModelName /\ r["language"] \in STRING
      /\ r["backend"] \in Backends /\ r["fan_out"] \in BOOLEAN
  <2>1. r["model"] \in ModelName
    BY <1>3, <1>4
  <2>2. r["language"] \in STRING
    BY <1>3, <1>4, <1>5
  <2>3. r["backend"] \in Backends
    BY <1>3, <1>4, <1>5
  <2>4. r["fan_out"] \in BOOLEAN
    BY <1>3, <1>4, <1>5, Zenon
  <2>5. QED
    BY <2>1, <2>2, <2>3, <2>4
<1>7. r \in Config
  BY <1>2, <1>6, ConfigFacts
<1>8. QED
  BY <1>7 DEF r

LEMMA DefaultConfig == Default \in Config
  BY SetupAssumption DEF SetupAssumption

LEMMA OverrideFacts ==
  ASSUME NEW c \in Config, NEW o, Override(Default, o) \in Config
  PROVE  Override(c, o) \in Config
<1> DEFINE r == Override(c, o)
<1> DEFINE d == Override(Default, o)
<1>1. Keys = {"model", "language", "backend", "fan_out"}
  BY DEF Keys, Default
<1>2. r = [k \in Keys |-> r[k]]
  BY DEF Override
<1>3. \A k \in Keys : r[k] = IF k \in DOMAIN o THEN d[k] ELSE c[k]
  BY DEF Override
<1> HIDE DEF r, d
<1>4. /\ c["model"] \in ModelName /\ c["language"] \in STRING
      /\ c["backend"] \in Backends /\ c["fan_out"] \in BOOLEAN
      /\ d["model"] \in ModelName /\ d["language"] \in STRING
      /\ d["backend"] \in Backends /\ d["fan_out"] \in BOOLEAN
  BY ConfigFacts DEF d
<1>5. \A k \in Keys : r[k] = d[k] \/ r[k] = c[k]
  BY <1>3
<1>6. r["model"] \in ModelName /\ r["language"] \in STRING
  BY <1>1, <1>4, <1>5
<1>7. r["backend"] \in Backends
  BY <1>1, <1>4, <1>5
<1>8. r["fan_out"] \in BOOLEAN
  <2>1. r["fan_out"] = d["fan_out"] \/ r["fan_out"] = c["fan_out"]
    BY <1>1, <1>5
  <2>2. QED
    BY <1>4, <2>1, Zenon
<1>9. r \in Config
  BY <1>2, <1>6, <1>7, <1>8, ConfigFacts
<1>10. QED
  BY <1>9 DEF r

LEMMA EffectiveFacts ==
  ASSUME cfg \in Seq(Config)
  PROVE  Effective \in Config
<1>1. CASE cfg = <<>>
  BY <1>1, DefaultConfig DEF Effective
<1>2. CASE cfg # <<>>
  BY <1>2 DEF Effective
<1>3. QED
  BY <1>1, <1>2

LEMMA SettingsFacts ==
  ASSUME Types, NEW p \in Procs, job[p] \in Jobs, job[p].cmd \in Sessions
  PROVE  Settings(p) \in Config
<1>1. Effective \in Config /\ Override(Default, Env) \in Config
      /\ Override(Default, job[p].cli) \in Config
  BY EffectiveFacts, SetupAssumption DEF SetupAssumption, Sessions, Types
<1>2. Override(Effective, Env) \in Config
  BY <1>1, OverrideFacts
<1>3. QED
  BY <1>1, <1>2, OverrideFacts DEF Settings

(* Every set of places that is not empty has a first.                       *)
LEMMA First ==
  ASSUME NEW T \in SUBSET Nat, T # {}
  PROVE  \E x \in T : \A y \in T : x <= y
<1> DEFINE U == {1 .. n : n \in T}
<1>1. U \subseteq FiniteSubsetsOf(Nat) /\ U # {}
  <2>1. \A n \in T : 1 .. n \in SUBSET Nat /\ IsFiniteSet(1 .. n)
    BY FS_Interval
  <2>2. QED
    BY <2>1 DEF FiniteSubsetsOf
<1>2. IsWellFoundedOn(StrictSubsetOrdering(Nat), FiniteSubsetsOf(Nat))
  BY FS_StrictSubsetOrderingWellFounded
<1>3. PICK X \in U : \A Y \in U : <<Y, X>> \notin StrictSubsetOrdering(Nat)
  BY <1>1, <1>2, WFMin
<1>4. PICK x \in T : X = 1 .. x
  BY <1>3
<1>5. ASSUME NEW y \in T, y < x PROVE FALSE
  <2>1. 1 .. y \in U /\ 1 .. y \subseteq 1 .. x /\ x \in 1 .. x /\ x \notin 1 .. y
    BY <1>5
  <2>2. <<1 .. y, 1 .. x>> \in StrictSubsetOrdering(Nat)
    BY <2>1 DEF StrictSubsetOrdering
  <2>3. QED
    BY <1>3, <1>4, <2>1, <2>2
<1>6. QED
  BY <1>5

LEMMA AnyFacts ==
  ASSUME AnyInstalled # None
  PROVE  AnyInstalled \in Names
<1> DEFINE I == {i \in 1..Len(Builtin) : Installed(Builtin[i].name)}
<1> DEFINE first == IF I # {} THEN Min(I) ELSE 0
<1>1. AnyInstalled = IF first = 0 THEN None ELSE Builtin[first].name
  BY DEF AnyInstalled, SelectInSeq
<1>2. first # 0
  BY <1>1
<1>3. I # {} /\ first = Min(I)
  BY <1>2
<1>4. I \in SUBSET Nat /\ I \subseteq 1..Len(Builtin)
  BY CatalogFacts
<1>5. \E x \in I : \A y \in I : x <= y
  <2> HIDE DEF I
  <2>1. QED
    BY <1>3, <1>4, First
<1>6. Min(I) \in I
  <2> HIDE DEF I
  <2>1. QED
    BY <1>5 DEF Min
<1>7. Builtin[first] \in Offered
  <2> HIDE DEF I
  <2>1. QED
    BY <1>3, <1>4, <1>6, CatalogFacts
<1>8. QED
  BY <1>1, <1>2, <1>7, CatalogFacts

-----------------------------------------------------------------------------
(* Steps that leave a part of the state alone *)

(* What the invariant says of one process; a file it writes may lose its    *)
(* name meanwhile.                                                          *)
Same(q) ==
  /\ pc'[q] = pc[q] /\ job'[q] = job[q] /\ change'[q] = change[q]
  /\ conf'[q] = conf[q] /\ queue'[q] = queue[q]
  /\ tuning'[q] = tuning[q] /\ opened'[q] = opened[q]
  /\ fetch'[q].file = fetch[q].file /\ fetch'[q].next = fetch[q].next
  /\ fetch'[q].clean = fetch[q].clean

Others(p) == \A q \in Procs \ {p} : Same(q)

LEMMA SameEach ==
  ASSUME NEW q \in Procs, Each(q), Same(q)
  PROVE  Each(q)'
<1>1. Places(q)'
  BY DEF Each, Same, Places
<1>2. Asked(q)'
  BY DEF Each, Same, Asked, Saving, Valid
<1>3. Tuned(q)'
  BY DEF Each, Same, Tuned, Busy, Language, Machine
<1>4. Queued(q)'
  BY DEF Each, Same, Queued, Busy
<1>5. QED
  BY <1>1, <1>2, <1>3, <1>4 DEF Each

(* A command that has ended has nothing in hand.                            *)
LEMMA IdleEach ==
  ASSUME NEW p \in Procs, pc'[p] = "idle"
  PROVE  Each(p)'
<1>1. Places(p)'
  BY DEF Places, Transfer, Sessions
<1>2. Asked(p)'
  BY DEF Asked, Saving
<1>3. Tuned(p)'
  BY DEF Tuned, Busy, Transfer
<1>4. Queued(p)'
  BY DEF Queued, Busy, Transfer
<1>5. QED
  BY <1>1, <1>2, <1>3, <1>4 DEF Each

LEMMA KeptFrame ==
  ASSUME Kept1, NEW p \in Procs, Others(p), ~Saving(p), ~Saving(p)',
         UNCHANGED <<cfg, settled, overlap>>
  PROVE  Kept1'
<1>1. \A q \in Procs : Saving(q)' => Saving(q) /\ q # p
  BY DEF Others, Same, Saving
<1>2. \A q \in Procs : Saving(q)' => conf'[q] = conf[q] /\ change'[q] = change[q]
  BY <1>1 DEF Others, Same
<1>3. \A q \in Procs : At(q, "write") => At(q, "write")'
  BY DEF Others, Same, Saving, At
<1>4. Effective' = Effective
  BY DEF Effective
<1>5. QED
  BY <1>1, <1>2, <1>3, <1>4 DEF Kept1

LEMMA FilesFrame ==
  ASSUME Files, NEW p \in Procs, UNCHANGED <<disk, spoilt>>,
         \A q \in Procs \ {p} : pc'[q] = pc[q] /\ fetch'[q] = fetch[q],
         pc'[p] # "stream",
         pc[p] = "stream" /\ fetch[p].linked /\ fetch[p].file \in Names =>
           disk[fetch[p].file] = Whole \/ fetch[p].file \in spoilt
  PROVE  Files'
<1>1. \A q \in Procs, f \in Names : Writing(q, f)' => Writing(q, f) /\ q # p
  BY DEF Writing
<1>2. \A q \in Procs, f \in Names : Writing(q, f)' => SoFar(q, f)' = SoFar(q, f)
  BY <1>1 DEF SoFar
<1>3. FilesWhole'
  <2> SUFFICES ASSUME NEW f \in Names,
                      disk[f] # Absent, disk[f] # Whole, f \notin spoilt
               PROVE  \E q \in Procs : Writing(q, f)'
    BY DEF FilesWhole, Absent, Whole
  <2>1. PICK q \in Procs : Writing(q, f)
    BY DEF Files, FilesWhole
  <2>2. q # p
    BY <2>1 DEF Writing
  <2>3. QED
    BY <2>1, <2>2 DEF Writing
<1>4. QED
  BY <1>1, <1>2, <1>3 DEF Files, Absent

(* A step of p that neither saves nor writes to a model's file.             *)
LEMMA QuietStep ==
  ASSUME IInv, NEW p \in Procs, Others(p),
         \A q \in Procs \ {p} : fetch'[q] = fetch[q],
         pc[p] \notin {"truncate", "write", "stream"},
         pc'[p] \notin {"truncate", "write", "stream"},
         UNCHANGED <<cfg, disk, settled, overlap, spoilt, tuned>>,
         Types', Each(p)'
  PROVE  IInv'
<1>1. \A q \in Procs : Each(q)'
  BY SameEach DEF IInv, Others
<1>2. Kept1'
  BY KeptFrame DEF IInv, Saving
<1>3. Files'
  <2>1. \A q \in Procs \ {p} : pc'[q] = pc[q] /\ fetch'[q] = fetch[q]
    BY DEF Others, Same
  <2>2. QED
    BY <2>1, FilesFrame DEF IInv
<1>4. TunedWell'
  BY DEF IInv, TunedWell
<1>5. QED
  BY <1>1, <1>2, <1>3, <1>4 DEF IInv

(* A command ends, where it neither saves nor writes to a model's file.     *)
LEMMA ExitStep ==
  ASSUME IInv, NEW p \in Procs, Exit(p), pc[p] \notin {"truncate", "write", "stream"},
         UNCHANGED <<files, settled, overlap, spoilt, tuned, commands>>,
         faults' \in Nat, faults' <= MaxFaults
  PROVE  IInv'
<1>1. pc' = [pc EXCEPT ![p] = "idle"] /\ UNCHANGED locals
  BY DEF Exit, Goto
<1>2. Types /\ pc'[p] = "idle"
  BY <1>1 DEF IInv, Types
<1>3. Others(p) /\ fetch' = fetch
  BY <1>1, <1>2 DEF Others, Same, Types, locals
<1>4. Each(p)'
  BY <1>2, IdleEach
<1>5. Types'
  BY <1>1, <1>2 DEF Types, locals, files, Labels
<1>6. QED
  BY <1>2, <1>3, <1>4, <1>5, QuietStep DEF files

LEMMA FetchFacts ==
  ASSUME NEW x \in Names
  PROVE  /\ [NoFetch EXCEPT !.file = x] \in Fetches
         /\ [NoFetch EXCEPT !.file = x].file = x
<1>1. 0 \in 0..(Blocks + 1)
  BY SetupAssumption DEF SetupAssumption
<1>2. QED
  BY <1>1 DEF NoFetch, Fetches

LEMMA AppendFacts ==
  ASSUME NEW s \in Seq(Names), NEW x \in Names
  PROVE  Append(s, x) \in Seq(Names)
  BY AppendProperties

LEMMA JobFacts ==
  ASSUME Types, NEW p \in Procs, job[p].cmd \in Commands
  PROVE  job[p] \in Jobs
<1>1. job[p] \in Jobs \/ job[p] = [cmd |-> None]
  BY DEF Types
<1>2. job[p] # [cmd |-> None]
  BY DEF Commands, None
<1>3. QED
  BY <1>1, <1>2

-----------------------------------------------------------------------------
(* The steps, one by one *)

LEMMA CommandStep ==
  ASSUME IInv, NEW p \in Procs, Command(p)
  PROVE  IInv'
<1>1. PICK j \in Jobs : Start(p, j) /\ Begin(p, j)
  BY DEF Command
<1>2. Types
  BY DEF IInv
<1>3. /\ pc[p] = "idle" /\ commands < MaxCommands /\ commands' = commands + 1
      /\ job' = [job EXCEPT ![p] = j] /\ tuning' = [tuning EXCEPT ![p] = NoTuning]
      /\ opened' = [opened EXCEPT ![p] = <<>>]
      /\ UNCHANGED <<files, conf, queue, history, faults>>
  BY <1>1 DEF Start, At
<1>4. /\ job'[p] = j /\ tuning'[p] = NoTuning /\ opened'[p] = <<>>
  BY <1>2, <1>3 DEF Types
<1>5. /\ j.cmd \in Commands
      /\ j.cmd = "set" /\ j.key = "model" => j.value \in ModelName
      /\ j.cmd \in {"use", "install"} => j.model \in ModelName
  BY SetupAssumption DEF SetupAssumption
<1>6. ASSUME NEW l \in Labels, pc' = [pc EXCEPT ![p] = l], l \notin {"truncate", "write", "stream"},
             DOMAIN change' = Procs, \A q \in Procs \ {p} : change'[q] = change[q],
             fetch' \in [Procs -> Fetches], \A q \in Procs \ {p} : fetch'[q] = fetch[q],
             Each(p)'
      PROVE  IInv'
  <2>1. Others(p) /\ pc'[p] = l
    BY <1>2, <1>3, <1>6 DEF Others, Same, Types
  <2>2. opened' \in [Procs -> Seq(Names)] /\ job' \in [Procs -> Jobs \cup {[cmd |-> None]}]
    BY <1>2, <1>3 DEF Types
  <2>3. Types'
    BY <1>2, <1>3, <1>6, <2>2, SetupAssumption DEF Types, files, history, SetupAssumption
  <2>4. QED
    BY <1>3, <1>6, <2>1, <2>3, QuietStep DEF files, history
<1>7. ASSUME NEW key, NEW value, Save(p, key, value), UNCHANGED fetch,
             j.cmd \in {"set", "use"}, key = "model" => value \in ModelName
      PROVE  IInv'
  <2>1. /\ pc' = [pc EXCEPT ![p] = "load"] /\ pc'[p] = "load"
        /\ change' = [change EXCEPT ![p] = [key |-> key, value |-> value]]
        /\ change'[p] = [key |-> key, value |-> value]
    BY <1>2, <1>7 DEF Save, Goto, Types
  <2>2. Places(p)'
    BY <1>4, <1>7, <2>1 DEF Places, Transfer
  <2>3. Asked(p)'
    BY <1>7, <2>1 DEF Asked, Saving
  <2>4. Tuned(p)' /\ Queued(p)'
    BY <1>4, <2>1 DEF Tuned, Queued, Busy, Transfer, NoTuning
  <2>5. Each(p)'
    BY <2>2, <2>3, <2>4 DEF Each
  <2>6. QED
    BY <1>2, <1>6, <1>7, <2>1, <2>5 DEF Types, Labels
<1>8. CASE j.cmd = "set"
  BY <1>1, <1>5, <1>7, <1>8 DEF Begin
<1>9. CASE j.cmd = "use"
  <2>1. Save(p, "model", ResolveName(j.model)) /\ UNCHANGED fetch
    BY <1>1, <1>9 DEF Begin
  <2>2. ResolveName(j.model) \in ModelName
    BY <1>5, <1>9, ResolveFacts
  <2>3. QED
    BY <1>7, <1>9, <2>1, <2>2
<1>10. CASE j.cmd = "install"
  <2> DEFINE x == ResolveName(j.model)
  <2>1. x \in Names
    BY <1>5, <1>10, ResolveFacts
  <2>2. fetch' = [fetch EXCEPT ![p] = [NoFetch EXCEPT !.file = x]]
        /\ pc' = [pc EXCEPT ![p] = "fetch"] /\ UNCHANGED change
    BY <1>1, <1>10 DEF Begin, Fetch, Goto
  <2> HIDE DEF x
  <2>3. /\ fetch' \in [Procs -> Fetches] /\ fetch'[p] = [NoFetch EXCEPT !.file = x]
        /\ pc'[p] = "fetch"
    BY <1>2, <2>1, <2>2, FetchFacts DEF Types
  <2>4. fetch'[p].file \in Names
    BY <2>1, <2>3, FetchFacts
  <2>5. Places(p)'
    BY <1>4, <1>10, <2>3, <2>4 DEF Places, Transfer
  <2>6. Asked(p)' /\ Tuned(p)' /\ Queued(p)'
    BY <1>4, <1>10, <2>3 DEF Asked, Saving, Tuned, Queued, Busy, Transfer, NoTuning,
                          Tunings, Sessions
  <2>7. Each(p)'
    BY <2>5, <2>6 DEF Each
  <2>8. QED
    BY <1>2, <1>6, <2>2, <2>3, <2>7 DEF Types, Labels
<1>11. CASE j.cmd \in {"tune", "init", "record", "daemon"}
  <2>1. pc' = [pc EXCEPT ![p] = j.cmd] /\ UNCHANGED <<change, fetch>>
    BY <1>1, <1>11 DEF Begin, Goto
  <2>2. pc'[p] = j.cmd
    BY <1>2, <2>1 DEF Types
  <2>3. Places(p)'
    BY <1>4, <1>11, <2>2 DEF Places, Transfer, Tunings
  <2>4. Asked(p)' /\ Tuned(p)' /\ Queued(p)'
    BY <1>4, <1>11, <2>2 DEF Asked, Saving, Tuned, Queued, Busy, Transfer, NoTuning,
                          Tunings, Sessions
  <2>5. Each(p)'
    BY <2>3, <2>4 DEF Each
  <2>6. QED
    BY <1>2, <1>6, <1>11, <2>1, <2>5 DEF Types, Labels
<1>12. QED
  BY <1>5, <1>8, <1>9, <1>10, <1>11 DEF Commands

LEMMA RejectedStep ==
  ASSUME IInv, NEW p \in Procs, Rejected(p)
  PROVE  IInv'
  BY ExitStep DEF Rejected, At, IInv, Types, history

LEMMA CannotFetchStep ==
  ASSUME IInv, NEW p \in Procs, CannotFetch(p)
  PROVE  IInv'
<1>1. faults' \in Nat /\ faults' <= MaxFaults
  BY SetupAssumption DEF CannotFetch, IInv, Types, SetupAssumption
<1>2. QED
  BY <1>1, ExitStep DEF CannotFetch, At, history

LEMMA BenchFailsStep ==
  ASSUME IInv, NEW p \in Procs, BenchFails(p)
  PROVE  IInv'
  BY ExitStep DEF BenchFails, At, IInv, Types, history

LEMMA NoVariantStep ==
  ASSUME IInv, NEW p \in Procs, NoVariant(p)
  PROVE  IInv'
  BY ExitStep DEF NoVariant, At, IInv, Types, history

LEMMA RespondStep ==
  ASSUME IInv, NEW p \in Procs, Respond(p)
  PROVE  IInv'
<1>1. Types /\ Each(p)
  BY DEF IInv
<1>2. /\ pc[p] = "fetch" /\ pc' = [pc EXCEPT ![p] = "create"]
      /\ UNCHANGED <<files, locals, history, commands, faults>>
  BY DEF Respond, At, Goto
<1>3. pc'[p] = "create" /\ Others(p) /\ fetch' = fetch
  BY <1>1, <1>2 DEF Types, Others, Same, locals
<1>4. Places(p)' /\ Asked(p)'
  BY <1>1, <1>2, <1>3 DEF Each, Places, Asked, Saving, Transfer, Sessions, locals
<1>5. Tuned(p)'
  BY <1>1, <1>2, <1>3 DEF Each, Tuned, Busy, Transfer, locals, Language, Machine
<1>6. Queued(p)'
  BY <1>1, <1>2, <1>3 DEF Each, Queued, Busy, Transfer, locals
<1>7. Each(p)'
  BY <1>4, <1>5, <1>6 DEF Each
<1>8. Types'
  BY <1>1, <1>2 DEF Types, files, locals, history, Labels
<1>9. QED
  BY <1>2, <1>3, <1>7, <1>8, QuietStep DEF files, history

(* A model has arrived, by whatever way.                                    *)
LEMMA ArrivedFacts ==
  ASSUME Types, NEW p \in Procs, Each(p), Arrived(p), pc[p] \in {"fetch", "stream"},
         UNCHANGED <<files, history, commands, faults>>
  PROVE  /\ Types' /\ Each(p)' /\ Others(p)
         /\ pc'[p] \in {"idle", "bench", "open", "pick"}
         /\ \A q \in Procs \ {p} : fetch'[q] = fetch[q]
<1> DEFINE cmd == job[p].cmd
<1> DEFINE next == CASE cmd = "install" -> "idle"
                     [] cmd \in {"tune", "init"} -> "bench"
                     [] cmd = "record" -> "open"
                     [] cmd = "daemon" -> "pick"
<1>1. /\ pc' = [pc EXCEPT ![p] = next]
      /\ fetch' = [fetch EXCEPT ![p].linked = FALSE]
      /\ opened' = IF cmd = "daemon" THEN [opened EXCEPT ![p] = Append(@, fetch[p].file)] ELSE opened
      /\ UNCHANGED <<job, change, conf, queue, tuning>>
  BY DEF Arrived, Goto
<1>2. cmd \in {"install", "tune", "init", "record", "daemon"}
  BY DEF Each, Places, Transfer, Tunings, Sessions
<1>3. fetch[p].file \in Names
  BY DEF Each, Places, Transfer
<1>4. /\ next \in {"idle", "bench", "open", "pick"} /\ pc'[p] = next
      /\ next = "idle" => cmd = "install"
      /\ next = "bench" => cmd \in Tunings
      /\ next = "open" => cmd = "record"
      /\ next = "pick" => cmd = "daemon"
  BY <1>1, <1>2 DEF Types, Tunings
<1> HIDE DEF next
<1>5. /\ fetch'[p].file = fetch[p].file /\ fetch'[p].next = fetch[p].next
      /\ fetch' \in [Procs -> Fetches]
      /\ \A q \in Procs \ {p} : fetch'[q] = fetch[q]
  <2>1. fetch[p] \in Fetches /\ fetch \in [Procs -> Fetches]
    BY DEF Types
  <2>2. fetch' = [fetch EXCEPT ![p] = [fetch[p] EXCEPT !.linked = FALSE]]
    BY <1>1, <2>1
  <2>3. [fetch[p] EXCEPT !.linked = FALSE] \in Fetches
    BY <2>1 DEF Fetches
  <2>4. fetch'[p] = [fetch[p] EXCEPT !.linked = FALSE]
    BY <2>1, <2>2
  <2>5. /\ fetch'[p].file = fetch[p].file /\ fetch'[p].next = fetch[p].next
    BY <2>1, <2>4 DEF Fetches
  <2>6. QED
    BY <2>1, <2>2, <2>3, <2>5
<1>6. opened' \in [Procs -> Seq(Names)] /\ \A q \in Procs \ {p} : opened'[q] = opened[q]
  <2>1. opened[p] \in Seq(Names) /\ opened \in [Procs -> Seq(Names)]
    BY DEF Types
  <2>2. Append(opened[p], fetch[p].file) \in Seq(Names)
    BY <1>3, <2>1, AppendFacts
  <2>3. QED
    BY <1>1, <2>1, <2>2
<1>7. Types'
  BY <1>1, <1>4, <1>5, <1>6 DEF Types, files, history, Labels
<1>8. Others(p)
  BY <1>1, <1>5, <1>6 DEF Types, Others, Same
<1>9. Places(p)'
  BY <1>1, <1>3, <1>4, <1>5 DEF Places, Transfer, Sessions
<1>10. Asked(p)'
  BY <1>4 DEF Asked, Saving
<1>11. Tuned(p)'
  BY <1>1, <1>2, <1>4, <1>5 DEF Each, Tuned, Busy, Transfer, Tunings, Language, Machine
<1>12. Queued(p)'
  BY <1>1, <1>4 DEF Each, Queued, Busy, Transfer, Sessions, Tunings
<1>13. QED
  BY <1>4, <1>5, <1>7, <1>8, <1>9, <1>10, <1>11, <1>12 DEF Each

LEMMA AlreadyThereStep ==
  ASSUME IInv, NEW p \in Procs, AlreadyThere(p)
  PROVE  IInv'
<1>1. /\ pc[p] = "fetch" /\ Arrived(p)
      /\ UNCHANGED <<files, history, commands, faults>>
  BY DEF AlreadyThere, At
<1>2. /\ Types' /\ Each(p)' /\ Others(p)
      /\ pc'[p] \in {"idle", "bench", "open", "pick"}
      /\ \A q \in Procs \ {p} : fetch'[q] = fetch[q]
  BY <1>1, ArrivedFacts DEF IInv
<1>3. QED
  BY <1>1, <1>2, QuietStep DEF files, history

LEMMA InitBackendStep ==
  ASSUME IInv, NEW p \in Procs, InitBackend(p)
  PROVE  IInv'
<1> DEFINE v == RecommendBackend(Machine(p).desktop, Machine(p).tools)
<1>1. Types /\ Each(p)
  BY DEF IInv
<1>2. /\ pc[p] = "init" /\ pc' = [pc EXCEPT ![p] = "load"]
      /\ change' = [change EXCEPT ![p] = [key |-> "backend", value |-> v]]
      /\ UNCHANGED <<files, job, conf, fetch, queue, tuning, opened, history, commands, faults>>
  BY DEF InitBackend, At, Goto, Save
<1> HIDE DEF v
<1>3. pc'[p] = "load" /\ Others(p) /\ change'[p] = [key |-> "backend", value |-> v]
  BY <1>1, <1>2 DEF Types, Others, Same
<1>4. job[p].cmd = "init" /\ tuning[p].stage = None
  BY <1>1, <1>2 DEF Each, Places, Tuned
<1>5. Places(p)' /\ Asked(p)'
  BY <1>2, <1>3, <1>4 DEF Places, Asked, Saving, Transfer, Sessions
<1>6. Tuned(p)' /\ Queued(p)'
  BY <1>2, <1>3, <1>4 DEF Tuned, Queued, Busy, Transfer
<1>7. Each(p)'
  BY <1>5, <1>6 DEF Each
<1>8. Types'
  BY <1>1, <1>2 DEF Types, files, history, Labels
<1>9. QED
  BY <1>2, <1>3, <1>7, <1>8, QuietStep DEF files, history

LEMMA TuneStep ==
  ASSUME IInv, NEW p \in Procs, Tune(p)
  PROVE  IInv'
<1> DEFINE x == Probe(Language(p))
<1> DEFINE t == [stage |-> "probe", slow |-> {}, viable |-> {},
                 language |-> Language(p), machine |-> Machine(p)]
<1>1. Types /\ Each(p)
  BY DEF IInv
<1>2. x \in Names /\ ResolveName(x) = x
  BY ProbeFacts
<1>3. /\ pc[p] = "tune" /\ pc' = [pc EXCEPT ![p] = "fetch"]
      /\ tuning' = [tuning EXCEPT ![p] = t]
      /\ fetch' = [fetch EXCEPT ![p] = [NoFetch EXCEPT !.file = x]]
      /\ UNCHANGED <<files, job, change, conf, queue, opened, history, commands, faults>>
  BY <1>2 DEF Tune, At, Goto, Fetch
<1>4. /\ DOMAIN t = TuningFields /\ t.stage = "probe" /\ t.slow = {}
      /\ t.language = Language(p) /\ t.machine = Machine(p)
  BY DEF TuningFields
<1>5. Probe(Language(p)') = x
  BY <1>3 DEF Language
<1> HIDE DEF x, t
<1>6. pc'[p] = "fetch" /\ tuning'[p] = t /\ fetch'[p] = [NoFetch EXCEPT !.file = x]
  BY <1>1, <1>3 DEF Types
<1>7. /\ fetch' \in [Procs -> Fetches] /\ fetch'[p].file = x
      /\ \A q \in Procs \ {p} : fetch'[q] = fetch[q]
  BY <1>1, <1>2, <1>3, <1>6, FetchFacts DEF Types
<1>8. Others(p)
  BY <1>1, <1>3, <1>7 DEF Types, Others, Same
<1>9. job[p].cmd \in Tunings
  BY <1>1, <1>3 DEF Each, Places
<1>10. Places(p)' /\ Asked(p)'
  BY <1>2, <1>3, <1>6, <1>7, <1>9 DEF Places, Asked, Saving, Transfer, Sessions
<1>11. Language(p)' = Language(p) /\ Machine(p)' = Machine(p)
  BY <1>3 DEF Language, Machine
<1>12. Tuned(p)'
  BY <1>4, <1>5, <1>6, <1>7, <1>11 DEF Tuned
<1>13. Queued(p)'
  BY <1>3, <1>9 DEF Queued, Busy, Sessions, Tunings
<1>14. Each(p)'
  BY <1>10, <1>12, <1>13 DEF Each
<1>15. Types'
  BY <1>1, <1>3, <1>7 DEF Types, files, history, Labels
<1>16. QED
  BY <1>3, <1>6, <1>7, <1>8, <1>14, <1>15, QuietStep DEF files, history

(* The benchmark settles on a model ...                                     *)
LEMMA SettleStep ==
  ASSUME IInv, NEW p \in Procs, pc[p] = "bench", NEW n \in Names, Settle(p, n), NEW t,
         DOMAIN tuning' = Procs, tuning'[p] = t,
         \A q \in Procs \ {p} : tuning'[q] = tuning[q],
         t.stage # None => Well([t EXCEPT !.stage = n]),
         UNCHANGED <<files, job, conf, opened, history, commands, faults>>
  PROVE  IInv'
<1>1. Types /\ Each(p) /\ n \in ModelName
  BY ResolveFacts DEF IInv
<1>2. /\ pc' = [pc EXCEPT ![p] = "load"] /\ UNCHANGED <<queue, fetch>>
      /\ change' = [change EXCEPT ![p] = [key |-> "model", value |-> n]]
  BY DEF Settle, Save, Goto
<1>3. pc'[p] = "load" /\ Others(p) /\ change'[p] = [key |-> "model", value |-> n]
  BY <1>1, <1>2 DEF Types, Others, Same
<1>4. job[p].cmd \in Tunings
  BY <1>1 DEF Each, Places
<1>5. Places(p)' /\ Asked(p)'
  BY <1>1, <1>3, <1>4 DEF Places, Asked, Saving, Transfer, Sessions, Tunings
<1>6. Tuned(p)'
  <2>1. tuning'[p].stage # None => Well([tuning'[p] EXCEPT !.stage = change'[p].value])
    BY <1>3
  <2>2. QED
    BY <1>3, <2>1 DEF Tuned, Busy, Transfer, Well
<1>7. Queued(p)'
  BY <1>3 DEF Queued, Busy, Transfer
<1>8. Each(p)'
  BY <1>5, <1>6, <1>7 DEF Each
<1>9. Types'
  BY <1>1, <1>2 DEF Types, files, history, Labels
<1>10. QED
  BY <1>2, <1>3, <1>8, <1>9, QuietStep DEF files, history

(* ... or tries the next.                                                   *)
LEMMA TryStep ==
  ASSUME IInv, NEW p \in Procs, pc[p] = "bench", NEW models, Try(p, models), NEW t,
         DOMAIN tuning' = Procs, tuning'[p] = t,
         \A q \in Procs \ {p} : tuning'[q] = tuning[q],
         DOMAIN t = TuningFields, t.language = Language(p), t.machine = Machine(p),
         t.stage \in {"recommended", "alternative"},
         Trying(t.language, t.machine, t.viable, t.slow, Head(models).name, Tail(models)),
         UNCHANGED <<files, job, conf, opened, history, commands, faults>>
  PROVE  IInv'
<1> DEFINE x == Head(models).name
<1> DEFINE r == Tail(models)
<1>1. Types /\ Each(p)
  BY DEF IInv
<1>2. Trying(t.language, t.machine, t.viable, t.slow, x, r)
  OBVIOUS
<1>3. /\ pc' = [pc EXCEPT ![p] = "fetch"] /\ queue' = [queue EXCEPT ![p] = r]
      /\ fetch' = [fetch EXCEPT ![p] = [NoFetch EXCEPT !.file = ResolveName(x)]]
      /\ UNCHANGED change
  BY DEF Try, Goto, Fetch
<1> HIDE DEF x, r
<1>4. x \in Names /\ ResolveName(x) = x
  <2>1. x \in Names
    BY <1>2 DEF Trying, Names
  <2>2. QED
    BY <2>1, ResolveFacts
<1>5. pc'[p] = "fetch" /\ queue'[p] = r /\ fetch'[p] = [NoFetch EXCEPT !.file = x]
  BY <1>1, <1>3, <1>4 DEF Types
<1>6. /\ fetch' \in [Procs -> Fetches] /\ fetch'[p].file = x
      /\ \A q \in Procs \ {p} : fetch'[q] = fetch[q]
  BY <1>1, <1>3, <1>4, <1>5, FetchFacts DEF Types
<1>7. Others(p)
  BY <1>1, <1>3, <1>6 DEF Types, Others, Same
<1>8. job[p].cmd \in Tunings
  BY <1>1 DEF Each, Places
<1>9. Places(p)' /\ Asked(p)'
  BY <1>3, <1>4, <1>5, <1>6, <1>8 DEF Places, Asked, Saving, Transfer, Sessions
<1>10. Language(p)' = Language(p) /\ Machine(p)' = Machine(p)
  BY DEF Language, Machine
<1>11. Trying(tuning'[p].language, tuning'[p].machine, tuning'[p].viable,
              tuning'[p].slow, fetch'[p].file, queue'[p])
  BY <1>2, <1>5, <1>6
<1>12. Tuned(p)'
  <2>1. tuning'[p].stage # None
    BY DEF None
  <2>2. QED
    BY <1>5, <1>10, <1>11 DEF Tuned, Trying, Sorted
<1>13. Queued(p)'
  BY <1>8 DEF Queued, Busy, Sessions, Tunings
<1>14. Each(p)'
  BY <1>9, <1>12, <1>13 DEF Each
<1>15. Types'
  BY <1>1, <1>3, <1>6 DEF Types, files, history, Labels
<1>16. QED
  BY <1>3, <1>5, <1>6, <1>7, <1>14, <1>15, QuietStep DEF files, history

LEMMA WellFacts ==
  ASSUME NEW t, DOMAIN t = TuningFields, NEW n,
         Chosen(t.language, t.machine, t.viable, t.slow, n)
  PROVE  Well([t EXCEPT !.stage = n])
<1>1. /\ [t EXCEPT !.stage = n].stage = n
      /\ [t EXCEPT !.stage = n].language = t.language
      /\ [t EXCEPT !.stage = n].machine = t.machine
      /\ [t EXCEPT !.stage = n].viable = t.viable
      /\ [t EXCEPT !.stage = n].slow = t.slow
  BY DEF TuningFields
<1>2. QED
  BY <1>1 DEF Well

LEMMA BenchProbeStep ==
  ASSUME IInv, NEW p \in Procs, BenchProbe(p)
  PROVE  IInv'
<1> DEFINE l == Language(p)
<1> DEFINE m == Machine(p)
<1>1. PICK reached \in BOOLEAN :
        LET viable == Viable(reached, job[p].quantized, l, m.ram, m.disk, m.rtf)
        IN  /\ IF viable = <<>> THEN Settle(p, fetch[p].file) ELSE Try(p, viable)
            /\ tuning' = [tuning EXCEPT ![p].stage = "recommended", ![p].viable = ToSet(viable)]
  BY DEF BenchProbe
<1> DEFINE viable == Viable(reached, job[p].quantized, l, m.ram, m.disk, m.rtf)
<1> DEFINE V == ToSet(viable)
<1> DEFINE t == [tuning[p] EXCEPT !.stage = "recommended", !.viable = V]
<1>2. /\ pc[p] = "bench" /\ tuning[p].stage = "probe"
      /\ UNCHANGED <<files, job, conf, opened, history, commands, faults>>
  BY DEF BenchProbe, At
<1>3. Types /\ Each(p)
  BY DEF IInv
<1>4. /\ DOMAIN tuning[p] = TuningFields
      /\ tuning[p].language = l /\ tuning[p].machine = m
      /\ fetch[p].file = Probe(l) /\ tuning[p].slow = {} /\ job[p].cmd \in Tunings
  BY <1>2, <1>3 DEF Each, Tuned, Places, Busy
<1>5. /\ Sorted(viable, l)
      /\ \A i \in 1..Len(viable) : (l # English => ~viable[i].en) /\ Room(viable[i], m)
  BY ViableFacts DEF Room
<1> HIDE DEF viable
<1>6. viable \in Seq(Offered) /\ DOMAIN viable = 1..Len(viable)
  BY <1>5 DEF Sorted
<1>7. /\ V \subseteq Offered /\ \A o \in V : (l # English => ~o.en) /\ Room(o, m)
      /\ \A i \in 1..Len(viable) : viable[i] \in V
      /\ \A o \in V : \E i \in 1..Len(viable) : viable[i] = o
      /\ viable = <<>> => V = {}
  BY <1>5, <1>6 DEF ToSet
<1> HIDE DEF V
<1>8. /\ tuning' = [tuning EXCEPT ![p] = t]
      /\ IF viable = <<>> THEN Settle(p, fetch[p].file) ELSE Try(p, viable)
  <2>1. /\ tuning' = [tuning EXCEPT ![p].stage = "recommended", ![p].viable = V]
        /\ IF viable = <<>> THEN Settle(p, fetch[p].file) ELSE Try(p, viable)
    BY <1>1 DEF viable, V
  <2>2. DOMAIN tuning = Procs
    BY <1>3 DEF Types
  <2>3. QED
    BY <2>1, <2>2
<1>9. /\ DOMAIN t = TuningFields /\ t.stage = "recommended"
      /\ t.language = l /\ t.machine = m /\ t.viable = V /\ t.slow = {}
  <2> DEFINE u == tuning[p]
  <2>1. DOMAIN u = TuningFields /\ u.language = l /\ u.machine = m /\ u.slow = {}
    BY <1>4
  <2> HIDE DEF u, l, m
  <2> DEFINE v == [u EXCEPT !.stage = "recommended", !.viable = V]
  <2>2. /\ DOMAIN v = TuningFields /\ v.stage = "recommended"
        /\ v.language = l /\ v.machine = m /\ v.viable = V /\ v.slow = {}
    BY <2>1 DEF TuningFields
  <2>3. QED
    BY <2>2 DEF u
<1> HIDE DEF t
<1>10. /\ DOMAIN tuning' = Procs /\ tuning'[p] = t
       /\ \A q \in Procs \ {p} : tuning'[q] = tuning[q]
  BY <1>3, <1>8 DEF Types
<1>11. CASE viable = <<>>
  <2>1. Chosen(l, m, V, {}, Probe(l))
    BY <1>7, <1>11, ChooseProbe
  <2>2. Well([t EXCEPT !.stage = Probe(l)])
    BY <1>9, <2>1, WellFacts
  <2>3. Settle(p, Probe(l)) /\ Probe(l) \in Names
    BY <1>4, <1>8, <1>11, ProbeFacts
  <2> HIDE DEF l, m
  <2>4. QED
    BY <1>2, <1>10, <2>2, <2>3, SettleStep
<1>12. CASE viable # <<>>
  <2>1. Trying(l, m, V, {}, Head(viable).name, Tail(viable))
    <3> HIDE DEF l, m
    <3>1. QED
      BY <1>5, <1>7, <1>12, TryFirst
  <2>2. Trying(t.language, t.machine, t.viable, t.slow, Head(viable).name, Tail(viable))
    BY <1>9, <2>1
  <2>3. Try(p, viable) /\ t.stage \in {"recommended", "alternative"}
    BY <1>8, <1>9, <1>12
  <2>4. QED
    BY <1>2, <1>9, <1>10, <2>2, <2>3, TryStep
<1>13. QED
  BY <1>11, <1>12

LEMMA BenchModelStep ==
  ASSUME IInv, NEW p \in Procs, NEW measured \in Measured, BenchModel(p, measured)
  PROVE  IInv'
<1> DEFINE l == Language(p)
<1> DEFINE m == Machine(p)
<1> DEFINE f == fetch[p].file
<1> DEFINE q == queue[p]
<1> DEFINE V == tuning[p].viable
<1> DEFINE slow == tuning[p].slow
<1>1. /\ pc[p] = "bench" /\ tuning[p].stage \in {"recommended", "alternative"}
      /\ UNCHANGED <<files, job, conf, opened, history, commands, faults>>
  BY DEF BenchModel, At
<1>2. Types /\ Each(p)
  BY DEF IInv
<1>3. /\ DOMAIN tuning[p] = TuningFields
      /\ tuning[p].language = l /\ tuning[p].machine = m
      /\ job[p].cmd \in Tunings /\ f \in Names
      /\ Trying(l, m, V, slow, f, q)
  BY <1>1, <1>2 DEF Each, Tuned, Places, Busy, Transfer
<1>4. CASE FastEnough(p, measured)
  <2>1. Settle(p, f) /\ UNCHANGED tuning
    BY <1>4 DEF BenchModel
  <2>2. Chosen(l, m, V, slow, f)
    <3> HIDE DEF l, m, V, slow, f, q
    <3>1. QED
      BY <1>3, ChooseFast
  <2>3. Well([tuning[p] EXCEPT !.stage = f])
    BY <1>3, <2>2, WellFacts
  <2>4. DOMAIN tuning' = Procs
    BY <1>2, <2>1 DEF Types
  <2> HIDE DEF f
  <2>5. QED
    BY <1>1, <1>3, <2>1, <2>3, <2>4, SettleStep
<1>5. CASE ~FastEnough(p, measured)
  <2> DEFINE S == {o \in Offered : EstimatedBelow(70, o, Probe(l), m.rtf)}
  <2> DEFINE r == Kept(q, S)
  <2> DEFINE slower == slow \cup {f}
  <2> DEFINE t == [tuning[p] EXCEPT !.stage = "alternative", !.slow = slower]
  <2>1. tuning' = [tuning EXCEPT ![p].stage = "alternative", ![p].slow = @ \cup {f}]
    BY <1>5 DEF BenchModel
  <2>2. IF r = <<>> THEN Settle(p, Probe(l)) ELSE Try(p, r)
    BY <1>5 DEF BenchModel, Alternatives
  <2>3. /\ DOMAIN tuning' = Procs /\ tuning'[p] = t
        /\ \A o \in Procs \ {p} : tuning'[o] = tuning[o]
    BY <1>2, <2>1 DEF Types
  <2>4. /\ DOMAIN t = TuningFields /\ t.stage = "alternative"
        /\ t.language = l /\ t.machine = m /\ t.viable = V /\ t.slow = slower
    <3> DEFINE u == tuning[p]
    <3>1. DOMAIN u = TuningFields /\ u.language = l /\ u.machine = m /\ u.viable = V
      BY <1>3
    <3> HIDE DEF u, l, m, V, slower
    <3> DEFINE v == [u EXCEPT !.stage = "alternative", !.slow = slower]
    <3>2. /\ DOMAIN v = TuningFields /\ v.stage = "alternative"
          /\ v.language = l /\ v.machine = m /\ v.viable = V /\ v.slow = slower
      BY <3>1 DEF TuningFields
    <3>3. QED
      BY <3>2 DEF u
  <2> HIDE DEF t
  <2>5. \A o \in Offered : Headroom(l, m, o) => o \in S
    BY DEF Headroom
  <2>6. V \subseteq Offered /\ \A o \in V : (l # English => ~o.en) /\ Room(o, m)
    BY <1>3 DEF Trying
  <2> HIDE DEF S, l, m, V, slow, f, q
  <2>7. /\ Sorted(r, l)
        /\ \A i \in 1..Len(r) : r[i] \in V /\ r[i].name \notin slower
        /\ \A o \in V : o.name \in slower \/ ~Headroom(l, m, o) \/ \E i \in 1..Len(r) : r[i] = o
    <3>1. Remaining(l, m, V, slow \cup {f}, Kept(q, S))
      BY <1>3, <2>5, TryLeft
    <3>2. QED
      BY <3>1 DEF Remaining
  <2> HIDE DEF r, slower
  <2>8. CASE r = <<>>
    <3>1. \A o \in V : o.name \in slower \/ ~Headroom(l, m, o)
      <4>1. 1..Len(r) = {}
        BY <2>8
      <4>2. QED
        BY <2>7, <4>1
    <3>2. Chosen(l, m, V, slower, Probe(l))
      BY <3>1, ChooseProbe
    <3>3. Well([t EXCEPT !.stage = Probe(l)])
      BY <2>4, <3>2, WellFacts
    <3>4. Settle(p, Probe(l)) /\ Probe(l) \in Names
      BY <2>2, <2>8, ProbeFacts
    <3>5. QED
      BY <1>1, <2>3, <3>3, <3>4, SettleStep
  <2>9. CASE r # <<>>
    <3>1. Trying(l, m, V, slower, Head(r).name, Tail(r))
      BY <2>6, <2>7, <2>9, TryFirst
    <3>2. Trying(t.language, t.machine, t.viable, t.slow, Head(r).name, Tail(r))
      BY <2>4, <3>1
    <3>3. Try(p, r) /\ t.stage \in {"recommended", "alternative"}
      BY <2>2, <2>4, <2>9
    <3>4. t.language = Language(p) /\ t.machine = Machine(p)
      BY <2>4 DEF l, m
    <3>5. QED
      BY <1>1, <2>3, <2>4, <3>2, <3>3, <3>4, TryStep
  <2>10. QED
    BY <2>8, <2>9
<1>6. QED
  BY <1>4, <1>5

(* A session, or the daemon, starts with the models for its settings.       *)
LEMMA StartStep ==
  ASSUME IInv, NEW p \in Procs, pc[p] \in Sessions, NEW q,
         q \in {SessionModels(Settings(p)), DaemonModels(Settings(p))},
         conf' = [conf EXCEPT ![p] = Settings(p)], queue' = [queue EXCEPT ![p] = q],
         Goto(p, "pick") \/ Goto(p, "idle"),
         UNCHANGED <<files, job, change, fetch, tuning, opened, history, commands, faults>>
  PROVE  IInv'
<1> DEFINE c == Settings(p)
<1>1. Types /\ Each(p)
  BY DEF IInv
<1>2. job[p].cmd \in Sessions /\ opened[p] = <<>>
  BY <1>1 DEF Each, Places, Sessions
<1>3. c \in Config
  BY <1>1, <1>2, JobFacts, SettingsFacts DEF Sessions, Commands
<1>4. q \in Seq(ModelName \cup {None})
  BY <1>3, ModelsFacts
<1>5. conf' = [conf EXCEPT ![p] = c]
  OBVIOUS
<1> HIDE DEF c
<1>6. /\ pc' = [pc EXCEPT ![p] = "pick"] \/ pc' = [pc EXCEPT ![p] = "idle"]
      /\ conf'[p] = c /\ queue'[p] = q
  BY <1>1, <1>5 DEF Goto, Types
<1>7. pc'[p] \in {"pick", "idle"} /\ Others(p)
  BY <1>1, <1>5, <1>6 DEF Types, Others, Same
<1>8. Each(p)'
  <2>1. CASE pc'[p] = "idle"
    BY <2>1, IdleEach
  <2>2. CASE pc'[p] = "pick"
    <3>1. Places(p)' /\ Asked(p)'
      BY <1>2, <2>2 DEF Places, Asked, Saving, Transfer, Sessions
    <3>2. Tuned(p)'
      BY <2>2 DEF Tuned, Busy, Transfer
    <3>3. Queued(p)'
      BY <1>2, <1>4, <1>6, <2>2 DEF Queued
    <3>4. QED
      BY <3>1, <3>2, <3>3 DEF Each
  <2>3. QED
    BY <1>7, <2>1, <2>2
<1>9. Types'
  BY <1>1, <1>3, <1>5, <1>6 DEF Types, files, history, Labels
<1>10. QED
  BY <1>7, <1>8, <1>9, QuietStep DEF files, history, Sessions

LEMMA StartSessionStep ==
  ASSUME IInv, NEW p \in Procs, StartSession(p)
  PROVE  IInv'
<1> DEFINE q == SessionModels(Settings(p))
<1>1. /\ pc[p] \in Sessions
      /\ conf' = [conf EXCEPT ![p] = Settings(p)] /\ queue' = [queue EXCEPT ![p] = q]
      /\ Goto(p, "pick") \/ Goto(p, "idle")
      /\ UNCHANGED <<files, job, change, fetch, tuning, opened, history, commands, faults>>
  BY DEF StartSession, At, Sessions
<1>2. q \in {SessionModels(Settings(p)), DaemonModels(Settings(p))}
  OBVIOUS
<1> HIDE DEF q
<1>3. QED
  BY <1>1, <1>2, StartStep

LEMMA StartDaemonStep ==
  ASSUME IInv, NEW p \in Procs, StartDaemon(p)
  PROVE  IInv'
<1> DEFINE q == DaemonModels(Settings(p))
<1>1. /\ pc[p] \in Sessions
      /\ conf' = [conf EXCEPT ![p] = Settings(p)] /\ queue' = [queue EXCEPT ![p] = q]
      /\ Goto(p, "pick") \/ Goto(p, "idle")
      /\ UNCHANGED <<files, job, change, fetch, tuning, opened, history, commands, faults>>
  BY DEF StartDaemon, At, Sessions
<1>2. q \in {SessionModels(Settings(p)), DaemonModels(Settings(p))}
  OBVIOUS
<1> HIDE DEF q
<1>3. QED
  BY <1>1, <1>2, StartStep

(* What a process that picks has in hand.                                   *)
LEMMA PickFacts ==
  ASSUME IInv, NEW p \in Procs, pc[p] = "pick"
  PROVE  /\ job[p].cmd \in Sessions
         /\ queue[p] # <<>> =>
              /\ Tail(queue[p]) \in Seq(ModelName \cup {None})
              /\ Head(queue[p]) # None =>
                   Head(queue[p]) \in ModelName /\ ResolveName(Head(queue[p])) \in Names
<1>1. Each(p) /\ job[p].cmd \in Sessions
  BY DEF IInv, Each, Places
<1>2. queue[p] \in Seq(ModelName \cup {None})
  BY <1>1 DEF Each, Queued, Busy
<1> DEFINE T == ModelName \cup {None}
<1> DEFINE q == queue[p]
<1>3. q \in Seq(T)
  BY <1>2
<1>4. q # <<>> => Tail(q) \in Seq(T) /\ Head(q) \in T
  <2> HIDE DEF T, q
  <2>1. QED
    BY <1>3, NonEmpty
<1>5. \A n \in ModelName : ResolveName(n) \in Names
  BY ResolveFacts
<1>6. QED
  BY <1>1, <1>2, <1>4, <1>5

LEMMA PickStep ==
  ASSUME IInv, NEW p \in Procs, Pick(p)
  PROVE  IInv'
<1> DEFINE n == Head(queue[p])
<1> DEFINE x == ResolveName(n)
<1> DEFINE r == Tail(queue[p])
<1>1. Types
  BY DEF IInv
<1>2. /\ pc[p] = "pick" /\ queue[p] # <<>> /\ n # None
      /\ pc' = [pc EXCEPT ![p] = "fetch"]
      /\ fetch' = [fetch EXCEPT ![p] = [NoFetch EXCEPT !.file = x]]
      /\ UNCHANGED <<files, job, change, conf, tuning, opened, history, commands, faults>>
  BY DEF Pick, At, Fetch, Goto
<1>3. queue' = [queue EXCEPT ![p] = r]
  BY <1>1 DEF Pick, Types
<1>4. /\ job[p].cmd \in Sessions /\ x \in Names /\ r \in Seq(ModelName \cup {None})
  BY <1>2, PickFacts
<1> HIDE DEF x, n, r
<1>6. pc'[p] = "fetch" /\ queue'[p] = r /\ fetch'[p] = [NoFetch EXCEPT !.file = x]
  BY <1>1, <1>2, <1>3 DEF Types
<1>7. /\ fetch' \in [Procs -> Fetches] /\ fetch'[p].file = x
      /\ \A q \in Procs \ {p} : fetch'[q] = fetch[q]
  BY <1>1, <1>2, <1>4, <1>6, FetchFacts DEF Types
<1>8. Others(p)
  BY <1>1, <1>2, <1>3, <1>7 DEF Types, Others, Same
<1>9. Places(p)' /\ Asked(p)'
  BY <1>2, <1>4, <1>6, <1>7 DEF Places, Asked, Saving, Transfer, Sessions
<1>10. Tuned(p)'
  BY <1>2, <1>4, <1>6 DEF Tuned, Busy, Sessions, Tunings
<1>11. Queued(p)'
  BY <1>2, <1>4, <1>6, <1>7 DEF Queued
<1>12. Each(p)'
  BY <1>9, <1>10, <1>11 DEF Each
<1>13. Types'
  BY <1>1, <1>2, <1>3, <1>7 DEF Types, files, history, Labels
<1>14. QED
  BY <1>2, <1>6, <1>7, <1>8, <1>12, <1>13, QuietStep DEF files, history

LEMMA PickAnotherStep ==
  ASSUME IInv, NEW p \in Procs, PickAnother(p)
  PROVE  IInv'
<1> DEFINE x == AnyInstalled
<1> DEFINE r == Tail(queue[p])
<1>1. Types
  BY DEF IInv
<1>2. /\ pc[p] = "pick" /\ job[p].cmd = "record" /\ queue[p] # <<>>
      /\ UNCHANGED <<files, history, commands, faults>>
  BY DEF PickAnother, At
<1>3. CASE x = None
  BY <1>1, <1>2, <1>3, ExitStep DEF PickAnother, Types, history
<1>4. CASE x # None
  <2>1. /\ pc' = [pc EXCEPT ![p] = "open"]
        /\ fetch' = [fetch EXCEPT ![p] = [NoFetch EXCEPT !.file = x]]
        /\ UNCHANGED <<job, change, conf, tuning, opened>>
    BY <1>4 DEF PickAnother, Goto
  <2>2. queue' = [queue EXCEPT ![p] = r]
    BY <1>1, <1>4 DEF PickAnother, Types
  <2>3. x \in Names /\ r \in Seq(ModelName \cup {None})
    BY <1>2, <1>4, AnyFacts, PickFacts
  <2> HIDE DEF x, r
  <2>4. /\ pc'[p] = "open" /\ queue'[p] = r
        /\ fetch'[p] = [NoFetch EXCEPT !.file = x]
    BY <1>1, <2>1, <2>2 DEF Types
  <2>5. /\ fetch' \in [Procs -> Fetches] /\ fetch'[p].file = x
        /\ \A q \in Procs \ {p} : fetch'[q] = fetch[q]
    BY <1>1, <2>1, <2>3, <2>4, FetchFacts DEF Types
  <2>6. Others(p)
    BY <1>1, <2>1, <2>2, <2>5 DEF Types, Others, Same
  <2>7. Places(p)' /\ Asked(p)'
    BY <1>2, <2>1, <2>3, <2>4, <2>5 DEF Places, Asked, Saving, Transfer, Sessions
  <2>8. Tuned(p)'
    BY <2>4 DEF Tuned, Busy, Transfer
  <2>9. Queued(p)'
    BY <1>2, <2>1, <2>3, <2>4, <2>5 DEF Queued
  <2>10. Each(p)'
    BY <2>7, <2>8, <2>9 DEF Each
  <2>11. Types'
    BY <1>1, <1>2, <2>1, <2>2, <2>5 DEF Types, files, history, Labels
  <2>12. QED
    BY <1>2, <2>4, <2>5, <2>6, <2>10, <2>11, QuietStep DEF files, history
<1>5. QED
  BY <1>3, <1>4

LEMMA PickRegardlessStep ==
  ASSUME IInv, NEW p \in Procs, PickRegardless(p)
  PROVE  IInv'
<1> DEFINE n == Head(queue[p])
<1> DEFINE x == ResolveName(n)
<1> DEFINE r == Tail(queue[p])
<1>1. Types
  BY DEF IInv
<1>2. /\ pc[p] = "pick" /\ job[p].cmd = "daemon" /\ queue[p] # <<>> /\ n # None
      /\ UNCHANGED <<files, history, commands, faults>>
  BY DEF PickRegardless, At
<1>3. CASE opened[p] = <<>> /\ AnyInstalled = None
  BY <1>1, <1>2, <1>3, ExitStep DEF PickRegardless, Types, history
<1>4. CASE ~(opened[p] = <<>> /\ AnyInstalled = None)
  <2>1. UNCHANGED <<pc, job, change, conf, fetch, tuning>>
    BY <1>4 DEF PickRegardless
  <2>2. /\ opened' = [opened EXCEPT ![p] = Append(opened[p], x)]
        /\ queue' = [queue EXCEPT ![p] = r]
    BY <1>1, <1>4 DEF PickRegardless, Types
  <2>3. /\ x \in Names /\ r \in Seq(ModelName \cup {None})
    BY <1>2, PickFacts
  <2> HIDE DEF x, n, r
  <2>5. opened[p] \in Seq(Names) /\ opened'[p] = Append(opened[p], x) /\ queue'[p] = r
    BY <1>1, <2>2 DEF Types
  <2>6. opened'[p] \in Seq(Names)
    BY <2>3, <2>5, AppendFacts
  <2>7. opened' \in [Procs -> Seq(Names)]
    BY <1>1, <2>2, <2>5, <2>6 DEF Types
  <2>8. Others(p) /\ pc'[p] = "pick"
    BY <1>1, <1>2, <2>1, <2>2 DEF Types, Others, Same
  <2>9. Places(p)' /\ Asked(p)'
    BY <1>2, <2>1 DEF Places, Asked, Saving, Transfer, Sessions
  <2>10. Tuned(p)'
    BY <2>8 DEF Tuned, Busy, Transfer
  <2>11. Queued(p)'
    BY <2>1, <2>3, <2>5, <2>6 DEF Queued
  <2>12. Each(p)'
    BY <2>9, <2>10, <2>11 DEF Each
  <2>13. Types'
    BY <1>1, <1>2, <2>1, <2>2, <2>7 DEF Types, files, history
  <2>14. QED
    BY <1>2, <2>1, <2>8, <2>12, <2>13, QuietStep DEF files, history
<1>5. QED
  BY <1>3, <1>4

LEMMA OpenStep ==
  ASSUME IInv, NEW p \in Procs, Open(p)
  PROVE  IInv'
<1> DEFINE f == fetch[p].file
<1>1. Types /\ Each(p)
  BY DEF IInv
<1>2. pc[p] = "open" /\ UNCHANGED <<files, history, commands, faults>>
  BY DEF Open, At
<1>3. CASE disk[f] # Whole
  BY <1>1, <1>2, <1>3, ExitStep DEF Open, Types, history
<1>4. CASE disk[f] = Whole
  <2>1. /\ pc' = [pc EXCEPT ![p] = IF queue[p] = <<>> THEN "idle" ELSE "pick"]
        /\ UNCHANGED <<job, change, conf, fetch, queue, tuning>>
    BY <1>4 DEF Open, Goto
  <2>2. opened' = [opened EXCEPT ![p] = Append(opened[p], f)]
    BY <1>1, <1>4 DEF Open, Types
  <2>3. job[p].cmd = "record" /\ f \in Names /\ queue[p] \in Seq(ModelName \cup {None})
    BY <1>1, <1>2 DEF Each, Places, Queued, Busy, Sessions, Transfer
  <2>4. opened[p] \in Seq(Names) /\ opened'[p] = Append(opened[p], f)
    BY <1>1, <2>2 DEF Types
  <2>5. opened'[p] \in Seq(Names)
    BY <2>3, <2>4, AppendFacts
  <2>6. pc'[p] \in {"idle", "pick"} /\ Others(p)
    BY <1>1, <2>1, <2>2 DEF Types, Others, Same
  <2>7. Each(p)'
    <3>1. CASE pc'[p] = "idle"
      BY <3>1, IdleEach
    <3>2. CASE pc'[p] = "pick"
      <4>1. Places(p)' /\ Asked(p)'
        BY <2>1, <2>3, <3>2 DEF Places, Asked, Saving, Transfer, Sessions
      <4>2. Tuned(p)'
        BY <3>2 DEF Tuned, Busy, Transfer
      <4>3. Queued(p)'
        BY <2>1, <2>3 DEF Queued
      <4>4. QED
        BY <4>1, <4>2, <4>3 DEF Each
    <3>3. QED
      BY <2>6, <3>1, <3>2
  <2>8. Types'
    <3>1. opened' \in [Procs -> Seq(Names)]
      BY <1>1, <2>2, <2>4, <2>5 DEF Types
    <3>2. QED
      BY <1>1, <1>2, <2>1, <3>1 DEF Types, files, history, Labels
  <2>9. QED
    BY <1>2, <2>1, <2>6, <2>7, <2>8, QuietStep DEF files, history
<1>5. QED
  BY <1>3, <1>4

LEMMA OpenAllStep ==
  ASSUME IInv, NEW p \in Procs, OpenAll(p)
  PROVE  IInv'
  BY ExitStep DEF OpenAll, At, IInv, Types, history

-----------------------------------------------------------------------------
(* The steps that save *)

LEMMA LoadConfigStep ==
  ASSUME IInv, NEW p \in Procs, LoadConfig(p)
  PROVE  IInv'
<1> DEFINE c == [Effective EXCEPT ![change[p].key] = change[p].value]
<1>1. Types /\ Each(p) /\ Kept1
  BY DEF IInv
<1>2. /\ pc[p] = "load" /\ Valid(change[p]) /\ pc' = [pc EXCEPT ![p] = "truncate"]
      /\ overlap' = (overlap \/ \E q \in Procs \ {p} : Saving(q))
      /\ UNCHANGED <<files, job, change, fetch, queue, tuning, opened,
                     settled, spoilt, tuned, commands, faults>>
  BY DEF LoadConfig, At, Goto
<1>3. conf' = [conf EXCEPT ![p] = c]
  BY DEF LoadConfig
<1>4. change[p].key = "model" => change[p].value \in ModelName
  BY <1>1, <1>2 DEF Each, Asked
<1>5. c \in Config
  BY <1>1, <1>2, <1>4, EffectiveFacts, SetFacts DEF Types
<1>6. ~overlap' => Effective = settled /\ \A q \in Procs : ~Saving(q)
  <2> SUFFICES ASSUME ~overlap' PROVE Effective = settled /\ \A q \in Procs : ~Saving(q)
    OBVIOUS
  <2>1. ~overlap /\ \A q \in Procs \ {p} : ~Saving(q)
    BY <1>2
  <2>2. \A q \in Procs : ~Saving(q)
    BY <1>2, <2>1 DEF Saving
  <2>3. \A q \in Procs : ~At(q, "write")
    BY <2>2 DEF Saving, At
  <2>4. QED
    BY <1>1, <2>1, <2>2, <2>3 DEF Kept1
<1>7. ~overlap' => c = [settled EXCEPT ![change[p].key] = change[p].value]
  BY <1>6
<1> HIDE DEF c
<1>8. pc'[p] = "truncate" /\ conf'[p] = c /\ Others(p)
  BY <1>1, <1>2, <1>3 DEF Types, Others, Same
<1>9. Kept1'
  <2> SUFFICES ASSUME ~overlap'
               PROVE  /\ \A q \in Procs : Saving(q)' => q = p
                      /\ conf'[p] = [settled EXCEPT ![change[p].key] = change[p].value]
                      /\ Effective' = settled
    BY <1>2 DEF Kept1
  <2>1. \A q \in Procs : Saving(q)' => q = p
    BY <1>6, <1>8 DEF Saving, Others, Same
  <2>2. conf'[p] = [settled EXCEPT ![change[p].key] = change[p].value]
    BY <1>7, <1>8
  <2>3. Effective' = settled
    BY <1>2, <1>6 DEF files, Effective
  <2>4. QED
    BY <2>1, <2>2, <2>3
<1>10. Places(p)'
  BY <1>1, <1>2, <1>8 DEF Each, Places, Transfer, Sessions
<1>11. Asked(p)'
  BY <1>2, <1>4, <1>8 DEF Asked, Valid
<1>12. Tuned(p)' /\ Queued(p)'
  BY <1>1, <1>2, <1>8 DEF Each, Tuned, Queued, Busy, Transfer
<1>13. \A q \in Procs : Each(q)'
  BY <1>8, <1>10, <1>11, <1>12, SameEach DEF Each, IInv, Others
<1>14. Types'
  <2>1. overlap' \in BOOLEAN
    BY <1>1, <1>2 DEF Types
  <2>2. QED
    BY <1>1, <1>2, <1>3, <1>5, <2>1 DEF Types, files, Labels
<1>15. Files'
  BY <1>1, <1>2, <1>8, FilesFrame DEF IInv, files, Others, Same
<1>16. TunedWell'
  BY <1>2 DEF IInv, TunedWell
<1>17. QED
  BY <1>9, <1>13, <1>14, <1>15, <1>16 DEF IInv

LEMMA TruncateStep ==
  ASSUME IInv, NEW p \in Procs, Truncate(p)
  PROVE  IInv'
<1>1. Types /\ Each(p) /\ Kept1
  BY DEF IInv
<1>2. /\ pc[p] = "truncate" /\ cfg' = <<>> /\ pc' = [pc EXCEPT ![p] = "write"]
      /\ UNCHANGED <<disk, locals, history, commands, faults>>
  BY DEF Truncate, At, Goto
<1>3. pc'[p] = "write" /\ Others(p)
  BY <1>1, <1>2 DEF Types, Others, Same, locals
<1>4. Kept1'
  <2>1. \A q \in Procs : Saving(q)' <=> Saving(q)
    BY <1>2, <1>3 DEF Saving, Others, Same
  <2>2. At(p, "write")'
    BY <1>3 DEF At
  <2>3. QED
    BY <1>1, <1>2, <2>1, <2>2 DEF Kept1, locals, history
<1>5. Places(p)' /\ Asked(p)'
  BY <1>1, <1>2, <1>3 DEF Each, Places, Asked, Saving, Valid, Transfer, Sessions, locals
<1>6. Tuned(p)' /\ Queued(p)'
  BY <1>1, <1>2, <1>3 DEF Each, Tuned, Queued, Busy, Transfer, locals
<1>7. \A q \in Procs : Each(q)'
  BY <1>3, <1>5, <1>6, SameEach DEF Each, IInv, Others
<1>8. Types'
  BY <1>1, <1>2 DEF Types, locals, history, Labels
<1>9. Files'
  BY <1>1, <1>2, <1>3, FilesFrame DEF IInv, locals, history, Others, Same
<1>10. TunedWell'
  BY <1>2 DEF IInv, TunedWell, history
<1>11. QED
  BY <1>4, <1>7, <1>8, <1>9, <1>10 DEF IInv

LEMMA WriteStep ==
  ASSUME IInv, NEW p \in Procs, Write(p)
  PROVE  IInv'
<1> DEFINE next == IF job[p].cmd = "init" /\ tuning[p].stage = None THEN "tune" ELSE "idle"
<1> DEFINE new == [settled EXCEPT ![change[p].key] = change[p].value]
<1> DEFINE t == [tuning[p] EXCEPT !.stage = change[p].value]
<1>1. Types /\ Each(p) /\ Kept1
  BY DEF IInv
<1>2. /\ pc[p] = "write" /\ cfg' = <<conf[p]>> /\ pc' = [pc EXCEPT ![p] = next]
      /\ settled' = new
      /\ tuned' = IF tuning[p].stage # None THEN tuned \cup {t} ELSE tuned
      /\ UNCHANGED <<disk, locals, overlap, spoilt, commands, faults>>
  BY DEF Write, At, Goto
<1>3. Valid(change[p]) /\ (change[p].key = "model" => change[p].value \in ModelName)
  BY <1>1, <1>2 DEF Each, Asked, Saving
<1>4. new \in Config /\ conf[p] \in Config
  BY <1>1, <1>3, SetFacts DEF Types
<1>5. tuning[p].stage # None => Well(t)
  BY <1>1, <1>2 DEF Each, Tuned
<1>6. ~overlap => conf[p] = new /\ \A q \in Procs : Saving(q) => q = p
  BY <1>1, <1>2 DEF Kept1, Saving
<1>7. next \in {"tune", "idle"} /\ (next = "tune" => job[p].cmd = "init")
  OBVIOUS
<1> HIDE DEF next, new, t
<1>8. pc'[p] = next /\ Others(p)
  BY <1>1, <1>2 DEF Types, Others, Same, locals
<1>9. Kept1'
  <2> SUFFICES ASSUME ~overlap'
               PROVE  (\A q \in Procs : ~Saving(q)') /\ Effective' = settled'
    BY DEF Kept1
  <2>1. \A q \in Procs : ~Saving(q)'
    BY <1>2, <1>6, <1>7, <1>8 DEF Saving, Others, Same
  <2>2. Effective' = conf[p]
    BY <1>2 DEF Effective
  <2>3. QED
    BY <1>2, <1>6, <2>1, <2>2
<1>10. Each(p)'
  <2>1. CASE next = "idle"
    BY <1>8, <2>1, IdleEach
  <2>2. CASE next = "tune"
    BY <1>2, <1>7, <1>8, <2>2 DEF Each, Places, Asked, Saving, Tuned, Queued, Busy,
                                  Transfer, Sessions, Tunings, locals
  <2>3. QED
    BY <1>7, <2>1, <2>2
<1>11. \A q \in Procs : Each(q)'
  BY <1>8, <1>10, SameEach DEF IInv, Others
<1>12. Types'
  <2>1. <<conf[p]>> \in Seq(Config) /\ Len(<<conf[p]>>) <= 1
    <3> DEFINE c == conf[p]
    <3>1. c \in Config
      BY <1>4
    <3> HIDE DEF c
    <3>2. <<c>> \in Seq(Config) /\ Len(<<c>>) <= 1
      BY <3>1
    <3>3. QED
      BY <3>2 DEF c
  <2>2. next \in Labels
    BY <1>7 DEF Labels
  <2>3. QED
    BY <1>1, <1>2, <1>4, <2>1, <2>2 DEF Types, locals
<1>13. Files'
  BY <1>1, <1>2, <1>7, <1>8, FilesFrame DEF IInv, locals, Others, Same
<1>14. TunedWell'
  <2>1. \A u \in tuned : Well(u)
    BY WellTuned DEF IInv
  <2>2. \A u \in tuned' : Well(u)
    BY <1>2, <1>5, <2>1
  <2>3. QED
    BY <2>2 DEF TunedWell, Well, Chosen, Better, Headroom, Room
<1>15. QED
  BY <1>9, <1>11, <1>12, <1>13, <1>14 DEF IInv

-----------------------------------------------------------------------------
(* The steps of a download *)

(* A step of p that does not save.                                          *)
LEMMA UnsavedStep ==
  ASSUME IInv, NEW p \in Procs, Others(p), ~Saving(p), ~Saving(p)',
         UNCHANGED <<cfg, settled, overlap, tuned>>,
         Types', Each(p)', Files'
  PROVE  IInv'
<1>1. \A q \in Procs : Each(q)'
  BY SameEach DEF IInv, Others
<1>2. Kept1'
  BY KeptFrame DEF IInv
<1>3. TunedWell'
  BY DEF IInv, TunedWell
<1>4. QED
  BY <1>1, <1>2, <1>3 DEF IInv

LEMMA ContentsFacts ==
  /\ Blocks \in Nat /\ Blocks >= 1
  /\ Blank \in Contents /\ Whole \in Contents
  /\ \A x \in Contents : x # Absent
<1>1. Blocks \in Nat /\ Blocks >= 1
  BY SetupAssumption DEF SetupAssumption
<1>2. Blank \in Contents /\ Whole \in Contents
  BY DEF Blank, Whole, Contents
<1>3. \A x \in Contents : 1 \in DOMAIN x
  BY <1>1 DEF Contents
<1>4. 1 \notin DOMAIN Absent
  BY DEF Absent
<1>5. QED
  BY <1>1, <1>2, <1>3, <1>4

LEMMA CreateStep ==
  ASSUME IInv, NEW p \in Procs, Create(p)
  PROVE  IInv'
<1>1. Types /\ Each(p) /\ Files
  BY DEF IInv
<1>0. PICK f \in Names : f = fetch[p].file
  BY <1>1 DEF Create, At, Each, Places, Transfer
<1>2. f \in Names /\ ResolveName(f) = f
      /\ job[p].cmd \in {"install"} \cup Tunings \cup Sessions
  BY <1>1, ResolveFacts DEF Create, At, Each, Places, Transfer
<1>3. /\ pc[p] = "create" /\ pc' = [pc EXCEPT ![p] = "stream"]
      /\ disk' = [disk EXCEPT ![f] = Blank]
      /\ spoilt' = IF disk[f] # Absent THEN spoilt \cup {f} ELSE spoilt
      /\ UNCHANGED <<cfg, job, change, conf, queue, tuning, opened,
                     settled, overlap, tuned, commands, faults>>
  BY <1>2, <1>0 DEF Create, At, Goto, Installed
<1>4. /\ fetch' \in [Procs -> Fetches]
      /\ fetch'[p].file = f /\ fetch'[p].next = 1 /\ fetch'[p].linked
      /\ \A q \in Procs \ {p} : fetch'[q] = fetch[q]
  <2> DEFINE r == [fetch[p] EXCEPT !.linked = TRUE, !.next = 1]
  <2>1. fetch[p] \in Fetches /\ fetch \in [Procs -> Fetches]
    BY <1>1 DEF Types
  <2>2. fetch' = [fetch EXCEPT ![p] = r]
    BY <2>1 DEF Create
  <2>3. 1 \in 0..(Blocks + 1)
    BY ContentsFacts
  <2>4. r \in Fetches /\ r.file = f /\ r.next = 1 /\ r.linked
    BY <1>0, <2>1, <2>3 DEF Fetches
  <2> HIDE DEF r
  <2>5. QED
    BY <1>2, <2>1, <2>2, <2>4
<1>5. pc'[p] = "stream" /\ Others(p)
  BY <1>1, <1>3, <1>4 DEF Types, Others, Same
<1>6. /\ disk'[f] = Blank /\ \A g \in Names \ {f} : disk'[g] = disk[g]
      /\ disk' \in [Names -> Contents \cup {Absent}]
  BY <1>1, <1>2, <1>3, ContentsFacts DEF Types
<1>7. Writing(p, f)' /\ \A g \in Names : Writing(p, g)' => g = f
  BY <1>4, <1>5 DEF Writing
<1>8. \A q \in Procs \ {p}, g \in Names : Writing(q, g)' <=> Writing(q, g)
  BY <1>4, <1>5 DEF Writing, Others, Same
<1>9. \A g \in Names : Writing(p, g) => FALSE
  BY <1>3 DEF Writing
<1>10. Files'
  <2>1. ASSUME NEW q \in Procs, NEW g \in Names, Writing(q, g)' PROVE disk'[g] # Absent
    BY <1>1, <1>6, <1>7, <1>8, <2>1, ContentsFacts DEF Files
  <2>2. ASSUME NEW q \in Procs, NEW g \in Names, Writing(q, g)', g \notin spoilt'
        PROVE  SoFar(q, g)' /\ \A r \in Procs : Writing(r, g)' => r = q
    <3>1. CASE g = f
      <4>1. disk[f] = Absent
        BY <1>3, <2>2, <3>1
      <4>2. \A r \in Procs \ {p} : ~Writing(r, f)'
        BY <1>1, <1>2, <1>8, <4>1 DEF Files
      <4>3. q = p
        BY <2>2, <3>1, <4>2
      <4>4. \A b \in 1..Blocks : ~(b < fetch'[p].next)
        BY <1>4, ContentsFacts
      <4>5. QED
        BY <3>1, <4>2, <4>3, <4>4 DEF SoFar
    <3>2. CASE g # f
      <4>1. q # p /\ Writing(q, g) /\ g \notin spoilt
        BY <1>3, <1>7, <1>8, <2>2, <3>2
      <4>2. SoFar(q, g) /\ \A r \in Procs : Writing(r, g) => r = q
        BY <1>1, <4>1 DEF Files
      <4>3. SoFar(q, g)' = SoFar(q, g)
        BY <1>4, <1>6, <3>2, <4>1 DEF SoFar
      <4>4. \A r \in Procs : Writing(r, g)' => r = q
        BY <1>7, <1>8, <3>2, <4>2
      <4>5. QED
        BY <4>2, <4>3, <4>4
    <3>3. QED
      BY <3>1, <3>2
  <2>3. ASSUME NEW g \in Names, disk'[g] # Absent, disk'[g] # Whole, g \notin spoilt'
        PROVE  \E q \in Procs : Writing(q, g)'
    <3>1. CASE g = f
      BY <1>7, <3>1
    <3>2. CASE g # f
      <4>1. disk[g] # Absent /\ disk[g] # Whole /\ g \notin spoilt
        BY <1>3, <1>6, <2>3, <3>2
      <4>2. PICK q \in Procs : Writing(q, g)
        BY <1>1, <4>1 DEF Files, FilesWhole
      <4>3. QED
        BY <1>8, <1>9, <4>2
    <3>3. QED
      BY <3>1, <3>2
  <2>4. QED
    BY <2>1, <2>2, <2>3 DEF Files, FilesWhole, Absent, Whole
<1>11. Places(p)' /\ Asked(p)'
  BY <1>2, <1>3, <1>4, <1>5 DEF Places, Asked, Saving, Transfer, Sessions
<1>12. Tuned(p)'
  BY <1>1, <1>3, <1>4, <1>5, <1>0 DEF Each, Tuned, Busy, Transfer, Language, Machine
<1>13. Queued(p)'
  BY <1>1, <1>2, <1>3, <1>4, <1>5, <1>0 DEF Each, Queued, Busy, Transfer
<1>14. Each(p)'
  BY <1>11, <1>12, <1>13 DEF Each
<1>15. Types'
  BY <1>1, <1>2, <1>3, <1>4, <1>6 DEF Types, Labels
<1>16. QED
  BY <1>3, <1>5, <1>10, <1>14, <1>15, UnsavedStep DEF Saving

LEMMA ChunkStep ==
  ASSUME IInv, NEW p \in Procs, NEW block \in {"good", "bad"}, Chunk(p, block)
  PROVE  IInv'
<1>1. Types /\ Each(p) /\ Files
  BY DEF IInv
<1>2. PICK f \in Names, n \in 1..Blocks : f = fetch[p].file /\ n = fetch[p].next
  <2>1. fetch[p] \in Fetches /\ fetch[p].next # 0 /\ fetch[p].next <= Blocks
        /\ fetch[p].file \in Names
    BY <1>1 DEF Chunk, At, Each, Places, Transfer, Types
  <2>2. fetch[p].next \in 1..Blocks
    BY <2>1, ContentsFacts DEF Fetches
  <2>3. QED
    BY <2>1, <2>2
<1>3. /\ pc[p] = "stream" /\ faults' = IF block = "bad" THEN faults + 1 ELSE faults
      /\ block = "bad" => faults < MaxFaults
      /\ disk' = IF fetch[p].linked THEN [disk EXCEPT ![f][n] = block] ELSE disk
      /\ UNCHANGED <<cfg, pc, job, change, conf, queue, tuning, opened, history, commands>>
  BY <1>2 DEF Chunk, At
<1>4. /\ fetch' \in [Procs -> Fetches]
      /\ fetch'[p].file = f /\ fetch'[p].next = n + 1
      /\ fetch'[p].linked = fetch[p].linked
      /\ fetch'[p].clean = (fetch[p].clean /\ block = "good")
      /\ \A q \in Procs \ {p} : fetch'[q] = fetch[q]
  <2> DEFINE r == [fetch[p] EXCEPT !.next = n + 1, !.clean = fetch[p].clean /\ block = "good"]
  <2>1. fetch[p] \in Fetches /\ fetch \in [Procs -> Fetches]
    BY <1>1 DEF Types
  <2>2. fetch' = [fetch EXCEPT ![p] = r]
    BY <1>2, <2>1 DEF Chunk
  <2>3. n + 1 \in 0..(Blocks + 1) /\ (fetch[p].clean /\ block = "good") \in BOOLEAN
    BY <1>2, ContentsFacts
  <2>4. /\ r \in Fetches /\ r.file = f /\ r.next = n + 1
        /\ r.linked = fetch[p].linked /\ r.clean = (fetch[p].clean /\ block = "good")
    BY <1>2, <2>1, <2>3 DEF Fetches
  <2> HIDE DEF r
  <2>5. QED
    BY <2>1, <2>2, <2>4
<1>5. Others(p)
  BY <1>1, <1>3, <1>4 DEF Types, Others, Same
<1>6. \A q \in Procs, g \in Names : Writing(q, g)' <=> Writing(q, g)
  <2>1. \A g \in Names : Writing(p, g)' <=> Writing(p, g)
    BY <1>2, <1>3, <1>4 DEF Writing
  <2>2. \A q \in Procs \ {p}, g \in Names : Writing(q, g)' <=> Writing(q, g)
    BY <1>4, <1>5 DEF Writing, Others, Same
  <2>3. QED
    BY <2>1, <2>2
<1>7. \A g \in Names : Writing(p, g) => g = f /\ fetch[p].linked
  BY <1>2 DEF Writing
<1>8. fetch[p].linked => Writing(p, f) /\ disk[f] \in Contents
  <2>1. fetch[p].linked => Writing(p, f)
    BY <1>2, <1>3 DEF Writing
  <2>2. QED
    BY <1>1, <2>1 DEF Types, Files
<1>9. ASSUME ~fetch[p].linked
      PROVE  Files' /\ disk' \in [Names -> Contents \cup {Absent}]
  <2>1. disk' = disk
    BY <1>3, <1>9
  <2>2. \A q \in Procs, g \in Names : Writing(q, g) => q # p
    BY <1>7, <1>9
  <2>3. \A q \in Procs, g \in Names : Writing(q, g) => SoFar(q, g)' = SoFar(q, g)
    BY <1>4, <2>1, <2>2 DEF SoFar
  <2>4. Files'
    BY <1>1, <1>3, <1>6, <2>1, <2>3 DEF Files, FilesWhole, history, Absent, Whole
  <2>5. disk' \in [Names -> Contents \cup {Absent}]
    BY <1>1, <2>1 DEF Types
  <2>6. QED
    BY <2>4, <2>5
<1>10. ASSUME fetch[p].linked
       PROVE  Files' /\ disk' \in [Names -> Contents \cup {Absent}]
  <2> DEFINE new == [disk[f] EXCEPT ![n] = block]
  <2>1. disk[f] \in Contents /\ Writing(p, f)
    BY <1>8, <1>10
  <2>2. /\ new \in Contents /\ new[n] = block
        /\ \A b \in 1..Blocks : b # n => new[b] = disk[f][b]
    BY <1>2, <2>1 DEF Contents
  <2>3. disk' = [disk EXCEPT ![f] = new]
    BY <1>1, <1>3, <1>10 DEF Types
  <2> HIDE DEF new
  <2>4. /\ disk' \in [Names -> Contents \cup {Absent}] /\ disk'[f] = new
        /\ \A g \in Names \ {f} : disk'[g] = disk[g]
    BY <1>1, <2>2, <2>3 DEF Types
  <2>5. ASSUME NEW q \in Procs, NEW g \in Names, Writing(q, g) PROVE disk'[g] # Absent
    BY <1>1, <2>2, <2>4, <2>5, ContentsFacts DEF Files
  <2>6. ASSUME NEW q \in Procs, NEW g \in Names, Writing(q, g), g \notin spoilt
        PROVE  SoFar(q, g)' /\ \A r \in Procs : Writing(r, g) => r = q
    <3>1. SoFar(q, g) /\ \A r \in Procs : Writing(r, g) => r = q
      BY <1>1, <2>6 DEF Files
    <3>2. CASE g = f
      <4>1. q = p
        BY <2>1, <3>1, <3>2
      <4>2. ASSUME fetch'[p].clean, NEW b \in 1..Blocks, b < n + 1 PROVE disk'[f][b] = "good"
        <5>1. fetch[p].clean /\ block = "good"
          BY <1>4, <4>2
        <5>2. b = n \/ (b # n /\ b < n)
          BY <1>2, <4>2, ContentsFacts
        <5>3. b < n => disk[f][b] = "good"
          BY <1>2, <3>1, <3>2, <4>1, <5>1 DEF SoFar
        <5>4. QED
          BY <2>2, <2>4, <5>1, <5>2, <5>3
      <4>3. SoFar(p, f)'
        BY <1>4, <4>2 DEF SoFar
      <4>4. QED
        BY <3>1, <3>2, <4>1, <4>3
    <3>3. CASE g # f
      <4>1. q # p
        BY <1>7, <2>6, <3>3
      <4>2. SoFar(q, g)' = SoFar(q, g)
        BY <1>4, <2>4, <3>3, <4>1 DEF SoFar
      <4>3. QED
        BY <3>1, <4>2
    <3>4. QED
      BY <3>2, <3>3
  <2>7. ASSUME NEW g \in Names, disk'[g] # Absent, disk'[g] # Whole, g \notin spoilt
        PROVE  \E q \in Procs : Writing(q, g)
    <3>1. CASE g = f
      BY <2>1, <3>1
    <3>2. CASE g # f
      BY <1>1, <2>4, <2>7, <3>2 DEF Files, FilesWhole
    <3>3. QED
      BY <3>1, <3>2
  <2>8. Files'
    BY <1>3, <1>6, <2>5, <2>6, <2>7 DEF Files, FilesWhole, history, Absent, Whole
  <2>9. QED
    BY <2>4, <2>8
<1>11. Files' /\ disk' \in [Names -> Contents \cup {Absent}]
  BY <1>9, <1>10
<1>12. Places(p)' /\ Asked(p)'
  <2>1. fetch'[p].next # 0
    BY <1>2, <1>4
  <2>2. QED
    BY <1>1, <1>2, <1>3, <1>4, <2>1 DEF Each, Places, Asked, Saving, Transfer, Sessions
<1>13. Tuned(p)'
  BY <1>1, <1>2, <1>3, <1>4 DEF Each, Tuned, Busy, Transfer, Language, Machine
<1>14. Queued(p)'
  BY <1>1, <1>2, <1>3, <1>4 DEF Each, Queued, Busy, Transfer
<1>15. Each(p)'
  BY <1>12, <1>13, <1>14 DEF Each
<1>16. Types'
  <2>1. faults' \in Nat /\ faults' <= MaxFaults
    BY <1>1, <1>3, SetupAssumption DEF Types, SetupAssumption
  <2>2. QED
    BY <1>1, <1>3, <1>4, <1>11, <2>1 DEF Types, history
<1>17. ~Saving(p) /\ ~Saving(p)'
  BY <1>3 DEF Saving
<1>18. QED
  BY <1>3, <1>5, <1>11, <1>15, <1>16, <1>17, UnsavedStep DEF history

(* A process ends; what it was downloading is spoilt.                       *)
LEMMA AbandonFacts ==
  ASSUME IInv, NEW p \in Procs, Abandon(p), Exit(p), UNCHANGED <<files, settled, commands>>,
         overlap' \in BOOLEAN, faults < MaxFaults, faults' = faults + 1
  PROVE  Types' /\ Files' /\ Each(p)' /\ Others(p) /\ pc'[p] = "idle"
<1>1. Types /\ Files /\ Each(p)
  BY DEF IInv
<1>2. pc' = [pc EXCEPT ![p] = "idle"] /\ UNCHANGED locals
  BY DEF Exit, Goto
<1>3. pc'[p] = "idle" /\ Others(p) /\ fetch' = fetch /\ disk' = disk
  BY <1>1, <1>2 DEF Types, Others, Same, locals, files
<1>4. pc[p] = "stream" => fetch[p].file \in Names
  BY <1>1 DEF Each, Places, Transfer
<1>5. spoilt' = spoilt \/ (pc[p] = "stream" /\ spoilt' = spoilt \cup {fetch[p].file})
  BY DEF Abandon
<1>6. Types'
  <2>1. spoilt' \in SUBSET Names
    BY <1>1, <1>4, <1>5 DEF Types
  <2>2. faults' \in Nat /\ faults' <= MaxFaults
    BY <1>1, SetupAssumption DEF Types, SetupAssumption
  <2>3. QED
    BY <1>1, <1>2, <2>1, <2>2 DEF Types, locals, files, Labels
<1>7. Files'
  <2>1. spoilt \subseteq spoilt'
    BY <1>5
  <2>2. \A q \in Procs, f \in Names : Writing(q, f)' => Writing(q, f)
    BY <1>3 DEF Writing, Others, Same
  <2>3. \A q \in Procs, f \in Names : SoFar(q, f)' = SoFar(q, f)
    BY <1>3 DEF SoFar
  <2>4. ASSUME NEW f \in Names, NEW q \in Procs, Writing(q, f), f \notin spoilt'
        PROVE  Writing(q, f)'
    <3>1. q # p
      BY <2>4 DEF Abandon, Writing
    <3>2. QED
      BY <1>3, <2>4, <3>1 DEF Writing, Others, Same
  <2>5. FilesWhole'
    <3>1. ASSUME NEW f \in Names, disk[f] # Absent, disk[f] # Whole, f \notin spoilt'
          PROVE  \E q \in Procs : Writing(q, f)'
      <4>1. PICK q \in Procs : Writing(q, f)
        BY <1>1, <2>1, <3>1 DEF Files, FilesWhole
      <4>2. QED
        BY <2>4, <3>1, <4>1
    <3>2. QED
      BY <1>3, <3>1 DEF FilesWhole, Absent, Whole
  <2>6. QED
    BY <1>1, <1>3, <2>1, <2>2, <2>3, <2>5 DEF Files, Absent
<1>8. QED
  BY <1>3, <1>6, <1>7, IdleEach

LEMMA ConnectionLostStep ==
  ASSUME IInv, NEW p \in Procs, ConnectionLost(p)
  PROVE  IInv'
<1>1. /\ pc[p] = "stream" /\ Abandon(p) /\ Exit(p) /\ faults < MaxFaults /\ faults' = faults + 1
      /\ UNCHANGED <<files, settled, overlap, tuned, commands>>
  BY DEF ConnectionLost, At
<1>2. overlap' \in BOOLEAN
  BY <1>1 DEF IInv, Types
<1>3. Types' /\ Files' /\ Each(p)' /\ Others(p) /\ pc'[p] = "idle"
  BY <1>1, <1>2, AbandonFacts
<1>4. QED
  BY <1>1, <1>3, UnsavedStep DEF Saving, files

LEMMA KillStep ==
  ASSUME IInv, NEW p \in Procs, Kill(p)
  PROVE  IInv'
<1>1. /\ Abandon(p) /\ Exit(p) /\ faults < MaxFaults /\ faults' = faults + 1
      /\ overlap' = (overlap \/ At(p, "write"))
      /\ UNCHANGED <<files, settled, tuned, commands>>
  BY DEF Kill
<1>2. overlap' \in BOOLEAN
  BY <1>1 DEF IInv, Types, At
<1>3. Types' /\ Files' /\ Each(p)' /\ Others(p) /\ pc'[p] = "idle"
  BY <1>1, <1>2, AbandonFacts
<1>4. \A q \in Procs : Each(q)'
  BY <1>3, SameEach DEF IInv, Others
<1>5. Kept1'
  <2> SUFFICES ASSUME ~overlap' PROVE Kept1'
    BY DEF Kept1
  <2>1. ~overlap /\ ~At(p, "write")
    BY <1>1
  <2>2. \A q \in Procs : Saving(q)' => Saving(q) /\ q # p
    BY <1>3 DEF Others, Same, Saving
  <2>3. \A q \in Procs : Saving(q)' => conf'[q] = conf[q] /\ change'[q] = change[q]
    BY <2>2, <1>3 DEF Others, Same
  <2>4. \A q \in Procs : At(q, "write") => At(q, "write")'
    BY <1>3, <2>1 DEF Others, Same, At
  <2>5. Effective' = Effective
    BY <1>1 DEF Effective, files
  <2>6. QED
    BY <1>1, <2>1, <2>2, <2>3, <2>4, <2>5 DEF Kept1, IInv
<1>6. TunedWell'
  BY <1>1 DEF IInv, TunedWell
<1>7. QED
  BY <1>3, <1>4, <1>5, <1>6 DEF IInv

LEMMA VerifiedStep ==
  ASSUME IInv, NEW p \in Procs, Verified(p)
  PROVE  IInv'
<1>1. /\ pc[p] = "stream" /\ fetch[p].next > Blocks /\ fetch[p].clean /\ Arrived(p)
      /\ UNCHANGED <<files, history, commands, faults>>
  BY DEF Verified, At
<1>2. Types /\ Files /\ Each(p)
  BY DEF IInv
<1>3. /\ Types' /\ Each(p)' /\ Others(p)
      /\ pc'[p] \in {"idle", "bench", "open", "pick"}
      /\ \A q \in Procs \ {p} : fetch'[q] = fetch[q]
  BY <1>1, <1>2, ArrivedFacts
<1>4. ASSUME NEW f \in Names, f = fetch[p].file, fetch[p].linked, f \notin spoilt
      PROVE  disk[f] = Whole
  <2>1. Writing(p, f)
    BY <1>1, <1>4 DEF Writing
  <2>2. disk[f] # Absent /\ SoFar(p, f)
    BY <1>2, <1>4, <2>1 DEF Files
  <2>3. disk[f] \in Contents
    BY <1>2, <2>2 DEF Types
  <2>4. fetch[p].next \in Nat
    BY <1>2, ContentsFacts DEF Types, Fetches
  <2>5. \A b \in 1..Blocks : disk[f][b] = "good"
    BY <1>1, <2>2, <2>4, ContentsFacts DEF SoFar
  <2>6. QED
    BY <2>3, <2>5 DEF Contents, Whole
<1>5. Files'
  <2>1. pc[p] = "stream" /\ fetch[p].linked /\ fetch[p].file \in Names =>
          disk[fetch[p].file] = Whole \/ fetch[p].file \in spoilt
    BY <1>4
  <2>2. \A q \in Procs \ {p} : pc'[q] = pc[q] /\ fetch'[q] = fetch[q]
    BY <1>3 DEF Others, Same
  <2>3. QED
    BY <1>1, <1>2, <1>3, <2>1, <2>2, FilesFrame DEF files, history
<1>6. QED
  BY <1>1, <1>3, <1>5, UnsavedStep DEF Saving, files, history

LEMMA MismatchStep ==
  ASSUME IInv, NEW p \in Procs, Mismatch(p)
  PROVE  IInv'
<1>1. Types /\ Files /\ Each(p)
  BY DEF IInv
<1>2. PICK f \in Names : f = fetch[p].file
  BY <1>1 DEF Mismatch, At, Each, Places, Transfer
<1>3. /\ pc[p] = "stream" /\ pc' = [pc EXCEPT ![p] = "idle"]
      /\ disk' = [disk EXCEPT ![f] = Absent] /\ spoilt' = spoilt \ {f}
      /\ fetch' = [q \in Procs |->
           IF Writing(q, f) THEN [fetch[q] EXCEPT !.linked = FALSE] ELSE fetch[q]]
      /\ UNCHANGED <<cfg, job, change, conf, queue, tuning, opened,
                     settled, overlap, tuned, commands, faults>>
  BY <1>2 DEF Mismatch, At, Goto
<1>4. ASSUME NEW q \in Procs
      PROVE  /\ fetch'[q] \in Fetches
             /\ fetch'[q].file = fetch[q].file /\ fetch'[q].next = fetch[q].next
             /\ fetch'[q].clean = fetch[q].clean
             /\ fetch'[q].linked => fetch[q].linked /\ ~Writing(q, f)
             /\ ~Writing(q, f) => fetch'[q] = fetch[q]
  <2>1. fetch[q] \in Fetches
    BY <1>1 DEF Types
  <2>2. CASE Writing(q, f)
    <3> DEFINE r == [fetch[q] EXCEPT !.linked = FALSE]
    <3>1. /\ r \in Fetches /\ r.file = fetch[q].file /\ r.next = fetch[q].next
          /\ r.clean = fetch[q].clean /\ ~r.linked
      BY <2>1 DEF Fetches
    <3>2. fetch'[q] = r
      BY <1>3, <2>2
    <3> HIDE DEF r
    <3>3. QED
      BY <2>2, <3>1, <3>2
  <2>3. CASE ~Writing(q, f)
    <3>1. fetch'[q] = fetch[q]
      BY <1>3, <2>3
    <3>2. QED
      BY <2>1, <2>3, <3>1
  <2>4. QED
    BY <2>2, <2>3
<1>5. pc'[p] = "idle" /\ Others(p)
  BY <1>1, <1>3, <1>4 DEF Types, Others, Same
<1>6. /\ disk'[f] = Absent /\ \A g \in Names \ {f} : disk'[g] = disk[g]
      /\ disk' \in [Names -> Contents \cup {Absent}]
  BY <1>1, <1>3 DEF Types
<1>7. ASSUME NEW q \in Procs, NEW g \in Names, Writing(q, g)'
      PROVE  g # f /\ q # p /\ Writing(q, g) /\ SoFar(q, g)' = SoFar(q, g)
  <2>1. q # p /\ pc'[q] = pc[q] /\ fetch'[q].linked /\ fetch'[q].file = g
    BY <1>5, <1>7 DEF Writing, Others, Same
  <2>2. Writing(q, g) /\ ~Writing(q, f)
    BY <1>4, <1>5, <1>7, <2>1 DEF Writing
  <2>3. g # f
    BY <2>2
  <2>4. disk'[g] = disk[g] /\ fetch'[q].next = fetch[q].next /\ fetch'[q].clean = fetch[q].clean
    BY <1>4, <1>6, <2>3
  <2>5. QED
    BY <2>1, <2>2, <2>3, <2>4 DEF SoFar
<1>8. ASSUME NEW g \in Names, g # f, NEW q \in Procs, Writing(q, g)
      PROVE  Writing(q, g)'
  <2>1. q # p /\ ~Writing(q, f)
    BY <1>2, <1>8 DEF Writing
  <2>2. QED
    BY <1>4, <1>5, <1>8, <2>1 DEF Writing, Others, Same
<1>9. Files'
  <2>1. FilesWhole'
    <3>1. ASSUME NEW g \in Names, disk'[g] # Absent, disk'[g] # Whole, g \notin spoilt'
          PROVE  \E q \in Procs : Writing(q, g)'
      <4>1. g # f /\ disk[g] # Absent /\ disk[g] # Whole /\ g \notin spoilt
        BY <1>3, <1>6, <3>1
      <4>2. PICK q \in Procs : Writing(q, g)
        BY <1>1, <4>1 DEF Files, FilesWhole
      <4>3. QED
        BY <1>8, <4>1, <4>2
    <3>2. QED
      BY <3>1 DEF FilesWhole, Absent, Whole
  <2>2. \A q \in Procs, g \in Names : Writing(q, g)' => disk'[g] # Absent
    BY <1>1, <1>6, <1>7 DEF Files
  <2>3. ASSUME NEW q \in Procs, NEW g \in Names, Writing(q, g)', g \notin spoilt'
        PROVE  SoFar(q, g)' /\ \A r \in Procs : Writing(r, g)' => r = q
    <3>1. Writing(q, g) /\ g \notin spoilt /\ SoFar(q, g)' = SoFar(q, g)
      BY <1>3, <1>7, <2>3
    <3>2. SoFar(q, g) /\ \A r \in Procs : Writing(r, g) => r = q
      BY <1>1, <3>1 DEF Files
    <3>3. \A r \in Procs : Writing(r, g)' => Writing(r, g)
      BY <1>7
    <3>4. QED
      BY <3>1, <3>2, <3>3
  <2>4. QED
    BY <2>1, <2>2, <2>3 DEF Files, Absent
<1>10. Types'
  <2>1. fetch' \in [Procs -> Fetches]
    BY <1>3, <1>4
  <2>2. spoilt' \in SUBSET Names
    BY <1>1, <1>3 DEF Types
  <2>3. QED
    BY <1>1, <1>3, <1>6, <2>1, <2>2 DEF Types, Labels
<1>11. Each(p)'
  BY <1>5, IdleEach
<1>12. QED
  BY <1>3, <1>5, <1>9, <1>10, <1>11, UnsavedStep DEF Saving

-----------------------------------------------------------------------------
(* The theorems *)

LEMMA Initially == Init => IInv
<1> SUFFICES ASSUME Init PROVE IInv
  OBVIOUS
<1>1. PICK first \in AtFirst :
        /\ cfg = first.cfg
        /\ disk = [n \in Names |-> IF n \in first.have THEN Whole ELSE Absent]
  BY DEF Init
<1>2. cfg \in Seq(Config) /\ Len(cfg) <= 1
  BY <1>1, SetupAssumption DEF SetupAssumption
<1>3. Effective \in Config
  BY <1>2, EffectiveFacts
<1>4. /\ pc = [p \in Procs |-> "idle"] /\ job = [p \in Procs |-> [cmd |-> None]]
      /\ change = [p \in Procs |-> [key |-> None, value |-> None]]
      /\ conf = [p \in Procs |-> Default] /\ fetch = [p \in Procs |-> NoFetch]
      /\ queue = [p \in Procs |-> <<>>] /\ tuning = [p \in Procs |-> NoTuning]
      /\ opened = [p \in Procs |-> <<>>]
      /\ settled = Effective /\ overlap = FALSE /\ spoilt = {} /\ tuned = {}
      /\ commands = 0 /\ faults = 0
  BY DEF Init
<1>5. Types
  <2>1. NoFetch \in Fetches
    BY ContentsFacts DEF NoFetch, Fetches
  <2>2. disk \in [Names -> Contents \cup {Absent}]
    BY <1>1, ContentsFacts
  <2>3. conf \in [Procs -> Config]
    BY <1>4, DefaultConfig
  <2>4. <<>> \in Seq(Names)
    OBVIOUS
  <2>5. /\ pc \in [Procs -> Labels] /\ job \in [Procs -> Jobs \cup {[cmd |-> None]}]
        /\ fetch \in [Procs -> Fetches] /\ opened \in [Procs -> Seq(Names)]
    BY <1>4, <2>1, <2>4 DEF Labels
  <2>6. DOMAIN change = Procs /\ DOMAIN queue = Procs /\ DOMAIN tuning = Procs
    BY <1>4
  <2>7. commands \in Nat /\ commands <= MaxCommands /\ faults \in Nat /\ faults <= MaxFaults
    BY <1>4, SetupAssumption DEF SetupAssumption
  <2>8. settled \in Config /\ overlap \in BOOLEAN /\ spoilt \in SUBSET Names
    BY <1>3, <1>4
  <2>9. QED
    BY <1>2, <2>2, <2>3, <2>5, <2>6, <2>7, <2>8 DEF Types
<1>6. ASSUME NEW p \in Procs PROVE Each(p)
  <2>1. pc[p] = "idle"
    BY <1>4
  <2>2. QED
    BY <2>1 DEF Each, Places, Asked, Saving, Tuned, Queued, Busy, Transfer, Sessions
<1>7. Kept1
  BY <1>4 DEF Kept1, Saving
<1>8. Files
  <2>1. \A p \in Procs, f \in Names : ~Writing(p, f)
    BY <1>4 DEF Writing
  <2>2. FilesWhole
    BY <1>1 DEF FilesWhole
  <2>3. QED
    BY <2>1, <2>2 DEF Files
<1>9. TunedWell
  BY <1>4 DEF TunedWell
<1>10. QED
  BY <1>5, <1>6, <1>7, <1>8, <1>9 DEF IInv

LEMMA Step == IInv /\ [Next]_vars => IInv'
<1> SUFFICES ASSUME IInv, [Next]_vars PROVE IInv'
  OBVIOUS
<1>1. ASSUME NEW p \in Procs, Change(p) PROVE IInv'
  BY <1>1, LoadConfigStep, RejectedStep, TruncateStep, WriteStep DEF Change
<1>2. ASSUME NEW p \in Procs, Download(p) PROVE IInv'
  BY <1>2, AlreadyThereStep, CannotFetchStep, RespondStep, CreateStep, ChunkStep,
     ConnectionLostStep, VerifiedStep, MismatchStep DEF Download
<1>3. ASSUME NEW p \in Procs, AutoTune(p) PROVE IInv'
  BY <1>3, InitBackendStep, TuneStep, BenchFailsStep, BenchProbeStep, BenchModelStep DEF AutoTune
<1>4. ASSUME NEW p \in Procs, Load(p) PROVE IInv'
  BY <1>4, StartSessionStep, StartDaemonStep, PickStep, PickAnotherStep,
     PickRegardlessStep, NoVariantStep, OpenStep, OpenAllStep DEF Load
<1>5. CASE UNCHANGED vars
  <2>1. /\ UNCHANGED <<cfg, disk, pc, job, change, conf, fetch, queue, tuning, opened>>
        /\ UNCHANGED <<settled, overlap, spoilt, tuned, commands, faults>>
    BY <1>5 DEF vars, files, locals, history
  <2>2. Types'
    BY <2>1 DEF IInv, Types
  <2>3. \A p \in Procs : Each(p)'
    BY <2>1, SameEach DEF IInv, Same
  <2>4. Kept1'
    BY <2>1 DEF IInv, Kept1, Saving, At, Effective
  <2>5. Files'
    <3>1. \A p \in Procs, f \in Names : Writing(p, f)' = Writing(p, f)
      BY <2>1 DEF Writing
    <3>2. \A p \in Procs, f \in Names : SoFar(p, f)' = SoFar(p, f)
      BY <2>1 DEF SoFar
    <3>3. FilesWhole'
      BY <2>1, <3>1 DEF IInv, Files, FilesWhole, Absent, Whole
    <3>4. QED
      BY <2>1, <3>1, <3>2, <3>3 DEF IInv, Files, Absent
  <2>6. TunedWell'
    BY <2>1 DEF IInv, TunedWell
  <2>7. QED
    BY <2>2, <2>3, <2>4, <2>5, <2>6 DEF IInv
<1>6. QED
  BY <1>1, <1>2, <1>3, <1>4, <1>5, CommandStep, KillStep DEF Next

LEMMA Invariance == Spec => []IInv
  BY Initially, Step, PTL DEF Spec

(* Every value the commands pass on, through the files and between their    *)
(* steps, has its type: no command saves settings that do not parse, and no *)
(* counter leaves its bounds.                                               *)
THEOREM TypeCorrect == Spec => []TypeOK
<1>1. IInv => TypeOK
  <2> SUFFICES ASSUME IInv PROVE TypeOK
    OBVIOUS
  <2>1. Types
    BY DEF IInv
  <2>2. ASSUME NEW p \in Procs PROVE fetch[p].next \in 0..(Blocks + 1)
    BY <2>1 DEF Types, Fetches
  <2>3. \A n \in Names : disk[n] = Absent \/ disk[n] \in [1..Blocks -> {"hole", "good", "bad"}]
    BY <2>1 DEF Types, Contents
  <2>4. commands \in 0..MaxCommands /\ faults \in 0..MaxFaults
    BY <2>1, SetupAssumption DEF Types, SetupAssumption
  <2>5. QED
    BY <2>1, <2>2, <2>3, <2>4 DEF Types, TypeOK
<1>2. QED
  BY <1>1, Invariance, PTL

(* A setting, once saved, stays what it was set to, whatever `config set`,  *)
(* `models use`, `init` and `auto-tune` do at the same time or later, unless*)
(* two of them save at the same instant or one is killed in the middle.     *)
THEOREM SettingsStay == Spec => []SettingsKept
<1>1. IInv => SettingsKept
  BY DEF IInv, Kept1, SettingsKept
<1>2. QED
  BY <1>1, Invariance, PTL

(* A model file is whole and verified, or some download is writing it, or a *)
(* download of it was cut off or met another: however many downloads of the *)
(* same file overlap, and whichever of them find a bad checksum.            *)
THEOREM FilesSound == Spec => []FilesWhole
<1>1. IInv => FilesWhole
  BY DEF IInv, Files
<1>2. QED
  BY <1>1, Invariance, PTL

(* For any catalog, machine and measured speeds: what auto-tuning saves     *)
(* knows the language; unless it is the probe, it was a candidate that      *)
(* leaves room in memory and on the disk and was not found too slow; and    *)
(* every better candidate was found too slow or had no headroom.            *)
THEOREM TuningChoosesWell == Spec => []TunedWell
<1>1. IInv => TunedWell
  BY DEF IInv
<1>2. QED
  BY <1>1, Invariance, PTL

=============================================================================
