--------------------------- MODULE ExtensionProofs ---------------------------
(***************************************************************************)
(* Theorems about Extension, for any number of connections, of faults and  *)
(* of changes:                                                             *)
(*   TypeCorrect      the type invariant                                   *)
(*   OneChainOnly     the extension waits for exactly one thing            *)
(*   IndicatorShows   what has been read to the end is what the daemon is, *)
(*                    or at least what it told last                        *)
(***************************************************************************)
EXTENDS Extension, FiniteSetTheorems, WellFoundedInduction, SequenceTheorems, TLAPS

-----------------------------------------------------------------------------
(* What a queue of lines tells *)

Keyed == ({"recording"} \X BOOLEAN) \cup ({"setting"} \X Settings) \cup {<<"other", TRUE>>}

Silent(q, k) == \A i \in 1..Len(q) : q[i][1] # k
Tells(q, k, v) ==
  \E i \in 1..Len(q) :
    q[i][1] = k /\ q[i][2] = v /\ \A j \in 1..Len(q) : i < j => q[j][1] # k

(* Who believes b of key k, believes v when all of q is read. *)
After(q, k, b, v) == Tells(q, k, v) \/ (Silent(q, k) /\ b = v)

-----------------------------------------------------------------------------
(* The inductive invariant *)

Types ==
  /\ up \in BOOLEAN /\ recording \in BOOLEAN /\ busy \in BOOLEAN
  /\ untold \in [Settings -> Nat] /\ setting \in Settings /\ last \in Settings
  /\ latest \in {"none", "recording", "setting", "other"}
  /\ srv \in [Conns -> {"none", "queued", "recording", "setting", "streaming", "gone"}]
  /\ unread \in [Conns -> Seq(Keyed)] /\ wire \in [Conns -> Seq(Keyed)]
  /\ \A c \in Conns : Len(unread[c]) <= Capacity /\ Len(wire[c]) <= Wire
  /\ lagged \in [Conns -> {"no", "pending", "reported"}]
  /\ snap \in [Conns -> BOOLEAN]
  /\ enabled \in BOOLEAN /\ known \in BOOLEAN /\ locked \in BOOLEAN
  /\ connected \in BOOLEAN /\ snubbed \in BOOLEAN
  /\ view \in [recording : BOOLEAN, setting : Settings \cup {Unknown}]
  /\ opening \in SUBSET Conns /\ reading \in SUBSET Conns /\ follow \in Conns \cup {None}
  /\ failing \in Nat /\ leaked \in Nat
  /\ faults \in Nat /\ faults <= MaxFaults /\ changes \in Nat /\ changes <= MaxChanges
  /\ asking \in {"no", "sent", "lost"}

(* The server's ends: none while the daemon is down, and nothing is kept    *)
(* for one that has not subscribed.                                         *)
Ends ==
  /\ ~up => \A c \in Conns : srv[c] \in {"none", "gone"}
  /\ \A c \in Conns : ~Subscribed(c) => unread[c] = <<>>
  /\ busy => ~recording

(* The extension's ends: one that opens is new, and one that is followed is *)
(* read, and is shown as connected unless the daemon is known to be gone.   *)
Followed ==
  /\ \A c \in opening : srv[c] = "none"
  /\ follow # None =>
       /\ follow \in reading /\ srv[follow] # "none"
       /\ ~snubbed /\ srv[follow] # "gone" => connected
  /\ enabled /\ follow = None => ~connected

(* Until it is disabled, the extension waits for exactly one thing.         *)
Waits ==
  ~locked =>
    /\ failing = 0 /\ leaked = 0
    /\ ~enabled => opening = {} /\ reading = {} /\ ~known /\ follow = None
    /\ enabled =>
         \/ (\E c \in Conns : opening = {c}) /\ reading = {} /\ ~known /\ follow = None
         \/ opening = {} /\ reading = {follow} /\ ~known /\ follow # None
         \/ opening = {} /\ reading = {} /\ known /\ follow = None

(* The connection that is followed, by nobody else. *)
Alone(c) == c = follow /\ reading = {follow} /\ failing = 0 /\ ~snubbed

(* What the last event that c was sent of a key told is so.                 *)
RecordingClear(c) == ~busy /\ Heard(c, "recording")
SettingClear(c) == Settled /\ Heard(c, "setting")

(* The state the server has read for a connection, or the extension shows,  *)
(* becomes that of the daemon with the lines that are under way.            *)
Told ==
  \A c \in Conns :
    /\ srv[c] = "recording" =>
         /\ RecordingClear(c) => After(unread[c], "recording", recording, recording)
         /\ SettingClear(c) => After(unread[c], "setting", setting, setting)
    /\ srv[c] = "setting" =>
         /\ RecordingClear(c) => After(unread[c], "recording", snap[c], recording)
         /\ SettingClear(c) => After(unread[c], "setting", setting, setting)
    /\ srv[c] = "streaming" /\ Alone(c) =>
         /\ RecordingClear(c) => After(wire[c] \o unread[c], "recording", view.recording, recording)
         /\ SettingClear(c) => After(wire[c] \o unread[c], "setting", view.setting, setting)

IInv == Types /\ Ends /\ Followed /\ Waits /\ Told

-----------------------------------------------------------------------------
(* Lemmas on queues of lines *)

LEMMA AppendFacts ==
  ASSUME NEW q \in Seq(Keyed), NEW x \in Keyed
  PROVE  /\ Append(q, x) \in Seq(Keyed) /\ Len(q) \in Nat /\ Len(Append(q, x)) = Len(q) + 1
         /\ \A i \in 1..Len(q) : Append(q, x)[i] = q[i]
         /\ Append(q, x)[Len(q) + 1] = x
  OBVIOUS

LEMMA TailFacts ==
  ASSUME NEW q \in Seq(Keyed), q # <<>>
  PROVE  /\ Tail(q) \in Seq(Keyed) /\ Len(q) \in Nat \ {0} /\ Len(Tail(q)) = Len(q) - 1
         /\ \A i \in 1..(Len(q) - 1) : Tail(q)[i] = q[i + 1]
         /\ Head(q) = q[1] /\ Head(q) \in Keyed
  OBVIOUS

(* A line of the key is believed. *)
LEMMA AfterSame ==
  ASSUME NEW q \in Seq(Keyed), NEW x \in Keyed, NEW b
  PROVE  After(Append(q, x), x[1], b, x[2])
<1> DEFINE p == Append(q, x)
<1> DEFINE n == Len(q) + 1
<1>1. Len(p) = n /\ n \in Nat \ {0} /\ p[n] = x
  BY AppendFacts
<1> HIDE DEF p, n
<1>2. n \in 1..Len(p) /\ p[n][1] = x[1] /\ p[n][2] = x[2]
  BY <1>1
<1>3. \A j \in 1..Len(p) : ~(n < j)
  BY <1>1
<1>4. QED
  BY <1>2, <1>3 DEF After, Tells, p

(* A line of another key changes nothing. *)
LEMMA AfterOther ==
  ASSUME NEW q \in Seq(Keyed), NEW x \in Keyed, NEW k, k # x[1], NEW b, NEW v,
         After(q, k, b, v)
  PROVE  After(Append(q, x), k, b, v)
<1> DEFINE p == Append(q, x)
<1>1. /\ Len(q) \in Nat /\ Len(p) = Len(q) + 1 /\ p[Len(q) + 1] = x
      /\ \A i \in 1..Len(q) : p[i] = q[i]
  BY AppendFacts
<1> HIDE DEF p
<1>2. \A i \in 1..Len(p) : i \in 1..Len(q) \/ i = Len(q) + 1
  BY <1>1
<1>3. CASE Silent(q, k) /\ b = v
  BY <1>1, <1>2, <1>3 DEF After, Silent, p
<1>4. CASE Tells(q, k, v)
  <2>1. PICK i \in 1..Len(q) :
          q[i][1] = k /\ q[i][2] = v /\ \A j \in 1..Len(q) : i < j => q[j][1] # k
    BY <1>4 DEF Tells
  <2>2. i \in 1..Len(p) /\ p[i][1] = k /\ p[i][2] = v
    BY <1>1, <2>1
  <2>3. \A j \in 1..Len(p) : i < j => p[j][1] # k
    BY <1>1, <1>2, <2>1
  <2>4. QED
    BY <2>2, <2>3 DEF After, Tells, p
<1>5. QED
  BY <1>3, <1>4 DEF After

(* The first line is read. *)
LEMMA AfterTail ==
  ASSUME NEW q \in Seq(Keyed), q # <<>>, NEW k, NEW b, NEW v, After(q, k, b, v)
  PROVE  After(Tail(q), k, IF Head(q)[1] = k THEN Head(q)[2] ELSE b, v)
<1> DEFINE p == Tail(q)
<1> DEFINE a == IF Head(q)[1] = k THEN Head(q)[2] ELSE b
<1>1. /\ Len(q) \in Nat \ {0} /\ Len(p) = Len(q) - 1 /\ Head(q) = q[1]
      /\ \A i \in 1..(Len(q) - 1) : p[i] = q[i + 1]
  BY TailFacts
<1>2. Head(q) = q[1]
  BY <1>1
<1> HIDE DEF p
<1>3. CASE Silent(q, k) /\ b = v
  <2>1. q[1][1] # k
    BY <1>1, <1>3 DEF Silent
  <2>2. \A i \in 1..Len(p) : i + 1 \in 1..Len(q) /\ p[i] = q[i + 1]
    BY <1>1
  <2>3. Silent(p, k)
    BY <1>3, <2>2 DEF Silent
  <2>4. QED
    BY <1>2, <1>3, <2>1, <2>3 DEF After, p
<1>4. CASE Tells(q, k, v)
  <2>1. PICK i \in 1..Len(q) :
          q[i][1] = k /\ q[i][2] = v /\ \A j \in 1..Len(q) : i < j => q[j][1] # k
    BY <1>4 DEF Tells
  <2>2. \A j \in 1..Len(p) : j + 1 \in 1..Len(q) /\ p[j] = q[j + 1]
    BY <1>1
  <2>3. CASE i = 1
    <3>1. a = v
      BY <1>2, <2>1, <2>3
    <3>2. \A j \in 1..Len(p) : i < j + 1
      BY <2>3
    <3>3. Silent(p, k)
      BY <2>1, <2>2, <3>2 DEF Silent
    <3> HIDE DEF a
    <3>4. After(p, k, a, v)
      BY <3>1, <3>3 DEF After
    <3>5. QED
      BY <3>4 DEF a, p
  <2>4. CASE i # 1
    <3>1. i - 1 \in 1..Len(p) /\ (i - 1) + 1 = i
      BY <1>1, <2>4
    <3>2. p[i - 1][1] = k /\ p[i - 1][2] = v
      BY <2>1, <2>2, <3>1
    <3>3. \A j \in 1..Len(p) : i - 1 < j => i < j + 1
      OBVIOUS
    <3>4. \A j \in 1..Len(p) : i - 1 < j => p[j][1] # k
      BY <2>1, <2>2, <3>3
    <3>5. Tells(p, k, v)
      BY <3>1, <3>2, <3>4 DEF Tells
    <3>6. QED
      BY <3>5 DEF After, p
  <2>5. QED
    BY <2>3, <2>4
<1>5. QED
  BY <1>3, <1>4 DEF After

LEMMA AfterNothing ==
  ASSUME NEW k, NEW b, NEW v
  PROVE  After(<<>>, k, b, v) <=> b = v
  BY DEF After, Tells, Silent

(* Lines of both keys before all the others: what was believed is forgotten.*)
LEMMA AfterGreeting ==
  ASSUME NEW q \in Seq(Keyed), NEW x \in BOOLEAN, NEW y \in Settings, NEW b, NEW v,
         NEW w, w = <<<<"recording", x>>, <<"setting", y>>>>
  PROVE  /\ w \in Seq(Keyed) /\ Len(w) = 2
         /\ After(q, "recording", x, v) => After(w \o q, "recording", b, v)
         /\ After(q, "setting", y, v) => After(w \o q, "setting", b, v)
<1>1. w \in Seq(Keyed) /\ Len(w) = 2 /\ w[1] = <<"recording", x>> /\ w[2] = <<"setting", y>>
  <2>1. <<"recording", x>> \in Keyed /\ <<"setting", y>> \in Keyed
    BY DEF Keyed
  <2>2. QED
    BY <2>1
<1> DEFINE p == w \o q
<1>2. /\ Len(q) \in Nat /\ Len(p) = 2 + Len(q)
      /\ \A i \in 1..(2 + Len(q)) : p[i] = IF i <= 2 THEN w[i] ELSE q[i - 2]
  BY <1>1, ConcatProperties
<1>3. p[1] = <<"recording", x>> /\ p[2] = <<"setting", y>>
  BY <1>1, <1>2
<1> HIDE DEF p
<1>4. /\ \A i \in 1..Len(q) : i + 2 \in 1..Len(p) /\ p[i + 2] = q[i]
      /\ \A i \in 1..Len(p) : i = 1 \/ i = 2 \/ (i - 2 \in 1..Len(q) /\ p[i] = q[i - 2])
      /\ 1 \in 1..Len(p) /\ 2 \in 1..Len(p)
  BY <1>2
<1>5. ASSUME NEW k, Tells(q, k, v) PROVE Tells(p, k, v)
  <2>1. PICK i \in 1..Len(q) :
          q[i][1] = k /\ q[i][2] = v /\ \A j \in 1..Len(q) : i < j => q[j][1] # k
    BY <1>5 DEF Tells
  <2>2. i + 2 \in 1..Len(p) /\ p[i + 2][1] = k /\ p[i + 2][2] = v
    BY <1>4, <2>1
  <2>3. ASSUME NEW j \in 1..Len(p), i + 2 < j PROVE p[j][1] # k
    <3>1. j # 1 /\ j # 2 /\ i < j - 2
      BY <2>3
    <3>2. QED
      BY <1>4, <2>1, <3>1
  <2>4. QED
    BY <2>2, <2>3 DEF Tells
<1>6. ASSUME Silent(q, "recording"), x = v PROVE Tells(p, "recording", v)
  <2>1. p[1][1] = "recording" /\ p[1][2] = v /\ p[2][1] # "recording"
    BY <1>3, <1>6
  <2>2. ASSUME NEW j \in 1..Len(p), 1 < j PROVE p[j][1] # "recording"
    <3>1. CASE j = 2
      BY <2>1, <3>1
    <3>2. CASE j # 2
      <4>1. j - 2 \in 1..Len(q) /\ p[j] = q[j - 2]
        BY <1>4, <2>2, <3>2
      <4>2. QED
        BY <1>6, <4>1 DEF Silent
    <3>3. QED
      BY <3>1, <3>2
  <2>3. QED
    BY <1>4, <2>1, <2>2 DEF Tells
<1>7. ASSUME Silent(q, "setting"), y = v PROVE Tells(p, "setting", v)
  <2>1. p[2][1] = "setting" /\ p[2][2] = v
    BY <1>3, <1>7
  <2>2. \A j \in 1..Len(p) : 2 < j => p[j][1] # "setting"
    BY <1>4, <1>7 DEF Silent
  <2>3. QED
    BY <1>4, <2>1, <2>2 DEF Tells
<1>8. QED
  BY <1>1, <1>5, <1>6, <1>7 DEF After, p

(* Lines from the broadcast to the wire, and from the wire to the reader.   *)
LEMMA Moved ==
  ASSUME NEW w \in Seq(Keyed), NEW u \in Seq(Keyed), u # <<>>
  PROVE  Append(w, Head(u)) \o Tail(u) = w \o u
<1>1. Head(u) \in Keyed /\ Tail(u) \in Seq(Keyed) /\ u = <<Head(u)>> \o Tail(u)
  <2>1. Head(u) \in Keyed /\ Tail(u) \in Seq(Keyed) /\ Len(Tail(u)) = Len(u) - 1
        /\ Len(u) \in Nat \ {0} /\ \A i \in 1..(Len(u) - 1) : Tail(u)[i] = u[i + 1]
        /\ Head(u) = u[1]
    BY TailFacts
  <2> DEFINE h == <<Head(u)>>
  <2>2. h \in Seq(Keyed) /\ Len(h) = 1 /\ h[1] = u[1]
    BY <2>1
  <2> HIDE DEF h
  <2> DEFINE t == Tail(u)
  <2>3. t \in Seq(Keyed) /\ Len(t) = Len(u) - 1
    BY <2>1
  <2> HIDE DEF t
  <2>4. /\ h \o t \in Seq(Keyed) /\ Len(h \o t) = Len(h) + Len(t)
        /\ \A i \in 1..(Len(h) + Len(t)) :
             (h \o t)[i] = IF i <= Len(h) THEN h[i] ELSE t[i - Len(h)]
    BY <2>3, <2>2, ConcatProperties
  <2>5. Len(h) + Len(t) = Len(u)
    BY <2>3, <2>1, <2>2
  <2>6. /\ h \o Tail(u) \in Seq(Keyed) /\ Len(h \o Tail(u)) = Len(u)
        /\ \A i \in 1..Len(u) : (h \o Tail(u))[i] = IF i <= 1 THEN h[i] ELSE Tail(u)[i - 1]
    BY <2>2, <2>4, <2>5 DEF t
  <2>7. \A i \in 1..Len(u) : (h \o Tail(u))[i] = u[i]
    BY <2>1, <2>2, <2>6
  <2>8. h \o Tail(u) = u
    BY <2>6, <2>7, SeqEqual
  <2>9. QED
    BY <2>1, <2>8 DEF h
<1>2. <<Head(u)>> \in Seq(Keyed)
  BY <1>1
<1>3. Append(w, Head(u)) = w \o <<Head(u)>>
  BY <1>1, AppendIsConcat
<1>4. (w \o <<Head(u)>>) \o Tail(u) = w \o (<<Head(u)>> \o Tail(u))
  BY <1>1, <1>2, ConcatAssociative
<1>5. QED
  BY <1>1, <1>3, <1>4

(* A line about something else is put before the rest. *)
LEMMA AfterInserted ==
  ASSUME NEW w \in Seq(Keyed), NEW u \in Seq(Keyed), NEW k, k # "other", NEW b, NEW v,
         After(w \o u, k, b, v)
  PROVE  After(Append(w, <<"other", TRUE>>) \o u, k, b, v)
<1> DEFINE x == <<"other", TRUE>>
<1> DEFINE a == Append(w, x)
<1> DEFINE p == w \o u
<1> DEFINE r == a \o u
<1> DEFINE n == Len(w)
<1>1. /\ x \in Keyed /\ x[1] = "other" /\ a \in Seq(Keyed) /\ n \in Nat /\ Len(a) = n + 1
      /\ \A i \in 1..n : a[i] = w[i]
      /\ a[n + 1] = x
  <2>1. x \in Keyed /\ x[1] = "other"
    BY DEF Keyed
  <2> HIDE DEF x
  <2>2. QED
    BY <2>1, AppendFacts
<1> HIDE DEF x, a
<1>2. /\ Len(u) \in Nat /\ Len(p) = n + Len(u)
      /\ \A i \in 1..(n + Len(u)) : p[i] = IF i <= n THEN w[i] ELSE u[i - n]
  BY ConcatProperties
<1>3. /\ Len(r) = (n + 1) + Len(u)
      /\ \A i \in 1..((n + 1) + Len(u)) : r[i] = IF i <= n + 1 THEN a[i] ELSE u[i - (n + 1)]
  <2>1. /\ Len(r) = Len(a) + Len(u)
        /\ \A i \in 1..(Len(a) + Len(u)) : r[i] = IF i <= Len(a) THEN a[i] ELSE u[i - Len(a)]
    BY <1>1, ConcatProperties
  <2>2. Len(a) = n + 1
    BY <1>1
  <2> HIDE DEF r, n
  <2>3. QED
    BY <2>1, <2>2
<1> HIDE DEF p, r, n
<1>4. ASSUME NEW i \in 1..Len(p)
      PROVE  /\ i <= n => i \in 1..Len(r) /\ r[i] = p[i]
             /\ i > n => i + 1 \in 1..Len(r) /\ r[i + 1] = p[i]
  <2>1. CASE i <= n
    BY <1>1, <1>2, <1>3, <2>1
  <2>2. CASE i > n
    <3>1. i + 1 \in 1..((n + 1) + Len(u)) /\ ~(i + 1 <= n + 1) /\ (i + 1) - (n + 1) = i - n
      BY <1>1, <1>2, <2>2
    <3>2. r[i + 1] = u[i - n]
      BY <1>3, <3>1
    <3>3. QED
      BY <1>1, <1>2, <1>3, <2>2, <3>1, <3>2
  <2>3. QED
    BY <1>1, <2>1, <2>2
<1>5. ASSUME NEW j \in 1..Len(r), j # n + 1
      PROVE  \E i \in 1..Len(p) : r[j] = p[i] /\ j = IF i <= n THEN i ELSE i + 1
  <2>1. CASE j <= n
    <3>1. j \in 1..Len(p)
      BY <1>1, <1>2, <2>1
    <3>2. QED
      BY <1>4, <2>1, <3>1
  <2>2. CASE j > n + 1
    <3>1. j - 1 \in 1..Len(p) /\ j - 1 > n /\ (j - 1) + 1 = j
      BY <1>1, <1>2, <1>3, <2>2
    <3>2. r[(j - 1) + 1] = p[j - 1]
      BY <1>4, <3>1
    <3>3. r[j] = p[j - 1] /\ j = IF j - 1 <= n THEN j - 1 ELSE (j - 1) + 1
      BY <1>1, <3>1, <3>2
    <3>4. QED
      BY <3>1, <3>3
  <2>3. QED
    BY <1>1, <1>3, <1>5, <2>1, <2>2
<1>6. n + 1 \in 1..Len(r) /\ r[n + 1] = x
  BY <1>1, <1>2, <1>3
<1>7. ASSUME Silent(p, k) PROVE Silent(r, k)
  <2>1. ASSUME NEW j \in 1..Len(r) PROVE r[j][1] # k
    <3>1. CASE j = n + 1
      BY <1>1, <1>6, <3>1
    <3>2. CASE j # n + 1
      BY <1>5, <1>7, <3>2 DEF Silent
    <3>3. QED
      BY <3>1, <3>2
  <2>2. QED
    BY <2>1 DEF Silent
<1>8. ASSUME Tells(p, k, v) PROVE Tells(r, k, v)
  <2>1. PICK i \in 1..Len(p) :
          p[i][1] = k /\ p[i][2] = v /\ \A j \in 1..Len(p) : i < j => p[j][1] # k
    BY <1>8 DEF Tells
  <2> DEFINE m == IF i <= n THEN i ELSE i + 1
  <2>2. m \in 1..Len(r) /\ r[m] = p[i] /\ i <= m
    BY <1>1, <1>4
  <2>3. ASSUME NEW j \in 1..Len(r), m < j PROVE r[j][1] # k
    <3>1. CASE j = n + 1
      BY <1>1, <1>6, <3>1
    <3>2. CASE j # n + 1
      <4>1. PICK l \in 1..Len(p) : r[j] = p[l] /\ j = IF l <= n THEN l ELSE l + 1
        BY <1>5, <3>2
      <4>2. i < l
        BY <1>1, <2>3, <4>1
      <4>3. QED
        BY <2>1, <4>1, <4>2
    <3>3. QED
      BY <3>1, <3>2
  <2> HIDE DEF m
  <2>4. QED
    BY <2>1, <2>2, <2>3 DEF Tells
<1>9. After(r, k, b, v)
  BY <1>7, <1>8 DEF After, p
<1>10. QED
  BY <1>9 DEF r, a, x

LEMMA Behind ==
  ASSUME NEW w \in Seq(Keyed), NEW u \in Seq(Keyed), NEW x \in Keyed
  PROVE  w \o Append(u, x) = Append(w \o u, x) /\ w \o u \in Seq(Keyed)
<1>1. w \o u \in Seq(Keyed) /\ <<x>> \in Seq(Keyed)
  BY ConcatProperties
<1>2. Append(u, x) = u \o <<x>> /\ Append(w \o u, x) = (w \o u) \o <<x>>
  BY <1>1, AppendIsConcat
<1>3. (w \o u) \o <<x>> = w \o (u \o <<x>>)
  BY <1>1, ConcatAssociative
<1>4. QED
  BY <1>1, <1>2, <1>3

LEMMA Ahead ==
  ASSUME NEW w \in Seq(Keyed), NEW u \in Seq(Keyed), w # <<>>
  PROVE  /\ w \o u \in Seq(Keyed) /\ w \o u # <<>>
         /\ Head(w \o u) = Head(w) /\ Tail(w \o u) = Tail(w) \o u
<1> DEFINE p == w \o u
<1> DEFINE t == Tail(w) \o u
<1>1. /\ Len(w) \in Nat \ {0} /\ Tail(w) \in Seq(Keyed) /\ Len(Tail(w)) = Len(w) - 1
      /\ \A i \in 1..(Len(w) - 1) : Tail(w)[i] = w[i + 1]
      /\ Head(w) = w[1] /\ Len(u) \in Nat
  BY TailFacts
<1>2. /\ p \in Seq(Keyed) /\ Len(p) = Len(w) + Len(u)
      /\ \A i \in 1..(Len(w) + Len(u)) : p[i] = IF i <= Len(w) THEN w[i] ELSE u[i - Len(w)]
  BY ConcatProperties
<1>3. /\ t \in Seq(Keyed) /\ Len(t) = (Len(w) - 1) + Len(u)
      /\ \A i \in 1..((Len(w) - 1) + Len(u)) :
           t[i] = IF i <= Len(w) - 1 THEN Tail(w)[i] ELSE u[i - (Len(w) - 1)]
  BY <1>1, ConcatProperties
<1> HIDE DEF p, t
<1>4. p # <<>> /\ p[1] = w[1]
  BY <1>1, <1>2
<1>5. /\ Tail(p) \in Seq(Keyed) /\ Len(Tail(p)) = Len(p) - 1
      /\ \A i \in 1..(Len(p) - 1) : Tail(p)[i] = p[i + 1]
      /\ Head(p) = p[1]
  BY <1>2, <1>4, TailFacts
<1>6. Len(Tail(p)) = Len(t)
  BY <1>1, <1>2, <1>3, <1>5
<1>7. ASSUME NEW i \in 1..Len(t) PROVE Tail(p)[i] = t[i]
  <2>1. i \in 1..(Len(p) - 1) /\ i + 1 \in 1..(Len(w) + Len(u))
        /\ i \in 1..((Len(w) - 1) + Len(u))
    BY <1>1, <1>2, <1>3
  <2>2. Tail(p)[i] = p[i + 1]
    BY <1>5, <2>1
  <2>3. CASE i <= Len(w) - 1
    <3>1. i + 1 <= Len(w) /\ i \in 1..(Len(w) - 1)
      BY <1>1, <2>3
    <3>2. QED
      BY <1>1, <1>2, <1>3, <2>1, <2>2, <2>3, <3>1
  <2>4. CASE ~(i <= Len(w) - 1)
    <3>1. ~(i + 1 <= Len(w)) /\ i + 1 - Len(w) = i - (Len(w) - 1)
      BY <1>1, <2>4
    <3>2. p[i + 1] = u[(i + 1) - Len(w)] /\ (i + 1) - Len(w) = i - (Len(w) - 1)
      BY <1>1, <1>2, <2>1, <3>1
    <3>3. QED
      BY <1>3, <2>1, <2>2, <2>4, <3>2
  <2>5. QED
    BY <2>3, <2>4
<1>8. Tail(p) = t
  BY <1>3, <1>5, <1>6, <1>7, SeqEqual
<1>9. QED
  BY <1>1, <1>2, <1>4, <1>5, <1>8 DEF p, t

-----------------------------------------------------------------------------
(* The daemon's steps *)

LEMMA ConnFacts ==
  /\ None \notin Conns /\ IsFiniteSet(Conns) /\ \A c \in Conns : c \in Nat
  /\ Capacity \in Nat \ {0} /\ Wire \in Nat /\ Wire >= 2
  BY ExtensionAssumption DEF None

LEMMA InitInv == Init => IInv
<1> SUFFICES ASSUME Init PROVE IInv
  OBVIOUS
<1>1. \A c \in Conns : srv[c] = "none" /\ unread[c] = <<>> /\ wire[c] = <<>> /\ ~Subscribed(c)
  BY DEF Init, Subscribed
<1>2. Types
  <2>1. /\ unread \in [Conns -> Seq(Keyed)] /\ wire \in [Conns -> Seq(Keyed)]
        /\ srv \in [Conns -> {"none", "queued", "recording", "setting", "streaming", "gone"}]
        /\ lagged \in [Conns -> {"no", "pending", "reported"}] /\ snap \in [Conns -> BOOLEAN]
    BY DEF Init
  <2>2. \A c \in Conns : Len(unread[c]) <= Capacity /\ Len(wire[c]) <= Wire
    BY <1>1, ConnFacts
  <2>3. view \in [recording : BOOLEAN, setting : Settings \cup {Unknown}]
    BY DEF Init, Blank
  <2>4. 0 <= MaxFaults /\ 0 <= MaxChanges
    BY ExtensionAssumption
  <2>5. QED
    BY <2>1, <2>2, <2>3, <2>4 DEF Init, Types
<1>3. Ends
  BY <1>1 DEF Init, Ends
<1>4. Followed
  BY DEF Init, Followed
<1>5. Waits
  BY DEF Init, Waits
<1>6. Told
  BY <1>1 DEF Told
<1>7. QED
  BY <1>2, <1>3, <1>4, <1>5, <1>6 DEF IInv

(* send(): what a receiver has still to read. *)
LEMMA EmitFacts ==
  ASSUME IInv, NEW k, NEW v, <<k, v>> \in Keyed, Emit(k, v)
  PROVE  /\ unread' \in [Conns -> Seq(Keyed)]
         /\ lagged' \in [Conns -> {"no", "pending", "reported"}]
         /\ \A c \in Conns : Len(unread'[c]) <= Capacity
         /\ \A c \in Conns : ~Subscribed(c) => unread'[c] = <<>>
         /\ \A c \in Conns : Subscribed(c) =>
              \E q \in Seq(Keyed) : unread'[c] = Append(q, <<k, v>>)
         /\ \A c \in Conns : lagged'[c] = "no" /\ Subscribed(c) =>
              lagged[c] = "no" /\ unread'[c] = Append(unread[c], <<k, v>>)
<1>1. /\ Types /\ Ends
      /\ unread' = [c \in Conns |->
           IF ~Subscribed(c) THEN unread[c]
           ELSE Append(IF Full(c) THEN Tail(unread[c]) ELSE unread[c], <<k, v>>)]
      /\ lagged' = [c \in Conns |->
           IF Subscribed(c) /\ Full(c) THEN "pending" ELSE lagged[c]]
  BY DEF IInv, Emit
<1>2. \A c \in Conns : /\ unread[c] \in Seq(Keyed) /\ Len(unread[c]) \in Nat
                       /\ Len(unread[c]) <= Capacity
                       /\ lagged[c] \in {"no", "pending", "reported"}
  BY <1>1 DEF Types
<1>3. ASSUME NEW c \in Conns
      PROVE  /\ unread'[c] \in Seq(Keyed) /\ Len(unread'[c]) <= Capacity
             /\ lagged'[c] \in {"no", "pending", "reported"}
             /\ ~Subscribed(c) => unread'[c] = <<>>
             /\ Subscribed(c) => \E q \in Seq(Keyed) : unread'[c] = Append(q, <<k, v>>)
             /\ lagged'[c] = "no" /\ Subscribed(c) =>
                  lagged[c] = "no" /\ unread'[c] = Append(unread[c], <<k, v>>)
  <2>1. CASE ~Subscribed(c)
    <3>1. unread'[c] = unread[c] /\ lagged'[c] = lagged[c]
      BY <1>1, <2>1
    <3>2. QED
      BY <1>1, <1>2, <2>1, <3>1 DEF Ends
  <2>2. CASE Subscribed(c) /\ Full(c)
    <3>1. unread'[c] = Append(Tail(unread[c]), <<k, v>>) /\ lagged'[c] = "pending"
      BY <1>1, <2>2
    <3>2. unread[c] # <<>>
      BY <1>2, <2>2, ConnFacts DEF Full
    <3>3. Tail(unread[c]) \in Seq(Keyed) /\ Len(Tail(unread[c])) = Len(unread[c]) - 1
      BY <1>2, <3>2, TailFacts
    <3>4. unread'[c] \in Seq(Keyed) /\ Len(unread'[c]) = Len(Tail(unread[c])) + 1
      BY <3>1, <3>3, AppendFacts
    <3>5. Len(unread'[c]) <= Capacity
      BY <1>2, <3>3, <3>4
    <3>6. QED
      BY <2>2, <3>1, <3>3, <3>4, <3>5
  <2>3. CASE Subscribed(c) /\ ~Full(c)
    <3>1. unread'[c] = Append(unread[c], <<k, v>>) /\ lagged'[c] = lagged[c]
      BY <1>1, <2>3
    <3>2. unread'[c] \in Seq(Keyed) /\ Len(unread'[c]) = Len(unread[c]) + 1
      BY <1>2, <3>1, AppendFacts
    <3>3. Len(unread'[c]) <= Capacity
      BY <1>2, <2>3, <3>2, ConnFacts DEF Full
    <3>4. QED
      BY <1>2, <2>3, <3>1, <3>2, <3>3
  <2>4. QED
    BY <2>1, <2>2, <2>3
<1>4. unread' = [c \in Conns |-> unread'[c]] /\ lagged' = [c \in Conns |-> lagged'[c]]
  BY <1>1
<1>5. QED
  BY <1>3, <1>4

(* An event makes its key that of the daemon, and leaves the other alone.   *)
LEMMA EmitTold ==
  ASSUME IInv, NEW k, NEW v, <<k, v>> \in Keyed, Emit(k, v),
         \/ k = "recording" /\ v = recording' /\ UNCHANGED <<setting, untold, last>>
         \/ k = "setting" /\ v = last' /\ UNCHANGED <<recording, busy, setting>>
         \/ k = "other" /\ UNCHANGED <<recording, busy, setting, untold, last>>
  PROVE  Told'
<1> DEFINE x == <<k, v>>
<1>1. /\ UNCHANGED <<srv, snap, wire, view, snubbed, reading, failing, follow>>
      /\ latest' = k /\ Types /\ Told
  BY DEF IInv, Emit, indicator, client, follower
<1>2. x \in Keyed /\ x[1] = k /\ x[2] = v
  OBVIOUS
<1> HIDE DEF x
<1>3. ASSUME NEW c \in Conns, Subscribed(c), RecordingClear(c)'
      PROVE  /\ "recording" = x[1] => recording' = x[2]
             /\ "recording" # x[1] => /\ RecordingClear(c) /\ recording' = recording
                                      /\ unread'[c] = Append(unread[c], x)
  <2>1. CASE k = "recording"
    BY <1>2, <2>1
  <2>2. CASE k # "recording"
    <3>1. lagged'[c] = "no" /\ ~busy' /\ UNCHANGED <<recording, busy>>
      BY <1>1, <1>3, <2>2 DEF RecordingClear, Heard
    <3>2. lagged[c] = "no" /\ unread'[c] = Append(unread[c], x)
      BY <1>3, <3>1, EmitFacts DEF x
    <3>3. QED
      BY <1>2, <2>2, <3>1, <3>2 DEF RecordingClear, Heard
  <2>3. QED
    BY <2>1, <2>2
<1>4. ASSUME NEW c \in Conns, Subscribed(c), SettingClear(c)'
      PROVE  /\ "setting" = x[1] => setting' = x[2]
             /\ "setting" # x[1] => /\ SettingClear(c) /\ setting' = setting
                                    /\ unread'[c] = Append(unread[c], x)
  <2>1. CASE k = "setting"
    BY <1>2, <1>4, <2>1 DEF SettingClear, Settled
  <2>2. CASE k # "setting"
    <3>1. lagged'[c] = "no" /\ Settled' /\ UNCHANGED <<setting, untold, last>>
      BY <1>1, <1>4, <2>2 DEF SettingClear, Heard
    <3>2. lagged[c] = "no" /\ unread'[c] = Append(unread[c], x)
      BY <1>4, <3>1, EmitFacts DEF x
    <3>3. Settled
      BY <3>1 DEF Settled, Untold
    <3>4. QED
      BY <1>2, <2>2, <3>1, <3>2, <3>3 DEF SettingClear, Heard
  <2>3. QED
    BY <2>1, <2>2
<1> SUFFICES ASSUME NEW c \in Conns, srv[c] \in {"recording", "setting", "streaming"}
             PROVE
      /\ srv[c] = "recording" =>
         /\ RecordingClear(c)' => After(unread'[c], "recording", recording', recording')
         /\ SettingClear(c)' => After(unread'[c], "setting", setting', setting')
      /\ srv[c] = "setting" =>
         /\ RecordingClear(c)' => After(unread'[c], "recording", snap[c], recording')
         /\ SettingClear(c)' => After(unread'[c], "setting", setting', setting')
      /\ srv[c] = "streaming" /\ Alone(c)' =>
         /\ RecordingClear(c)' => After(wire[c] \o unread'[c], "recording", view.recording, recording')
         /\ SettingClear(c)' => After(wire[c] \o unread'[c], "setting", view.setting, setting')
  BY <1>1 DEF Told, Alone
<1>5. Subscribed(c)
  BY DEF Subscribed
<1>6. PICK o \in Seq(Keyed) : unread'[c] = Append(o, x)
  BY <1>5, EmitFacts DEF x
<1>7. unread[c] \in Seq(Keyed) /\ wire[c] \in Seq(Keyed)
  BY <1>1 DEF Types
<1> DEFINE n == unread'[c]
<1> HIDE DEF n
<1>8. n = Append(o, x)
  BY <1>6 DEF n
<1>9. RecordingClear(c)' =>
        /\ "recording" = x[1] => recording' = x[2]
        /\ "recording" # x[1] => RecordingClear(c) /\ recording' = recording /\ n = Append(unread[c], x)
  BY <1>3, <1>5 DEF n
<1>10. SettingClear(c)' =>
        /\ "setting" = x[1] => setting' = x[2]
        /\ "setting" # x[1] => SettingClear(c) /\ setting' = setting /\ n = Append(unread[c], x)
  BY <1>4, <1>5 DEF n
<1>11. ASSUME srv[c] = "recording"
      PROVE  /\ RecordingClear(c)' => After(n, "recording", recording', recording')
             /\ SettingClear(c)' => After(n, "setting", setting', setting')
  <2>1. /\ RecordingClear(c) => After(unread[c], "recording", recording, recording)
        /\ SettingClear(c) => After(unread[c], "setting", setting, setting)
    BY <1>1, <1>11 DEF Told
  <2>2. ASSUME RecordingClear(c)' PROVE After(n, "recording", recording', recording')
    <3>1. CASE "recording" = x[1]
      BY <1>2, <1>8, <1>9, <2>2, <3>1, AfterSame
    <3>2. CASE "recording" # x[1]
      BY <1>2, <1>7, <1>9, <2>1, <2>2, <3>2, AfterOther
    <3>3. QED
      BY <3>1, <3>2
  <2>3. ASSUME SettingClear(c)' PROVE After(n, "setting", setting', setting')
    <3>1. CASE "setting" = x[1]
      BY <1>2, <1>8, <1>10, <2>3, <3>1, AfterSame
    <3>2. CASE "setting" # x[1]
      BY <1>2, <1>7, <1>10, <2>1, <2>3, <3>2, AfterOther
    <3>3. QED
      BY <3>1, <3>2
  <2>4. QED
    BY <2>2, <2>3
<1>12. ASSUME srv[c] = "setting"
      PROVE  /\ RecordingClear(c)' => After(n, "recording", snap[c], recording')
             /\ SettingClear(c)' => After(n, "setting", setting', setting')
  <2>1. /\ RecordingClear(c) => After(unread[c], "recording", snap[c], recording)
        /\ SettingClear(c) => After(unread[c], "setting", setting, setting)
    BY <1>1, <1>12 DEF Told
  <2>2. ASSUME RecordingClear(c)' PROVE After(n, "recording", snap[c], recording')
    <3>1. CASE "recording" = x[1]
      BY <1>2, <1>8, <1>9, <2>2, <3>1, AfterSame
    <3>2. CASE "recording" # x[1]
      BY <1>2, <1>7, <1>9, <2>1, <2>2, <3>2, AfterOther
    <3>3. QED
      BY <3>1, <3>2
  <2>3. ASSUME SettingClear(c)' PROVE After(n, "setting", setting', setting')
    <3>1. CASE "setting" = x[1]
      BY <1>2, <1>8, <1>10, <2>3, <3>1, AfterSame
    <3>2. CASE "setting" # x[1]
      BY <1>2, <1>7, <1>10, <2>1, <2>3, <3>2, AfterOther
    <3>3. QED
      BY <3>1, <3>2
  <2>4. QED
    BY <2>2, <2>3
<1>13. ASSUME srv[c] = "streaming", Alone(c)'
      PROVE  /\ RecordingClear(c)' => After(wire[c] \o n, "recording", view.recording, recording')
             /\ SettingClear(c)' => After(wire[c] \o n, "setting", view.setting, setting')
  <2> DEFINE q == wire[c] \o unread[c]
  <2> DEFINE r == wire[c] \o o
  <2> DEFINE p == wire[c] \o n
  <2>1. /\ RecordingClear(c) => After(q, "recording", view.recording, recording)
        /\ SettingClear(c) => After(q, "setting", view.setting, setting)
    <3>1. Alone(c)
      BY <1>1, <1>13 DEF Alone
    <3>2. QED
      BY <1>1, <1>13, <3>1 DEF Told
  <2>2. /\ q \in Seq(Keyed) /\ r \in Seq(Keyed)
        /\ p = Append(r, x)
        /\ n = Append(unread[c], x) => p = Append(q, x)
    <3>1. q \in Seq(Keyed) /\ r \in Seq(Keyed)
      BY <1>7, Behind, ConcatProperties
    <3>2. p = Append(r, x)
      BY <1>2, <1>7, <1>8, Behind
    <3>3. ASSUME n = Append(unread[c], x) PROVE p = Append(q, x)
      <4>1. p = wire[c] \o Append(unread[c], x)
        BY <3>3
      <4> HIDE DEF p
      <4>2. QED
        BY <1>2, <1>7, <4>1, Behind
    <3>4. QED
      BY <3>1, <3>2, <3>3
  <2> HIDE DEF q, r, p
  <2>3. ASSUME RecordingClear(c)' PROVE After(p, "recording", view.recording, recording')
    <3>1. CASE "recording" = x[1]
      BY <1>2, <1>9, <2>2, <2>3, <3>1, AfterSame
    <3>2. CASE "recording" # x[1]
      BY <1>2, <1>9, <2>1, <2>2, <2>3, <3>2, AfterOther
    <3>3. QED
      BY <3>1, <3>2
  <2>4. ASSUME SettingClear(c)' PROVE After(p, "setting", view.setting, setting')
    <3>1. CASE "setting" = x[1]
      BY <1>2, <1>10, <2>2, <2>4, <3>1, AfterSame
    <3>2. CASE "setting" # x[1]
      BY <1>2, <1>10, <2>1, <2>2, <2>4, <3>2, AfterOther
    <3>3. QED
      BY <3>1, <3>2
  <2>5. QED
    BY <2>3, <2>4 DEF p
<1>14. QED
  BY <1>11, <1>12, <1>13 DEF n

(* What the daemon changes of its own, of the right types.                  *)
Changed ==
  /\ recording \in BOOLEAN /\ busy \in BOOLEAN /\ (busy => ~recording)
  /\ untold \in [Settings -> Nat] /\ setting \in Settings /\ last \in Settings
  /\ changes \in Nat /\ changes <= MaxChanges

(* What an event leaves of the invariant. *)
LEMMA EmitRest ==
  ASSUME IInv, NEW k, NEW v, <<k, v>> \in Keyed, Emit(k, v), up' = up, Changed',
         k \in {"recording", "setting", "other"}
  PROVE  Types' /\ Ends' /\ Followed' /\ Waits'
<1>1. /\ UNCHANGED <<srv, snap, wire, connected, view, snubbed, faults, asking>>
      /\ UNCHANGED <<enabled, opening, reading, failing, follow, known, leaked, locked>>
      /\ latest' = k /\ Types /\ Ends /\ Followed /\ Waits
  BY DEF IInv, Emit, indicator, client, follower
<1>2. Types'
  <2>1. \A c \in Conns : Len(unread'[c]) <= Capacity /\ Len(wire'[c]) <= Wire
    BY <1>1, EmitFacts DEF Types
  <2>2. /\ unread' \in [Conns -> Seq(Keyed)]
        /\ lagged' \in [Conns -> {"no", "pending", "reported"}]
    BY EmitFacts
  <2>3. /\ recording' \in BOOLEAN /\ busy' \in BOOLEAN
        /\ untold' \in [Settings -> Nat] /\ setting' \in Settings /\ last' \in Settings
        /\ changes' \in Nat /\ changes' <= MaxChanges
    BY DEF Changed
  <2>4. latest' \in {"none", "recording", "setting", "other"}
    BY <1>1
  <2>5. QED
    BY <1>1, <2>1, <2>2, <2>3, <2>4 DEF Types
<1>3. Ends'
  BY <1>1, EmitFacts DEF Ends, Subscribed, Changed
<1>4. Followed'
  BY <1>1 DEF Followed
<1>5. Waits'
  BY <1>1 DEF Waits
<1>6. QED
  BY <1>2, <1>3, <1>4, <1>5

LEMMA EventKeyed ==
  /\ \A v \in BOOLEAN : <<"recording", v>> \in Keyed
  /\ \A v \in Settings : <<"setting", v>> \in Keyed
  /\ <<"other", TRUE>> \in Keyed
  BY DEF Keyed

LEMMA ChangesFacts ==
  ASSUME IInv, Changes
  PROVE  changes' \in Nat /\ changes' <= MaxChanges
  BY ExtensionAssumption DEF IInv, Types, Changes

LEMMA StartRecordingStep ==
  ASSUME IInv, StartRecording PROVE IInv'
<1>1. /\ recording' = TRUE /\ Emit("recording", TRUE) /\ Changes /\ ~busy
      /\ UNCHANGED <<up, setting, busy, untold, last>> /\ Types
  BY DEF StartRecording, IInv
<1>2. <<"recording", TRUE>> \in Keyed
  BY EventKeyed
<1>3. Told'
  BY <1>1, <1>2, EmitTold
<1>4. Types' /\ Ends' /\ Followed' /\ Waits'
  <2>1. Changed'
    BY <1>1, ChangesFacts DEF Types, Changed
  <2>2. QED
    BY <1>1, <1>2, <2>1, EmitRest
<1>5. QED
  BY <1>3, <1>4 DEF IInv

(* A step of the daemon that tells nobody. *)
LEMMA TellsNobody ==
  ASSUME IInv, UNCHANGED <<up, latest, server, wire, indicator, client, faults>>, Changed',
         busy' \/ (recording' = recording /\ busy' = busy),
         ~Settled' \/ UNCHANGED <<setting, untold, last>>
  PROVE  IInv'
<1>1. /\ UNCHANGED <<up, latest, srv, unread, lagged, snap, wire>>
      /\ UNCHANGED <<connected, view, snubbed, faults, asking>>
      /\ UNCHANGED <<enabled, opening, reading, failing, follow, known, leaked, locked>>
      /\ Types /\ Ends /\ Followed /\ Waits /\ Told
  BY DEF IInv, server, indicator, client, follower
<1>2. Types'
  <2>1. /\ recording' \in BOOLEAN /\ busy' \in BOOLEAN
        /\ untold' \in [Settings -> Nat] /\ setting' \in Settings /\ last' \in Settings
        /\ changes' \in Nat /\ changes' <= MaxChanges
    BY DEF Changed
  <2>2. latest' \in {"none", "recording", "setting", "other"} /\ up' \in BOOLEAN
    BY <1>1 DEF Types
  <2>3. /\ srv' \in [Conns -> {"none", "queued", "recording", "setting", "streaming", "gone"}]
        /\ unread' \in [Conns -> Seq(Keyed)] /\ wire' \in [Conns -> Seq(Keyed)]
        /\ \A c \in Conns : Len(unread'[c]) <= Capacity /\ Len(wire'[c]) <= Wire
    BY <1>1 DEF Types
  <2>4. QED
    BY <1>1, <2>1, <2>2, <2>3 DEF Types
<1>3. Ends'
  BY <1>1 DEF Ends, Subscribed, Changed
<1>4. Followed' /\ Waits'
  BY <1>1 DEF Followed, Waits
<1>5. Told'
  <2>1. \A c \in Conns : Alone(c)' => Alone(c)
    BY <1>1 DEF Alone
  <2>2. \A c \in Conns : RecordingClear(c)' => RecordingClear(c) /\ recording' = recording
    BY <1>1 DEF RecordingClear, Heard
  <2>3. \A c \in Conns : SettingClear(c)' => SettingClear(c) /\ setting' = setting
    BY <1>1 DEF SettingClear, Heard, Settled, Untold
  <2>4. QED
    BY <1>1, <2>1, <2>2, <2>3 DEF Told
<1>6. QED
  BY <1>2, <1>3, <1>4, <1>5 DEF IInv

LEMMA StopRecordingStep ==
  ASSUME IInv, StopRecording PROVE IInv'
<1>1. /\ recording' = FALSE /\ busy' = TRUE /\ Changes
      /\ UNCHANGED <<up, setting, untold, last, latest, server, wire, indicator, client, faults>>
      /\ Types
  BY DEF StopRecording, IInv
<1>2. Changed'
  BY <1>1, ChangesFacts DEF Types, Changed
<1>3. QED
  BY <1>1, <1>2, TellsNobody

LEMMA StoppedStep ==
  ASSUME IInv, Stopped PROVE IInv'
<1>1. /\ busy /\ busy' = FALSE /\ Emit("recording", FALSE)
      /\ UNCHANGED <<up, recording, setting, untold, last, changes>> /\ Types /\ Ends
  BY DEF Stopped, IInv
<1>2. <<"recording", FALSE>> \in Keyed
  BY EventKeyed
<1>3. recording' = FALSE
  BY <1>1 DEF Types, Ends
<1>4. Told'
  BY <1>1, <1>2, <1>3, EmitTold
<1>5. Types' /\ Ends' /\ Followed' /\ Waits'
  <2>1. Changed'
    BY <1>1 DEF Types, Changed
  <2>2. QED
    BY <1>1, <1>2, <2>1, EmitRest
<1>6. QED
  BY <1>4, <1>5 DEF IInv

LEMMA ChangeStep ==
  ASSUME IInv, NEW v \in Settings, Change(v) PROVE IInv'
<1>1. /\ setting' = v /\ untold' = [untold EXCEPT ![v] = untold[v] + 1] /\ Changes
      /\ UNCHANGED <<up, recording, busy, last, latest, server, wire, indicator, client, faults>>
      /\ Types /\ Ends
  BY DEF Change, IInv
<1>2. Changed'
  BY <1>1, ChangesFacts DEF Types, Ends, Changed
<1>3. ~Settled'
  BY <1>1 DEF Types, Settled, Untold
<1>4. QED
  BY <1>1, <1>2, <1>3, TellsNobody

LEMMA TellStep ==
  ASSUME IInv, NEW v \in Settings, Tell(v) PROVE IInv'
<1>1. /\ untold' = [untold EXCEPT ![v] = untold[v] - 1] /\ untold[v] > 0
      /\ last' = v /\ Emit("setting", v)
      /\ UNCHANGED <<up, recording, setting, busy, changes>> /\ Types /\ Ends
  BY DEF Tell, Untold, IInv
<1>2. <<"setting", v>> \in Keyed
  BY EventKeyed
<1>3. Told'
  BY <1>1, <1>2, EmitTold
<1>4. Types' /\ Ends' /\ Followed' /\ Waits'
  <2>1. Changed'
    BY <1>1 DEF Types, Ends, Changed
  <2>2. QED
    BY <1>1, <1>2, <2>1, EmitRest
<1>5. QED
  BY <1>3, <1>4 DEF IInv

LEMMA ChatStep ==
  ASSUME IInv, Chat PROVE IInv'
<1>1. /\ Emit("other", TRUE) /\ Changes
      /\ UNCHANGED <<up, recording, setting, busy, untold, last>> /\ Types /\ Ends
  BY DEF Chat, IInv
<1>2. <<"other", TRUE>> \in Keyed
  BY EventKeyed
<1>3. Told'
  BY <1>1, <1>2, EmitTold
<1>4. Types' /\ Ends' /\ Followed' /\ Waits'
  <2>1. Changed'
    BY <1>1, ChangesFacts DEF Types, Ends, Changed
  <2>2. QED
    BY <1>1, <1>2, <2>1, EmitRest
<1>5. QED
  BY <1>3, <1>4 DEF IInv

LEMMA FaultFacts ==
  ASSUME IInv, NEW f, Fault(f)
  PROVE  faults' \in Nat /\ faults' <= MaxFaults
  BY ExtensionAssumption DEF IInv, Types, Fault

LEMMA CrashStep ==
  ASSUME IInv, Crash PROVE IInv'
<1>1. /\ up' = FALSE /\ busy' = FALSE /\ untold' = [v \in Settings |-> 0]
      /\ srv' = [c \in Conns |-> IF srv[c] = "none" THEN "none" ELSE "gone"]
      /\ unread' = [c \in Conns |-> <<>>]
      /\ asking' = (IF asking = "sent" THEN "lost" ELSE asking)
      /\ UNCHANGED <<recording, setting, last, latest, changes, lagged, snap, wire, connected, view, snubbed>>
      /\ UNCHANGED <<enabled, opening, reading, failing, follow, known, leaked, locked>>
      /\ Fault("crash") /\ Types /\ Ends /\ Followed /\ Waits
  BY DEF IInv, Crash, indicator, follower
<1>2. \A c \in Conns : /\ srv'[c] = IF srv[c] = "none" THEN "none" ELSE "gone"
                       /\ unread'[c] = <<>> /\ srv'[c] \in {"none", "gone"}
  BY <1>1
<1>3. Types'
  <2>1. /\ srv' \in [Conns -> {"none", "queued", "recording", "setting", "streaming", "gone"}]
        /\ unread' \in [Conns -> Seq(Keyed)]
    BY <1>1
  <2>2. \A c \in Conns : Len(unread'[c]) <= Capacity /\ Len(wire'[c]) <= Wire
    BY <1>1, <1>2, ConnFacts DEF Types
  <2>3. asking' \in {"no", "sent", "lost"}
    BY <1>1 DEF Types
  <2>4. QED
    BY <1>1, <2>1, <2>2, <2>3, FaultFacts DEF Types
<1>4. Ends'
  BY <1>1, <1>2 DEF Ends, Subscribed
<1>5. Followed'
  BY <1>1, <1>2 DEF Followed, Types
<1>6. Waits'
  BY <1>1 DEF Waits
<1>7. Told'
  BY <1>2 DEF Told
<1>8. QED
  BY <1>3, <1>4, <1>5, <1>6, <1>7 DEF IInv

LEMMA RestartStep ==
  ASSUME IInv, Restart PROVE IInv'
<1>1. /\ ~up /\ up' = TRUE /\ recording' = FALSE /\ setting' \in Settings
      /\ last' = setting' /\ latest' = "none"
      /\ UNCHANGED <<busy, untold, changes, srv, unread, lagged, snap, wire>>
      /\ UNCHANGED <<connected, view, snubbed, faults, asking>>
      /\ UNCHANGED <<enabled, opening, reading, failing, follow, known, leaked, locked>>
      /\ Types /\ Ends /\ Followed /\ Waits
  BY DEF IInv, Restart, server, indicator, client, follower
<1>2. Types'
  <2>1. recording' \in BOOLEAN /\ up' \in BOOLEAN
    BY <1>1
  <2>2. QED
    BY <1>1, <2>1 DEF Types
<1>3. Ends'
  BY <1>1 DEF Ends, Subscribed
<1>4. Followed' /\ Waits'
  BY <1>1 DEF Followed, Waits
<1>5. Told'
  BY <1>1 DEF Told, Ends
<1>6. QED
  BY <1>2, <1>3, <1>4, <1>5 DEF IInv

-----------------------------------------------------------------------------
(* The server's steps: each is about one connection, c *)

(* What such a step leaves alone, and what it must show of c. *)
LEMMA ServerStep ==
  ASSUME IInv, NEW c \in Conns, UNCHANGED <<daemon, indicator, client>>,
         Types',
         \A d \in Conns \ {c} : /\ srv'[d] = srv[d] /\ unread'[d] = unread[d]
                                /\ lagged'[d] = lagged[d] /\ snap'[d] = snap[d]
                                /\ wire'[d] = wire[d],
         up \/ srv'[c] \in {"none", "gone"},
         ~Subscribed(c)' => unread'[c] = <<>>,
         srv'[c] = "none" \/ c \notin opening,
         srv'[c] = "none" => c # follow,
         srv'[c] \in {"none", "gone"} \/ srv[c] # "gone",
         /\ srv'[c] = "recording" =>
              /\ RecordingClear(c)' => After(unread'[c], "recording", recording, recording)
              /\ SettingClear(c)' => After(unread'[c], "setting", setting, setting)
         /\ srv'[c] = "setting" =>
              /\ RecordingClear(c)' => After(unread'[c], "recording", snap'[c], recording)
              /\ SettingClear(c)' => After(unread'[c], "setting", setting, setting)
         /\ srv'[c] = "streaming" /\ Alone(c)' =>
              /\ RecordingClear(c)' => After(wire'[c] \o unread'[c], "recording", view.recording, recording)
              /\ SettingClear(c)' => After(wire'[c] \o unread'[c], "setting", view.setting, setting)
  PROVE  IInv'
<1>1. /\ UNCHANGED <<up, recording, setting, busy, untold, last, latest, changes, connected, view, snubbed>>
      /\ UNCHANGED <<enabled, opening, reading, failing, follow, known, leaked, locked, asking>>
      /\ Types /\ Ends /\ Followed /\ Waits /\ Told
  BY DEF IInv, daemon, indicator, client, follower
<1>2. Ends'
  <2>1. \A d \in Conns \ {c} : ~Subscribed(d)' => unread'[d] = <<>>
    BY <1>1 DEF Ends, Subscribed
  <2>2. ~up' => \A d \in Conns : srv'[d] \in {"none", "gone"}
    BY <1>1 DEF Ends
  <2>3. QED
    BY <1>1, <2>1, <2>2 DEF Ends
<1>3. Followed'
  <2>1. \A d \in opening : srv'[d] = "none"
    BY <1>1 DEF Followed, Types
  <2>2. ASSUME follow # None
        PROVE  /\ follow \in reading /\ srv'[follow] # "none"
               /\ ~snubbed /\ srv'[follow] # "gone" => connected
    <3>1. follow \in Conns
      BY <1>1, <2>2 DEF Types
    <3>2. /\ follow \in reading /\ srv[follow] # "none"
          /\ ~snubbed /\ srv[follow] # "gone" => connected
      BY <1>1, <2>2 DEF Followed
    <3>3. srv'[follow] # "none" /\ (srv'[follow] # "gone" => srv[follow] # "gone")
      BY <3>1, <3>2
    <3>4. QED
      BY <3>2, <3>3
  <2>3. QED
    BY <1>1, <2>1, <2>2 DEF Followed
<1>4. Waits'
  BY <1>1 DEF Waits
<1>5. Told'
  <2>1. ASSUME NEW d \in Conns \ {c}
        PROVE  /\ Alone(d)' => Alone(d)
               /\ RecordingClear(d)' => RecordingClear(d)
               /\ SettingClear(d)' => SettingClear(d)
    BY <1>1 DEF Alone, RecordingClear, SettingClear, Heard, Settled, Untold
  <2>2. ASSUME NEW d \in Conns \ {c}
        PROVE
          /\ srv'[d] = "recording" =>
               /\ RecordingClear(d)' => After(unread'[d], "recording", recording, recording)
               /\ SettingClear(d)' => After(unread'[d], "setting", setting, setting)
          /\ srv'[d] = "setting" =>
               /\ RecordingClear(d)' => After(unread'[d], "recording", snap'[d], recording)
               /\ SettingClear(d)' => After(unread'[d], "setting", setting, setting)
          /\ srv'[d] = "streaming" /\ Alone(d)' =>
               /\ RecordingClear(d)' => After(wire'[d] \o unread'[d], "recording", view.recording, recording)
               /\ SettingClear(d)' => After(wire'[d] \o unread'[d], "setting", view.setting, setting)
    BY <1>1, <2>1 DEF Told
  <2>3. QED
    BY <1>1, <2>2 DEF Told
<1>6. QED
  BY <1>2, <1>3, <1>4, <1>5 DEF IInv

LEMMA AcceptStep ==
  ASSUME IInv, NEW c \in Conns, Accept(c) PROVE IInv'
<1>1. /\ srv[c] = "queued" /\ srv' = [srv EXCEPT ![c] = "recording"]
      /\ lagged' = [lagged EXCEPT ![c] = "no"]
      /\ UNCHANGED <<daemon, indicator, client>> /\ UNCHANGED <<unread, snap, wire, faults>>
      /\ UNCHANGED <<up, recording, setting, busy, untold, last, latest, changes, connected, view, snubbed>>
      /\ UNCHANGED <<enabled, opening, reading, failing, follow, known, leaked, locked, asking>>
      /\ Types /\ Ends /\ Followed
  BY DEF IInv, Accept, serverRest, daemon, indicator, client, follower
<1>2. /\ srv'[c] = "recording" /\ lagged'[c] = "no"
      /\ \A d \in Conns \ {c} : srv'[d] = srv[d] /\ lagged'[d] = lagged[d]
  BY <1>1 DEF Types
<1>3. Types'
  BY <1>1 DEF Types
<1>4. unread[c] = <<>> /\ up /\ c \notin opening
  BY <1>1 DEF Ends, Followed, Subscribed
<1>5. /\ After(unread'[c], "recording", recording, recording)
      /\ After(unread'[c], "setting", setting, setting)
  BY <1>1, <1>4, AfterNothing
<1>6. Subscribed(c)'
  BY <1>2 DEF Subscribed
<1>7. QED
  BY <1>1, <1>2, <1>3, <1>4, <1>5, <1>6, ServerStep

LEMMA RefuseStep ==
  ASSUME IInv, NEW c \in Conns, Refuse(c) PROVE IInv'
<1>1. /\ srv[c] = "queued" /\ srv' = [srv EXCEPT ![c] = "gone"] /\ Fault("refuse")
      /\ UNCHANGED <<daemon, indicator, client>> /\ UNCHANGED <<unread, lagged, snap, wire>>
      /\ UNCHANGED <<up, recording, setting, busy, untold, last, latest, changes, connected, view, snubbed>>
      /\ UNCHANGED <<enabled, opening, reading, failing, follow, known, leaked, locked, asking>>
      /\ Types /\ Ends /\ Followed
  BY DEF IInv, Refuse, serverRest, daemon, indicator, client, follower
<1>2. srv'[c] = "gone" /\ \A d \in Conns \ {c} : srv'[d] = srv[d]
  BY <1>1 DEF Types
<1>3. Types'
  BY <1>1, FaultFacts DEF Types
<1>4. unread'[c] = <<>> /\ c \notin opening
  BY <1>1 DEF Ends, Followed, Subscribed
<1>5. QED
  BY <1>1, <1>2, <1>3, <1>4, ServerStep

LEMMA ReadRecordingStep ==
  ASSUME IInv, NEW c \in Conns, ReadRecording(c) PROVE IInv'
<1>1. /\ srv[c] = "recording" /\ srv' = [srv EXCEPT ![c] = "setting"] /\ ~busy
      /\ snap' = [snap EXCEPT ![c] = recording]
      /\ UNCHANGED <<daemon, indicator, client>> /\ UNCHANGED <<unread, lagged, wire, faults>>
      /\ UNCHANGED <<up, recording, setting, busy, untold, last, latest, changes, connected, view, snubbed>>
      /\ UNCHANGED <<enabled, opening, reading, failing, follow, known, leaked, locked, asking>>
      /\ Types /\ Ends /\ Followed /\ Told
  BY DEF IInv, ReadRecording, serverRest, daemon, indicator, client, follower
<1>2. /\ srv'[c] = "setting" /\ snap'[c] = recording
      /\ \A d \in Conns \ {c} : srv'[d] = srv[d] /\ snap'[d] = snap[d]
  BY <1>1 DEF Types
<1>3. Types'
  BY <1>1 DEF Types
<1>4. up /\ c \notin opening
  BY <1>1 DEF Ends, Followed
<1>5. /\ RecordingClear(c)' => After(unread[c], "recording", recording, recording)
      /\ SettingClear(c)' => After(unread[c], "setting", setting, setting)
  BY <1>1 DEF Told, RecordingClear, SettingClear, Heard, Settled, Untold
<1>6. Subscribed(c)'
  BY <1>2 DEF Subscribed
<1>7. QED
  BY <1>1, <1>2, <1>3, <1>4, <1>5, <1>6, ServerStep

LEMMA GreetStep ==
  ASSUME IInv, NEW c \in Conns, Greet(c) PROVE IInv'
<1> DEFINE w == <<<<"recording", snap[c]>>, <<"setting", setting>>>>
<1>1. /\ srv[c] = "setting" /\ srv' = [srv EXCEPT ![c] = "streaming"]
      /\ snap' = [snap EXCEPT ![c] = FALSE]
      /\ wire' = [wire EXCEPT ![c] = w]
      /\ UNCHANGED <<daemon, indicator, client>> /\ UNCHANGED <<unread, lagged, faults>>
      /\ UNCHANGED <<up, recording, setting, busy, untold, last, latest, changes, connected, view, snubbed>>
      /\ UNCHANGED <<enabled, opening, reading, failing, follow, known, leaked, locked, asking>>
      /\ Types /\ Ends /\ Followed /\ Told
  BY DEF IInv, Greet, serverRest, daemon, indicator, client, follower
<1>2. snap[c] \in BOOLEAN /\ setting \in Settings /\ unread[c] \in Seq(Keyed)
  BY <1>1 DEF Types
<1>3. /\ w \in Seq(Keyed) /\ Len(w) = 2
      /\ \A b, v : After(unread[c], "recording", snap[c], v) => After(w \o unread[c], "recording", b, v)
      /\ \A b, v : After(unread[c], "setting", setting, v) => After(w \o unread[c], "setting", b, v)
  <2>1. w = <<<<"recording", snap[c]>>, <<"setting", setting>>>>
    OBVIOUS
  <2> HIDE DEF w
  <2>2. w \in Seq(Keyed) /\ Len(w) = 2
    <3>1. <<"recording", snap[c]>> \in Keyed /\ <<"setting", setting>> \in Keyed
      BY <1>2, EventKeyed
    <3>2. QED
      BY <2>1, <3>1
  <2>3. ASSUME NEW b, NEW v
        PROVE  /\ After(unread[c], "recording", snap[c], v) => After(w \o unread[c], "recording", b, v)
               /\ After(unread[c], "setting", setting, v) => After(w \o unread[c], "setting", b, v)
    BY <1>2, <2>1, AfterGreeting
  <2>4. QED
    BY <2>2, <2>3
<1>4. /\ RecordingClear(c)' => After(unread[c], "recording", snap[c], recording)
      /\ SettingClear(c)' => After(unread[c], "setting", setting, setting)
  BY <1>1 DEF Told, RecordingClear, SettingClear, Heard, Settled, Untold
<1> HIDE DEF w
<1>5. /\ srv'[c] = "streaming" /\ wire'[c] = w
      /\ \A d \in Conns \ {c} : srv'[d] = srv[d] /\ snap'[d] = snap[d] /\ wire'[d] = wire[d]
  BY <1>1 DEF Types
<1>6. Types'
  <2>1. /\ srv' \in [Conns -> {"none", "queued", "recording", "setting", "streaming", "gone"}]
        /\ snap' \in [Conns -> BOOLEAN] /\ wire' \in [Conns -> Seq(Keyed)]
    BY <1>1, <1>3 DEF Types
  <2>2. \A d \in Conns : Len(unread'[d]) <= Capacity /\ Len(wire'[d]) <= Wire
    BY <1>1, <1>3, <1>5, ConnFacts DEF Types
  <2>3. QED
    BY <1>1, <2>1, <2>2 DEF Types
<1>7. up /\ c \notin opening
  BY <1>1 DEF Ends, Followed
<1>8. srv'[c] = "streaming" /\ Alone(c)' =>
              /\ RecordingClear(c)' => After(wire'[c] \o unread'[c], "recording", view.recording, recording)
              /\ SettingClear(c)' => After(wire'[c] \o unread'[c], "setting", view.setting, setting)
  BY <1>1, <1>3, <1>4, <1>5
<1>9. Subscribed(c)'
  BY <1>5 DEF Subscribed
<1>10. QED
  BY <1>1, <1>5, <1>6, <1>7, <1>8, <1>9, ServerStep

LEMMA WriteStep ==
  ASSUME IInv, NEW c \in Conns, Write(c) PROVE IInv'
<1>1. /\ srv[c] = "streaming" /\ Len(wire[c]) < Wire
      /\ UNCHANGED <<daemon, indicator, client>> /\ UNCHANGED <<srv, snap, faults>>
      /\ UNCHANGED <<up, recording, setting, busy, untold, last, latest, changes, connected, view, snubbed>>
      /\ UNCHANGED <<enabled, opening, reading, failing, follow, known, leaked, locked, asking>>
      /\ Types /\ Ends /\ Followed /\ Told
  BY DEF IInv, Write, serverRest, daemon, indicator, client, follower
<1>2. up /\ c \notin opening /\ Subscribed(c)'
  BY <1>1 DEF Ends, Followed, Subscribed
<1>3. unread[c] \in Seq(Keyed) /\ wire[c] \in Seq(Keyed) /\ Len(wire[c]) \in Nat
      /\ Len(unread[c]) \in Nat /\ Len(unread[c]) <= Capacity
  BY <1>1 DEF Types
<1>4. CASE /\ lagged[c] = "pending" /\ lagged' = [lagged EXCEPT ![c] = "reported"]
           /\ wire' = [wire EXCEPT ![c] = Append(wire[c], <<"other", TRUE>>)]
           /\ unread' = unread
  <2>1. <<"other", TRUE>> \in Keyed
    BY DEF Keyed
  <2>2. /\ Append(wire[c], <<"other", TRUE>>) \in Seq(Keyed)
        /\ Len(Append(wire[c], <<"other", TRUE>>)) = Len(wire[c]) + 1
    BY <1>3, <2>1, AppendFacts
  <2>3. /\ lagged'[c] = "reported" /\ wire'[c] = Append(wire[c], <<"other", TRUE>>)
        /\ \A d \in Conns \ {c} : lagged'[d] = lagged[d] /\ wire'[d] = wire[d]
    BY <1>1, <1>4 DEF Types
  <2>4. Types'
    <3>1. /\ wire' \in [Conns -> Seq(Keyed)]
          /\ lagged' \in [Conns -> {"no", "pending", "reported"}]
      BY <1>1, <1>4, <2>2 DEF Types
    <3>2. \A d \in Conns : Len(unread'[d]) <= Capacity /\ Len(wire'[d]) <= Wire
      BY <1>1, <1>3, <1>4, <2>2, <2>3, ConnFacts DEF Types
    <3>3. QED
      BY <1>1, <1>4, <3>1, <3>2 DEF Types
  <2> DEFINE q == wire'[c] \o unread'[c]
  <2>5. Alone(c)' =>
          /\ RecordingClear(c)' => After(q, "recording", view.recording, recording)
          /\ SettingClear(c)' => After(q, "setting", view.setting, setting)
    <3>1. Alone(c)' => Alone(c)
      BY <1>1 DEF Alone
    <3>2. /\ RecordingClear(c)' => RecordingClear(c)
          /\ SettingClear(c)' => SettingClear(c)
      BY <1>1, <1>4, <2>3 DEF RecordingClear, SettingClear, Heard, Settled, Untold
    <3> DEFINE o == wire[c] \o unread[c]
    <3>3. Alone(c) =>
            /\ RecordingClear(c) => After(o, "recording", view.recording, recording)
            /\ SettingClear(c) => After(o, "setting", view.setting, setting)
      BY <1>1 DEF Told
    <3>4. ASSUME NEW k, k # "other", NEW b, NEW v, After(o, k, b, v) PROVE After(q, k, b, v)
      <4>1. q = Append(wire[c], <<"other", TRUE>>) \o unread[c]
        BY <1>4, <2>3
      <4>2. QED
        BY <1>3, <3>4, <4>1, AfterInserted
    <3> HIDE DEF q, o
    <3>5. QED
      BY <3>1, <3>2, <3>3, <3>4
  <2>6. QED
    BY <1>1, <1>2, <1>4, <2>3, <2>4, <2>5, ServerStep
<1>5. CASE /\ unread[c] # <<>> /\ lagged' = lagged
           /\ wire' = [wire EXCEPT ![c] = Append(wire[c], Head(unread[c]))]
           /\ unread' = [unread EXCEPT ![c] = Tail(unread[c])]
  <2>1. /\ Head(unread[c]) \in Keyed /\ Tail(unread[c]) \in Seq(Keyed)
        /\ Len(Tail(unread[c])) = Len(unread[c]) - 1
    BY <1>3, <1>5, TailFacts
  <2>2. /\ Append(wire[c], Head(unread[c])) \in Seq(Keyed)
        /\ Len(Append(wire[c], Head(unread[c]))) = Len(wire[c]) + 1
    BY <1>3, <2>1, AppendFacts
  <2>3. /\ unread'[c] = Tail(unread[c]) /\ wire'[c] = Append(wire[c], Head(unread[c]))
        /\ \A d \in Conns \ {c} : unread'[d] = unread[d] /\ wire'[d] = wire[d]
    BY <1>1, <1>5 DEF Types
  <2>4. Types'
    <3>1. wire' \in [Conns -> Seq(Keyed)] /\ unread' \in [Conns -> Seq(Keyed)]
      BY <1>1, <1>5, <2>1, <2>2 DEF Types
    <3>2. \A d \in Conns : Len(unread'[d]) <= Capacity /\ Len(wire'[d]) <= Wire
      <4>1. \A d \in Conns \ {c} : Len(unread'[d]) <= Capacity /\ Len(wire'[d]) <= Wire
        BY <1>1, <2>3 DEF Types
      <4>2. Len(unread'[c]) <= Capacity /\ Len(wire'[c]) <= Wire
        BY <1>1, <1>3, <2>1, <2>2, <2>3, ConnFacts
      <4>3. QED
        BY <4>1, <4>2
    <3>3. QED
      BY <1>1, <1>5, <3>1, <3>2 DEF Types
  <2>5. wire'[c] \o unread'[c] = wire[c] \o unread[c]
    BY <1>3, <1>5, <2>3, Moved
  <2>6. Alone(c)' => Alone(c)
    BY <1>1, <1>5 DEF Alone
  <2>7. Alone(c)' =>
          /\ RecordingClear(c)' => After(wire'[c] \o unread'[c], "recording", view.recording, recording)
          /\ SettingClear(c)' => After(wire'[c] \o unread'[c], "setting", view.setting, setting)
    BY <1>1, <1>5, <2>5, <2>6 DEF Told, RecordingClear, SettingClear, Heard, Settled, Untold
  <2>8. QED
    BY <1>1, <1>2, <1>5, <2>3, <2>4, <2>7, ServerStep
<1>6. QED
  BY <1>4, <1>5 DEF Write

LEMMA LeaveStep ==
  ASSUME IInv, NEW c \in Conns, Leave(c) PROVE IInv'
<1>1. /\ srv' = [srv EXCEPT ![c] = "none"] /\ unread' = [unread EXCEPT ![c] = <<>>]
      /\ lagged' = [lagged EXCEPT ![c] = "no"] /\ snap' = [snap EXCEPT ![c] = FALSE]
      /\ wire' = [wire EXCEPT ![c] = <<>>] /\ Forgotten(c)
      /\ UNCHANGED <<daemon, indicator, client>> /\ faults' = faults
      /\ UNCHANGED <<up, recording, setting, busy, untold, last, latest, changes, connected, view, snubbed>>
      /\ UNCHANGED <<enabled, opening, reading, failing, follow, known, leaked, locked, asking>>
      /\ Types
  BY DEF IInv, Leave, serverRest, daemon, indicator, client, follower
<1>2. /\ srv'[c] = "none" /\ unread'[c] = <<>> /\ wire'[c] = <<>>
      /\ \A d \in Conns \ {c} : /\ srv'[d] = srv[d] /\ unread'[d] = unread[d]
                                /\ lagged'[d] = lagged[d] /\ snap'[d] = snap[d]
                                /\ wire'[d] = wire[d]
  BY <1>1 DEF Types
<1>3. Types'
  <2>1. /\ srv' \in [Conns -> {"none", "queued", "recording", "setting", "streaming", "gone"}]
        /\ lagged' \in [Conns -> {"no", "pending", "reported"}]
        /\ snap' \in [Conns -> BOOLEAN] /\ wire' \in [Conns -> Seq(Keyed)]
        /\ unread' \in [Conns -> Seq(Keyed)]
    BY <1>1 DEF Types
  <2>2. \A d \in Conns : Len(unread'[d]) <= Capacity /\ Len(wire'[d]) <= Wire
    BY <1>1, <1>2, ConnFacts DEF Types
  <2>3. QED
    BY <1>1, <2>1, <2>2 DEF Types
<1>4. c # follow
  BY <1>1 DEF Forgotten
<1>5. QED
  BY <1>1, <1>2, <1>3, <1>4, ServerStep

-----------------------------------------------------------------------------
(* The extension's steps *)

(* Every set of naturals that is not empty has a least member.              *)
LEMMA Least ==
  ASSUME NEW T \in SUBSET Nat, T # {}
  PROVE  \E x \in T : \A y \in T : x <= y
<1> DEFINE U == {1 .. n : n \in T}
<1>1. U \subseteq FiniteSubsetsOf(Nat) /\ U # {}
  <2>1. \A n \in T : 1 .. n \in SUBSET Nat /\ IsFiniteSet(1 .. n)
    BY FS_Interval
  <2>2. QED
    BY <2>1 DEF FiniteSubsetsOf
<1>2. IsWellFoundedOn(StrictSubsetOrdering(Nat), FiniteSubsetsOf(Nat))
  BY FS_StrictSubsetOrderingWellFounded
<1>3. PICK X \in U : \A Y \in U : <<Y, X>> \notin StrictSubsetOrdering(Nat)
  BY <1>1, <1>2, WFMin
<1>4. PICK x \in T : X = 1 .. x
  BY <1>3
<1>5. ASSUME NEW y \in T, y < x PROVE FALSE
  <2>1. 1 .. y \in U /\ 1 .. y \subseteq 1 .. x /\ x \in 1 .. x /\ x \notin 1 .. y
    BY <1>5
  <2>2. <<1 .. y, 1 .. x>> \in StrictSubsetOrdering(Nat)
    BY <2>1 DEF StrictSubsetOrdering
  <2>3. QED
    BY <1>3, <1>4, <2>1, <2>2
<1>6. QED
  BY <1>5


(* connect_async: a connection nobody knows. *)
LEMMA ConnectFacts ==
  ASSUME IInv, Connect, Unused # {}
  PROVE  \E c \in Conns : srv[c] = "none" /\ Forgotten(c) /\ opening' = opening \cup {c}
<1> DEFINE c == CHOOSE c \in Unused : \A d \in Unused : c <= d
<1>1. Unused \in SUBSET Nat
  BY ConnFacts DEF Unused
<1>2. \E x \in Unused : \A d \in Unused : x <= d
  BY <1>1, Least
<1>3. c \in Unused
  BY <1>2
<1>4. opening' = opening \cup {c}
  BY DEF Connect
<1> HIDE DEF c
<1>5. QED
  BY <1>3, <1>4 DEF Unused

(* What a step of the extension must show. *)
LEMMA ClientStep ==
  ASSUME IInv, UNCHANGED <<daemon, server>>, Types', Followed', Waits',
         \A c \in Conns : srv[c] = "streaming" /\ Alone(c)' =>
                            Alone(c) /\ wire'[c] = wire[c] /\ view' = view
  PROVE  IInv'
<1>1. /\ UNCHANGED <<up, recording, setting, busy, untold, last, latest, changes, srv, unread, lagged, snap>>
      /\ Types /\ Ends /\ Told
  BY DEF IInv, daemon, server
<1>2. Ends'
  BY <1>1 DEF Ends, Subscribed
<1>3. Told'
  <2>1. ASSUME NEW c \in Conns
        PROVE  /\ RecordingClear(c)' => RecordingClear(c)
               /\ SettingClear(c)' => SettingClear(c)
    BY <1>1 DEF RecordingClear, SettingClear, Heard, Settled, Untold
  <2>2. QED
    BY <1>1, <2>1 DEF Told
<1>4. QED
  BY <1>2, <1>3 DEF IInv

LEMMA OpenedStep ==
  ASSUME IInv, NEW c \in Conns, Opened(c) PROVE IInv'
<1>1. /\ c \in opening /\ up /\ opening' = opening \ {c}
      /\ srv' = [srv EXCEPT ![c] = "queued"]
      /\ follow' = c /\ reading' = reading \cup {c}
      /\ connected' = TRUE /\ snubbed' = FALSE
      /\ UNCHANGED <<up, recording, setting, busy, untold, last, latest, changes>>
      /\ UNCHANGED <<unread, lagged, snap, wire, view, enabled, failing, known,
                     leaked, asking, locked, faults>>
      /\ Types /\ Ends /\ Followed /\ Waits /\ Told
  BY DEF IInv, Opened, daemon
<1>2. /\ srv'[c] = "queued" /\ \A d \in Conns \ {c} : srv'[d] = srv[d]
      /\ srv[c] = "none" /\ unread[c] = <<>> /\ c # None
  BY <1>1, ConnFacts DEF Types, Ends, Followed, Subscribed
<1>3. Types'
  <2>1. connected' \in BOOLEAN /\ snubbed' \in BOOLEAN
    BY <1>1
  <2>2. /\ srv' \in [Conns -> {"none", "queued", "recording", "setting", "streaming", "gone"}]
        /\ opening' \in SUBSET Conns /\ reading' \in SUBSET Conns
        /\ follow' \in Conns \cup {None}
    BY <1>1 DEF Types
  <2>3. QED
    BY <1>1, <2>1, <2>2 DEF Types
<1>4. Ends'
  BY <1>1, <1>2 DEF Ends, Subscribed
<1>5. Followed'
  <2>1. \A d \in opening' : srv'[d] = "none"
    BY <1>1, <1>2 DEF Followed, Types
  <2>2. follow' \in reading' /\ srv'[follow'] # "none" /\ connected' /\ follow' # None
    BY <1>1, <1>2
  <2>3. QED
    BY <2>1, <2>2 DEF Followed
<1>6. Waits'
  <2> SUFFICES ASSUME ~locked PROVE Waits'
    BY <1>1 DEF Waits
  <2>1. /\ failing = 0 /\ leaked = 0 /\ enabled /\ reading = {} /\ ~known
        /\ \E d \in Conns : opening = {d}
    BY <1>1 DEF Waits
  <2>2. opening' = {} /\ reading' = {follow'}
    BY <1>1, <2>1
  <2>3. QED
    BY <1>1, <1>2, <2>1, <2>2 DEF Waits
<1>7. Told'
  <2>1. \A d \in Conns \ {c} : ~Alone(d)'
    BY <1>1 DEF Alone
  <2>2. ASSUME NEW d \in Conns
        PROVE  /\ RecordingClear(d)' => RecordingClear(d)
               /\ SettingClear(d)' => SettingClear(d)
    BY <1>1 DEF RecordingClear, SettingClear, Heard, Settled, Untold
  <2>3. QED
    BY <1>1, <1>2, <2>1, <2>2 DEF Told
<1>8. QED
  BY <1>3, <1>4, <1>5, <1>6, <1>7 DEF IInv

LEMMA NotOpenedStep ==
  ASSUME IInv, NEW c \in Conns, NotOpened(c) PROVE IInv'
<1>1. /\ c \in opening /\ ~up /\ opening' = opening \ {c}
      /\ connected' = FALSE /\ view' = Blank /\ known' = TRUE
      /\ UNCHANGED <<daemon, server>> /\ srv' = srv
      /\ UNCHANGED <<up, recording, setting, busy, untold, last, latest, changes, unread, lagged, snap>>
      /\ UNCHANGED <<enabled, asking, locked, faults, wire, snubbed, reading, failing, follow, leaked>>
      /\ Types /\ Ends /\ Followed /\ Waits
  BY DEF IInv, NotOpened, SetDisconnected, clientRest, daemon, server
<1>2. Types'
  <2>1. /\ connected' \in BOOLEAN /\ known' \in BOOLEAN /\ opening' \in SUBSET Conns
        /\ view' \in [recording : BOOLEAN, setting : Settings \cup {Unknown}]
    BY <1>1 DEF Types, Blank
  <2>2. QED
    BY <1>1, <2>1 DEF Types
<1>3. \A d \in Conns : srv[d] \in {"none", "gone"}
  BY <1>1 DEF Ends
<1>4. Followed'
  <2>1. follow # None => srv[follow] = "gone" /\ follow \in reading
    BY <1>1, <1>3 DEF Followed, Types
  <2>2. QED
    BY <1>1, <2>1 DEF Followed
<1>5. Waits'
  <2> SUFFICES ASSUME ~locked PROVE Waits'
    BY <1>1 DEF Waits
  <2>1. /\ failing = 0 /\ leaked = 0 /\ enabled /\ reading = {} /\ follow = None
        /\ \E d \in Conns : opening = {d}
    BY <1>1 DEF Waits
  <2>2. opening' = {}
    BY <1>1, <2>1
  <2>3. QED
    BY <1>1, <2>1, <2>2 DEF Waits
<1>6. QED
  BY <1>1, <1>2, <1>3, <1>4, <1>5, ClientStep

LEMMA ReconnectStep ==
  ASSUME IInv, Reconnect PROVE IInv'
<1>1. /\ known \/ leaked > 0
      /\ (known /\ leaked' = leaked) \/ (leaked > 0 /\ leaked' = IF known THEN leaked ELSE leaked - 1)
      /\ known' = FALSE
      /\ UNCHANGED <<daemon, server>> /\ srv' = srv
      /\ UNCHANGED <<enabled, asking, locked, faults, wire, connected, view, snubbed>>
      /\ UNCHANGED <<up, recording, setting, busy, untold, last, latest, changes, unread, lagged, snap>>
      /\ UNCHANGED <<reading, failing, follow>>
      /\ Types /\ Followed /\ Waits
  BY DEF IInv, Reconnect, clientRest, indicator, daemon, server
<1>2. PICK c \in Conns : srv[c] = "none" /\ Forgotten(c) /\ opening' = opening \cup {c}
  BY ConnectFacts DEF Reconnect
<1>3. Types'
  <2>1. known' \in BOOLEAN /\ opening' \in SUBSET Conns
    BY <1>1, <1>2 DEF Types
  <2>2. leaked' \in Nat
    <3>1. leaked \in Nat
      BY <1>1 DEF Types
    <3>2. CASE leaked' = leaked
      BY <3>1, <3>2
    <3>3. CASE leaked > 0 /\ leaked' = leaked - 1
      BY <3>1, <3>3
    <3>4. QED
      BY <1>1, <3>2, <3>3
  <2>3. QED
    BY <1>1, <2>1, <2>2 DEF Types
<1>4. Followed'
  BY <1>1, <1>2 DEF Followed
<1>5. Waits'
  <2> SUFFICES ASSUME ~locked PROVE Waits'
    BY <1>1 DEF Waits
  <2>1. failing = 0 /\ leaked = 0
    BY DEF IInv, Waits
  <2>2. known /\ leaked' = 0
    BY <1>1, <2>1
  <2>3. enabled /\ opening = {} /\ reading = {} /\ follow = None
    BY <1>1, <2>2 DEF Waits
  <2>4. opening' = {c}
    BY <1>2, <2>3
  <2>5. QED
    BY <1>1, <2>1, <2>2, <2>3, <2>4 DEF Waits
<1>6. \A d \in Conns : Alone(d)' => Alone(d)
  BY <1>1 DEF Alone
<1>7. QED
  BY <1>1, <1>3, <1>4, <1>5, <1>6, ClientStep

LEMMA ReadLineStep ==
  ASSUME IInv, NEW c \in Conns, ReadLine(c) PROVE IInv'
<1> DEFINE line == Head(wire[c])
<1>1. /\ c \in reading /\ wire[c] # <<>>
      /\ wire' = [wire EXCEPT ![c] = Tail(wire[c])]
      /\ view' = IF line[1] = "other" THEN view ELSE [view EXCEPT ![line[1]] = line[2]]
      /\ reading' = IF follow = None THEN reading \ {c} ELSE (reading \ {c}) \cup {follow}
      /\ failing' = IF follow \in reading \ {c} THEN failing + 1 ELSE failing
      /\ UNCHANGED <<up, recording, setting, busy, untold, last, latest, changes, srv, unread, lagged, snap>>
      /\ UNCHANGED <<enabled, asking, locked, faults>>
      /\ UNCHANGED <<connected, snubbed, opening, follow, known, leaked>>
      /\ Types /\ Ends /\ Followed /\ Waits /\ Told
  BY DEF IInv, ReadLine, clientRest, daemon, server
<1>2. wire[c] \in Seq(Keyed) /\ unread[c] \in Seq(Keyed) /\ line \in Keyed
      /\ Tail(wire[c]) \in Seq(Keyed) /\ Len(Tail(wire[c])) = Len(wire[c]) - 1
      /\ Len(wire[c]) \in Nat \ {0}
  <2>1. wire[c] \in Seq(Keyed) /\ unread[c] \in Seq(Keyed)
    BY <1>1 DEF Types
  <2>2. QED
    BY <1>1, <2>1, TailFacts
<1> HIDE DEF line
<1>3. \/ line[1] = "other" /\ view' = view
      \/ /\ line[1] = "recording" /\ line[2] \in BOOLEAN
         /\ view' = [view EXCEPT !.recording = line[2]]
      \/ /\ line[1] = "setting" /\ line[2] \in Settings
         /\ view' = [view EXCEPT !.setting = line[2]]
  <2>1. CASE line \in {"recording"} \X BOOLEAN
    <3>1. line[1] = "recording" /\ line[2] \in BOOLEAN
      BY <2>1
    <3>2. view' = [view EXCEPT !["recording"] = line[2]]
      BY <1>1, <3>1
    <3>3. QED
      BY <3>1, <3>2
  <2>2. CASE line \in {"setting"} \X Settings
    <3>1. line[1] = "setting" /\ line[2] \in Settings
      BY <2>2
    <3>2. view' = [view EXCEPT !["setting"] = line[2]]
      BY <1>1, <3>1
    <3>3. QED
      BY <3>1, <3>2
  <2>3. CASE line = <<"other", TRUE>>
    <3>1. line[1] = "other"
      BY <2>3
    <3>2. QED
      BY <1>1, <3>1
  <2>4. QED
    BY <1>2, <2>1, <2>2, <2>3 DEF Keyed
<1>4. /\ view' \in [recording : BOOLEAN, setting : Settings \cup {Unknown}]
      /\ view'.recording = IF line[1] = "recording" THEN line[2] ELSE view.recording
      /\ view'.setting = IF line[1] = "setting" THEN line[2] ELSE view.setting
  BY <1>1, <1>3 DEF Types
<1>5. wire'[c] = Tail(wire[c]) /\ \A d \in Conns \ {c} : wire'[d] = wire[d]
  BY <1>1 DEF Types
<1>6. Types'
  <2>1. wire' \in [Conns -> Seq(Keyed)]
    BY <1>1, <1>2 DEF Types
  <2>2. \A d \in Conns : Len(unread'[d]) <= Capacity /\ Len(wire'[d]) <= Wire
    <3>1. \A d \in Conns \ {c} : Len(unread'[d]) <= Capacity /\ Len(wire'[d]) <= Wire
      BY <1>1, <1>5 DEF Types
    <3>2. Len(unread'[c]) <= Capacity /\ Len(wire[c]) <= Wire
      BY <1>1 DEF Types
    <3>3. Len(wire'[c]) <= Wire
      BY <1>2, <1>5, <3>2, ConnFacts
    <3>4. QED
      BY <3>1, <3>2, <3>3
  <2>3. reading' \in SUBSET Conns /\ failing' \in Nat
    BY <1>1 DEF Types
  <2>4. QED
    BY <1>1, <1>4, <2>1, <2>2, <2>3 DEF Types
<1>7. Ends'
  BY <1>1 DEF Ends, Subscribed
<1>8. Followed'
  BY <1>1 DEF Followed
<1>9. Waits'
  <2> SUFFICES ASSUME ~locked PROVE Waits'
    BY <1>1 DEF Waits
  <2>1. /\ failing = 0 /\ leaked = 0 /\ enabled
        /\ opening = {} /\ reading = {follow} /\ ~known /\ follow # None
    BY <1>1 DEF Waits
  <2>2. reading' = {follow} /\ failing' = 0
    BY <1>1, <2>1
  <2>3. QED
    BY <1>1, <2>1, <2>2 DEF Waits
<1>10. Told'
  <2>1. ASSUME NEW d \in Conns \ {c} PROVE ~Alone(d)'
    <3>1. SUFFICES ASSUME d = follow PROVE failing' # 0
      BY <1>1 DEF Alone
    <3>2. d # None
      BY ConnFacts
    <3>3. follow \in reading \ {c}
      BY <1>1, <2>1, <3>1, <3>2 DEF Followed
    <3>4. QED
      BY <1>1, <3>3 DEF Types
  <2>2. ASSUME srv[c] = "streaming", Alone(c)'
        PROVE  /\ RecordingClear(c)' => After(wire'[c] \o unread[c], "recording", view'.recording, recording)
               /\ SettingClear(c)' => After(wire'[c] \o unread[c], "setting", view'.setting, setting)
    <3>1. c = follow /\ failing' = 0 /\ reading' = {follow} /\ ~snubbed
      BY <1>1, <2>2 DEF Alone
    <3>2. follow # None
      BY <3>1, ConnFacts
    <3>3. failing = 0 /\ reading = {follow}
      <4>1. reading' = (reading \ {c}) \cup {follow} /\ failing' = failing
        BY <1>1, <3>1, <3>2
      <4>2. c \in reading
        BY <1>1
      <4>3. QED
        BY <3>1, <4>1, <4>2
    <3>4. Alone(c)
      BY <3>1, <3>3 DEF Alone
    <3> DEFINE q == wire[c] \o unread[c]
    <3>5. /\ RecordingClear(c)' => After(q, "recording", view.recording, recording)
          /\ SettingClear(c)' => After(q, "setting", view.setting, setting)
      BY <1>1, <2>2, <3>4 DEF Told, RecordingClear, SettingClear, Heard, Settled, Untold
    <3>6. /\ q \in Seq(Keyed) /\ q # <<>> /\ Head(q) = line
          /\ Tail(q) = wire'[c] \o unread[c]
      <4>1. /\ q \in Seq(Keyed) /\ q # <<>> /\ Head(q) = Head(wire[c])
            /\ Tail(q) = Tail(wire[c]) \o unread[c]
        BY <1>1, <1>2, Ahead
      <4>2. QED
        BY <1>5, <4>1 DEF line
    <3> HIDE DEF q
    <3>7. ASSUME RecordingClear(c)' PROVE After(Tail(q), "recording", view'.recording, recording)
      BY <1>4, <3>5, <3>6, <3>7, AfterTail
    <3>8. ASSUME SettingClear(c)' PROVE After(Tail(q), "setting", view'.setting, setting)
      BY <1>4, <3>5, <3>6, <3>8, AfterTail
    <3>9. QED
      BY <3>6, <3>7, <3>8
  <2>3. ASSUME NEW d \in Conns
        PROVE  /\ RecordingClear(d)' => RecordingClear(d)
               /\ SettingClear(d)' => SettingClear(d)
    BY <1>1 DEF RecordingClear, SettingClear, Heard, Settled, Untold
  <2>4. QED
    BY <1>1, <1>5, <2>1, <2>2, <2>3 DEF Told
<1>11. QED
  BY <1>6, <1>7, <1>8, <1>9, <1>10 DEF IInv

(* _closeFollow and _scheduleReconnect: nobody is followed. *)
LEMMA LoseStep ==
  ASSUME IInv, NEW callbacks, callbacks \subseteq reading, Lose(callbacks), failing' \in Nat,
         ~locked => enabled /\ opening = {} /\ callbacks = {} /\ failing' = 0
  PROVE  IInv'
<1>1. /\ reading' = callbacks \ {follow} /\ follow' = None /\ known' = TRUE
      /\ connected' = FALSE /\ view' = Blank
      /\ UNCHANGED <<daemon, server>>
      /\ UNCHANGED <<up, recording, setting, busy, untold, last, latest, changes, srv, unread, lagged, snap>>
      /\ UNCHANGED <<enabled, asking, locked, faults, wire, snubbed, opening, leaked>>
      /\ Types /\ Followed /\ Waits
  BY DEF IInv, Lose, SetDisconnected, clientRest, daemon, server
<1>2. Types'
  <2>1. /\ connected' \in BOOLEAN /\ known' \in BOOLEAN /\ reading' \in SUBSET Conns
        /\ view' \in [recording : BOOLEAN, setting : Settings \cup {Unknown}]
        /\ follow' \in Conns \cup {None}
    BY <1>1 DEF Types, Blank
  <2>2. QED
    BY <1>1, <2>1 DEF Types
<1>3. Followed'
  BY <1>1 DEF Followed
<1>4. Waits'
  <2> SUFFICES ASSUME ~locked PROVE Waits'
    BY <1>1 DEF Waits
  <2>1. leaked = 0
    BY <1>1 DEF Waits
  <2>2. reading' = {}
    BY <1>1
  <2>3. QED
    BY <1>1, <2>1, <2>2 DEF Waits
<1>5. \A c \in Conns : ~Alone(c)'
  BY <1>1, ConnFacts DEF Alone
<1>6. QED
  BY <1>1, <1>2, <1>3, <1>4, <1>5, ClientStep

LEMMA EofStep ==
  ASSUME IInv, NEW c \in Conns, Eof(c) PROVE IInv'
<1>1. /\ c \in reading /\ Lose(reading \ {c})
      /\ failing' = failing + Cancelled(reading \ {c}) /\ Types /\ Waits
  BY DEF Eof, IInv
<1>2. failing' \in Nat
  BY <1>1 DEF Types, Cancelled
<1>3. ~locked => /\ enabled /\ opening = {} /\ reading \ {c} = {} /\ failing = 0
  BY <1>1 DEF Waits
<1>4. reading \ {c} = {} => Cancelled(reading \ {c}) = 0
  BY DEF Cancelled
<1> DEFINE callbacks == reading \ {c}
<1>5. ~locked => enabled /\ opening = {} /\ callbacks = {} /\ failing' = 0
  BY <1>1, <1>3, <1>4
<1>6. callbacks \subseteq reading /\ Lose(callbacks)
  BY <1>1
<1> HIDE DEF callbacks
<1>7. QED
  BY <1>2, <1>5, <1>6, LoseStep

LEMMA ReadFailsStep ==
  ASSUME IInv, ReadFails PROVE IInv'
<1>1. /\ failing > 0 /\ Lose(reading)
      /\ failing' = failing - 1 + Cancelled(reading) /\ Types /\ Waits
  BY DEF ReadFails, IInv
<1>2. failing' \in Nat
  BY <1>1 DEF Types, Cancelled
<1>3. locked
  BY <1>1 DEF Waits
<1>4. QED
  BY <1>1, <1>2, <1>3, LoseStep

LEMMA CommandStep ==
  ASSUME IInv, Ask \/ Answered \/ CommandFails PROVE IInv'
<1>1. /\ UNCHANGED <<daemon, server>>
      /\ UNCHANGED <<up, recording, setting, busy, untold, last, latest, changes, srv, unread, lagged, snap>>
      /\ UNCHANGED <<wire, enabled, opening, reading, failing, follow, known, leaked, locked>>
      /\ Types /\ Followed /\ Waits
  BY DEF IInv, Ask, Answered, CommandFails, commandRest, daemon, server, follower
<1>2. asking' \in {"no", "sent", "lost"} /\ faults' \in Nat /\ faults' <= MaxFaults
  BY <1>1, FaultFacts DEF Ask, Answered, CommandFails, Types
<1>3. \/ UNCHANGED <<connected, view, snubbed>>
      \/ connected' = FALSE /\ view' = Blank /\ snubbed' = TRUE
  BY DEF Ask, Answered, CommandFails, SetDisconnected, indicator
<1>4. /\ connected' \in BOOLEAN /\ snubbed' \in BOOLEAN
      /\ view' \in [recording : BOOLEAN, setting : Settings \cup {Unknown}]
  <2>1. CASE UNCHANGED <<connected, view, snubbed>>
    BY <1>1, <2>1 DEF Types
  <2>2. CASE connected' = FALSE /\ view' = Blank /\ snubbed' = TRUE
    <3>1. connected' \in BOOLEAN /\ snubbed' \in BOOLEAN
      BY <2>2
    <3>2. Blank \in [recording : BOOLEAN, setting : Settings \cup {Unknown}]
      BY DEF Blank
    <3>3. QED
      BY <2>2, <3>1, <3>2
  <2>3. QED
    BY <1>3, <2>1, <2>2
<1>5. Types'
  BY <1>1, <1>2, <1>4 DEF Types
<1>6. Followed'
  BY <1>1, <1>3 DEF Followed
<1>7. Waits'
  BY <1>1 DEF Waits
<1>8. \A c \in Conns : Alone(c)' => Alone(c) /\ view' = view
  BY <1>1, <1>3 DEF Alone
<1>9. QED
  BY <1>1, <1>5, <1>6, <1>7, <1>8, ClientStep

LEMMA DisableStep ==
  ASSUME IInv, Disable PROVE IInv'
<1>1. /\ enabled /\ enabled' = FALSE /\ locked' = TRUE /\ Fault("lock")
      /\ reading' = reading \ {follow} /\ failing' = failing + Cancelled(reading)
      /\ follow' = None /\ known' = FALSE
      /\ UNCHANGED <<daemon, server>>
      /\ UNCHANGED <<up, recording, setting, busy, untold, last, latest, changes, srv, unread, lagged, snap>>
      /\ UNCHANGED <<wire, connected, view, snubbed, opening, leaked, asking>>
      /\ Types /\ Followed
  BY DEF IInv, Disable, daemon, server, indicator
<1>2. Types'
  <2>1. /\ enabled' \in BOOLEAN /\ locked' \in BOOLEAN /\ known' \in BOOLEAN
        /\ reading' \in SUBSET Conns /\ follow' \in Conns \cup {None}
    BY <1>1 DEF Types
  <2>2. failing' \in Nat
    BY <1>1 DEF Types, Cancelled
  <2>3. QED
    BY <1>1, <2>1, <2>2, FaultFacts DEF Types
<1>3. Followed'
  BY <1>1 DEF Followed
<1>4. Waits'
  BY <1>1 DEF Waits
<1>5. \A c \in Conns : ~Alone(c)'
  BY <1>1, ConnFacts DEF Alone
<1>6. QED
  BY <1>1, <1>2, <1>3, <1>4, <1>5, ClientStep

LEMMA EnableStep ==
  ASSUME IInv, Enable PROVE IInv'
<1>1. /\ ~enabled /\ enabled' = TRUE /\ connected' = FALSE /\ view' = Blank
      /\ snubbed' = FALSE /\ follow' = None /\ known' = FALSE
      /\ leaked' = (IF known THEN leaked + 1 ELSE leaked)
      /\ UNCHANGED <<daemon, server>> /\ srv' = srv
      /\ UNCHANGED <<up, recording, setting, busy, untold, last, latest, changes, unread, lagged, snap>>
      /\ UNCHANGED <<wire, reading, failing, asking, locked, faults>>
      /\ Types /\ Followed /\ Waits
  BY DEF IInv, Enable, SetDisconnected, daemon, server
<1>2. PICK c \in Conns : srv[c] = "none" /\ Forgotten(c) /\ opening' = opening \cup {c}
  BY ConnectFacts DEF Enable
<1>3. Types'
  <2>1. /\ enabled' \in BOOLEAN /\ known' \in BOOLEAN /\ connected' \in BOOLEAN
        /\ snubbed' \in BOOLEAN /\ opening' \in SUBSET Conns /\ follow' \in Conns \cup {None}
        /\ view' \in [recording : BOOLEAN, setting : Settings \cup {Unknown}]
    BY <1>1, <1>2 DEF Types, Blank
  <2>2. leaked' \in Nat
    BY <1>1 DEF Types
  <2>3. QED
    BY <1>1, <2>1, <2>2 DEF Types
<1>4. Followed'
  BY <1>1, <1>2 DEF Followed
<1>5. Waits'
  <2> SUFFICES ASSUME ~locked PROVE Waits'
    BY <1>1 DEF Waits
  <2>1. /\ failing = 0 /\ leaked = 0
        /\ opening = {} /\ reading = {} /\ ~known /\ follow = None
    BY <1>1 DEF Waits
  <2>2. opening' = {c} /\ leaked' = 0
    BY <1>1, <1>2, <2>1
  <2>3. QED
    BY <1>1, <2>1, <2>2 DEF Waits
<1>6. \A d \in Conns : ~Alone(d)'
  BY <1>1, ConnFacts DEF Alone
<1>7. QED
  BY <1>1, <1>3, <1>4, <1>5, <1>6, ClientStep

LEMMA Invariance == Spec => []IInv
<1>1. Init => IInv
  BY InitInv
<1>2. IInv /\ [Next]_vars => IInv'
  <2> SUFFICES ASSUME IInv, [Next]_vars PROVE IInv'
    OBVIOUS
  <2>1. CASE \/ StartRecording \/ StopRecording \/ Stopped
             \/ (\E v \in Settings : Change(v) \/ Tell(v)) \/ Chat \/ Crash \/ Restart
    BY <2>1, StartRecordingStep, StopRecordingStep, StoppedStep, ChangeStep, TellStep,
       ChatStep, CrashStep, RestartStep
  <2>2. ASSUME NEW c \in Conns, Serve(c) \/ Refuse(c) PROVE IInv'
    BY <2>2, AcceptStep, ReadRecordingStep, GreetStep, WriteStep, LeaveStep, RefuseStep DEF Serve
  <2>3. ASSUME NEW c \in Conns, Callback(c) PROVE IInv'
    BY <2>3, OpenedStep, NotOpenedStep, ReadLineStep, EofStep DEF Callback
  <2>4. CASE Reconnect \/ ReadFails \/ Enable \/ Disable
    BY <2>4, ReconnectStep, ReadFailsStep, EnableStep, DisableStep
  <2>5. CASE Ask \/ Answered \/ CommandFails
    BY <2>5, CommandStep
  <2>6. CASE UNCHANGED vars
    <3>1. /\ UNCHANGED <<daemon, server>>
          /\ UNCHANGED <<up, recording, setting, busy, untold, last, latest, changes, srv, unread, lagged, snap>>
          /\ UNCHANGED <<wire, connected, view, snubbed, faults, asking>>
          /\ UNCHANGED <<enabled, opening, reading, failing, follow, known, leaked, locked>>
          /\ Types /\ Followed /\ Waits
      BY <2>6 DEF IInv, vars, daemon, server, indicator, client, follower
    <3>2. Types' /\ Followed' /\ Waits'
      BY <3>1 DEF Types, Followed, Waits
    <3>3. \A c \in Conns : Alone(c)' => Alone(c)
      BY <3>1 DEF Alone
    <3>4. QED
      BY <3>1, <3>2, <3>3, ClientStep
  <2>7. QED
    BY <2>1, <2>2, <2>3, <2>4, <2>5, <2>6 DEF Next
<1>3. QED
  BY <1>1, <1>2, PTL DEF Spec

-----------------------------------------------------------------------------
(* The theorems *)

(* No receiver holds more than the capacity of the broadcast, and the       *)
(* extension knows no connection but its own (ipc/server.rs, extension.js). *)
THEOREM TypeCorrect == Spec => []TypeOK
<1>1. IInv => TypeOK
  BY DEF IInv, Types, TypeOK
<1>2. QED
  BY <1>1, Invariance, PTL

(* Until it is disabled for the first time, the enabled extension waits for *)
(* exactly one connection, line or timer (_connectFollow, _readFollowLine,  *)
(* _scheduleReconnect of extension.js).                                     *)
THEOREM OneChainOnly == Spec => []OneChain
<1>1. IInv => OneChain
  <2> SUFFICES ASSUME IInv, enabled, ~locked PROVE Chains = 1
    BY DEF OneChain
  <2>1. Cardinality({}) = 0 /\ \A c : Cardinality({c}) = 1
    BY FS_EmptySet, FS_Singleton
  <2>2. /\ failing = 0 /\ leaked = 0
        /\ \/ (\E c \in Conns : opening = {c}) /\ reading = {} /\ ~known /\ follow = None
           \/ opening = {} /\ reading = {follow} /\ ~known /\ follow # None
           \/ opening = {} /\ reading = {} /\ known /\ follow = None
    BY DEF IInv, Waits
  <2>3. CASE (\E c \in Conns : opening = {c}) /\ reading = {} /\ ~known
    <3>1. Cardinality(opening) = 1 /\ Cardinality(reading) = 0
      BY <2>1, <2>3
    <3>2. QED
      BY <2>2, <2>3, <3>1 DEF Chains
  <2>4. CASE opening = {} /\ reading = {follow} /\ ~known
    <3>1. Cardinality(opening) = 0 /\ Cardinality(reading) = 1
      BY <2>1, <2>4
    <3>2. QED
      BY <2>2, <2>4, <3>1 DEF Chains
  <2>5. CASE opening = {} /\ reading = {} /\ known
    <3>1. Cardinality(opening) = 0 /\ Cardinality(reading) = 0
      BY <2>1, <2>5
    <3>2. QED
      BY <2>2, <2>5, <3>1 DEF Chains
  <2>6. QED
    BY <2>2, <2>3, <2>4, <2>5
<1>2. QED
  BY <1>1, Invariance, PTL

(* What is read to the end shows the daemon's recording state, and the      *)
(* setting of which the daemon told last, whatever crashed, was refused or  *)
(* was locked before; a follower that lost events shows at least what the   *)
(* newest one told; without a connection nothing is shown                   *)
(* (handle_follow_client of ipc/server.rs, update_config of                 *)
(* daemon/handler.rs, _handleFollowEvent of extension.js).                  *)
THEOREM IndicatorShows == Spec => []IndicatorRight
<1>1. IInv => IndicatorRight
  <2> SUFFICES ASSUME IInv, enabled
               PROVE  /\ CaughtUp =>
                           /\ connected
                           /\ ~busy /\ Heard(follow, "recording") => view.recording = recording
                           /\ Settled /\ Heard(follow, "setting") => view.setting = setting
                      /\ follow = None => ~connected
    BY DEF IndicatorRight
  <2>1. follow = None => ~connected
    BY DEF IInv, Followed
  <2>2. ASSUME CaughtUp
        PROVE  /\ connected
               /\ ~busy /\ Heard(follow, "recording") => view.recording = recording
               /\ Settled /\ Heard(follow, "setting") => view.setting = setting
    <3>1. /\ follow # None /\ srv[follow] = "streaming"
          /\ unread[follow] = <<>> /\ wire[follow] = <<>> /\ reading = {follow} /\ failing = 0
          /\ ~snubbed
      BY <2>2 DEF CaughtUp
    <3>2. connected
      BY <3>1 DEF IInv, Followed
    <3>3. follow \in Conns /\ Alone(follow)
      BY <3>1 DEF IInv, Types, Alone
    <3>4. wire[follow] \o unread[follow] = <<>>
      BY <3>1
    <3>5. /\ RecordingClear(follow) => After(<<>>, "recording", view.recording, recording)
          /\ SettingClear(follow) => After(<<>>, "setting", view.setting, setting)
      BY <3>1, <3>3, <3>4 DEF IInv, Told
    <3>6. /\ RecordingClear(follow) => view.recording = recording
          /\ SettingClear(follow) => view.setting = setting
      BY <3>5, AfterNothing
    <3>7. QED
      BY <3>2, <3>6 DEF RecordingClear, SettingClear
  <2>3. QED
    BY <2>1, <2>2
<1>2. QED
  BY <1>1, Invariance, PTL
=============================================================================
