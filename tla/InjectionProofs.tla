--------------------------- MODULE InjectionProofs ---------------------------
(***************************************************************************)
(* Theorems about Injection, for any windows, settings, transcriptions and *)
(* number of sinks, and any number of upsets:                              *)
(*   TypeCorrect    the type invariant                                     *)
(*   TypedWhole     what is typed is whole and in order                    *)
(*   KeysAreClean   no key arrives with the modifiers of another           *)
(*   PasteKeyFits   the paste key is that of the window                    *)
(*   PastesOurText  what is pasted is the text                             *)
(*   LoginSurvived  a new login alone does not break the session           *)
(***************************************************************************)
EXTENDS Injection, TLAPS, FiniteSetTheorems, SequenceTheorems, WellFoundedInduction

-----------------------------------------------------------------------------
(* A job by itself, under settings c *)

Fields == {"pc", "input", "at", "paste", "try", "strokes", "sender", "out", "won", "failed", "copied"}
PortalPhases == {"send", "reconnect", "connect", "dialog"}
Trying == {"try"} \cup PortalPhases
Begun == {"event", "copy", "error"} \cup Trying

TypingIn(c, e) == e.type = "text" /\ c.method = "direct"
PastingIn(c, e) == e.type = "text" /\ c.method = "clipboard"
KeysOf(j, e) == IF e.type = "keys" THEN e.keys ELSE j.paste
Now(j) == j.input[j.at]

Spots(c, j, i, t) ==
  IF TypingIn(c, j.input[i])
  THEN {p \in DOMAIN Normalized(j.input[i].text) :
          t \in {"portal", "again"} => Normalized(j.input[i].text)[p] \notin NoKeysym}
  ELSE {1}
Sign(c, j, i, p) ==
  IF TypingIn(c, j.input[i]) THEN Normalized(j.input[i].text)[p] ELSE Last(KeysOf(j, j.input[i]))
TypedBy(j, i, t) == {x.place : x \in {y \in Range(j.out) : y.ev = i /\ y.try = t}}

(* The strokes of the present event, and when a place of it is pressed. *)
Line(c, j) ==
  IF TypingIn(c, Now(j)) THEN TextStrokes(Normalized(Now(j).text)) ELSE KeySequence(KeysOf(j, Now(j)))
PressedAt(c, j, p) == IF TypingIn(c, Now(j)) THEN 2 * p - 1 ELSE Len(KeysOf(j, Now(j)))

(* What a job holds in each phase. *)
JobOK(c, j) ==
  /\ DOMAIN j = Fields
  /\ j.pc \in {"idle", "look"} \cup Begun
  /\ j.pc = "idle" => j.out = <<>> /\ j.input = <<>>
  /\ j.pc # "idle" => j.input \in Inputs
  /\ j.pc = "look" => /\ j.out = <<>> /\ j.won = <<>> /\ j.at = 1
                      /\ c.pasteKey # AutoKey => j.paste = c.pasteKey
  /\ j.pc \in Begun => /\ j.at \in 1..Len(j.input) + 1 /\ (j.pc # "event" => j.at <= Len(j.input))
                       /\ Shortcut(j.paste)
                       /\ j.won \in Seq(Tries) /\ Len(j.won) = j.at - 1
                       /\ j.out \in Seq(Range(j.out))
  /\ j.pc = "copy" => PastingIn(c, Now(j))
  /\ j.pc \in {"copy", "try"} => j.try \in {"portal", "wtype", "ydotool"}
  /\ j.pc = "send" => j.try \in {"portal", "again"}
  /\ j.pc \in {"reconnect", "connect", "dialog"} => j.try = "portal"
  /\ j.pc \in PortalPhases => TypingIn(c, Now(j)) \/ Range(KeysOf(j, Now(j))) \subseteq PortalKeys
  /\ j.pc = "send" =>
       /\ j.strokes \in 0..Len(Line(c, j))
       /\ TypingIn(c, Now(j)) =>
            \A p \in DOMAIN Normalized(Now(j).text) :
              j.strokes = 2 * p - 1 => Normalized(Now(j).text)[p] \notin NoKeysym

(* What is typed comes in order, and every piece of it belongs there; ...   *)
InRow(out) == \A n \in DOMAIN out \ {1} : Before(out[n - 1], out[n])
Belongs(c, j) ==
  \A x \in Range(j.out) :
    /\ x.ev \in 1..j.at /\ x.try \in Tries
    /\ x.place \in Spots(c, j, x.ev, x.try) /\ x.mark = Sign(c, j, x.ev, x.place)
    /\ x.ev = j.at =>
         /\ j.pc \in Trying \cup {"error"}
         /\ j.pc \in Trying => Order[x.try] <= Order[j.try]
         /\ j.pc = "try" => x.try # j.try
(* ... what is behind is complete or a beginning that failed, ...           *)
Beginning(c, j, i, t) ==
  \A p \in TypedBy(j, i, t) : \A x \in Spots(c, j, i, t) : x < p => x \in TypedBy(j, i, t)
Behind(c, j) ==
  /\ \A i \in DOMAIN j.won : TypedBy(j, i, j.won[i]) = Spots(c, j, i, j.won[i])
  /\ \A i \in 1..j.at : \A t \in Tries :
       \/ i < j.at /\ t = j.won[i]
       \/ i = j.at /\ t = j.try /\ j.pc = "send"
       \/ TypedBy(j, i, t) = {}
       \/ Beginning(c, j, i, t) /\ <<i, t>> \in j.failed
(* ... and the portal has typed what its strokes so far press.              *)
Under(c, j) ==
  j.pc = "send" =>
    TypedBy(j, j.at, j.try) = {p \in Spots(c, j, j.at, j.try) : PressedAt(c, j, p) <= j.strokes}

Told(c, j) == j.pc \in Begun => InRow(j.out) /\ Belongs(c, j) /\ Behind(c, j) /\ Under(c, j)

-----------------------------------------------------------------------------
(* The inductive invariant *)

Plain ==
  /\ DOMAIN job = Sinks /\ DOMAIN look = Sinks
  /\ \A s \in Sinks : JobOK(settings, job[s]) /\ (job[s].pc # "look" => look[s].step = 0)
  /\ Shortcut(settings.pasteKey) /\ settings.method \in {"clipboard", "direct"}
  /\ settings.backend \in {"auto", "portal", "wtype", "ydotool"}
  /\ sessions \in Seq(0..bus)

Telling == \A s \in Sinks : Told(settings, job[s])

(* The keys that the first n strokes have pressed and not released. *)
TextDown(t, n) == {t[p] : p \in {p \in DOMAIN t : n = 2 * p - 1}}
KeysDown(k, n) ==
  {k[i] : i \in {i \in DOMAIN k : i <= n}} \ {k[i] : i \in {i \in DOMAIN k : i > 2 * Len(k) - n}}
Down(c, j) ==
  IF TypingIn(c, Now(j)) THEN TextDown(Normalized(Now(j).text), j.strokes)
  ELSE KeysDown(KeysOf(j, Now(j)), j.strokes)

(* What s types arrives with the modifiers of its shortcut. *)
ModsAt(c, j, i) == IF TypingIn(c, j.input[i]) THEN {} ELSE Range(Front(KeysOf(j, j.input[i])))
CleanJob(c, j) == \A x \in Range(j.out) : x.mods = ModsAt(c, j, x.ev)

(* One sink of J works at a time, and the keys H are those its strokes hold *)
(* in a session of S that lives on bus b.                                   *)
Live(S, b, n) == n # 0 /\ S[n] = b
OneBusy(J) == \A s, t \in Sinks : J[s].pc # "idle" /\ J[t].pc # "idle" => s = t
Owned(J, H) == \A h \in H : \E s \in Sinks : J[s].pc = "send" /\ h[1] = J[s].sender
InHand(c, J, H, S, b) ==
  \A s \in Sinks : J[s].pc = "send" /\ Live(S, b, J[s].sender) => H = {J[s].sender} \X Down(c, J[s])
Hands(c, J, H, S, b) ==
  OneBusy(J) /\ Owned(J, H) /\ InHand(c, J, H, S, b) /\ \A s \in Sinks : CleanJob(c, J[s])

(* Keys are held in living sessions only, and without a slip as they should. *)
Held ==
  /\ bus # 0 /\ \A h \in held : Live(sessions, bus, h[1])
  /\ ~slipped => Hands(settings, job, held, sessions, bus)

(* While the copy of the present event is ours it is on the clipboard t. *)
OursJob(c, t, j) ==
  /\ j.pc \in Trying /\ PastingIn(c, Now(j)) /\ j.copied => t = Normalized(Now(j).text)
  /\ \A x \in Range(j.out) : PastingIn(c, j.input[x.ev]) /\ x.ours => x.clip = Normalized(j.input[x.ev].text)

Ours == \A s \in Sinks : OursJob(settings, clip, job[s])

(* What a detection r found and what the job made of it. *)
Kinds(r) == {Classify(NameOf(b, r.win)) : b \in r.able}
LookJob(c, r, j) ==
  /\ j.pc = "look" /\ r.step = 0 /\ r.calm /\ r.able # {} => r.kind \in Kinds(r)
  /\ j.pc \in Begun /\ c.pasteKey = AutoKey /\ r.calm /\ r.able # {} =>
       j.paste \in {PasteKeys(k) : k \in Kinds(r)}

Watching ==
  /\ DOMAIN look = Sinks /\ flagged \subseteq Range(Backends) /\ refused = flagged
  /\ \A s \in Sinks :
       /\ DOMAIN look[s] = DOMAIN NoLook /\ look[s].calm \in BOOLEAN
       /\ look[s].step \in 0..Len(Backends) + 1 /\ (job[s].pc # "look" => look[s].step = 0)

(* A detection that nobody disturbed still has those ahead that can answer: *)
(* where S serve, w has the focus and F are flagged.                        *)
Serving == {b \in Range(Backends) : Serves(b)}
Awaits(S, w, n) ==
  {b \in S : Answer(b, w) # "" /\ \E i \in DOMAIN Backends : i >= n /\ Backends[i] = b}
Undisturbed(S, w, F, r) == r.step # 0 /\ r.calm => r.win = w /\ r.able = Awaits(S, w, r.step) \ F

Looking ==
  \A s \in Sinks : LookJob(settings, look[s], job[s]) /\ Undisturbed(Serving, focus, flagged, look[s])

Fresh ==
  /\ brokenBy # "unreachable"
  /\ \A s \in Sinks : job[s].pc = "connect" =>
       job[s].sender \in 0..bus /\ (job[s].sender = bus /\ FreshAddress # {} => addr = bus)

IInv == TypeOK /\ Plain /\ Telling /\ Held /\ Ours /\ Watching /\ Looking /\ Fresh
-----------------------------------------------------------------------------
(* Numbers and sequences *)

LEMMA Least ==
  ASSUME NEW T \in SUBSET Nat, T # {}
  PROVE  \E x \in T : \A y \in T : x <= y
<1> DEFINE U == {1 .. n : n \in T}
<1>1. U \subseteq FiniteSubsetsOf(Nat) /\ U # {}
  <2>1. \A n \in T : 1 .. n \in SUBSET Nat /\ IsFiniteSet(1 .. n)
    BY FS_Interval
  <2>2. QED
    BY <2>1 DEF FiniteSubsetsOf
<1>2. IsWellFoundedOn(StrictSubsetOrdering(Nat), FiniteSubsetsOf(Nat))
  BY FS_StrictSubsetOrderingWellFounded
<1>3. PICK X \in U : \A Y \in U : <<Y, X>> \notin StrictSubsetOrdering(Nat)
  BY <1>1, <1>2, WFMin
<1>4. PICK x \in T : X = 1 .. x
  BY <1>3
<1>5. ASSUME NEW y \in T, y < x PROVE FALSE
  <2>1. 1 .. y \in U /\ 1 .. y \subseteq 1 .. x /\ x \in 1 .. x /\ x \notin 1 .. y
    BY <1>5
  <2>2. <<1 .. y, 1 .. x>> \in StrictSubsetOrdering(Nat)
    BY <2>1 DEF StrictSubsetOrdering
  <2>3. QED
    BY <1>3, <1>4, <2>1, <2>2
<1>6. QED
  BY <1>5

LEMMA Bounds ==
  ASSUME NEW n \in Nat, NEW I \in SUBSET (1 .. n), I # {}
  PROVE  /\ Min(I) \in I /\ \A i \in I : Min(I) <= i
         /\ Max(I) \in I /\ \A i \in I : i <= Max(I)
<1>1. \E x \in I : \A y \in I : x <= y
  BY Least
<1>2. \E x \in I : \A y \in I : x >= y
  <2> DEFINE J == {n - i : i \in I}
  <2>1. J \in SUBSET Nat /\ J # {}
    <3>1. \A i \in I : i \in 1 .. n /\ n - i \in Nat
      OBVIOUS
    <3>2. PICK i \in I : TRUE
      OBVIOUS
    <3>3. n - i \in J
      OBVIOUS
    <3>4. QED
      BY <3>1, <3>3
  <2>2. PICK z \in J : \A y \in J : z <= y
    BY <2>1, Least
  <2>3. PICK x \in I : z = n - x
    BY <2>2
  <2>4. ASSUME NEW y \in I PROVE x >= y
    <3>1. n - y \in J
      OBVIOUS
    <3>2. n - x <= n - y
      BY <2>2, <2>3, <3>1
    <3>3. x \in Nat /\ y \in Nat
      OBVIOUS
    <3>4. QED
      BY <3>2, <3>3
  <2>5. QED
    BY <2>4
<1>3. QED
  BY <1>1, <1>2 DEF Min, Max

LEMMA AppendFacts ==
  ASSUME NEW T, NEW s \in Seq(T), NEW e \in T
  PROVE  /\ Append(s, e) \in Seq(T)
         /\ Len(s) \in Nat /\ DOMAIN s = 1 .. Len(s)
         /\ Len(Append(s, e)) = Len(s) + 1
         /\ DOMAIN Append(s, e) = 1 .. Len(s) + 1
         /\ \A i \in DOMAIN s : Append(s, e)[i] = s[i] /\ s[i] \in T
         /\ Append(s, e)[Len(s) + 1] = e
BY AppendProperties, LenProperties, ElementOfSeq

LEMMA OverRange ==
  ASSUME NEW T, NEW f \in Seq(T)
  PROVE  f \in Seq(Range(f)) /\ Len(f) \in Nat /\ DOMAIN f = 1 .. Len(f)
<1>1. Len(f) \in Nat /\ f = [i \in 1 .. Len(f) |-> f[i]] /\ DOMAIN f = 1 .. Len(f)
  BY LenProperties
<1>2. \A i \in 1 .. Len(f) : f[i] \in Range(f)
  BY <1>1 DEF Range
<1>3. f \in Seq(Range(f))
  BY <1>1, <1>2, IsASeq
<1>4. QED
  BY <1>1, <1>3

LEMMA RangeOfAppend ==
  ASSUME NEW T, NEW s \in Seq(T), NEW e
  PROVE  /\ Range(Append(s, e)) = Range(s) \cup {e}
         /\ s \in Seq(Range(s)) /\ Append(s, e) \in Seq(Range(Append(s, e)))
<1> DEFINE U == T \cup {e}
<1>1. s \in Seq(U)
  OBVIOUS
<1>2. /\ Append(s, e) \in Seq(U)
      /\ Len(s) \in Nat /\ DOMAIN s = 1 .. Len(s)
      /\ DOMAIN Append(s, e) = 1 .. Len(s) + 1
      /\ \A i \in DOMAIN s : Append(s, e)[i] = s[i]
      /\ Append(s, e)[Len(s) + 1] = e
      /\ Len(Append(s, e)) = Len(s) + 1
  <2>1. e \in U
    OBVIOUS
  <2> HIDE DEF U
  <2>2. QED
    BY <1>1, <2>1, AppendFacts
<1> DEFINE a == Append(s, e)
<1>3. Range(a) = Range(s) \cup {e}
  <2> HIDE DEF a
  <2>1. ASSUME NEW y \in Range(a) PROVE y \in Range(s) \cup {e}
    BY <1>2, <2>1 DEF Range, a
  <2>2. ASSUME NEW y \in Range(s) PROVE y \in Range(a)
    BY <1>2, <2>2 DEF Range, a
  <2>3. e \in Range(a)
    <3>1. Len(s) + 1 \in DOMAIN a
      BY <1>2 DEF a
    <3>2. QED
      BY <1>2, <3>1 DEF Range, a
  <2>4. QED
    BY <2>1, <2>2, <2>3
<1>4. s \in Seq(Range(s)) /\ Append(s, e) \in Seq(Range(Append(s, e)))
  BY <1>1, <1>2, OverRange
<1>5. QED
  BY <1>1, <1>2, <1>3, <1>4

(* The text that is copied or typed. *)
LEMMA NormalizedText ==
  ASSUME NEW t, t \in Seq(Range(t))
  PROVE  /\ Normalized(t) \in Seq(Range(t) \cup {" "})
         /\ Normalized(t) \in Seq(Range(Normalized(t)))
         /\ Len(Normalized(t)) \in Nat /\ DOMAIN Normalized(t) = 1 .. Len(Normalized(t))
         /\ \A p \in DOMAIN Normalized(t) : Normalized(t)[p] \in Range(t) \cup {" "}
<1>0. PICK n : n = SelectLastInSeq(t, LAMBDA c : c # " ")
  OBVIOUS
<1>1. Len(t) \in Nat /\ DOMAIN t = 1 .. Len(t)
  BY LenProperties
<1>2. n \in 0 .. Len(t)
  <2> DEFINE I == {i \in 1 .. Len(t) : t[i] # " "}
  <2>1. n = IF I # {} THEN Max(I) ELSE 0
    BY <1>0 DEF SelectLastInSeq
  <2>2. CASE I = {}
    <3>1. n = 0
      BY <2>1, <2>2, Zenon
    <3>2. QED
      BY <1>1, <3>1
  <2>3. CASE I # {}
    <3>1. Max(I) \in I
      BY <1>1, <2>3, Bounds
    <3>2. n = Max(I)
      BY <2>1, <2>3, Zenon
    <3>3. n \in I
      BY <3>1, <3>2, Zenon
    <3>4. n \in 1 .. Len(t)
      BY <3>3, Zenon
    <3>5. QED
      BY <1>1, <3>4
  <2>4. QED
    BY <2>2, <2>3
<1> DEFINE T == Range(t) \cup {" "}
<1>3. SubSeq(t, 1, n) \in Seq(T)
  <2>1. \A i \in 1 .. Len(t) : t[i] \in T
    BY <1>1 DEF Range
  <2>2. t \in Seq(T) /\ \A i \in 1 .. n : t[i] \in T
    <3>1. t = [i \in 1 .. Len(t) |-> t[i]]
      BY LenProperties
    <3>2. \A i \in 1 .. n : i \in 1 .. Len(t)
      BY <1>1, <1>2
    <3> HIDE DEF T
    <3>3. QED
      BY <1>1, <2>1, <3>1, <3>2, IsASeq
  <2> HIDE DEF T
  <2>3. n \in Int
    BY <1>1, <1>2
  <2>4. QED
    BY <1>1, <1>2, <2>1, <2>2, <2>3, SubSeqProperties
<1>4. Normalized(t) = Append(SubSeq(t, 1, n), " ")
  BY <1>0 DEF Normalized
<1>5. Normalized(t) \in Seq(T) /\ Normalized(t) \in Seq(Range(Normalized(t)))
  <2> DEFINE u == SubSeq(t, 1, n)
  <2>1. " " \in T /\ u \in Seq(T)
    BY <1>3
  <2> HIDE DEF u, T
  <2>2. Append(u, " ") \in Seq(T) /\ Append(u, " ") \in Seq(Range(Append(u, " ")))
    BY <2>1, RangeOfAppend, AppendFacts
  <2>3. QED
    BY <1>4, <2>2 DEF u
<1>6. QED
  BY <1>5, LenProperties, ElementOfSeq
(* Shortcuts and events *)
LEMMA ShortcutKeys ==
  ASSUME NEW k, Shortcut(k)
  PROVE  /\ k \in Seq(Range(k)) /\ Len(k) \in Nat \ {0} /\ DOMAIN k = 1 .. Len(k)
         /\ \A i \in DOMAIN k : k[i] \in Modifiers <=> i # Len(k)
         /\ Last(k) = k[Len(k)] /\ Last(k) \in Range(k) /\ Last(k) \notin Modifiers
         /\ Range(Front(k)) = {k[i] : i \in 1 .. Len(k) - 1}
<1>1. k \in Seq(Range(k)) /\ k # <<>> /\ \A i \in DOMAIN k : k[i] \in Modifiers <=> i # Len(k)
  BY Zenon DEF Shortcut
<1>2. Len(k) \in Nat \ {0} /\ DOMAIN k = 1 .. Len(k)
  BY <1>1, EmptySeq, LenProperties
<1>3. Last(k) = k[Len(k)] /\ Last(k) \in Range(k) /\ Last(k) \notin Modifiers
  <2>1. Len(k) \in DOMAIN k
    BY <1>2
  <2>2. QED
    BY <1>1, <2>1 DEF Last, Range
<1>4. Range(Front(k)) = {k[i] : i \in 1 .. Len(k) - 1}
  <2>1. /\ Front(k) = SubSeq(k, 1, Len(k) - 1) /\ Len(Front(k)) = Len(k) - 1
        /\ Front(k) \in Seq(Range(k))
        /\ \A i \in 1 .. Len(k) - 1 : Front(k)[i] = k[i]
    <3>1. \A i \in 1 .. Len(k) - 1 : k[i] \in Range(k)
      BY <1>2 DEF Range
    <3>2. Len(k) - 1 \in Nat
      BY <1>2
    <3>3. QED
      BY <1>1, <1>2, <3>1, <3>2, SubSeqProperties DEF Front
  <2>2. DOMAIN Front(k) = 1 .. Len(k) - 1
    BY <2>1, LenProperties
  <2>3. QED
    BY <2>1, <2>2 DEF Range
<1>5. QED
  BY <1>1, <1>2, <1>3, <1>4

LEMMA PasteShortcut ==
  \A kind : Shortcut(PasteKeys(kind))
<1>1. Shortcut(<<"ctrl", "shift", "v">>)
  <2> DEFINE k == <<"ctrl", "shift", "v">>
  <2>1. k \in Seq(Range(k)) /\ k # <<>>
    BY DEF Range
  <2>2. \A i \in DOMAIN k : k[i] \in Modifiers <=> i # Len(k)
    BY DEF Modifiers
  <2>3. QED
    BY <2>1, <2>2 DEF Shortcut
<1>2. Shortcut(<<"ctrl", "v">>)
  <2> DEFINE k == <<"ctrl", "v">>
  <2>1. k \in Seq(Range(k)) /\ k # <<>>
    BY DEF Range
  <2>2. \A i \in DOMAIN k : k[i] \in Modifiers <=> i # Len(k)
    BY DEF Modifiers
  <2>3. QED
    BY <2>1, <2>2 DEF Shortcut
<1>3. QED
  BY <1>1, <1>2 DEF PasteKeys

LEMMA EventKinds ==
  ASSUME NEW e, IsEvent(e)
  PROVE  /\ e.type \in {"text", "keys"}
         /\ e.type = "keys" => Shortcut(e.keys)
         /\ e.type = "text" => e.text \in Seq(Range(e.text)) /\ Range(e.text) \cap Modifiers = {}
<1>1. CASE e = Combo(e.keys) /\ Shortcut(e.keys)
  <2>1. e.type = "keys"
    BY <1>1 DEF Combo
  <2>2. QED
    BY <1>1, <2>1
<1>2. CASE e = Text(e.text) /\ e.text \in Seq(Range(e.text)) /\ Range(e.text) \cap Modifiers = {}
  <2>1. e.type = "text"
    BY <1>2 DEF Text
  <2>2. QED
    BY <1>2, <2>1
<1>3. QED
  BY <1>1, <1>2 DEF IsEvent

(* The strokes of a text: those of a place are next to each other. *)
LEMMA TextLine ==
  ASSUME NEW T, NEW t \in Seq(T)
  PROVE  /\ Len(t) \in Nat /\ Len(TextStrokes(t)) = 2 * Len(t)
         /\ \A p \in 1 .. Len(t) :
              /\ TextStrokes(t)[2 * p - 1] = Press(t[p], p)
              /\ TextStrokes(t)[2 * p] = Release(t[p], p)
<1>1. Len(t) \in Nat
  BY LenProperties
<1>2. TextStrokes(t) = [i \in 1..2 * Len(t) |->
         IF i = 2 * ((i + 1) \div 2) THEN Release(t[(i + 1) \div 2], (i + 1) \div 2)
         ELSE Press(t[(i + 1) \div 2], (i + 1) \div 2)]
  BY DEF TextStrokes
<1>3. 2 * Len(t) \in Nat
  BY <1>1
<1>4. Len(TextStrokes(t)) = 2 * Len(t)
  BY <1>2, <1>3
<1>5. ASSUME NEW p \in 1 .. Len(t)
      PROVE  /\ TextStrokes(t)[2 * p - 1] = Press(t[p], p)
             /\ TextStrokes(t)[2 * p] = Release(t[p], p)
  <2>1. p \in Int /\ 2 * p - 1 \in 1 .. 2 * Len(t) /\ 2 * p \in 1 .. 2 * Len(t)
    BY <1>1
  <2>2. ((2 * p - 1) + 1) \div 2 = p /\ (2 * p + 1) \div 2 = p /\ 2 * p - 1 # 2 * p
    BY <2>1
  <2>3. TextStrokes(t)[2 * p - 1] =
           IF 2 * p - 1 = 2 * (((2 * p - 1) + 1) \div 2)
           THEN Release(t[((2 * p - 1) + 1) \div 2], ((2 * p - 1) + 1) \div 2)
           ELSE Press(t[((2 * p - 1) + 1) \div 2], ((2 * p - 1) + 1) \div 2)
    BY <1>2, <2>1, Zenon
  <2>4. TextStrokes(t)[2 * p] =
           IF 2 * p = 2 * ((2 * p + 1) \div 2)
           THEN Release(t[(2 * p + 1) \div 2], (2 * p + 1) \div 2)
           ELSE Press(t[(2 * p + 1) \div 2], (2 * p + 1) \div 2)
    BY <1>2, <2>1, Zenon
  <2>5. QED
    BY <2>2, <2>3, <2>4, Zenon
<1>6. QED
  BY <1>1, <1>4, <1>5

LEMMA KeyLine ==
  ASSUME NEW T, NEW k \in Seq(T)
  PROVE  /\ Len(k) \in Nat /\ Len(KeySequence(k)) = 2 * Len(k)
         /\ \A i \in 1 .. Len(k) : KeySequence(k)[i] = Press(k[i], 1)
         /\ \A i \in Len(k) + 1 .. 2 * Len(k) :
              /\ 2 * Len(k) + 1 - i \in 1 .. Len(k)
              /\ KeySequence(k)[i] = Release(k[2 * Len(k) + 1 - i], 1)
<1>1. Len(k) \in Nat
  BY LenProperties
<1>2. KeySequence(k) = [i \in 1..2 * Len(k) |->
         IF i <= Len(k) THEN Press(k[i], 1) ELSE Release(k[2 * Len(k) + 1 - i], 1)]
  BY DEF KeySequence
<1>3. 2 * Len(k) \in Nat
  BY <1>1
<1>4. Len(KeySequence(k)) = 2 * Len(k)
  BY <1>2, <1>3
<1>5. ASSUME NEW i \in 1 .. 2 * Len(k)
      PROVE  KeySequence(k)[i] = IF i <= Len(k) THEN Press(k[i], 1) ELSE Release(k[2 * Len(k) + 1 - i], 1)
  BY <1>2, <1>5, Zenon
<1>6. \A i \in 1 .. Len(k) : KeySequence(k)[i] = Press(k[i], 1)
  BY <1>1, <1>5
<1>7. \A i \in Len(k) + 1 .. 2 * Len(k) :
        /\ 2 * Len(k) + 1 - i \in 1 .. Len(k)
        /\ KeySequence(k)[i] = Release(k[2 * Len(k) + 1 - i], 1)
  <2>1. SUFFICES ASSUME NEW i \in Len(k) + 1 .. 2 * Len(k)
                 PROVE  /\ 2 * Len(k) + 1 - i \in 1 .. Len(k)
                        /\ KeySequence(k)[i] = Release(k[2 * Len(k) + 1 - i], 1)
    OBVIOUS
  <2>2. i \in 1 .. 2 * Len(k) /\ ~(i <= Len(k)) /\ i \in Int
    BY <1>1
  <2>3. QED
    BY <1>1, <1>5, <2>2
<1>8. QED
  BY <1>1, <1>4, <1>6, <1>7
-----------------------------------------------------------------------------
(* What GNOME's list of windows says of the focused one *)

(* The fields of the k-th window of the list. *)
LEMMA ListingFields ==
  ASSUME NEW w, NEW k \in 1 .. Len(WindowList), NEW f \in 1 .. 3
  PROVE  /\ 3 * (k - 1) + f \in 1 .. 3 * Len(WindowList)
         /\ Listing(w)[3 * (k - 1) + f] = Field(WindowList[k], FieldOrder[f], w)
<1>1. Len(WindowList) \in Nat
  BY FocusedWindowAssumption, LenProperties
<1>2. PICK i : i = 3 * (k - 1) + f
  OBVIOUS
<1>3. k \in Int /\ f \in Int /\ i \in 1 .. 3 * Len(WindowList) /\ (f = 1 \/ f = 2 \/ f = 3)
  BY <1>1, <1>2
<1>4. k \in Int /\ f \in 1 .. 3 /\ i \in 1 .. 3 * Len(WindowList)
  BY <1>1, <1>2
<1>5. (i - 1) \div 3 + 1 = k /\ ((i - 1) % 3) + 1 = f
  <2>1. f \in {1, 2, 3}
    BY <1>4
  <2>2. QED
    BY <1>2, <1>4, <2>1
<1>6. Listing(w)[i] = Field(WindowList[(i - 1) \div 3 + 1], FieldOrder[((i - 1) % 3) + 1], w)
  BY <1>4 DEF Listing
<1>7. QED
  BY <1>2, <1>4, <1>5, <1>6, Zenon

LEMMA ListingPlaces ==
  ASSUME NEW w
  PROVE  /\ Len(WindowList) \in Nat
         /\ Listing(w) \in Seq(Range(Listing(w))) /\ Len(Listing(w)) = 3 * Len(WindowList)
         /\ \A i \in 1 .. Len(Listing(w)) : \E k \in 1 .. Len(WindowList) : \E f \in 1 .. 3 : i = 3 * (k - 1) + f
<1>1. Len(WindowList) \in Nat
  BY FocusedWindowAssumption, LenProperties
<1>2. PICK n \in Nat : n = 3 * Len(WindowList)
  BY <1>1
<1>3. PICK L : L = Listing(w)
  OBVIOUS
<1>4. DOMAIN L = 1 .. n /\ L = [i \in 1 .. n |-> L[i]]
  BY <1>2, <1>3 DEF Listing
<1>5. \A i \in 1 .. n : L[i] \in Range(L)
  BY <1>4 DEF Range
<1>6. L \in Seq(Range(L)) /\ Len(L) = n
  BY <1>4, <1>5, IsASeq, LenProperties
<1>7. ASSUME NEW i \in 1 .. n
      PROVE  \E k \in 1 .. Len(WindowList) : \E f \in 1 .. 3 : i = 3 * (k - 1) + f
  <2>1. (i - 1) \div 3 + 1 \in 1 .. Len(WindowList) /\ ((i - 1) % 3) + 1 \in 1 .. 3
    BY <1>1, <1>2
  <2>2. i = 3 * (((i - 1) \div 3 + 1) - 1) + (((i - 1) % 3) + 1)
    BY <1>1, <1>2
  <2>3. QED
    BY <2>1, <2>2, Zenon
<1>8. QED
  BY <1>1, <1>2, <1>3, <1>6, <1>7

FieldNames == {"app-id", "wm-class", "has-focus"}

LEMMA FieldFacts ==
  ASSUME NEW x, NEW w, NEW f \in FieldNames
  PROVE  /\ Field(x, f, w).name = f
         /\ f = "app-id" => Field(x, f, w).value = x.app
         /\ f = "wm-class" => Field(x, f, w).value = x.class
BY DEF Field, FieldNames

LEMMA FocusField ==
  \A x, w : /\ Field(x, "has-focus", w).name = "has-focus"
            /\ Field(x, "has-focus", w).value <=> (x = w)
BY DEF Field

LEMMA OrderFacts ==
  /\ \A f \in 1 .. 3 : FieldOrder[f] \in FieldNames
  /\ \A f \in 1 .. 3 : FieldOrder[f] = "has-focus" <=> f = 3
  /\ \A n \in {"app-id", "wm-class"} : \E f \in 1 .. 2 :
       FieldOrder[f] = n /\ \A g \in 1 .. 3 : FieldOrder[g] = n => g = f
<1>1. CASE FieldOrder = <<"app-id", "wm-class", "has-focus">>
  <2>1. FieldOrder[1] = "app-id" /\ FieldOrder[2] = "wm-class" /\ FieldOrder[3] = "has-focus"
    BY <1>1
  <2>2. \A f \in 1 .. 3 : f = 1 \/ f = 2 \/ f = 3
    OBVIOUS
  <2>3. 1 \in 1 .. 2 /\ 2 \in 1 .. 2
    OBVIOUS
  <2>4. QED
    BY <2>1, <2>2, <2>3 DEF FieldNames
<1>2. CASE FieldOrder = <<"wm-class", "app-id", "has-focus">>
  <2>1. FieldOrder[2] = "app-id" /\ FieldOrder[1] = "wm-class" /\ FieldOrder[3] = "has-focus"
    BY <1>2
  <2>2. \A f \in 1 .. 3 : f = 1 \/ f = 2 \/ f = 3
    OBVIOUS
  <2>3. 1 \in 1 .. 2 /\ 2 \in 1 .. 2
    OBVIOUS
  <2>4. QED
    BY <2>1, <2>2, <2>3 DEF FieldNames
<1>3. QED
  BY <1>1, <1>2, FocusedWindowAssumption

(* Of the text before the focus mark of window k, the last field of a name  *)
(* is that of window k.                                                     *)
LEMMA LastField ==
  ASSUME NEW w, NEW k \in 1 .. Len(WindowList), NEW n \in {"app-id", "wm-class"}
  PROVE  Extract(SubSeq(Listing(w), 1, 3 * k - 1), n) = Field(WindowList[k], n, w).value
<1>1. PICK L : L = Listing(w)
  OBVIOUS
<1>2. PICK m : m = 3 * k - 1
  OBVIOUS
<1>3. PICK b : b = SubSeq(L, 1, m)
  OBVIOUS
<1>4. Len(WindowList) \in Nat /\ L \in Seq(Range(L)) /\ Len(L) = 3 * Len(WindowList)
  BY <1>1, ListingPlaces
<1>5. m \in 1 .. Len(L) /\ m \in Nat /\ DOMAIN L = 1 .. Len(L)
  BY <1>2, <1>4, LenProperties
<1>6. Len(b) = m /\ \A i \in 1 .. m : b[i] = L[i]
  <2>1. \A i \in 1 .. m : L[i] \in Range(L)
    BY <1>4, <1>5 DEF Range
  <2>2. QED
    BY <1>3, <1>4, <1>5, <2>1, SubSeqProperties
<1>7. PICK f \in 1 .. 2 : FieldOrder[f] = n /\ \A g \in 1 .. 3 : FieldOrder[g] = n => g = f
  BY OrderFacts
<1>8. PICK I : I = {i \in 1 .. m : b[i].name = n}
  OBVIOUS
<1>9. PICK p : p = 3 * (k - 1) + f
  OBVIOUS
<1>10. p \in 1 .. m /\ f \in 1 .. 3 /\ k \in Int
  BY <1>2, <1>4, <1>9
<1>11. b[p] = Field(WindowList[k], n, w)
  BY <1>1, <1>6, <1>7, <1>9, <1>10, ListingFields
<1>12. p \in I
  BY <1>8, <1>10, <1>11, FieldFacts DEF FieldNames
<1>13. ASSUME NEW i \in I PROVE i <= p
  <2>1. i \in 1 .. m /\ b[i].name = n /\ i \in 1 .. Len(L)
    BY <1>5, <1>8
  <2>2. PICK h \in 1 .. Len(WindowList), g \in 1 .. 3 : i = 3 * (h - 1) + g
    BY <1>1, <2>1, ListingPlaces
  <2>3. b[i] = Field(WindowList[h], FieldOrder[g], w)
    BY <1>1, <1>6, <2>1, <2>2, ListingFields
  <2>4. FieldOrder[g] = n
    BY <2>1, <2>3, OrderFacts, FieldFacts
  <2>5. g = f
    BY <1>7, <2>4
  <2>6. h \in Int /\ h <= k
    BY <1>2, <1>10, <2>1, <2>2
  <2>7. QED
    BY <1>9, <1>10, <2>2, <2>5, <2>6
<1>14. Max(I) = p
  <2>1. I \in SUBSET (1 .. m) /\ I # {}
    BY <1>8, <1>12
  <2>2. Max(I) \in I /\ p <= Max(I)
    BY <1>5, <1>12, <2>1, Bounds
  <2>3. Max(I) <= p /\ Max(I) \in 1 .. m
    BY <1>13, <2>1, <2>2
  <2>4. QED
    BY <1>5, <1>10, <2>2, <2>3
<1>15. Extract(b, n) = b[p].value
  <2>1. SelectLastInSeq(b, LAMBDA x : x.name = n) = IF I # {} THEN Max(I) ELSE 0
    BY <1>6, <1>8 DEF SelectLastInSeq
  <2>2. SelectLastInSeq(b, LAMBDA x : x.name = n) = p
    BY <1>12, <1>14, <2>1, Zenon
  <2>3. p # 0
    BY <1>10
  <2>4. QED
    BY <2>2, <2>3 DEF Extract
<1>16. QED
  BY <1>1, <1>2, <1>3, <1>11, <1>15, Zenon

LEMMA NamesTheWindow ==
  ASSUME NEW w \in Windows \cup {NoWindow}
  PROVE  Introspected(w) = Named(w.app, w.class)
<1>1. PICK L : L = Listing(w)
  OBVIOUS
<1>2. Len(WindowList) \in Nat /\ L \in Seq(Range(L)) /\ Len(L) = 3 * Len(WindowList)
  BY <1>1, ListingPlaces
<1>3. PICK M : M = {i \in 1 .. Len(L) : L[i].name = "has-focus" /\ L[i].value}
  OBVIOUS
<1>4. PICK mark : mark = IF M # {} THEN Min(M) ELSE 0
  OBVIOUS
<1>5. Introspected(w) = Named(Extract(SubSeq(L, 1, mark - 1), "app-id"), Extract(SubSeq(L, 1, mark - 1), "wm-class"))
  <2>1. SelectInSeq(L, LAMBDA x : x.name = "has-focus" /\ x.value) = mark
    BY <1>3, <1>4 DEF SelectInSeq
  <2>2. QED
    BY <1>1, <2>1 DEF Introspected
<1>6. ASSUME NEW k \in 1 .. Len(WindowList), WindowList[k] = w
      PROVE  3 * k \in M
  <2>1. 3 \in 1 .. 3 /\ 3 * (k - 1) + 3 = 3 * k
    BY <1>2
  <2>2. 3 * k \in 1 .. Len(L) /\ L[3 * k] = Field(WindowList[k], FieldOrder[3], w)
    BY <1>1, <1>2, <2>1, ListingFields
  <2>3. FieldOrder[3] = "has-focus" /\ "has-focus" \in FieldNames
    BY <2>1, OrderFacts
  <2>4. QED
    <3>1. L[3 * k].name = "has-focus" /\ L[3 * k].value <=> (WindowList[k] = w)
      <4>1. /\ Field(WindowList[k], "has-focus", w).name = "has-focus"
            /\ Field(WindowList[k], "has-focus", w).value <=> (WindowList[k] = w)
        BY FocusField, Zenon
      <4>2. QED
        BY <2>2, <2>3, <4>1, Zenon
    <3>2. QED
      BY <1>3, <1>6, <2>2, <3>1, Zenon
<1>7. ASSUME NEW i \in M
      PROVE  \E k \in 1 .. Len(WindowList) : i = 3 * k /\ WindowList[k] = w
  <2>1. i \in 1 .. Len(L) /\ L[i].name = "has-focus" /\ L[i].value
    BY <1>3
  <2>2. PICK k \in 1 .. Len(WindowList), f \in 1 .. 3 : i = 3 * (k - 1) + f
    BY <1>1, <2>1, ListingPlaces
  <2>3. L[i] = Field(WindowList[k], FieldOrder[f], w)
    BY <1>1, <2>2, ListingFields
  <2>4. FieldOrder[f] = "has-focus" /\ "has-focus" \in FieldNames
    BY <2>1, <2>3, OrderFacts, FieldFacts
  <2>5. f = 3
    BY <2>4, OrderFacts
  <2>6. WindowList[k] = w
    <3>1. L[i].value <=> (WindowList[k] = w)
      <4>1. Field(WindowList[k], "has-focus", w).value <=> (WindowList[k] = w)
        BY FocusField, Zenon
      <4>2. QED
        BY <2>3, <2>4, <4>1, Zenon
    <3>2. QED
      BY <2>1, <3>1, Zenon
  <2>7. QED
    BY <1>2, <2>2, <2>5, <2>6
<1>8. CASE M # {}
  <2>1. mark \in M
    <3>1. M \in SUBSET (1 .. Len(L)) /\ Len(L) \in Nat
      BY <1>2, <1>3
    <3>2. QED
      BY <1>4, <1>8, <3>1, Bounds
  <2>2. PICK k \in 1 .. Len(WindowList) : mark = 3 * k /\ WindowList[k] = w
    BY <1>7, <2>1
  <2>3. /\ Extract(SubSeq(L, 1, mark - 1), "app-id") = Field(w, "app-id", w).value
        /\ Extract(SubSeq(L, 1, mark - 1), "wm-class") = Field(w, "wm-class", w).value
    BY <1>1, <2>2, LastField
  <2>4. Field(w, "app-id", w).value = w.app /\ Field(w, "wm-class", w).value = w.class
    BY FieldFacts DEF FieldNames
  <2>5. QED
    BY <1>5, <2>3, <2>4
<1>9. CASE M = {}
  <2>1. w = NoWindow
    <3>1. SUFFICES ASSUME w \in Windows PROVE FALSE
      OBVIOUS
    <3>2. w \in Range(WindowList)
      BY <3>1, FocusedWindowAssumption
    <3>3. DOMAIN WindowList = 1 .. Len(WindowList)
      BY FocusedWindowAssumption, LenProperties
    <3>4. PICK k \in 1 .. Len(WindowList) : WindowList[k] = w
      BY <3>2, <3>3 DEF Range
    <3>5. QED
      BY <1>6, <1>9, <3>4
  <2>2. mark = 0
    BY <1>4, <1>9, Zenon
  <2>3. SubSeq(L, 1, mark - 1) = <<>>
    BY <1>2, <2>2, SubSeqProperties
  <2>4. ASSUME NEW n PROVE Extract(<<>>, n) = ""
    <3>1. PICK I : I = {i \in 1 .. Len(<<>>) : <<>>[i].name = n}
      OBVIOUS
    <3>2. I = {}
      BY <3>1
    <3>3. SelectLastInSeq(<<>>, LAMBDA x : x.name = n) = IF I # {} THEN Max(I) ELSE 0
      BY <3>1 DEF SelectLastInSeq
    <3>4. SelectLastInSeq(<<>>, LAMBDA x : x.name = n) = 0
      BY <3>2, <3>3, Zenon
    <3>5. QED
      BY <3>4 DEF Extract
  <2>5. Introspected(w) = Named("", "")
    BY <1>5, <2>3, <2>4
  <2>6. QED
    BY <2>1, <2>5 DEF NoWindow
<1>10. QED
  BY <1>8, <1>9

(* So the answer of a backend is the name it has for the window. *)
LEMMA AnswerIsName ==
  ASSUME NEW b \in Range(Backends), NEW w \in Windows \cup {NoWindow}
  PROVE  Answer(b, w) = NameOf(b, w)
<1>1. b \in {"swaymsg", "hyprctl", "extension", "introspect", "eval"}
  BY DEF Range, Backends
<1>2. Introspected(w) = Named(w.app, w.class)
  BY NamesTheWindow
<1>3. QED
  BY <1>1, <1>2 DEF Answer, NameOf, SwayName, HyprName, ExtensionName, EvalName
-----------------------------------------------------------------------------
(* The parts of a job that what it types depends on *)

LEMMA Depends ==
  ASSUME NEW c, NEW j, NEW J, J.input = j.input, J.paste = j.paste
  PROVE  /\ \A e : KeysOf(J, e) = KeysOf(j, e)
         /\ \A i, t : Spots(c, J, i, t) = Spots(c, j, i, t)
         /\ \A i, p : Sign(c, J, i, p) = Sign(c, j, i, p)
         /\ J.out = j.out => \A i, t : TypedBy(J, i, t) = TypedBy(j, i, t)
         /\ J.at = j.at => /\ Now(J) = Now(j) /\ Line(c, J) = Line(c, j)
                           /\ \A p : PressedAt(c, J, p) = PressedAt(c, j, p)
<1>1. \A e : KeysOf(J, e) = KeysOf(j, e)
  BY DEF KeysOf
<1>2. \A i, t : Spots(c, J, i, t) = Spots(c, j, i, t)
  BY DEF Spots
<1>3. \A i, p : Sign(c, J, i, p) = Sign(c, j, i, p)
  BY <1>1 DEF Sign
<1>4. J.out = j.out => \A i, t : TypedBy(J, i, t) = TypedBy(j, i, t)
  BY DEF TypedBy
<1>5. ASSUME J.at = j.at
      PROVE  /\ Now(J) = Now(j) /\ Line(c, J) = Line(c, j)
             /\ \A p : PressedAt(c, J, p) = PressedAt(c, j, p)
  <2>1. Now(J) = Now(j)
    BY <1>5 DEF Now
  <2>2. QED
    BY <1>1, <2>1 DEF Line, PressedAt
<1>6. QED
  BY <1>1, <1>2, <1>3, <1>4, <1>5

LEMMA InputEvents ==
  ASSUME NEW n \in Inputs
  PROVE  /\ Len(n) \in Nat \ {0} /\ DOMAIN n = 1 .. Len(n)
         /\ \A i \in DOMAIN n : IsEvent(n[i])
BY InjectionAssumption, EmptySeq, LenProperties DEF Range

(* The places of an event are numbers; they are pressed in order. *)
LEMMA SpotFacts ==
  ASSUME NEW c, NEW j, NEW i, NEW t, IsEvent(j.input[i])
  PROVE  /\ \A p \in Spots(c, j, i, t) : p \in Nat \ {0}
         /\ TypingIn(c, j.input[i]) =>
              /\ Normalized(j.input[i].text) \in Seq(Range(Normalized(j.input[i].text)))
              /\ Len(Normalized(j.input[i].text)) \in Nat
              /\ DOMAIN Normalized(j.input[i].text) = 1 .. Len(Normalized(j.input[i].text))
              /\ \A p \in DOMAIN Normalized(j.input[i].text) : Normalized(j.input[i].text)[p] \notin Modifiers
<1>1. CASE TypingIn(c, j.input[i])
  <2> DEFINE u == j.input[i].text
  <2>1. u \in Seq(Range(u)) /\ Range(u) \cap Modifiers = {}
    BY <1>1, EventKinds DEF TypingIn
  <2>2. /\ Normalized(u) \in Seq(Range(Normalized(u)))
        /\ Len(Normalized(u)) \in Nat /\ DOMAIN Normalized(u) = 1 .. Len(Normalized(u))
        /\ \A p \in DOMAIN Normalized(u) : Normalized(u)[p] \in Range(u) \cup {" "}
    BY <2>1, NormalizedText
  <2>3. " " \notin Modifiers
    BY DEF Modifiers
  <2>4. \A p \in DOMAIN Normalized(u) : Normalized(u)[p] \notin Modifiers
    BY <2>1, <2>2, <2>3
  <2>5. \A p \in Spots(c, j, i, t) : p \in DOMAIN Normalized(u)
    BY <1>1 DEF Spots
  <2> HIDE DEF u
  <2>6. \A p \in Spots(c, j, i, t) : p \in Nat \ {0}
    <3>1. PICK n \in Nat : DOMAIN Normalized(u) = 1 .. n
      BY <2>2
    <3>2. QED
      BY <2>5, <3>1
  <2>7. QED
    BY <2>2, <2>4, <2>6 DEF u
<1>2. CASE ~TypingIn(c, j.input[i])
  BY <1>2 DEF Spots
<1>3. QED
  BY <1>1, <1>2

LEMMA KeyFacts ==
  ASSUME NEW c, NEW j, NEW e, IsEvent(e), Shortcut(j.paste)
  PROVE  Shortcut(KeysOf(j, e))
BY EventKinds DEF KeysOf

(* A job with an event before it. *)
Ready(c, j) ==
  /\ JobOK(c, j) /\ j.pc \in Begun /\ j.at <= Len(j.input)

LEMMA ReadyFacts ==
  ASSUME NEW c, NEW j, Ready(c, j)
  PROVE  /\ j.input \in Inputs /\ j.at \in DOMAIN j.input /\ j.at \in Nat \ {0}
         /\ DOMAIN j.input = 1 .. Len(j.input) /\ Len(j.input) \in Nat
         /\ \A i \in DOMAIN j.input : IsEvent(j.input[i])
         /\ IsEvent(Now(j)) /\ Now(j) = j.input[j.at]
         /\ Shortcut(j.paste) /\ Shortcut(KeysOf(j, Now(j)))
         /\ DOMAIN j = Fields
         /\ j.won \in Seq(Tries) /\ Len(j.won) = j.at - 1 /\ DOMAIN j.won = 1 .. j.at - 1
         /\ j.out \in Seq(Range(j.out)) /\ Len(j.out) \in Nat /\ DOMAIN j.out = 1 .. Len(j.out)
<1>1. j.pc # "idle"
  BY DEF Ready, Begun, Trying, PortalPhases
<1>2. /\ j.input \in Inputs /\ j.at \in 1 .. Len(j.input) + 1 /\ j.at <= Len(j.input) /\ Shortcut(j.paste)
      /\ DOMAIN j = Fields /\ j.won \in Seq(Tries) /\ Len(j.won) = j.at - 1
      /\ j.out \in Seq(Range(j.out))
  BY <1>1 DEF Ready, JobOK
<1>3. /\ Len(j.input) \in Nat \ {0} /\ DOMAIN j.input = 1 .. Len(j.input)
      /\ \A i \in DOMAIN j.input : IsEvent(j.input[i])
  BY <1>2, InputEvents
<1>4. j.at \in DOMAIN j.input /\ j.at \in Nat \ {0}
  BY <1>2, <1>3
<1>5. IsEvent(Now(j)) /\ Now(j) = j.input[j.at]
  BY <1>3, <1>4 DEF Now
<1>6. DOMAIN j.won = 1 .. j.at - 1 /\ Len(j.out) \in Nat /\ DOMAIN j.out = 1 .. Len(j.out)
  BY <1>2, LenProperties
<1>7. Shortcut(KeysOf(j, Now(j)))
  BY <1>2, <1>5, KeyFacts
<1>8. QED
  BY <1>2, <1>3, <1>4, <1>5, <1>6, <1>7

LEMMA LineFacts ==
  ASSUME NEW c, NEW j, Ready(c, j)
  PROVE  /\ Len(Line(c, j)) \in Nat /\ DOMAIN Line(c, j) = 1 .. Len(Line(c, j))
         /\ TypingIn(c, Now(j)) => Len(Line(c, j)) = 2 * Len(Normalized(Now(j).text))
         /\ ~TypingIn(c, Now(j)) => Len(Line(c, j)) = 2 * Len(KeysOf(j, Now(j)))
         /\ \A t : \A p, q \in Spots(c, j, j.at, t) :
              /\ PressedAt(c, j, p) \in 1 .. Len(Line(c, j))
              /\ q < p => PressedAt(c, j, q) < PressedAt(c, j, p)
<1>1. /\ IsEvent(Now(j)) /\ Now(j) = j.input[j.at] /\ Shortcut(KeysOf(j, Now(j)))
  BY ReadyFacts
<1>2. CASE TypingIn(c, Now(j))
  <2> DEFINE u == Normalized(Now(j).text)
  <2>1. u \in Seq(Range(u)) /\ Len(u) \in Nat /\ DOMAIN u = 1 .. Len(u)
    <3>1. IsEvent(j.input[j.at]) /\ TypingIn(c, j.input[j.at]) /\ u = Normalized(j.input[j.at].text)
      BY <1>1, <1>2
    <3> HIDE DEF u
    <3>2. QED
      BY <3>1, SpotFacts
  <2>2. Line(c, j) = TextStrokes(u)
    BY <1>2 DEF Line
  <2>3. \A t : Spots(c, j, j.at, t) \subseteq DOMAIN u
    BY <1>1, <1>2 DEF Spots
  <2>4. \A p : PressedAt(c, j, p) = 2 * p - 1
    BY <1>2 DEF PressedAt
  <2>5. DOMAIN TextStrokes(u) = 1 .. 2 * Len(u)
    BY DEF TextStrokes
  <2> HIDE DEF u
  <2>6. Len(TextStrokes(u)) = 2 * Len(u)
    BY <2>1, TextLine
  <2>7. QED
    BY <1>2, <2>1, <2>2, <2>3, <2>4, <2>5, <2>6 DEF u
<1>3. CASE ~TypingIn(c, Now(j))
  <2> DEFINE k == KeysOf(j, Now(j))
  <2>1. k \in Seq(Range(k)) /\ Len(k) \in Nat \ {0}
    BY <1>1, ShortcutKeys
  <2>2. Line(c, j) = KeySequence(k)
    BY <1>3 DEF Line
  <2>3. \A t : Spots(c, j, j.at, t) = {1}
    BY <1>1, <1>3 DEF Spots
  <2>4. \A p : PressedAt(c, j, p) = Len(k)
    BY <1>3 DEF PressedAt
  <2>5. DOMAIN KeySequence(k) = 1 .. 2 * Len(k)
    BY DEF KeySequence
  <2> HIDE DEF k
  <2>6. Len(KeySequence(k)) = 2 * Len(k)
    BY <2>1, KeyLine
  <2>7. QED
    BY <1>3, <2>1, <2>2, <2>3, <2>4, <2>5, <2>6 DEF k
<1>4. QED
  BY <1>2, <1>3
-----------------------------------------------------------------------------
(* What a try types *)

(* What is told of a job without its phase: the present try is a beginning. *)
Partly(c, j) ==
  /\ InRow(j.out)
  /\ \A x \in Range(j.out) :
       /\ x.ev \in 1..j.at /\ x.try \in Tries
       /\ x.place \in Spots(c, j, x.ev, x.try) /\ x.mark = Sign(c, j, x.ev, x.place)
       /\ x.ev = j.at => Order[x.try] <= Order[j.try]
  /\ \A i \in DOMAIN j.won : TypedBy(j, i, j.won[i]) = Spots(c, j, i, j.won[i])
  /\ \A i \in 1..j.at : \A t \in Tries :
       \/ i < j.at /\ t = j.won[i]
       \/ i = j.at /\ t = j.try /\ Beginning(c, j, i, t)
       \/ TypedBy(j, i, t) = {}
       \/ Beginning(c, j, i, t) /\ <<i, t>> \in j.failed

LEMMA OrderOfTries ==
  ASSUME NEW t \in Tries, NEW u \in Tries
  PROVE  /\ Order[t] \in 1 .. 4 /\ (Order[t] = Order[u] => t = u)
         /\ Order["portal"] = 1 /\ Order["again"] = 2 /\ Order["wtype"] = 3 /\ Order["ydotool"] = 4
BY DEF Order, Tries

(* While the keys are sent the try is a beginning: what is pressed comes    *)
(* before what is not.                                                      *)
LEMMA SendingPartly ==
  ASSUME NEW c, NEW j, Ready(c, j), j.pc = "send", Told(c, j)
  PROVE  Partly(c, j)
<1>1. InRow(j.out) /\ Belongs(c, j) /\ Behind(c, j) /\ Under(c, j)
  BY DEF Told, Ready
<1>2. TypedBy(j, j.at, j.try) = {p \in Spots(c, j, j.at, j.try) : PressedAt(c, j, p) <= j.strokes}
  BY <1>1 DEF Under
<1>3. Beginning(c, j, j.at, j.try)
  <2>1. j.strokes \in Nat
    <3>1. j.strokes \in 0 .. Len(Line(c, j))
      BY DEF Ready, JobOK
    <3>2. Len(Line(c, j)) \in Nat
      BY LineFacts
    <3>3. QED
      BY <3>1, <3>2
  <2>2. ASSUME NEW p \in TypedBy(j, j.at, j.try), NEW q \in Spots(c, j, j.at, j.try), q < p
        PROVE  q \in TypedBy(j, j.at, j.try)
    <3>1. p \in Spots(c, j, j.at, j.try) /\ PressedAt(c, j, p) <= j.strokes
      BY <1>2
    <3>2. PressedAt(c, j, q) < PressedAt(c, j, p) /\ PressedAt(c, j, q) \in Int /\ PressedAt(c, j, p) \in Int
      <4>1. /\ PressedAt(c, j, p) \in 1 .. Len(Line(c, j)) /\ PressedAt(c, j, q) \in 1 .. Len(Line(c, j))
            /\ PressedAt(c, j, q) < PressedAt(c, j, p) /\ Len(Line(c, j)) \in Nat
        BY <2>2, <3>1, LineFacts
      <4>2. QED
        BY <4>1
    <3>3. PressedAt(c, j, q) <= j.strokes
      BY <2>1, <3>1, <3>2
    <3>4. QED
      BY <1>2, <3>3
  <2>3. QED
    BY <2>2 DEF Beginning
<1>4. ASSUME NEW x \in Range(j.out)
      PROVE  /\ x.ev \in 1..j.at /\ x.try \in Tries
             /\ x.place \in Spots(c, j, x.ev, x.try) /\ x.mark = Sign(c, j, x.ev, x.place)
             /\ x.ev = j.at => Order[x.try] <= Order[j.try]
  BY <1>1 DEF Belongs, Trying, PortalPhases
<1>5. \A i \in 1..j.at : \A t \in Tries :
       \/ i < j.at /\ t = j.won[i]
       \/ i = j.at /\ t = j.try /\ Beginning(c, j, i, t)
       \/ TypedBy(j, i, t) = {}
       \/ Beginning(c, j, i, t) /\ <<i, t>> \in j.failed
  BY <1>1, <1>3 DEF Behind
<1>6. QED
  BY <1>1, <1>4, <1>5, Zenon DEF Partly, Behind

(* Before and after its try it has typed nothing more. *)
LEMMA WaitingPartly ==
  ASSUME NEW c, NEW j, Ready(c, j), j.pc \in Trying \ {"send"}, Told(c, j)
  PROVE  Partly(c, j)
<1>1. InRow(j.out) /\ Belongs(c, j) /\ Behind(c, j)
  BY DEF Told, Ready
<1>2. ASSUME NEW x \in Range(j.out)
      PROVE  /\ x.ev \in 1..j.at /\ x.try \in Tries
             /\ x.place \in Spots(c, j, x.ev, x.try) /\ x.mark = Sign(c, j, x.ev, x.place)
             /\ x.ev = j.at => Order[x.try] <= Order[j.try]
  BY <1>1 DEF Belongs
<1>3. \A i \in 1..j.at : \A t \in Tries :
       \/ i < j.at /\ t = j.won[i]
       \/ TypedBy(j, i, t) = {}
       \/ Beginning(c, j, i, t) /\ <<i, t>> \in j.failed
  BY <1>1 DEF Behind
<1>4. QED
  BY <1>1, <1>2, <1>3, Zenon DEF Partly, Behind

LEMMA FirstTryNothing ==
  ASSUME NEW c, NEW j, Ready(c, j), Told(c, j), j.pc = "try"
  PROVE  TypedBy(j, j.at, j.try) = {}
<1>1. Belongs(c, j)
  BY DEF Told, Ready
<1>2. QED
  BY <1>1 DEF Belongs, TypedBy

LEMMA NothingYet ==
  ASSUME NEW c, NEW j, Ready(c, j), Told(c, j), j.pc \in {"event", "copy"}
  PROVE  \A x \in Range(j.out) : x.ev # j.at
<1>1. Belongs(c, j)
  BY DEF Told, Ready
<1>2. QED
  BY <1>1 DEF Belongs, Trying, PortalPhases

(* More is typed in the present try: the elements after the first n.        *)
Longer(out, more) ==
  /\ Len(out) \in Nat /\ DOMAIN out = 1 .. Len(out)
  /\ more \in Seq(Range(more)) /\ Len(more) \in Nat /\ DOMAIN more = 1 .. Len(more) /\ Len(out) <= Len(more)
  /\ \A k \in 1 .. Len(out) : more[k] = out[k]
Next2(c, j, more, k) ==
  /\ more[k].ev = j.at /\ more[k].try = j.try
  /\ more[k].place \in Spots(c, j, j.at, j.try)
  /\ more[k].mark = Sign(c, j, j.at, more[k].place)
Added(out, more) == {more[k].place : k \in Len(out) + 1 .. Len(more)}

LEMMA LongerElements ==
  ASSUME NEW out, NEW more, Longer(out, more)
  PROVE  \A x : x \in Range(more) <=> x \in Range(out) \/ \E k \in Len(out) + 1 .. Len(more) : x = more[k]
<1>1. ASSUME NEW x \in Range(more)
      PROVE  x \in Range(out) \/ \E k \in Len(out) + 1 .. Len(more) : x = more[k]
  <2>1. PICK k \in DOMAIN more : x = more[k]
    BY DEF Range
  <2>2. k \in 1 .. Len(out) \/ k \in Len(out) + 1 .. Len(more)
    BY DEF Longer
  <2>3. CASE k \in 1 .. Len(out)
    BY <2>1, <2>3 DEF Longer, Range
  <2>4. QED
    BY <2>1, <2>2, <2>3
<1>2. ASSUME NEW x \in Range(out) PROVE x \in Range(more)
  <2>1. PICK k \in DOMAIN out : x = out[k]
    BY DEF Range
  <2>2. k \in DOMAIN more /\ more[k] = out[k]
    BY DEF Longer
  <2>3. QED
    BY <2>1, <2>2 DEF Range
<1>3. ASSUME NEW k \in Len(out) + 1 .. Len(more) PROVE more[k] \in Range(more)
  <2>1. k \in DOMAIN more
    BY DEF Longer
  <2>2. QED
    BY <2>1 DEF Range
<1>4. QED
  BY <1>1, <1>2, <1>3

LEMMA MoreTyped ==
  ASSUME NEW c, NEW j, NEW J, Ready(c, j), Partly(c, j), j.try \in Tries,
         J.input = j.input, J.paste = j.paste, J.at = j.at, J.try = j.try, J.won = j.won,
         J.failed = j.failed,
         Longer(j.out, J.out),
         \A k \in Len(j.out) + 1 .. Len(J.out) : Next2(c, j, J.out, k),
         \A k \in Len(j.out) + 2 .. Len(J.out) : J.out[k - 1].place < J.out[k].place,
         Len(j.out) < Len(J.out) => \A p \in TypedBy(j, j.at, j.try) : p < J.out[Len(j.out) + 1].place,
         \A k \in Len(j.out) + 1 .. Len(J.out) : \A q \in Spots(c, j, j.at, j.try) :
           q < J.out[k].place => q \in TypedBy(j, j.at, j.try) \cup Added(j.out, J.out)
  PROVE  /\ Partly(c, J)
         /\ TypedBy(J, j.at, j.try) = TypedBy(j, j.at, j.try) \cup Added(j.out, J.out)
<1> DEFINE n == Len(j.out)
           m == Len(J.out)
           Old(x) == x \in Range(j.out)
           New(x) == \E k \in n + 1 .. m : x = J.out[k]
<1>1. n \in Nat /\ m \in Nat /\ n <= m /\ DOMAIN j.out = 1 .. n /\ DOMAIN J.out = 1 .. m
      /\ \A k \in 1 .. n : J.out[k] = j.out[k]
  BY DEF Longer
<1>2. \A x : x \in Range(J.out) <=> Old(x) \/ New(x)
  BY LongerElements
<1>3. /\ \A e : KeysOf(J, e) = KeysOf(j, e)
      /\ \A i, t : Spots(c, J, i, t) = Spots(c, j, i, t)
      /\ \A i, p : Sign(c, J, i, p) = Sign(c, j, i, p)
  BY Depends
<1>4. j.at \in Nat \ {0}
  BY ReadyFacts
<1>5. ASSUME NEW x, New(x)
      PROVE  /\ x.ev = j.at /\ x.try = j.try /\ x.place \in Spots(c, j, j.at, j.try)
             /\ x.mark = Sign(c, j, j.at, x.place) /\ x.place \in Added(j.out, J.out)
  BY <1>5 DEF Next2, Added
<1>6. ASSUME NEW x, Old(x)
      PROVE  /\ x.ev \in 1..j.at /\ x.try \in Tries
             /\ x.place \in Spots(c, j, x.ev, x.try) /\ x.mark = Sign(c, j, x.ev, x.place)
             /\ x.ev = j.at => Order[x.try] <= Order[j.try]
  BY <1>6 DEF Partly
<1>7. \A p \in Spots(c, j, j.at, j.try) : p \in Nat
  BY SpotFacts, ReadyFacts
<1>8. TypedBy(J, j.at, j.try) = TypedBy(j, j.at, j.try) \cup Added(j.out, J.out)
  <2>1. ASSUME NEW p \in TypedBy(J, j.at, j.try)
        PROVE  p \in TypedBy(j, j.at, j.try) \cup Added(j.out, J.out)
    <3>1. PICK x \in Range(J.out) : x.ev = j.at /\ x.try = j.try /\ p = x.place
      BY DEF TypedBy
    <3>2. CASE Old(x)
      BY <3>1, <3>2 DEF TypedBy
    <3>3. CASE New(x)
      BY <1>5, <3>1, <3>3
    <3>4. QED
      BY <1>2, <3>1, <3>2, <3>3
  <2>2. ASSUME NEW p \in TypedBy(j, j.at, j.try) PROVE p \in TypedBy(J, j.at, j.try)
    <3>1. PICK x \in Range(j.out) : x.ev = j.at /\ x.try = j.try /\ p = x.place
      BY DEF TypedBy
    <3>2. x \in Range(J.out)
      BY <1>2
    <3>3. QED
      BY <3>1, <3>2 DEF TypedBy
  <2>3. ASSUME NEW p \in Added(j.out, J.out) PROVE p \in TypedBy(J, j.at, j.try)
    <3>1. PICK k \in n + 1 .. m : p = J.out[k].place
      BY DEF Added
    <3>2. New(J.out[k])
      BY <3>1
    <3>3. J.out[k] \in Range(J.out) /\ J.out[k].ev = j.at /\ J.out[k].try = j.try
      BY <1>2, <1>5, <3>2
    <3>4. QED
      BY <3>1, <3>3 DEF TypedBy
  <2>4. QED
    BY <2>1, <2>2, <2>3
<1>9. ASSUME NEW i, NEW t, ~(i = j.at /\ t = j.try)
      PROVE  TypedBy(J, i, t) = TypedBy(j, i, t)
  <2>1. ASSUME NEW p \in TypedBy(J, i, t) PROVE p \in TypedBy(j, i, t)
    <3>1. PICK x \in Range(J.out) : x.ev = i /\ x.try = t /\ p = x.place
      BY DEF TypedBy
    <3>2. ~New(x)
      BY <1>5, <1>9, <3>1
    <3>3. QED
      BY <1>2, <3>1, <3>2 DEF TypedBy
  <2>2. ASSUME NEW p \in TypedBy(j, i, t) PROVE p \in TypedBy(J, i, t)
    <3>1. PICK x \in Range(j.out) : x.ev = i /\ x.try = t /\ p = x.place
      BY DEF TypedBy
    <3>2. QED
      BY <1>2, <3>1 DEF TypedBy
  <2>3. QED
    BY <2>1, <2>2
<1>10. InRow(J.out)
  <2>1. SUFFICES ASSUME NEW k \in DOMAIN J.out \ {1} PROVE Before(J.out[k - 1], J.out[k])
    BY DEF InRow
  <2>2. k \in Int /\ k - 1 >= 1 /\ k <= m
    BY <1>1
  <2>3. CASE k <= n
    <3>1. k \in DOMAIN j.out \ {1} /\ k \in 1 .. n /\ k - 1 \in 1 .. n
      BY <1>1, <2>2, <2>3
    <3>2. Before(j.out[k - 1], j.out[k])
      BY <3>1 DEF Partly, InRow
    <3>3. QED
      BY <1>1, <3>1, <3>2
  <2>4. CASE k = n + 1
    <3>1. n \in 1 .. n /\ k - 1 = n /\ k \in n + 1 .. m /\ n < m
      BY <1>1, <2>2, <2>4
    <3>2. J.out[k - 1] = j.out[n] /\ Old(j.out[n]) /\ New(J.out[k])
      BY <1>1, <3>1 DEF Range
    <3>3. PICK x : x = j.out[n]
      OBVIOUS
    <3>4. PICK y : y = J.out[k]
      OBVIOUS
    <3>5. /\ x.ev \in 1..j.at /\ x.try \in Tries
          /\ x.place \in Spots(c, j, x.ev, x.try)
          /\ x.ev = j.at => Order[x.try] <= Order[j.try]
      BY <1>6, <3>2, <3>3
    <3>6. y.ev = j.at /\ y.try = j.try
      BY <1>5, <3>2, <3>4
    <3>7. CASE x.ev < j.at
      BY <3>2, <3>3, <3>4, <3>6, <3>7 DEF Before
    <3>8. CASE x.ev = j.at /\ Order[x.try] < Order[j.try]
      BY <3>2, <3>3, <3>4, <3>6, <3>8 DEF Before
    <3>9. CASE x.ev = j.at /\ x.try = j.try
      <4>1. x.place \in TypedBy(j, j.at, j.try)
        BY <3>2, <3>3, <3>9 DEF TypedBy
      <4>2. x.place < y.place
        BY <2>4, <3>1, <3>4, <4>1
      <4>3. QED
        BY <3>2, <3>3, <3>4, <3>6, <3>9, <4>2 DEF Before
    <3>10. Order[x.try] \in 1 .. 4 /\ Order[j.try] \in 1 .. 4 /\ (Order[x.try] = Order[j.try] => x.try = j.try)
      BY <3>5, OrderOfTries
    <3>11. QED
      BY <1>4, <3>5, <3>7, <3>8, <3>9, <3>10
  <2>5. CASE k > n + 1
    <3>1. k \in n + 2 .. m /\ k \in n + 1 .. m /\ k - 1 \in n + 1 .. m
      BY <1>1, <2>2, <2>5
    <3>2. New(J.out[k]) /\ New(J.out[k - 1])
      BY <3>1
    <3>3. /\ J.out[k].ev = j.at /\ J.out[k].try = j.try
          /\ J.out[k - 1].ev = j.at /\ J.out[k - 1].try = j.try
      BY <1>5, <3>2
    <3>4. J.out[k - 1].place < J.out[k].place
      BY <3>1
    <3>5. QED
      BY <3>3, <3>4 DEF Before
  <2>6. QED
    BY <1>1, <2>2, <2>3, <2>4, <2>5
<1>11. ASSUME NEW x \in Range(J.out)
       PROVE  /\ x.ev \in 1..J.at /\ x.try \in Tries
              /\ x.place \in Spots(c, J, x.ev, x.try) /\ x.mark = Sign(c, J, x.ev, x.place)
              /\ x.ev = J.at => Order[x.try] <= Order[J.try]
  <2>1. CASE Old(x)
    BY <1>3, <1>6, <2>1
  <2>2. CASE New(x)
    <3>1. /\ x.ev = j.at /\ x.try = j.try /\ x.place \in Spots(c, j, j.at, j.try)
          /\ x.mark = Sign(c, j, j.at, x.place)
      BY <1>5, <2>2
    <3>2. j.at \in 1 .. j.at /\ Order[j.try] <= Order[j.try]
      BY <1>4, OrderOfTries
    <3>3. QED
      BY <1>3, <3>1, <3>2
  <2>3. QED
    BY <1>2, <2>1, <2>2
<1>12. j.won \in Seq(Tries) /\ DOMAIN j.won = 1 .. j.at - 1
  BY ReadyFacts
<1>13. ASSUME NEW i \in DOMAIN J.won
       PROVE  TypedBy(J, i, J.won[i]) = Spots(c, J, i, J.won[i])
  <2>1. i # j.at /\ i \in DOMAIN j.won
    BY <1>4, <1>12
  <2>2. TypedBy(J, i, j.won[i]) = TypedBy(j, i, j.won[i])
    BY <1>9, <2>1
  <2>3. TypedBy(j, i, j.won[i]) = Spots(c, j, i, j.won[i])
    BY <2>1 DEF Partly
  <2>4. QED
    BY <1>3, <2>2, <2>3
<1>14. ASSUME NEW i \in 1 .. J.at, NEW t \in Tries
       PROVE  \/ i < J.at /\ t = J.won[i]
              \/ i = J.at /\ t = J.try /\ Beginning(c, J, i, t)
              \/ TypedBy(J, i, t) = {}
              \/ Beginning(c, J, i, t) /\ <<i, t>> \in J.failed
  <2>1. CASE i = j.at /\ t = j.try
    <3>1. Beginning(c, j, i, t)
      <4>1. j.at \in 1 .. j.at /\ j.try \in Tries
        BY <1>4
      <4>2. \/ j.at < j.at /\ j.try = j.won[j.at]
            \/ j.at = j.at /\ j.try = j.try /\ Beginning(c, j, j.at, j.try)
            \/ TypedBy(j, j.at, j.try) = {}
            \/ Beginning(c, j, j.at, j.try) /\ <<j.at, j.try>> \in j.failed
        BY <4>1, Zenon DEF Partly
      <4>3. ~(j.at < j.at)
        BY <1>4
      <4>4. QED
        BY <2>1, <4>2, <4>3, Zenon DEF Beginning
    <3>2. ASSUME NEW p \in TypedBy(J, i, t), NEW q \in Spots(c, J, i, t), q < p
          PROVE  q \in TypedBy(J, i, t)
      <4>1. q \in Spots(c, j, i, t)
        BY <1>3, <3>2
      <4>2. CASE p \in TypedBy(j, i, t)
        BY <1>8, <2>1, <3>1, <3>2, <4>1, <4>2 DEF Beginning
      <4>3. CASE p \in Added(j.out, J.out)
        <5>1. PICK k \in n + 1 .. m : p = J.out[k].place
          BY <4>3 DEF Added
        <5>2. q \in TypedBy(j, j.at, j.try) \cup Added(j.out, J.out)
          BY <2>1, <3>2, <4>1, <5>1
        <5>3. QED
          BY <1>8, <2>1, <5>2
      <4>4. QED
        BY <1>8, <2>1, <3>2, <4>2, <4>3
    <3>3. QED
      BY <2>1, <3>2 DEF Beginning
  <2>2. CASE ~(i = j.at /\ t = j.try)
    <3>1. TypedBy(J, i, t) = TypedBy(j, i, t)
      BY <1>9, <2>2
    <3>2. Beginning(c, J, i, t) <=> Beginning(c, j, i, t)
      BY <1>3, <3>1 DEF Beginning
    <3>3. i \in 1 .. j.at
      BY <1>14
    <3>4. \/ i < j.at /\ t = j.won[i]
          \/ i = j.at /\ t = j.try /\ Beginning(c, j, i, t)
          \/ TypedBy(j, i, t) = {}
          \/ Beginning(c, j, i, t) /\ <<i, t>> \in j.failed
      BY <1>14, <3>3 DEF Partly
    <3>5. QED
      BY <2>2, <3>1, <3>2, <3>4
  <2>3. QED
    BY <2>1, <2>2
<1>15. QED
  BY <1>8, <1>10, <1>11, <1>13, <1>14, Zenon DEF Partly
-----------------------------------------------------------------------------
(* What becomes of a job when its try ends *)

Settings(c) ==
  /\ Shortcut(c.pasteKey) /\ c.method \in {"clipboard", "direct"}
  /\ c.backend \in {"auto", "portal", "wtype", "ydotool"}

(* The parts of a job that no try changes. *)
Same(J, j) == J.input = j.input /\ J.paste = j.paste /\ J.out = j.out /\ J.at = j.at /\ J.won = j.won

LEMMA JobFields ==
  ASSUME NEW j, DOMAIN j = Fields
  PROVE  {"pc", "input", "at", "paste", "try", "strokes", "sender", "out", "won", "failed", "copied"} = DOMAIN j
BY DEF Fields

LEMMA LaterTries ==
  ASSUME NEW j, j.try \in Tries
  PROVE  /\ Fallthrough(j) \in {"wtype", "ydotool", "none"}
         /\ Fallthrough(j) # "none" => Order[j.try] < Order[Fallthrough(j)]
         /\ Fallthrough(j) # "none" => settings.backend = "auto"
BY DEF Fallthrough, After, Tries, Order

LEMMA LostFields ==
  ASSUME NEW j, DOMAIN j = Fields
  PROVE  /\ DOMAIN Lost(j) = Fields /\ Same(Lost(j), j)
         /\ Lost(j).copied = j.copied /\ Lost(j).sender = j.sender
         /\ Lost(j).failed = j.failed \cup {<<j.at, j.try>>}
         /\ Lost(j).pc = IF Fallthrough(j) = "none" THEN "error" ELSE "try"
         /\ Lost(j).try = IF Fallthrough(j) = "none" THEN j.try ELSE Fallthrough(j)
BY DEF Lost, Fields, Same

LEMMA WonFields ==
  ASSUME NEW j, DOMAIN j = Fields
  PROVE  /\ DOMAIN Won(j) = Fields
         /\ Won(j).pc = "event" /\ Won(j).at = j.at + 1 /\ Won(j).won = Append(j.won, j.try)
         /\ Won(j).input = j.input /\ Won(j).paste = j.paste /\ Won(j).out = j.out
         /\ Won(j).copied = j.copied
BY DEF Won, Fields

(* What is told of a job is told of one in which the same is typed. *)
LEMMA SameTyped ==
  ASSUME NEW c, NEW j, NEW J, Same(J, j)
  PROVE  /\ \A e : KeysOf(J, e) = KeysOf(j, e)
         /\ \A i, t : Spots(c, J, i, t) = Spots(c, j, i, t)
         /\ \A i, p : Sign(c, J, i, p) = Sign(c, j, i, p)
         /\ \A i, t : TypedBy(J, i, t) = TypedBy(j, i, t)
         /\ \A i, t : Beginning(c, J, i, t) <=> Beginning(c, j, i, t)
         /\ Now(J) = Now(j) /\ Line(c, J) = Line(c, j)
         /\ \A p : PressedAt(c, J, p) = PressedAt(c, j, p)
<1>1. J.input = j.input /\ J.paste = j.paste /\ J.out = j.out /\ J.at = j.at
  BY DEF Same
<1>2. /\ \A i, t : Spots(c, J, i, t) = Spots(c, j, i, t)
      /\ \A i, t : TypedBy(J, i, t) = TypedBy(j, i, t)
  BY <1>1, Depends
<1>3. \A i, t : Beginning(c, J, i, t) <=> Beginning(c, j, i, t)
  BY <1>2 DEF Beginning
<1>4. QED
  BY <1>1, <1>2, <1>3, Depends

(* A try that failed leaves a beginning of the event. *)
LEMMA LostKeeps ==
  ASSUME NEW j, Ready(settings, j), Partly(settings, j), j.try \in Tries
  PROVE  JobOK(settings, Lost(j)) /\ Told(settings, Lost(j))
<1> DEFINE J == Lost(j)
<1>1. DOMAIN j = Fields /\ j.pc \notin {"idle", "look"}
  BY ReadyFacts DEF Ready, Begun, Trying, PortalPhases
<1>2. /\ DOMAIN J = Fields /\ Same(J, j)
      /\ J.failed = j.failed \cup {<<j.at, j.try>>}
      /\ J.pc = IF Fallthrough(j) = "none" THEN "error" ELSE "try"
      /\ J.try = IF Fallthrough(j) = "none" THEN j.try ELSE Fallthrough(j)
  BY <1>1, LostFields
<1> HIDE DEF J
<1>3. /\ Fallthrough(j) \in {"wtype", "ydotool", "none"}
      /\ Fallthrough(j) # "none" => Order[j.try] < Order[Fallthrough(j)]
  BY LaterTries
<1>4. J.pc \in {"error", "try"} /\ (J.pc = "try" => J.try \in {"wtype", "ydotool"} /\ Order[j.try] < Order[J.try])
  BY <1>2, <1>3
<1>5. JobOK(settings, J)
  <2>1. /\ J.input = j.input /\ J.at = j.at /\ J.paste = j.paste /\ J.won = j.won /\ J.out = j.out
    BY <1>2 DEF Same
  <2>2. /\ j.input \in Inputs /\ j.at \in 1..Len(j.input) + 1 /\ j.at <= Len(j.input)
        /\ Shortcut(j.paste) /\ j.won \in Seq(Tries) /\ Len(j.won) = j.at - 1
        /\ j.out \in Seq(Range(j.out))
    BY <1>1 DEF Ready, JobOK
  <2>3. QED
    BY <1>2, <1>4, <2>1, <2>2 DEF JobOK, Begun, Trying, PortalPhases
<1>6. /\ \A i, t : Spots(settings, J, i, t) = Spots(settings, j, i, t)
      /\ \A i, p : Sign(settings, J, i, p) = Sign(settings, j, i, p)
      /\ \A i, t : TypedBy(J, i, t) = TypedBy(j, i, t)
      /\ \A i, t : Beginning(settings, J, i, t) <=> Beginning(settings, j, i, t)
  BY <1>2, SameTyped
<1>7. J.out = j.out /\ J.at = j.at /\ J.won = j.won
  BY <1>2 DEF Same
<1>8. Belongs(settings, J)
  <2>1. SUFFICES ASSUME NEW x \in Range(j.out)
                 PROVE  /\ x.ev \in 1..j.at /\ x.try \in Tries
                        /\ x.place \in Spots(settings, j, x.ev, x.try)
                        /\ x.mark = Sign(settings, j, x.ev, x.place)
                        /\ x.ev = j.at =>
                             /\ J.pc \in Trying \cup {"error"}
                             /\ J.pc \in Trying => Order[x.try] <= Order[J.try]
                             /\ J.pc = "try" => x.try # J.try
    BY <1>6, <1>7 DEF Belongs
  <2>2. /\ x.ev \in 1..j.at /\ x.try \in Tries
        /\ x.place \in Spots(settings, j, x.ev, x.try) /\ x.mark = Sign(settings, j, x.ev, x.place)
        /\ x.ev = j.at => Order[x.try] <= Order[j.try]
    BY <2>1 DEF Partly
  <2>3. Order[x.try] \in 1 .. 4 /\ Order[j.try] \in 1 .. 4
    BY <2>2, OrderOfTries
  <2>4. J.pc = "try" => Order[J.try] \in 1 .. 4
    BY <1>4, OrderOfTries DEF Tries
  <2>5. J.pc \in Trying <=> J.pc = "try"
    BY <1>4 DEF Trying, PortalPhases
  <2>6. J.pc \in Trying \cup {"error"}
    BY <1>4, <2>5
  <2>7. ASSUME x.ev = j.at, J.pc = "try"
        PROVE  Order[x.try] <= Order[J.try] /\ x.try # J.try
    <3>1. Order[x.try] < Order[J.try]
      BY <1>4, <2>2, <2>3, <2>4, <2>7
    <3>2. QED
      BY <2>3, <2>4, <2>7, <3>1
  <2>8. QED
    BY <2>2, <2>5, <2>6, <2>7
<1>9. Behind(settings, J)
  <2>1. \A i \in DOMAIN j.won : TypedBy(j, i, j.won[i]) = Spots(settings, j, i, j.won[i])
    BY DEF Partly
  <2>2. ASSUME NEW i \in 1 .. j.at, NEW t \in Tries
        PROVE  \/ i < j.at /\ t = j.won[i]
               \/ TypedBy(j, i, t) = {}
               \/ Beginning(settings, j, i, t) /\ <<i, t>> \in J.failed
    BY <1>2 DEF Partly
  <2>3. QED
    BY <1>6, <1>7, <2>1, <2>2 DEF Behind
<1>10. Under(settings, J)
  BY <1>4 DEF Under
<1>11. QED
  BY <1>5, <1>7, <1>8, <1>9, <1>10 DEF Told, Partly, J

(* A try that went through is the whole event. *)
LEMMA WonKeeps ==
  ASSUME NEW c, NEW j, Ready(c, j), Partly(c, j), j.try \in Tries,
         TypedBy(j, j.at, j.try) = Spots(c, j, j.at, j.try)
  PROVE  JobOK(c, Won(j)) /\ Told(c, Won(j))
<1> DEFINE J == Won(j)
<1>1. DOMAIN j = Fields /\ j.pc \notin {"idle", "look"}
  BY ReadyFacts DEF Ready, Begun, Trying, PortalPhases
<1>2. /\ DOMAIN J = Fields
      /\ J.pc = "event" /\ J.at = j.at + 1 /\ J.won = Append(j.won, j.try)
      /\ J.input = j.input /\ J.paste = j.paste /\ J.out = j.out
  BY <1>1, WonFields
<1> HIDE DEF J
<1>3. /\ j.input \in Inputs /\ j.at \in Nat \ {0} /\ Len(j.input) \in Nat /\ j.at <= Len(j.input)
      /\ Shortcut(j.paste) /\ j.won \in Seq(Tries) /\ Len(j.won) = j.at - 1 /\ DOMAIN j.won = 1 .. j.at - 1
      /\ j.out \in Seq(Range(j.out))
  BY ReadyFacts DEF Ready
<1>4. /\ J.won \in Seq(Tries) /\ Len(J.won) = j.at /\ DOMAIN J.won = 1 .. j.at
      /\ \A i \in 1 .. j.at - 1 : J.won[i] = j.won[i]
      /\ J.won[j.at] = j.try
  <2>1. /\ J.won \in Seq(Tries) /\ Len(J.won) = Len(j.won) + 1 /\ DOMAIN J.won = 1 .. Len(j.won) + 1
        /\ \A i \in DOMAIN j.won : J.won[i] = j.won[i]
        /\ J.won[Len(j.won) + 1] = j.try
    BY <1>2, <1>3, AppendFacts
  <2>2. Len(j.won) + 1 = j.at
    BY <1>3
  <2>3. QED
    BY <1>3, <2>1, <2>2
<1>5. JobOK(c, J)
  <2>1. J.at \in 1 .. Len(j.input) + 1 /\ Len(J.won) = J.at - 1
    BY <1>2, <1>3, <1>4
  <2>2. QED
    BY <1>2, <1>3, <1>4, <2>1 DEF JobOK, Begun, Trying, PortalPhases
<1>6. /\ \A i, t : Spots(c, J, i, t) = Spots(c, j, i, t)
      /\ \A i, p : Sign(c, J, i, p) = Sign(c, j, i, p)
      /\ \A i, t : TypedBy(J, i, t) = TypedBy(j, i, t)
  <2>1. J.input = j.input /\ J.paste = j.paste /\ J.out = j.out
    BY <1>2
  <2>2. QED
    BY <2>1, Depends
<1>7. \A i, t : Beginning(c, J, i, t) <=> Beginning(c, j, i, t)
  BY <1>6 DEF Beginning
<1>8. \A x \in Range(j.out) :
        /\ x.ev \in 1..j.at /\ x.try \in Tries
        /\ x.place \in Spots(c, j, x.ev, x.try) /\ x.mark = Sign(c, j, x.ev, x.place)
  BY DEF Partly
<1>9. Belongs(c, J)
  <2>1. ASSUME NEW x \in Range(j.out) PROVE x.ev \in 1 .. j.at + 1 /\ x.ev # j.at + 1
    BY <1>3, <1>8
  <2>2. QED
    BY <1>2, <1>6, <1>8, <2>1 DEF Belongs
<1>10. \A t : TypedBy(j, j.at + 1, t) = {}
  <2>1. \A x \in Range(j.out) : x.ev # j.at + 1
    BY <1>3, <1>8
  <2>2. QED
    BY <2>1 DEF TypedBy
<1>11. Behind(c, J)
  <2>1. ASSUME NEW i \in DOMAIN J.won PROVE TypedBy(J, i, J.won[i]) = Spots(c, J, i, J.won[i])
    <3>1. i = j.at \/ i \in 1 .. j.at - 1
      BY <1>3, <1>4, <2>1
    <3>2. CASE i = j.at
      BY <1>4, <1>6, <3>2
    <3>3. CASE i \in 1 .. j.at - 1
      BY <1>3, <1>4, <1>6, <3>3 DEF Partly
    <3>4. QED
      BY <3>1, <3>2, <3>3
  <2>2. ASSUME NEW i \in 1 .. J.at, NEW t \in Tries
        PROVE  \/ i < J.at /\ t = J.won[i]
               \/ TypedBy(J, i, t) = {}
               \/ Beginning(c, J, i, t) /\ <<i, t>> \in J.failed
    <3>1. CASE i = j.at + 1
      BY <1>6, <1>10, <3>1
    <3>2. CASE i \in 1 .. j.at
      <4>1. i < J.at
        BY <1>2, <1>3, <3>2
      <4>2. \/ i < j.at /\ t = j.won[i]
            \/ i = j.at /\ t = j.try
            \/ TypedBy(j, i, t) = {}
            \/ Beginning(c, j, i, t) /\ <<i, t>> \in j.failed
        BY <3>2 DEF Partly
      <4>3. J.failed = j.failed
        BY <1>1 DEF J, Won, Fields
      <4>4. i < j.at => i \in 1 .. j.at - 1
        BY <1>3, <3>2
      <4>5. QED
        BY <1>4, <1>6, <1>7, <4>1, <4>2, <4>3, <4>4
    <3>3. QED
      BY <1>2, <1>3, <2>2, <3>1, <3>2
  <2>3. QED
    BY <2>1, <2>2 DEF Behind
<1>12. Under(c, J)
  BY <1>2 DEF Under
<1>13. QED
  BY <1>2, <1>5, <1>9, <1>11, <1>12 DEF Told, Partly, J
-----------------------------------------------------------------------------
(* What a job types through the portal, stroke by stroke *)

(* A job that sends with strokes left, and its next stroke x. *)
Striking(c, j, x) ==
  /\ Ready(c, j) /\ j.pc = "send"
  /\ j.strokes < Len(Line(c, j)) /\ x = Line(c, j)[j.strokes + 1]

LEMMA StrokeKinds ==
  ASSUME NEW c, NEW j, NEW x, Striking(c, j, x)
  PROVE  /\ j.strokes \in Nat /\ j.strokes + 1 \in 1 .. Len(Line(c, j)) /\ j.try \in {"portal", "again"}
         /\ TypingIn(c, Now(j)) => \E p \in 1 .. Len(Normalized(Now(j).text)) :
              \/ j.strokes + 1 = 2 * p - 1 /\ x = Press(Normalized(Now(j).text)[p], p)
              \/ j.strokes = 2 * p - 1 /\ x = Release(Normalized(Now(j).text)[p], p)
         /\ ~TypingIn(c, Now(j)) =>
              \/ j.strokes + 1 \in 1 .. Len(KeysOf(j, Now(j))) /\ x = Press(KeysOf(j, Now(j))[j.strokes + 1], 1)
              \/ /\ j.strokes >= Len(KeysOf(j, Now(j)))
                 /\ 2 * Len(KeysOf(j, Now(j))) - j.strokes \in 1 .. Len(KeysOf(j, Now(j)))
                 /\ x = Release(KeysOf(j, Now(j))[2 * Len(KeysOf(j, Now(j))) - j.strokes], 1)
<1>1. Ready(c, j) /\ j.pc = "send" /\ j.strokes < Len(Line(c, j)) /\ x = Line(c, j)[j.strokes + 1]
  BY DEF Striking
<1>2. IsEvent(Now(j)) /\ Now(j) = j.input[j.at] /\ Shortcut(KeysOf(j, Now(j)))
  BY <1>1, ReadyFacts
<1>3. /\ Len(Line(c, j)) \in Nat
      /\ TypingIn(c, Now(j)) => Len(Line(c, j)) = 2 * Len(Normalized(Now(j).text))
      /\ ~TypingIn(c, Now(j)) => Len(Line(c, j)) = 2 * Len(KeysOf(j, Now(j)))
  BY <1>1, LineFacts
<1>4. j.strokes \in 0 .. Len(Line(c, j)) /\ j.try \in {"portal", "again"}
  BY <1>1 DEF Ready, JobOK
<1>5. j.strokes \in Nat /\ j.strokes + 1 \in 1 .. Len(Line(c, j))
  BY <1>1, <1>3, <1>4
<1>6. ASSUME TypingIn(c, Now(j))
      PROVE  \E p \in 1 .. Len(Normalized(Now(j).text)) :
              \/ j.strokes + 1 = 2 * p - 1 /\ x = Press(Normalized(Now(j).text)[p], p)
              \/ j.strokes = 2 * p - 1 /\ x = Release(Normalized(Now(j).text)[p], p)
  <2>1. PICK u : u = Normalized(Now(j).text)
    OBVIOUS
  <2>2. u \in Seq(Range(u)) /\ Len(u) \in Nat
    <3>1. IsEvent(j.input[j.at]) /\ TypingIn(c, j.input[j.at]) /\ u = Normalized(j.input[j.at].text)
      BY <1>2, <1>6, <2>1
    <3>2. QED
      BY <3>1, SpotFacts
  <2>3. Line(c, j) = TextStrokes(u)
    BY <1>6, <2>1 DEF Line
  <2>4. \A p \in 1 .. Len(u) : TextStrokes(u)[2 * p - 1] = Press(u[p], p) /\ TextStrokes(u)[2 * p] = Release(u[p], p)
    BY <2>2, TextLine
  <2>5. j.strokes + 1 <= 2 * Len(u)
    BY <1>3, <1>5, <1>6, <2>1, <2>2
  <2>6. PICK p \in 1 .. Len(u) : j.strokes + 1 = 2 * p - 1 \/ j.strokes + 1 = 2 * p
    <3>1. (j.strokes + 2) \div 2 \in 1 .. Len(u)
      BY <1>5, <2>2, <2>5
    <3>2. j.strokes + 1 = 2 * ((j.strokes + 2) \div 2) - 1 \/ j.strokes + 1 = 2 * ((j.strokes + 2) \div 2)
      BY <1>5
    <3>3. QED
      BY <3>1, <3>2
  <2>7. CASE j.strokes + 1 = 2 * p - 1
    BY <1>1, <2>1, <2>3, <2>4, <2>7
  <2>8. CASE j.strokes + 1 = 2 * p
    <3>1. j.strokes = 2 * p - 1
      BY <1>5, <2>8
    <3>2. x = Release(u[p], p)
      BY <1>1, <2>3, <2>4, <2>8
    <3>3. QED
      BY <2>1, <3>1, <3>2
  <2>9. QED
    BY <2>6, <2>7, <2>8
<1>7. ASSUME ~TypingIn(c, Now(j))
      PROVE  \/ j.strokes + 1 \in 1 .. Len(KeysOf(j, Now(j))) /\ x = Press(KeysOf(j, Now(j))[j.strokes + 1], 1)
             \/ /\ j.strokes >= Len(KeysOf(j, Now(j)))
                /\ 2 * Len(KeysOf(j, Now(j))) - j.strokes \in 1 .. Len(KeysOf(j, Now(j)))
                /\ x = Release(KeysOf(j, Now(j))[2 * Len(KeysOf(j, Now(j))) - j.strokes], 1)
  <2>1. PICK k : k = KeysOf(j, Now(j))
    OBVIOUS
  <2>2. k \in Seq(Range(k)) /\ Len(k) \in Nat
    BY <1>2, <2>1, ShortcutKeys
  <2>3. Line(c, j) = KeySequence(k)
    BY <1>7, <2>1 DEF Line
  <2>4. /\ \A i \in 1 .. Len(k) : KeySequence(k)[i] = Press(k[i], 1)
        /\ \A i \in Len(k) + 1 .. 2 * Len(k) :
             /\ 2 * Len(k) + 1 - i \in 1 .. Len(k)
             /\ KeySequence(k)[i] = Release(k[2 * Len(k) + 1 - i], 1)
    BY <2>2, KeyLine
  <2>5. j.strokes + 1 <= 2 * Len(k)
    BY <1>3, <1>5, <1>7, <2>1, <2>2
  <2>6. CASE j.strokes + 1 <= Len(k)
    <3>1. j.strokes + 1 \in 1 .. Len(k)
      BY <1>5, <2>2, <2>6
    <3>2. QED
      BY <1>1, <2>1, <2>3, <2>4, <3>1
  <2>7. CASE j.strokes + 1 > Len(k)
    <3>1. j.strokes + 1 \in Len(k) + 1 .. 2 * Len(k) /\ j.strokes >= Len(k)
      BY <1>5, <2>2, <2>5, <2>7
    <3>2. 2 * Len(k) + 1 - (j.strokes + 1) = 2 * Len(k) - j.strokes
      BY <1>5, <2>2
    <3>3. QED
      BY <1>1, <2>1, <2>3, <2>4, <3>1, <3>2
  <2>8. QED
    BY <1>5, <2>2, <2>6, <2>7
<1>8. QED
  BY <1>4, <1>5, <1>6, <1>7

(* The strokes that show are those that press a place. *)
Shows(x) == x.down /\ x.key \notin Modifiers
Skipped(c, j, x) == TypingIn(c, Now(j)) /\ x.key \in NoKeysym

LEMMA StrokeShows ==
  ASSUME NEW c, NEW j, NEW x, Striking(c, j, x), ~Skipped(c, j, x)
  PROVE  /\ x.down \in BOOLEAN
         /\ Shows(x) => /\ x.place \in Spots(c, j, j.at, j.try)
                        /\ PressedAt(c, j, x.place) = j.strokes + 1
                        /\ x.key = Sign(c, j, j.at, x.place)
         /\ ~Shows(x) => \A p \in Spots(c, j, j.at, j.try) : PressedAt(c, j, p) # j.strokes + 1
         /\ TypingIn(c, Now(j)) =>
              \A p \in DOMAIN Normalized(Now(j).text) :
                j.strokes + 1 = 2 * p - 1 => Normalized(Now(j).text)[p] \notin NoKeysym
<1>1. Ready(c, j)
  BY DEF Striking
<1>2. IsEvent(Now(j)) /\ Now(j) = j.input[j.at] /\ Shortcut(KeysOf(j, Now(j)))
  BY <1>1, ReadyFacts
<1>3. j.strokes \in Nat /\ j.try \in {"portal", "again"}
  BY StrokeKinds
<1>4. CASE TypingIn(c, Now(j))
  <2>1. PICK u : u = Normalized(Now(j).text)
    OBVIOUS
  <2>2. /\ Len(u) \in Nat /\ DOMAIN u = 1 .. Len(u)
        /\ \A p \in DOMAIN u : u[p] \notin Modifiers
    <3>1. IsEvent(j.input[j.at]) /\ TypingIn(c, j.input[j.at]) /\ u = Normalized(j.input[j.at].text)
      BY <1>2, <1>4, <2>1
    <3>2. QED
      BY <3>1, SpotFacts
  <2>3. PICK p \in 1 .. Len(u) :
              \/ j.strokes + 1 = 2 * p - 1 /\ x = Press(u[p], p)
              \/ j.strokes = 2 * p - 1 /\ x = Release(u[p], p)
    BY <1>4, <2>1, StrokeKinds
  <2>4. \A q : PressedAt(c, j, q) = 2 * q - 1
    BY <1>4 DEF PressedAt
  <2>5. x.key \notin NoKeysym
    BY <1>4 DEF Skipped
  <2>6. Spots(c, j, j.at, j.try) = {q \in DOMAIN u : u[q] \notin NoKeysym}
    BY <1>2, <1>3, <1>4, <2>1 DEF Spots
  <2>7. \A q : Sign(c, j, j.at, q) = u[q]
    BY <1>2, <1>4, <2>1 DEF Sign
  <2>8. CASE j.strokes + 1 = 2 * p - 1 /\ x = Press(u[p], p)
    <3>1. x.down = TRUE /\ x.key = u[p] /\ x.place = p
      BY <2>8 DEF Press
    <3>2. p \in DOMAIN u /\ Shows(x)
      BY <2>2, <3>1 DEF Shows
    <3>3. ASSUME NEW q \in DOMAIN u, j.strokes + 1 = 2 * q - 1 PROVE q = p
      BY <2>2, <2>8, <3>3
    <3>4. QED
      BY <1>4, <2>1, <2>4, <2>5, <2>6, <2>7, <2>8, <3>1, <3>2, <3>3
  <2>9. CASE j.strokes = 2 * p - 1 /\ x = Release(u[p], p)
    <3>1. x.down = FALSE
      BY <2>9 DEF Release
    <3>2. ~Shows(x)
      BY <3>1 DEF Shows
    <3>3. ASSUME NEW q \in DOMAIN u PROVE j.strokes + 1 # 2 * q - 1
      BY <2>2, <2>9
    <3>4. QED
      BY <1>4, <2>1, <2>4, <2>6, <3>1, <3>2, <3>3
  <2>10. QED
    BY <2>3, <2>8, <2>9
<1>5. CASE ~TypingIn(c, Now(j))
  <2>1. PICK k : k = KeysOf(j, Now(j))
    OBVIOUS
  <2>2. /\ Len(k) \in Nat \ {0} /\ DOMAIN k = 1 .. Len(k)
        /\ \A i \in DOMAIN k : k[i] \in Modifiers <=> i # Len(k)
        /\ Last(k) = k[Len(k)]
    BY <1>2, <2>1, ShortcutKeys
  <2>3. /\ Spots(c, j, j.at, j.try) = {1} /\ \A q : PressedAt(c, j, q) = Len(k)
        /\ \A q : Sign(c, j, j.at, q) = Last(k)
    BY <1>2, <1>5, <2>1 DEF Spots, PressedAt, Sign
  <2>4. CASE j.strokes + 1 \in 1 .. Len(k) /\ x = Press(k[j.strokes + 1], 1)
    <3>1. x.down = TRUE /\ x.key = k[j.strokes + 1] /\ x.place = 1
      BY <2>4 DEF Press
    <3>2. Shows(x) <=> j.strokes + 1 = Len(k)
      BY <2>2, <2>4, <3>1 DEF Shows
    <3>3. QED
      BY <1>5, <2>2, <2>3, <3>1, <3>2
  <2>5. CASE j.strokes >= Len(k) /\ \E i : x = Release(i, 1)
    <3>1. x.down = FALSE
      BY <2>5 DEF Release
    <3>2. ~Shows(x) /\ j.strokes + 1 # Len(k)
      BY <1>3, <2>2, <2>5, <3>1 DEF Shows
    <3>3. QED
      BY <1>5, <2>3, <3>1, <3>2
  <2>6. QED
    BY <1>5, <2>1, <2>4, <2>5, StrokeKinds
<1>6. QED
  BY <1>4, <1>5
LEMMA SamePartly ==
  ASSUME NEW c, NEW j, NEW J, Same(J, j), J.try = j.try, J.failed = j.failed, Partly(c, j)
  PROVE  Partly(c, J)
<1>1. /\ \A i, t : Spots(c, J, i, t) = Spots(c, j, i, t)
      /\ \A i, p : Sign(c, J, i, p) = Sign(c, j, i, p)
      /\ \A i, t : TypedBy(J, i, t) = TypedBy(j, i, t)
      /\ \A i, t : Beginning(c, J, i, t) <=> Beginning(c, j, i, t)
  BY SameTyped
<1>2. J.out = j.out /\ J.at = j.at /\ J.won = j.won
  BY DEF Same
<1>3. InRow(J.out)
  BY <1>2 DEF Partly
<1>4. \A x \in Range(J.out) :
       /\ x.ev \in 1..J.at /\ x.try \in Tries
       /\ x.place \in Spots(c, J, x.ev, x.try) /\ x.mark = Sign(c, J, x.ev, x.place)
       /\ x.ev = J.at => Order[x.try] <= Order[J.try]
  BY <1>1, <1>2 DEF Partly
<1>5. \A i \in DOMAIN J.won : TypedBy(J, i, J.won[i]) = Spots(c, J, i, J.won[i])
  BY <1>1, <1>2 DEF Partly
<1>6. \A i \in 1..J.at : \A t \in Tries :
       \/ i < J.at /\ t = J.won[i]
       \/ i = J.at /\ t = J.try /\ Beginning(c, J, i, t)
       \/ TypedBy(J, i, t) = {}
       \/ Beginning(c, J, i, t) /\ <<i, t>> \in J.failed
  BY <1>1, <1>2 DEF Partly
<1>7. QED
  BY <1>3, <1>4, <1>5, <1>6 DEF Partly

LEMMA PartlySending ==
  ASSUME NEW c, NEW j, j.pc = "send", Partly(c, j), Under(c, j)
  PROVE  Told(c, j)
<1>1. Belongs(c, j)
  BY DEF Partly, Belongs, Trying, PortalPhases
<1>2. \A i \in 1..j.at : \A t \in Tries :
       \/ i < j.at /\ t = j.won[i]
       \/ i = j.at /\ t = j.try /\ j.pc = "send"
       \/ TypedBy(j, i, t) = {}
       \/ Beginning(c, j, i, t) /\ <<i, t>> \in j.failed
  BY DEF Partly
<1>3. \A i \in DOMAIN j.won : TypedBy(j, i, j.won[i]) = Spots(c, j, i, j.won[i])
  BY DEF Partly
<1>4. Behind(c, j)
  BY <1>2, <1>3, Zenon DEF Behind
<1>5. InRow(j.out)
  BY DEF Partly
<1>6. QED
  BY <1>1, <1>4, <1>5 DEF Told

(* A stroke arrives. *)
LEMMA StrokeKeeps ==
  ASSUME NEW c, NEW j, NEW x, Striking(c, j, x), ~Skipped(c, j, x), Told(c, j),
         NEW e, e.ev = j.at, e.try = j.try, e.place = x.place, e.mark = x.key,
         NEW J, J.input = j.input, J.paste = j.paste, J.at = j.at, J.try = j.try, J.won = j.won,
         J.failed = j.failed, J.pc = "send",
         J.out = IF Shows(x) THEN Append(j.out, e) ELSE j.out
  PROVE  /\ Partly(c, J) /\ J.out \in Seq(Range(J.out))
         /\ J.strokes = j.strokes + 1 => Told(c, J)
<1>1. Ready(c, j) /\ j.pc = "send"
  BY DEF Striking
<1>2. Partly(c, j)
  BY <1>1, SendingPartly
<1>3. /\ j.out \in Seq(Range(j.out)) /\ Len(j.out) \in Nat /\ DOMAIN j.out = 1 .. Len(j.out)
      /\ IsEvent(j.input[j.at])
  BY <1>1, ReadyFacts
<1>4. TypedBy(j, j.at, j.try) = {p \in Spots(c, j, j.at, j.try) : PressedAt(c, j, p) <= j.strokes}
  BY <1>1 DEF Told, Under, Ready
<1>5. j.strokes \in Nat /\ j.try \in Tries
  BY StrokeKinds DEF Tries
<1>6. \A p \in Spots(c, j, j.at, j.try) : p \in Nat /\ PressedAt(c, j, p) \in Int
  <2>1. \A p \in Spots(c, j, j.at, j.try) : p \in Nat
    BY <1>3, SpotFacts
  <2>2. \A p \in Spots(c, j, j.at, j.try) : PressedAt(c, j, p) \in 1 .. Len(Line(c, j))
    BY <1>1, LineFacts
  <2>3. Len(Line(c, j)) \in Nat
    BY <1>1, LineFacts
  <2>4. QED
    BY <2>1, <2>2, <2>3
<1>7. \A p, q \in Spots(c, j, j.at, j.try) : q < p => PressedAt(c, j, q) < PressedAt(c, j, p)
  BY <1>1, LineFacts
<1>8. /\ \A i, t : Spots(c, J, i, t) = Spots(c, j, i, t)
      /\ \A p : PressedAt(c, J, p) = PressedAt(c, j, p)
  BY Depends
<1>9. CASE Shows(x)
  <2>1. /\ x.place \in Spots(c, j, j.at, j.try)
        /\ PressedAt(c, j, x.place) = j.strokes + 1
        /\ x.key = Sign(c, j, j.at, x.place)
    BY <1>9, StrokeShows
  <2> DEFINE S == Spots(c, j, j.at, j.try)
             T == TypedBy(j, j.at, j.try)
             n == Len(j.out)
  <2>2. J.out = Append(j.out, e)
    BY <1>9
  <2>3. /\ J.out \in Seq(Range(J.out)) /\ Len(J.out) = n + 1 /\ DOMAIN J.out = 1 .. n + 1
        /\ \A i \in 1 .. n : J.out[i] = j.out[i]
        /\ J.out[n + 1] = e
    <3> DEFINE R == Range(j.out) \cup {e}
    <3>1. j.out \in Seq(R) /\ e \in R
      BY <1>3, SeqMonotonic
    <3> HIDE DEF R
    <3>2. QED
      BY <1>3, <2>2, <3>1, AppendFacts, RangeOfAppend
  <2>4. Longer(j.out, J.out)
    BY <1>3, <2>3 DEF Longer
  <2>5. \A k \in n + 1 .. Len(J.out) : k = n + 1
    BY <1>3, <2>3
  <2>6. Added(j.out, J.out) = {x.place}
    BY <1>3, <2>3, <2>5 DEF Added
  <2>7. \A k \in n + 1 .. Len(J.out) : Next2(c, j, J.out, k)
    BY <2>1, <2>3, <2>5 DEF Next2
  <2>8. \A k \in n + 2 .. Len(J.out) : J.out[k - 1].place < J.out[k].place
    BY <1>3, <2>3
  <2>9. ASSUME NEW p \in T PROVE p < x.place
    <3>1. p \in S /\ PressedAt(c, j, p) <= j.strokes /\ p \in Nat /\ x.place \in Nat
      BY <1>4, <1>6, <2>1
    <3>2. p # x.place
      BY <1>5, <2>1, <3>1
    <3>3. ~(x.place < p)
      BY <1>5, <1>6, <1>7, <2>1, <3>1
    <3>4. QED
      BY <3>1, <3>2, <3>3
  <2>10. ASSUME NEW q \in S, q < x.place PROVE q \in T
    <3>1. PressedAt(c, j, q) < j.strokes + 1 /\ PressedAt(c, j, q) \in Int
      BY <1>6, <1>7, <2>1, <2>10
    <3>2. PressedAt(c, j, q) <= j.strokes
      BY <1>5, <3>1
    <3>3. QED
      BY <1>4, <3>2
  <2>11. n < Len(J.out) => \A p \in T : p < J.out[n + 1].place
    BY <2>3, <2>9
  <2>12. \A k \in n + 1 .. Len(J.out) : \A q \in S : q < J.out[k].place => q \in T \cup Added(j.out, J.out)
    BY <2>3, <2>5, <2>10
  <2>13. /\ Partly(c, J)
         /\ TypedBy(J, j.at, j.try) = T \cup {x.place}
    <3> HIDE DEF Added, Longer, Next2, Spots, TypedBy
    <3>1. \A k \in Len(j.out) + 1 .. Len(J.out) : Next2(c, j, J.out, k)
      BY <2>7
    <3>2. \A k \in Len(j.out) + 2 .. Len(J.out) : J.out[k - 1].place < J.out[k].place
      BY <2>8
    <3>3. Len(j.out) < Len(J.out) => \A p \in TypedBy(j, j.at, j.try) : p < J.out[Len(j.out) + 1].place
      BY <2>11
    <3>4. \A k \in Len(j.out) + 1 .. Len(J.out) : \A q \in Spots(c, j, j.at, j.try) :
            q < J.out[k].place => q \in TypedBy(j, j.at, j.try) \cup Added(j.out, J.out)
      BY <2>12
    <3> HIDE DEF S, T, n
    <3>5. /\ Partly(c, J)
          /\ TypedBy(J, j.at, j.try) = TypedBy(j, j.at, j.try) \cup Added(j.out, J.out)
      BY <1>1, <1>2, <1>5, <2>4, <3>1, <3>2, <3>3, <3>4, MoreTyped
    <3>6. QED
      BY <2>6, <3>5 DEF T
  <2>14. ASSUME J.strokes = j.strokes + 1 PROVE Told(c, J)
    <3>1. ASSUME NEW p \in S
          PROVE  p \in T \cup {x.place} <=> PressedAt(c, j, p) <= j.strokes + 1
      <4>1. PressedAt(c, j, p) \in Int /\ p \in Nat /\ x.place \in Nat
        BY <1>6, <2>1, <3>1
      <4>2. CASE p = x.place
        BY <1>5, <2>1, <4>2
      <4>3. CASE p < x.place
        <5>1. p \in T /\ PressedAt(c, j, p) < j.strokes + 1
          BY <1>7, <2>1, <2>10, <3>1, <4>3
        <5>2. QED
          BY <1>5, <4>1, <5>1
      <4>4. CASE x.place < p
        <5>1. PressedAt(c, j, p) > j.strokes + 1
          BY <1>5, <1>7, <2>1, <3>1, <4>1, <4>4
        <5>2. ~(PressedAt(c, j, p) <= j.strokes)
          BY <1>5, <4>1, <5>1
        <5>3. p \notin T /\ p # x.place
          BY <1>4, <4>1, <4>4, <5>2
        <5>4. QED
          BY <1>5, <4>1, <5>1, <5>3
      <4>5. QED
        BY <4>1, <4>2, <4>3, <4>4
    <3>2. T \subseteq S /\ x.place \in S
      BY <1>4, <2>1
    <3>3. Under(c, J)
      BY <1>8, <2>13, <2>14, <3>1, <3>2 DEF Under
    <3>4. QED
      BY <2>13, <3>3, PartlySending
  <2>15. QED
    BY <2>3, <2>13, <2>14
<1>10. CASE ~Shows(x)
  <2>1. J.out = j.out /\ Same(J, j)
    BY <1>10 DEF Same
  <2>2. Partly(c, J)
    BY <1>2, <2>1, SamePartly
  <2>3. ASSUME J.strokes = j.strokes + 1 PROVE Told(c, J)
    <3>1. \A p \in Spots(c, j, j.at, j.try) : PressedAt(c, j, p) # j.strokes + 1
      BY <1>10, StrokeShows
    <3>2. \A p \in Spots(c, j, j.at, j.try) : PressedAt(c, j, p) <= j.strokes <=> PressedAt(c, j, p) <= j.strokes + 1
      BY <1>5, <1>6, <3>1
    <3>3. TypedBy(J, j.at, j.try) = TypedBy(j, j.at, j.try)
      BY <2>1, SameTyped
    <3>4. Under(c, J)
      BY <1>4, <1>8, <2>3, <3>2, <3>3 DEF Under
    <3>5. QED
      BY <2>2, <3>4, PartlySending
  <2>4. QED
    BY <1>3, <2>1, <2>2, <2>3
<1>11. QED
  BY <1>9, <1>10

(* A character without a keysym is passed over: no place of the event. *)
LEMMA SkipKeeps ==
  ASSUME NEW c, NEW j, NEW x, Striking(c, j, x), Skipped(c, j, x), Told(c, j),
         NEW J, Same(J, j), J.try = j.try, J.failed = j.failed, J.pc = "send", J.strokes = j.strokes + 2
  PROVE  /\ Told(c, J) /\ J.strokes \in 0 .. Len(Line(c, j))
         /\ \A p \in DOMAIN Normalized(Now(j).text) :
              J.strokes = 2 * p - 1 => Normalized(Now(j).text)[p] \notin NoKeysym
<1>1. Ready(c, j) /\ j.pc = "send" /\ TypingIn(c, Now(j)) /\ x.key \in NoKeysym
  BY DEF Striking, Skipped
<1>2. IsEvent(Now(j)) /\ Now(j) = j.input[j.at]
  BY <1>1, ReadyFacts
<1>3. j.strokes \in Nat /\ j.try \in {"portal", "again"}
  BY StrokeKinds
<1>4. PICK u : u = Normalized(Now(j).text)
  OBVIOUS
<1>5. Len(u) \in Nat /\ DOMAIN u = 1 .. Len(u)
  <2>1. IsEvent(j.input[j.at]) /\ TypingIn(c, j.input[j.at]) /\ u = Normalized(j.input[j.at].text)
    BY <1>1, <1>2, <1>4
  <2>2. QED
    BY <2>1, SpotFacts
<1>6. PICK p \in 1 .. Len(u) :
         \/ j.strokes + 1 = 2 * p - 1 /\ x = Press(u[p], p)
         \/ j.strokes = 2 * p - 1 /\ x = Release(u[p], p)
  BY <1>1, <1>4, StrokeKinds
<1>7. u[p] \in NoKeysym
  BY <1>1, <1>6 DEF Press, Release
<1>8. \A q \in DOMAIN u : j.strokes = 2 * q - 1 => u[q] \notin NoKeysym
  BY <1>1, <1>4 DEF Ready, JobOK
<1>9. j.strokes = 2 * p - 2
  BY <1>3, <1>5, <1>6, <1>7, <1>8
<1>10. Len(Line(c, j)) = 2 * Len(u)
  BY <1>1, <1>4, LineFacts
<1>11. J.strokes \in 0 .. Len(Line(c, j))
  BY <1>5, <1>9, <1>10
<1>12. \A q \in DOMAIN u : J.strokes # 2 * q - 1
  BY <1>5, <1>9
<1>13. Spots(c, j, j.at, j.try) = {q \in DOMAIN u : u[q] \notin NoKeysym}
  BY <1>1, <1>2, <1>3, <1>4 DEF Spots
<1>14. \A q : PressedAt(c, j, q) = 2 * q - 1
  BY <1>1 DEF PressedAt
<1>15. \A q \in Spots(c, j, j.at, j.try) : PressedAt(c, j, q) <= j.strokes <=> PressedAt(c, j, q) <= J.strokes
  <2>1. SUFFICES ASSUME NEW q \in DOMAIN u, q # p
                 PROVE  2 * q - 1 <= j.strokes <=> 2 * q - 1 <= J.strokes
    BY <1>7, <1>13, <1>14
  <2>2. q \in Int /\ p \in Int /\ j.strokes = 2 * p - 2 /\ J.strokes = 2 * p
    BY <1>5, <1>9
  <2>3. QED
    BY <2>1, <2>2
<1>16. TypedBy(j, j.at, j.try) = {q \in Spots(c, j, j.at, j.try) : PressedAt(c, j, q) <= j.strokes}
  BY <1>1 DEF Told, Under, Ready
<1>17. /\ \A i, t : Spots(c, J, i, t) = Spots(c, j, i, t)
       /\ \A i, t : TypedBy(J, i, t) = TypedBy(j, i, t)
       /\ \A q : PressedAt(c, J, q) = PressedAt(c, j, q)
  BY SameTyped
<1>18. J.at = j.at
  BY DEF Same
<1>19. Under(c, J)
  BY <1>15, <1>16, <1>17, <1>18 DEF Under
<1>20. Partly(c, J)
  BY <1>1, SendingPartly, SamePartly
<1>21. QED
  BY <1>4, <1>11, <1>12, <1>19, <1>20, PartlySending
-----------------------------------------------------------------------------
(* What becomes of a job from one phase to the next *)

(* It keeps what a job holds, if the new phase finds what it needs. *)
LEMMA JobKeeps ==
  ASSUME NEW c, NEW j, Ready(c, j),
         NEW J, DOMAIN J = Fields, J.input = j.input, J.paste = j.paste, J.at = j.at, J.won = j.won,
         J.out \in Seq(Range(J.out)), J.pc \in Begun,
         J.pc = "copy" => PastingIn(c, Now(j)),
         J.pc \in {"copy", "try"} => J.try \in {"portal", "wtype", "ydotool"},
         J.pc = "send" => J.try \in {"portal", "again"},
         J.pc \in {"reconnect", "connect", "dialog"} => J.try = "portal",
         J.pc \in PortalPhases => TypingIn(c, Now(j)) \/ Range(KeysOf(j, Now(j))) \subseteq PortalKeys,
         J.pc = "send" =>
           /\ J.strokes \in 0..Len(Line(c, j))
           /\ TypingIn(c, Now(j)) =>
                \A p \in DOMAIN Normalized(Now(j).text) :
                  J.strokes = 2 * p - 1 => Normalized(Now(j).text)[p] \notin NoKeysym
  PROVE  JobOK(c, J)
<1>1. /\ j.input \in Inputs /\ j.at \in 1..Len(j.input) + 1 /\ j.at <= Len(j.input)
      /\ Shortcut(j.paste) /\ j.won \in Seq(Tries) /\ Len(j.won) = j.at - 1
  BY ReadyFacts DEF Ready, JobOK
<1>2. /\ Now(J) = Now(j) /\ Line(c, J) = Line(c, j) /\ KeysOf(J, Now(J)) = KeysOf(j, Now(j))
  BY Depends
<1>3. J.pc \notin {"idle", "look"}
  BY DEF Begun, Trying, PortalPhases
<1>4. /\ J.input \in Inputs /\ J.at \in 1..Len(J.input) + 1 /\ (J.pc # "event" => J.at <= Len(J.input))
      /\ Shortcut(J.paste) /\ J.won \in Seq(Tries) /\ Len(J.won) = J.at - 1
  BY <1>1
<1>5. /\ J.pc = "copy" => PastingIn(c, Now(J))
      /\ J.pc \in PortalPhases => TypingIn(c, Now(J)) \/ Range(KeysOf(J, Now(J))) \subseteq PortalKeys
      /\ J.pc = "send" =>
           /\ J.strokes \in 0..Len(Line(c, J))
           /\ TypingIn(c, Now(J)) =>
                \A p \in DOMAIN Normalized(Now(J).text) :
                  J.strokes = 2 * p - 1 => Normalized(Now(J).text)[p] \notin NoKeysym
  BY <1>2
<1>6. J.pc \in {"idle", "look"} \cup Begun
  OBVIOUS
<1>7. QED
  BY <1>3, <1>4, <1>5, <1>6, Zenon DEF JobOK

(* The first try of an event begins, or its copy fails. *)
LEMMA StartKeeps ==
  ASSUME NEW c, NEW j, Ready(c, j), Told(c, j), j.pc \in {"event", "copy"},
         NEW J, Same(J, j), J.failed = j.failed, J.pc \in {"copy", "try", "error"}
  PROVE  Told(c, J)
<1>1. \A x \in Range(j.out) : x.ev # j.at
  BY NothingYet
<1>2. InRow(j.out) /\ Belongs(c, j) /\ Behind(c, j)
  BY DEF Told, Ready
<1>3. /\ \A i, t : Spots(c, J, i, t) = Spots(c, j, i, t)
      /\ \A i, p : Sign(c, J, i, p) = Sign(c, j, i, p)
      /\ \A i, t : TypedBy(J, i, t) = TypedBy(j, i, t)
      /\ \A i, t : Beginning(c, J, i, t) <=> Beginning(c, j, i, t)
  BY SameTyped
<1>4. J.out = j.out /\ J.at = j.at /\ J.won = j.won
  BY DEF Same
<1>5. Belongs(c, J)
  BY <1>1, <1>2, <1>3, <1>4 DEF Belongs
<1>6. Behind(c, J)
  BY <1>2, <1>3, <1>4 DEF Behind
<1>7. Under(c, J)
  BY DEF Under
<1>8. QED
  BY <1>2, <1>4, <1>5, <1>6, <1>7 DEF Told

(* The session opens or is open, and the keys are to come. *)
LEMMA BeginKeeps ==
  ASSUME NEW c, NEW j, Ready(c, j), Told(c, j),
         NEW J, Same(J, j), J.failed = j.failed, J.pc = "send", J.strokes = 0,
         \/ j.pc = "try" /\ J.try = j.try
         \/ j.pc = "dialog" /\ J.try = "again"
  PROVE  Told(c, J)
<1>1. InRow(j.out) /\ Belongs(c, j) /\ Behind(c, j)
  BY DEF Told, Ready
<1>2. /\ \A i, t : Spots(c, J, i, t) = Spots(c, j, i, t)
      /\ \A i, p : Sign(c, J, i, p) = Sign(c, j, i, p)
      /\ \A i, t : TypedBy(J, i, t) = TypedBy(j, i, t)
      /\ \A i, t : Beginning(c, J, i, t) <=> Beginning(c, j, i, t)
      /\ \A p : PressedAt(c, J, p) = PressedAt(c, j, p)
  BY SameTyped
<1>3. J.out = j.out /\ J.at = j.at /\ J.won = j.won
  BY DEF Same
<1>4. j.pc = "dialog" => j.try = "portal"
  BY DEF Ready, JobOK
<1>5. \A x \in Range(j.out) : x.ev = j.at =>
        x.try \in Tries /\ Order[x.try] <= Order[J.try] /\ x.try # J.try
  <2>1. SUFFICES ASSUME NEW x \in Range(j.out), x.ev = j.at
                 PROVE  x.try \in Tries /\ Order[x.try] <= Order[J.try] /\ x.try # J.try
    OBVIOUS
  <2>2. x.try \in Tries /\ Order[x.try] <= Order[j.try] /\ (j.pc = "try" => x.try # j.try)
    BY <1>1, <2>1 DEF Belongs, Trying, PortalPhases
  <2>3. CASE j.pc = "try" /\ J.try = j.try
    BY <2>2, <2>3
  <2>4. CASE j.pc = "dialog" /\ J.try = "again"
    <3>1. Order[j.try] = 1 /\ Order[J.try] = 2
      BY <1>4, <2>4 DEF Order
    <3>2. Order[x.try] \in 1 .. 4
      BY <2>2, OrderOfTries
    <3>3. Order[x.try] # Order[J.try] /\ Order[x.try] <= Order[J.try]
      BY <2>2, <3>1, <3>2
    <3>4. QED
      BY <2>2, <3>3
  <2>5. QED
    BY <2>3, <2>4
<1>6. TypedBy(j, j.at, J.try) = {}
  BY <1>5 DEF TypedBy
<1>7. ASSUME NEW p \in Spots(c, j, j.at, J.try) PROVE ~(PressedAt(c, j, p) <= 0)
  <2>1. PressedAt(c, j, p) \in 1 .. Len(Line(c, j)) /\ Len(Line(c, j)) \in Nat
    BY <1>7, LineFacts
  <2>2. QED
    BY <2>1
<1>8. Under(c, J)
  BY <1>2, <1>3, <1>6, <1>7 DEF Under
<1>9. Belongs(c, J)
  BY <1>1, <1>2, <1>3, <1>5 DEF Belongs, Trying, PortalPhases
<1>10. \A i \in 1..j.at : \A t \in Tries :
       \/ i < j.at /\ t = j.won[i]
       \/ TypedBy(j, i, t) = {}
       \/ Beginning(c, j, i, t) /\ <<i, t>> \in j.failed
  BY <1>1 DEF Behind
<1>11. \A i \in DOMAIN j.won : TypedBy(j, i, j.won[i]) = Spots(c, j, i, j.won[i])
  BY <1>1 DEF Behind
<1>12. Behind(c, J)
  BY <1>2, <1>3, <1>10, <1>11 DEF Behind
<1>13. QED
  BY <1>1, <1>3, <1>8, <1>9, <1>12 DEF Told

(* The portal failed: nothing more is typed until the session is back. *)
LEMMA PauseKeeps ==
  ASSUME NEW c, NEW j, Ready(c, j), Partly(c, j),
         NEW J, Same(J, j), J.try = j.try, J.pc \in {"reconnect", "connect", "dialog"},
         j.failed \subseteq J.failed,
         TypedBy(j, j.at, j.try) = {} \/ <<j.at, j.try>> \in J.failed
  PROVE  Told(c, J)
<1>1. InRow(j.out)
  BY DEF Partly
<1>2. /\ \A i, t : Spots(c, J, i, t) = Spots(c, j, i, t)
      /\ \A i, p : Sign(c, J, i, p) = Sign(c, j, i, p)
      /\ \A i, t : TypedBy(J, i, t) = TypedBy(j, i, t)
      /\ \A i, t : Beginning(c, J, i, t) <=> Beginning(c, j, i, t)
  BY SameTyped
<1>3. J.out = j.out /\ J.at = j.at /\ J.won = j.won
  BY DEF Same
<1>4. Belongs(c, J)
  BY <1>2, <1>3 DEF Partly, Belongs, Trying, PortalPhases
<1>5. \A i \in 1..j.at : \A t \in Tries :
       \/ i < j.at /\ t = j.won[i]
       \/ TypedBy(j, i, t) = {}
       \/ Beginning(c, j, i, t) /\ <<i, t>> \in J.failed
  BY DEF Partly
<1>6. \A i \in DOMAIN j.won : TypedBy(j, i, j.won[i]) = Spots(c, j, i, j.won[i])
  BY DEF Partly
<1>7. Behind(c, J)
  BY <1>2, <1>3, <1>5, <1>6 DEF Behind
<1>8. Under(c, J)
  BY DEF Under
<1>9. QED
  BY <1>1, <1>3, <1>4, <1>7, <1>8 DEF Told

LEMMA PausedBefore ==
  ASSUME NEW c, NEW j, Ready(c, j), Told(c, j), j.pc \in {"reconnect", "connect", "dialog"}
  PROVE  TypedBy(j, j.at, j.try) = {} \/ <<j.at, j.try>> \in j.failed
<1>1. j.try = "portal" /\ j.try \in Tries
  BY DEF Ready, JobOK, Tries
<1>2. j.at \in 1 .. j.at /\ ~(j.at < j.at)
  BY ReadyFacts
<1>3. Behind(c, j)
  BY DEF Told, Ready
<1>4. QED
  BY <1>1, <1>2, <1>3 DEF Behind

(* Whether the copy is ours has no part in it. *)
LEMMA CopiedKeeps ==
  ASSUME NEW c, NEW j, NEW b, JobOK(c, j), Told(c, j)
  PROVE  JobOK(c, [j EXCEPT !.copied = b]) /\ Told(c, [j EXCEPT !.copied = b])
<1> DEFINE J == [j EXCEPT !.copied = b]
<1>1. DOMAIN j = Fields
  BY DEF JobOK
<1>2. /\ DOMAIN J = Fields /\ J.pc = j.pc /\ J.input = j.input /\ J.at = j.at /\ J.paste = j.paste
      /\ J.try = j.try /\ J.strokes = j.strokes /\ J.out = j.out /\ J.won = j.won /\ J.failed = j.failed
  BY <1>1 DEF Fields
<1> HIDE DEF J
<1>3. Same(J, j)
  BY <1>2 DEF Same
<1>4. /\ \A e : KeysOf(J, e) = KeysOf(j, e)
      /\ \A i, t : Spots(c, J, i, t) = Spots(c, j, i, t)
      /\ \A i, p : Sign(c, J, i, p) = Sign(c, j, i, p)
      /\ \A i, t : TypedBy(J, i, t) = TypedBy(j, i, t)
      /\ \A i, t : Beginning(c, J, i, t) <=> Beginning(c, j, i, t)
      /\ Now(J) = Now(j) /\ Line(c, J) = Line(c, j)
      /\ \A p : PressedAt(c, J, p) = PressedAt(c, j, p)
  BY <1>3, SameTyped
<1>5. JobOK(c, J)
  BY <1>2, <1>4 DEF JobOK
<1>6. Told(c, J)
  <2>1. SUFFICES ASSUME J.pc \in Begun PROVE InRow(J.out) /\ Belongs(c, J) /\ Behind(c, J) /\ Under(c, J)
    BY DEF Told
  <2>2. InRow(j.out) /\ Belongs(c, j) /\ Behind(c, j) /\ Under(c, j)
    BY <1>2, <2>1 DEF Told
  <2>3. Belongs(c, J)
    BY <1>2, <1>4, <2>2 DEF Belongs
  <2>4. Behind(c, J)
    BY <1>2, <1>4, <2>2 DEF Behind
  <2>5. Under(c, J)
    BY <1>2, <1>4, <2>2 DEF Under
  <2>6. QED
    BY <1>2, <2>2, <2>3, <2>4, <2>5
<1>7. QED
  BY <1>5, <1>6 DEF J
(* The first n marks of m are typed after out. *)
Grown(out, o, m, n) ==
  /\ o \in Seq(Range(o)) /\ Len(o) = Len(out) + n /\ DOMAIN o = 1 .. Len(out) + n
  /\ \A i \in 1 .. Len(out) : o[i] = out[i]
  /\ \A i \in Len(out) + 1 .. Len(out) + n : o[i] = m[i - Len(out)]

LEMMA Grows ==
  ASSUME NEW out, out \in Seq(Range(out)), NEW m, m \in Seq(Range(m)), NEW n \in 0 .. Len(m)
  PROVE  Grown(out, out \o SubSeq(m, 1, n), m, n)
<1>1. Len(out) \in Nat /\ DOMAIN out = 1 .. Len(out) /\ Len(m) \in Nat /\ DOMAIN m = 1 .. Len(m)
  BY LenProperties
<1>2. PICK q : q = SubSeq(m, 1, n)
  OBVIOUS
<1>3. q \in Seq(Range(m)) /\ Len(q) = n /\ \A i \in 1 .. n : q[i] = m[i]
  <2>1. \A i \in 1 .. n : m[i] \in Range(m)
    BY <1>1 DEF Range
  <2>2. n \in Int /\ 1 \in Int
    BY <1>1
  <2>3. QED
    BY <1>1, <1>2, <2>1, <2>2, SubSeqProperties
<1>4. PICK L \in Nat : L = Len(out)
  BY <1>1
<1>5. PICK o : o = out \o q
  OBVIOUS
<1>6. /\ o \in Seq(Range(o)) /\ Len(o) = L + n /\ DOMAIN o = 1 .. L + n
      /\ \A i \in 1 .. L + n : o[i] = IF i <= L THEN out[i] ELSE q[i - L]
  <2>1. PICK S : S = Range(out) \cup Range(m)
    OBVIOUS
  <2>2. out \in Seq(S) /\ q \in Seq(S)
    BY <1>3, <2>1, SeqMonotonic
  <2>3. /\ out \o q \in Seq(S) /\ Len(out \o q) = Len(out) + Len(q)
        /\ \A i \in 1 .. Len(out) + Len(q) :
             (out \o q)[i] = IF i <= Len(out) THEN out[i] ELSE q[i - Len(out)]
    BY <2>2, ConcatProperties
  <2>4. /\ o \in Seq(S) /\ Len(o) = L + n
        /\ \A i \in 1 .. L + n : o[i] = IF i <= L THEN out[i] ELSE q[i - L]
    BY <1>3, <1>4, <1>5, <2>3, Zenon
  <2>5. o \in Seq(Range(o)) /\ DOMAIN o = 1 .. L + n
    BY <2>4, OverRange
  <2>6. QED
    BY <2>4, <2>5
<1>7. ASSUME NEW i \in 1 .. L PROVE o[i] = out[i]
  <2>1. i \in 1 .. L + n /\ i <= L
    BY <1>1
  <2>2. QED
    BY <1>6, <2>1, Zenon
<1>8. ASSUME NEW i \in L + 1 .. L + n PROVE o[i] = m[i - L]
  <2>1. i \in 1 .. L + n /\ ~(i <= L) /\ i - L \in 1 .. n
    BY <1>1
  <2>2. QED
    BY <1>3, <1>6, <2>1, Zenon
<1>9. Grown(out, o, m, n)
  BY <1>4, <1>6, <1>7, <1>8, Zenon DEF Grown
<1>10. QED
  BY <1>2, <1>5, <1>9, Zenon

(* A program types the first n of the marks m of the event, which has N.    *)
Typer(c, j, N, m, n, J) ==
  /\ Ready(c, j) /\ Partly(c, j) /\ j.try \in Tries /\ TypedBy(j, j.at, j.try) = {}
  /\ N \in Nat /\ Spots(c, j, j.at, j.try) = 1 .. N
  /\ m \in Seq(Range(m)) /\ Len(m) = N
  /\ \A i \in 1 .. N : m[i].ev = j.at /\ m[i].try = j.try /\ m[i].place = i /\ m[i].mark = Sign(c, j, j.at, i)
  /\ n \in 0 .. N
  /\ J.input = j.input /\ J.paste = j.paste /\ J.at = j.at /\ J.try = j.try /\ J.won = j.won
  /\ J.failed = j.failed /\ Grown(j.out, J.out, m, n)

Typist(c, j, m, n, J) ==
  /\ Partly(c, J) /\ J.out \in Seq(Range(J.out))
  /\ TypedBy(J, j.at, j.try) = 1 .. n
  /\ \A x \in Range(J.out) : x \in Range(j.out) \/ \E i \in 1 .. n : x = m[i]

LEMMA ToolTypes ==
  ASSUME NEW c, NEW j, NEW N, NEW m, NEW n, NEW J, Typer(c, j, N, m, n, J)
  PROVE  Typist(c, j, m, n, J)
<1>0. /\ Ready(c, j) /\ Partly(c, j) /\ j.try \in Tries /\ TypedBy(j, j.at, j.try) = {}
      /\ N \in Nat /\ Spots(c, j, j.at, j.try) = 1 .. N
      /\ m \in Seq(Range(m)) /\ Len(m) = N
      /\ \A i \in 1 .. N : m[i].ev = j.at /\ m[i].try = j.try /\ m[i].place = i /\ m[i].mark = Sign(c, j, j.at, i)
      /\ n \in 0 .. N
      /\ J.input = j.input /\ J.paste = j.paste /\ J.at = j.at /\ J.try = j.try /\ J.won = j.won
      /\ J.failed = j.failed /\ Grown(j.out, J.out, m, n)
  BY DEF Typer
<1> USE <1>0
<1>1. j.out \in Seq(Range(j.out)) /\ Len(j.out) \in Nat /\ DOMAIN j.out = 1 .. Len(j.out)
  BY ReadyFacts
<1>a. PICK L \in Nat : L = Len(j.out)
  BY <1>1
<1>4. /\ J.out \in Seq(Range(J.out)) /\ Len(J.out) = L + n /\ DOMAIN J.out = 1 .. L + n
      /\ \A i \in 1 .. L : J.out[i] = j.out[i]
      /\ \A i \in L + 1 .. L + n : J.out[i] = m[i - L]
  BY <1>a, Zenon DEF Grown
<1>5. \A k \in L + 1 .. Len(J.out) : k - L \in 1 .. n /\ k - L \in 1 .. N /\ J.out[k] = m[k - L]
  <2>1. SUFFICES ASSUME NEW k \in L + 1 .. L + n
                 PROVE  k - L \in 1 .. n /\ k - L \in 1 .. N /\ J.out[k] = m[k - L]
    BY <1>4, Zenon
  <2>2. k - L \in 1 .. n /\ k - L \in 1 .. N
    OBVIOUS
  <2>3. QED
    BY <1>4, <2>2, Zenon
<1>6. Longer(j.out, J.out)
  <2>1. L + n \in Nat /\ L <= L + n
    OBVIOUS
  <2>2. QED
    BY <1>1, <1>4, <1>a, <2>1, Zenon DEF Longer
<1>7. \A k \in L + 1 .. Len(J.out) :
         /\ J.out[k].place = k - L
         /\ Next2(c, j, J.out, k)
  <2>1. SUFFICES ASSUME NEW k \in L + 1 .. Len(J.out)
                 PROVE  J.out[k].place = k - L /\ Next2(c, j, J.out, k)
    OBVIOUS
  <2>2. PICK i \in 1 .. N : i = k - L /\ J.out[k] = m[i]
    BY <1>5
  <2>3. QED
    BY <2>2 DEF Next2
<1>8. Added(j.out, J.out) = 1 .. n
  <2>1. ASSUME NEW p \in Added(j.out, J.out) PROVE p \in 1 .. n
    <3>1. PICK k \in L + 1 .. Len(J.out) : p = J.out[k].place
      BY <1>a, Zenon DEF Added
    <3>2. QED
      BY <1>5, <1>7, <3>1, Zenon
  <2>2. ASSUME NEW p \in 1 .. n PROVE p \in Added(j.out, J.out)
    <3>1. L + p \in L + 1 .. Len(J.out) /\ (L + p) - L = p
      <4>1. L + p \in L + 1 .. L + n /\ (L + p) - L = p
        OBVIOUS
      <4>2. QED
        BY <1>4, <4>1, Zenon
    <3>2. J.out[L + p].place = p
      BY <1>7, <3>1
    <3>3. QED
      BY <1>a, <3>1, <3>2, Zenon DEF Added
  <2>3. QED
    BY <2>1, <2>2
<1>9. \A k \in L + 2 .. Len(J.out) : J.out[k - 1].place < J.out[k].place
  <2>1. SUFFICES ASSUME NEW k \in L + 2 .. Len(J.out) PROVE J.out[k - 1].place < J.out[k].place
    OBVIOUS
  <2>2. k \in L + 1 .. Len(J.out) /\ k - 1 \in L + 1 .. Len(J.out) /\ k \in Int
    <3>1. Len(J.out) = L + n /\ k \in L + 2 .. L + n
      BY <1>4, <2>1, Zenon
    <3>2. k \in L + 1 .. L + n /\ k - 1 \in L + 1 .. L + n /\ k \in Int
      BY <3>1
    <3>3. QED
      BY <3>1, <3>2, Zenon
  <2>3. J.out[k - 1].place = (k - 1) - L /\ J.out[k].place = k - L
    BY <1>7, <2>2
  <2>4. QED
    <3>1. (k - 1) - L < k - L
      BY <2>2
    <3>2. QED
      BY <2>3, <3>1, Zenon
<1>10. ASSUME NEW k \in L + 1 .. Len(J.out), NEW p \in Spots(c, j, j.at, j.try), p < J.out[k].place
       PROVE  p \in TypedBy(j, j.at, j.try) \cup Added(j.out, J.out)
  <2>1. J.out[k].place = k - L /\ k - L \in 1 .. n
    BY <1>5, <1>7
  <2>2. p \in 1 .. N /\ p < k - L
    BY <1>10, <2>1, Zenon
  <2>3. p \in 1 .. n
    BY <2>1, <2>2
  <2>4. QED
    BY <1>8, <2>3
<1>11. L < Len(J.out) => \A p \in TypedBy(j, j.at, j.try) : p < J.out[L + 1].place
  BY Zenon
<1>12. /\ Partly(c, J)
       /\ TypedBy(J, j.at, j.try) = TypedBy(j, j.at, j.try) \cup Added(j.out, J.out)
  <2>1. \A k \in Len(j.out) + 1 .. Len(J.out) : Next2(c, j, J.out, k)
    BY <1>7, <1>a, Zenon
  <2>2. \A k \in Len(j.out) + 2 .. Len(J.out) : J.out[k - 1].place < J.out[k].place
    BY <1>9, <1>a, Zenon
  <2>3. Len(j.out) < Len(J.out) => \A p \in TypedBy(j, j.at, j.try) : p < J.out[Len(j.out) + 1].place
    BY <1>11, <1>a, Zenon
  <2>4. \A k \in Len(j.out) + 1 .. Len(J.out) : \A p \in Spots(c, j, j.at, j.try) :
          p < J.out[k].place => p \in TypedBy(j, j.at, j.try) \cup Added(j.out, J.out)
    BY <1>10, <1>a, Zenon
  <2>5. QED
    <3> HIDE DEF Longer, Next2, Added, Spots, TypedBy
    <3>1. Ready(c, j) /\ Partly(c, j) /\ j.try \in Tries
      OBVIOUS
    <3>2. /\ J.input = j.input /\ J.paste = j.paste /\ J.at = j.at /\ J.try = j.try
          /\ J.won = j.won /\ J.failed = j.failed
      OBVIOUS
    <3>3. QED
      BY ONLY <1>6, <2>1, <2>2, <2>3, <2>4, <3>1, <3>2, MoreTyped
<1>13. \A x \in Range(J.out) : x \in Range(j.out) \/ \E i \in 1 .. n : x = m[i]
  <2>1. \A x \in Range(J.out) : x \in Range(j.out) \/ \E k \in L + 1 .. Len(J.out) : x = J.out[k]
    BY <1>6, <1>a, LongerElements
  <2>2. QED
    <3>1. SUFFICES ASSUME NEW x \in Range(J.out), x \notin Range(j.out)
                   PROVE  \E i \in 1 .. n : x = m[i]
      OBVIOUS
    <3>2. PICK k \in L + 1 .. Len(J.out) : x = J.out[k]
      BY <2>1, <3>1
    <3>3. k - L \in 1 .. n /\ x = m[k - L]
      BY <1>5, <3>2
    <3>4. QED
      BY <3>3
<1>14. J.out \in Seq(Range(J.out)) /\ TypedBy(J, j.at, j.try) = 1 .. n
  <2>1. TypedBy(j, j.at, j.try) \cup Added(j.out, J.out) = 1 .. n
    BY <1>0, <1>8
  <2>2. QED
    BY <1>4, <1>12, <2>1, Zenon
<1>15. QED
  BY ONLY <1>12, <1>13, <1>14, Zenon DEF Typist

(* The marks of an event are its places in order. *)
Listed(s, j, m, t) ==
  /\ m \in Seq(Range(m)) /\ Len(m) \in Nat
  /\ Spots(settings, j, j.at, t) = 1 .. Len(m)
  /\ \A i \in 1 .. Len(m) :
       /\ m[i].ev = j.at /\ m[i].try = j.try /\ m[i].place = i /\ m[i].mark = Sign(settings, j, j.at, i)
       /\ m[i].clip = (IF PastingIn(settings, Now(j)) THEN clip ELSE <<>>)
       /\ m[i].ours = j.copied /\ m[i].win = focus
       /\ m[i].mods = IF TypingIn(settings, Now(j)) THEN HeldKeys
                      ELSE HeldKeys \cup Range(Front(KeysOf(j, Now(j))))

LEMMA MarkPlaces ==
  ASSUME NEW s, NEW j, j = job[s], Ready(settings, j), Settings(settings),
         NEW m, m = Marks(s, Event(s)), NEW t \in {"wtype", "ydotool"}
  PROVE  Listed(s, j, m, t)
<1> SUFFICES /\ m \in Seq(Range(m)) /\ Len(m) \in Nat
             /\ Spots(settings, j, j.at, t) = 1 .. Len(m)
             /\ \A i \in 1 .. Len(m) :
                  /\ m[i].ev = j.at /\ m[i].try = j.try /\ m[i].place = i /\ m[i].mark = Sign(settings, j, j.at, i)
                  /\ m[i].clip = (IF PastingIn(settings, Now(j)) THEN clip ELSE <<>>)
                  /\ m[i].ours = j.copied /\ m[i].win = focus
                  /\ m[i].mods = IF TypingIn(settings, Now(j)) THEN HeldKeys
                                 ELSE HeldKeys \cup Range(Front(KeysOf(j, Now(j))))
  BY DEF Listed
<1>1. IsEvent(Now(j)) /\ Now(j) = j.input[j.at] /\ Event(s) = Now(j)
  BY ReadyFacts DEF Event, Now
<1>2. /\ Typing(Event(s)) <=> TypingIn(settings, Now(j))
      /\ Pasting(Event(s)) <=> PastingIn(settings, Now(j))
      /\ Keys(s, Event(s)) = KeysOf(j, Now(j))
  BY <1>1 DEF Typing, TypingIn, Pasting, PastingIn, Keys, KeysOf
<1>3. ASSUME NEW p, NEW k, NEW h, NEW x, x = Seen(s, p, k, h)
      PROVE  /\ x.ev = j.at /\ x.try = j.try /\ x.place = p /\ x.mark = k /\ x.mods = h
             /\ x.clip = (IF PastingIn(settings, Now(j)) THEN clip ELSE <<>>)
             /\ x.ours = j.copied /\ x.win = focus
  BY <1>2, <1>3 DEF Seen
<1>4. CASE TypingIn(settings, Now(j))
  <2>1. PICK u : u = Normalized(Now(j).text)
    OBVIOUS
  <2>2. u \in Seq(Range(u)) /\ Len(u) \in Nat /\ DOMAIN u = 1 .. Len(u)
    <3>1. IsEvent(j.input[j.at]) /\ TypingIn(settings, j.input[j.at]) /\ u = Normalized(j.input[j.at].text)
      BY <1>1, <1>4, <2>1
    <3>2. QED
      BY <3>1, SpotFacts
  <2>3. m = [i \in 1 .. Len(u) |-> Seen(s, i, u[i], HeldKeys)]
    BY <1>1, <1>2, <1>4, <2>1, <2>2 DEF Marks
  <2>4. DOMAIN m = 1 .. Len(u) /\ \A i \in 1 .. Len(u) : m[i] = Seen(s, i, u[i], HeldKeys)
    BY <2>3
  <2>5. m \in Seq(Range(m)) /\ Len(m) = Len(u)
    <3>1. \A i \in 1 .. Len(u) : m[i] \in Range(m)
      BY <2>4 DEF Range
    <3>2. m \in [1 .. Len(u) -> Range(m)]
      BY <2>3, <2>4, <3>1
    <3> HIDE DEF Seen, HeldKeys
    <3>3. m \in Seq(Range(m))
      BY <2>2, <3>2
    <3>4. QED
      BY <2>2, <2>4, <3>3, LenProperties
  <2>6. Spots(settings, j, j.at, t) = 1 .. Len(u)
    <3>1. t \notin {"portal", "again"}
      OBVIOUS
    <3>2. QED
      BY <1>1, <1>4, <2>1, <2>2, <3>1 DEF Spots
  <2>7. \A i : Sign(settings, j, j.at, i) = u[i]
    BY <1>1, <1>4, <2>1 DEF Sign
  <2>8. ASSUME NEW i \in 1 .. Len(m)
        PROVE  /\ m[i].ev = j.at /\ m[i].try = j.try /\ m[i].place = i /\ m[i].mark = Sign(settings, j, j.at, i)
               /\ m[i].clip = (IF PastingIn(settings, Now(j)) THEN clip ELSE <<>>)
               /\ m[i].ours = j.copied /\ m[i].win = focus
               /\ m[i].mods = HeldKeys
    <3>1. m[i] = Seen(s, i, u[i], HeldKeys)
      BY <2>4, <2>5
    <3>2. QED
      BY <1>3, <2>7, <3>1
  <2>9. QED
    BY <1>4, <2>2, <2>5, <2>6, <2>8
<1>5. CASE ~TypingIn(settings, Now(j))
  <2>1. PICK k : k = KeysOf(j, Now(j))
    OBVIOUS
  <2>2. PICK x : x = Seen(s, 1, Last(k), HeldKeys \cup Range(Front(k)))
    OBVIOUS
  <2>3. m = <<x>>
    BY <1>1, <1>2, <1>5, <2>1, <2>2 DEF Marks
  <2>4. m \in Seq(Range(m)) /\ Len(m) = 1 /\ m[1] = x
    BY <2>3 DEF Range
  <2>5. Spots(settings, j, j.at, t) = {1} /\ \A i : Sign(settings, j, j.at, i) = Last(k)
    BY <1>1, <1>5, <2>1 DEF Spots, Sign
  <2>6. /\ x.ev = j.at /\ x.try = j.try /\ x.place = 1 /\ x.mark = Last(k)
        /\ x.mods = HeldKeys \cup Range(Front(k))
        /\ x.clip = (IF PastingIn(settings, Now(j)) THEN clip ELSE <<>>)
        /\ x.ours = j.copied /\ x.win = focus
    BY <1>3, <2>2
  <2>7. 1 .. Len(m) = {1} /\ \A i \in 1 .. Len(m) : i = 1
    BY <2>4
  <2>8. QED
    BY <1>5, <2>1, <2>4, <2>5, <2>6, <2>7
<1>6. QED
  BY <1>4, <1>5
-----------------------------------------------------------------------------
(* The steps of a sink: its own job becomes one that is right, the others   *)
(* stay.                                                                    *)

Sound == Plain /\ Telling

Moved(s) ==
  /\ settings' = settings
  /\ DOMAIN job' = Sinks /\ \A x \in Sinks \ {s} : job'[x] = job[x]
  /\ JobOK(settings, job'[s]) /\ Told(settings, job'[s])

LEMMA Basics ==
  ASSUME Plain, NEW s \in Sinks
  PROVE  /\ DOMAIN job = Sinks /\ DOMAIN look = Sinks /\ JobOK(settings, job[s]) /\ Settings(settings)
         /\ DOMAIN job[s] = Fields /\ sessions \in Seq(0..bus)
         /\ job[s].pc # "look" => look[s].step = 0
BY DEF Plain, JobOK, Settings

LEMMA IdleJob ==
  ASSUME NEW c
  PROVE  DOMAIN Idle = Fields /\ JobOK(c, Idle) /\ Told(c, Idle)
<1>1. DOMAIN Idle = Fields /\ Idle.pc = "idle" /\ Idle.out = <<>> /\ Idle.input = <<>>
  BY DEF Idle, Fields
<1>2. "idle" \notin Begun /\ "idle" \notin PortalPhases
  BY DEF Begun, Trying, PortalPhases
<1> HIDE DEF Idle
<1>3. QED
  BY <1>1, <1>2 DEF JobOK, Told

LEMMA FreshTold ==
  ASSUME NEW c, NEW j, j.pc = "event", j.out = <<>>, j.won = <<>>, j.at = 1
  PROVE  Told(c, j)
<1>1. DOMAIN j.out = {} /\ Range(j.out) = {} /\ DOMAIN j.won = {}
  BY DEF Range
<1>2. InRow(j.out) /\ Belongs(c, j)
  BY <1>1 DEF InRow, Belongs
<1>3. \A i, t : TypedBy(j, i, t) = {}
  BY <1>1 DEF TypedBy
<1>4. Behind(c, j) /\ Under(c, j)
  BY <1>1, <1>3 DEF Behind, Under
<1>5. QED
  BY <1>2, <1>4 DEF Told

LEMMA TakeJob ==
  ASSUME Sound, NEW s \in Sinks, NEW i \in Inputs, Take(s, i)
  PROVE  /\ Moved(s)
         /\ job'[s].pc = "look" /\ job'[s].out = <<>>
<1>1. DOMAIN job = Sinks
  BY Basics DEF Sound
<1>2. settings' = settings /\ DOMAIN job' = Sinks /\ \A x \in Sinks \ {s} : job'[x] = job[x]
  BY <1>1 DEF Take
<1>3. /\ DOMAIN job'[s] = Fields /\ job'[s].pc = "look" /\ job'[s].input = i /\ job'[s].at = 1
      /\ job'[s].out = <<>> /\ job'[s].won = <<>>
      /\ settings.pasteKey # AutoKey => job'[s].paste = settings.pasteKey
  BY <1>1 DEF Take, Idle, Fields
<1>4. "look" \notin Begun /\ "look" \notin PortalPhases
  BY DEF Begun, Trying, PortalPhases
<1>5. JobOK(settings, job'[s]) /\ Told(settings, job'[s])
  <2>1. PICK J : J = job'[s]
    OBVIOUS
  <2>2. QED
    BY <1>3, <1>4, <2>1 DEF JobOK, Told
<1>6. QED
  BY <1>2, <1>3, <1>5 DEF Moved

LEMMA DetectedJob ==
  ASSUME Sound, NEW s \in Sinks, Detected(s)
  PROVE  /\ Moved(s)
         /\ job'[s].pc = "event" /\ job'[s].out = <<>>
         /\ job'[s].paste = IF settings.pasteKey = AutoKey THEN PasteKeys(look[s].kind) ELSE job[s].paste
<1>1. /\ DOMAIN job = Sinks /\ DOMAIN job[s] = Fields /\ JobOK(settings, job[s]) /\ job[s].pc = "look"
      /\ Settings(settings)
  BY Basics DEF Sound, Detected
<1>2. settings' = settings /\ DOMAIN job' = Sinks /\ \A x \in Sinks \ {s} : job'[x] = job[x]
  BY <1>1 DEF Detected
<1>3. /\ DOMAIN job'[s] = Fields /\ job'[s].pc = "event" /\ job'[s].input = job[s].input /\ job'[s].at = job[s].at
      /\ job'[s].out = job[s].out /\ job'[s].won = job[s].won
      /\ job'[s].paste = IF settings.pasteKey = AutoKey THEN PasteKeys(look[s].kind) ELSE job[s].paste
  BY <1>1 DEF Detected, Fields
<1>4. PICK j : j = job[s]
  OBVIOUS
<1>5. PICK J : J = job'[s]
  OBVIOUS
<1>6. /\ j.input \in Inputs /\ j.out = <<>> /\ j.won = <<>> /\ j.at = 1
      /\ settings.pasteKey # AutoKey => j.paste = settings.pasteKey
  BY <1>1, <1>4 DEF JobOK
<1>7. Shortcut(J.paste)
  BY <1>1, <1>3, <1>4, <1>5, <1>6, PasteShortcut DEF Settings
<1>8. 1 \in 1 .. Len(j.input) + 1 /\ <<>> \in Seq(Tries) /\ <<>> \in Seq(Range(<<>>)) /\ Len(<<>>) = 1 - 1
  <2>1. Len(j.input) \in Nat
    BY <1>6, InputEvents
  <2>2. QED
    BY <2>1
<1>9. JobOK(settings, J)
  BY <1>3, <1>4, <1>5, <1>6, <1>7, <1>8 DEF JobOK, Begun, Trying, PortalPhases
<1>10. Told(settings, J)
  BY <1>3, <1>4, <1>5, <1>6, FreshTold
<1>11. QED
  BY <1>2, <1>3, <1>4, <1>5, <1>6, <1>9, <1>10 DEF Moved

LEMMA FinishJob ==
  ASSUME Sound, NEW s \in Sinks, Finish(s)
  PROVE  Moved(s) /\ job'[s].pc = "idle" /\ job'[s].out = <<>>
<1>1. DOMAIN job = Sinks
  BY Basics DEF Sound
<1>2. settings' = settings /\ job'[s] = Idle /\ DOMAIN job' = Sinks /\ \A x \in Sinks \ {s} : job'[x] = job[x]
  BY <1>1 DEF Finish
<1>3. Idle.pc = "idle" /\ Idle.out = <<>>
  BY DEF Idle
<1>4. QED
  BY <1>2, <1>3, IdleJob DEF Moved

(* The steps of a job that goes on. *)
LEMMA Going ==
  ASSUME Sound, NEW s \in Sinks, job[s].pc \in Begun, job[s].at <= Len(job[s].input)
  PROVE  /\ DOMAIN job = Sinks /\ DOMAIN job[s] = Fields /\ Settings(settings)
         /\ Ready(settings, job[s]) /\ Told(settings, job[s])
         /\ Event(s) = Now(job[s]) /\ Strokes(s) = Line(settings, job[s])
         /\ Typing(Event(s)) <=> TypingIn(settings, Now(job[s]))
         /\ Pasting(Event(s)) <=> PastingIn(settings, Now(job[s]))
         /\ Keys(s, Event(s)) = KeysOf(job[s], Now(job[s]))
<1>1. DOMAIN job = Sinks /\ DOMAIN job[s] = Fields /\ Settings(settings) /\ JobOK(settings, job[s])
  BY Basics DEF Sound
<1>2. Event(s) = Now(job[s])
  BY DEF Event, Now
<1>3. /\ Typing(Event(s)) <=> TypingIn(settings, Now(job[s]))
      /\ Pasting(Event(s)) <=> PastingIn(settings, Now(job[s]))
      /\ Keys(s, Event(s)) = KeysOf(job[s], Now(job[s]))
  BY <1>2 DEF Typing, TypingIn, Pasting, PastingIn, Keys, KeysOf
<1>4. Strokes(s) = Line(settings, job[s])
  BY <1>2, <1>3 DEF Strokes, Line
<1>5. Ready(settings, job[s]) /\ Told(settings, job[s])
  BY <1>1 DEF Ready, Sound, Telling
<1>6. QED
  BY <1>1, <1>2, <1>3, <1>4, <1>5

(* In every phase but "event" the event is there. *)
LEMMA AtEvent ==
  ASSUME Sound, NEW s \in Sinks, job[s].pc \in {"copy", "error"} \cup Trying
  PROVE  job[s].pc \in Begun /\ job[s].at <= Len(job[s].input)
<1>1. JobOK(settings, job[s])
  BY Basics DEF Sound
<1>2. job[s].pc \in Begun /\ job[s].pc # "event"
  BY DEF Begun, Trying, PortalPhases
<1>3. QED
  BY <1>1, <1>2 DEF JobOK

LEMMA DeliverJob ==
  ASSUME Sound, NEW s \in Sinks, Deliver(s)
  PROVE  Moved(s) /\ Same(job'[s], job[s]) /\ job'[s].pc \in {"copy", "try"}
         /\ (job'[s].pc = "try" => ~PastingIn(settings, Now(job[s])))
         /\ job'[s].copied = job[s].copied
<1>1. job[s].pc = "event" /\ job[s].at <= Len(job[s].input) /\ job[s].pc \in Begun
  BY DEF Deliver, Begun
<1>2. /\ DOMAIN job = Sinks /\ DOMAIN job[s] = Fields /\ Settings(settings)
      /\ Ready(settings, job[s]) /\ Told(settings, job[s])
      /\ Pasting(Event(s)) <=> PastingIn(settings, Now(job[s]))
  BY <1>1, Going
<1>3. settings' = settings /\ DOMAIN job' = Sinks /\ \A x \in Sinks \ {s} : job'[x] = job[x]
  BY <1>2 DEF Deliver
<1>4. /\ DOMAIN job'[s] = Fields /\ job'[s].input = job[s].input /\ job'[s].at = job[s].at
      /\ job'[s].paste = job[s].paste /\ job'[s].out = job[s].out /\ job'[s].won = job[s].won
      /\ job'[s].failed = job[s].failed /\ job'[s].copied = job[s].copied
      /\ job'[s].pc = (IF Pasting(Event(s)) THEN "copy" ELSE "try") /\ job'[s].try = FirstTry
  BY <1>2 DEF Deliver, Fields
<1>5. PICK j : j = job[s]
  OBVIOUS
<1>6. PICK J : J = job'[s]
  OBVIOUS
<1>7. FirstTry \in {"portal", "wtype", "ydotool"}
  BY <1>2 DEF FirstTry, Settings
<1>8. Same(J, j) /\ J.failed = j.failed /\ J.pc \in {"copy", "try"}
  BY <1>4, <1>5, <1>6 DEF Same
<1>9. Told(settings, J)
  BY <1>1, <1>2, <1>5, <1>8, StartKeeps
<1>10. /\ J.pc = "copy" => PastingIn(settings, Now(j))
       /\ J.pc = "try" => ~PastingIn(settings, Now(j))
       /\ J.try \in {"portal", "wtype", "ydotool"}
  BY <1>2, <1>4, <1>5, <1>6, <1>7
<1>11. J.out \in Seq(Range(J.out))
  BY <1>2, <1>4, <1>5, <1>6, ReadyFacts
<1>12. J.pc \in Begun /\ J.pc \notin PortalPhases
  BY <1>8 DEF Begun, Trying, PortalPhases
<1>13. JobOK(settings, J)
  <2>1. /\ DOMAIN J = Fields /\ J.input = j.input /\ J.paste = j.paste /\ J.at = j.at /\ J.won = j.won
    BY <1>4, <1>5, <1>6
  <2>2. J.pc # "send" /\ J.pc \notin {"reconnect", "connect", "dialog"}
    BY <1>8
  <2>3. Ready(settings, j)
    BY <1>2, <1>5
  <2>4. QED
    BY <1>10, <1>11, <1>12, <2>1, <2>2, <2>3, JobKeeps
<1>14. QED
  BY <1>3, <1>4, <1>5, <1>6, <1>8, <1>9, <1>10, <1>13 DEF Moved
(* The steps that change what the clipboard means to the other jobs. *)
OnlyCopied(x, b) == job'[x] = [job[x] EXCEPT !.copied = b]

LEMMA OnlyCopiedKeeps ==
  ASSUME Sound, NEW x \in Sinks, NEW b, OnlyCopied(x, b)
  PROVE  /\ JobOK(settings, job'[x]) /\ Told(settings, job'[x])
         /\ Same(job'[x], job[x]) /\ job'[x].pc = job[x].pc /\ job'[x].sender = job[x].sender
         /\ job'[x].strokes = job[x].strokes /\ job'[x].copied = b
<1>1. JobOK(settings, job[x]) /\ Told(settings, job[x]) /\ DOMAIN job[x] = Fields
  BY Basics DEF Sound, Telling
<1>2. JobOK(settings, job'[x]) /\ Told(settings, job'[x])
  BY <1>1, CopiedKeeps DEF OnlyCopied
<1>3. QED
  BY <1>1, <1>2 DEF OnlyCopied, Same, Fields

LEMMA CopyJob ==
  ASSUME Sound, NEW s \in Sinks, Copy(s)
  PROVE  /\ settings' = settings /\ DOMAIN job' = Sinks
         /\ JobOK(settings, job'[s]) /\ Told(settings, job'[s])
         /\ Same(job'[s], job[s]) /\ job[s].pc = "copy" /\ PastingIn(settings, Now(job[s]))
         /\ \/ /\ clip' = Normalized(Now(job[s]).text) /\ job'[s].pc = "try" /\ job'[s].copied = TRUE
               /\ \A x \in Sinks \ {s} : OnlyCopied(x, FALSE)
            \/ /\ clip' = clip /\ job'[s].pc = "error"
               /\ \A x \in Sinks \ {s} : job'[x] = job[x]
<1>1. job[s].pc = "copy" /\ job[s].pc \in Begun /\ job[s].at <= Len(job[s].input)
  BY AtEvent DEF Copy
<1>2. /\ DOMAIN job = Sinks /\ DOMAIN job[s] = Fields /\ Settings(settings)
      /\ Ready(settings, job[s]) /\ Told(settings, job[s]) /\ Event(s) = Now(job[s])
  BY <1>1, Going
<1>3. settings' = settings /\ DOMAIN job' = Sinks
  BY <1>2 DEF Copy
<1>4. \/ /\ clip' = Normalized(Now(job[s]).text) /\ job'[s] = [job[s] EXCEPT !.pc = "try", !.copied = TRUE]
         /\ \A x \in Sinks \ {s} : OnlyCopied(x, FALSE)
      \/ /\ clip' = clip /\ job'[s] = [job[s] EXCEPT !.pc = "error"]
         /\ \A x \in Sinks \ {s} : job'[x] = job[x]
  <2>1. CASE Copied(s)
    BY <1>2, <2>1 DEF Copy, OnlyCopied, Copied
  <2>2. CASE ~Copied(s)
    BY <1>2, <2>2 DEF Copy
  <2>3. QED
    BY <2>1, <2>2
<1>5. PICK j : j = job[s]
  OBVIOUS
<1>6. PICK J : J = job'[s]
  OBVIOUS
<1>7. /\ DOMAIN J = Fields /\ J.input = j.input /\ J.at = j.at
      /\ J.paste = j.paste /\ J.out = j.out /\ J.won = j.won
      /\ J.failed = j.failed /\ J.pc \in {"try", "error"} /\ J.try = j.try
  BY <1>2, <1>4, <1>5, <1>6 DEF Fields
<1>8. Same(J, j)
  BY <1>7 DEF Same
<1>9. Ready(settings, j) /\ Told(settings, j) /\ j.pc = "copy"
  BY <1>1, <1>2, <1>5
<1>10. Told(settings, J)
  BY <1>7, <1>8, <1>9, StartKeeps
<1>11. j.try \in {"portal", "wtype", "ydotool"} /\ PastingIn(settings, Now(j))
  BY <1>9 DEF Ready, JobOK
<1>12. J.out \in Seq(Range(J.out))
  BY <1>7, <1>9, ReadyFacts
<1>13. J.pc \in Begun /\ J.pc \notin PortalPhases /\ J.pc \notin {"send", "copy", "reconnect", "connect", "dialog"}
  BY <1>7 DEF Begun, Trying, PortalPhases
<1>14. JobOK(settings, J)
  BY <1>7, <1>9, <1>11, <1>12, <1>13, JobKeeps
<1>15. (job'[s] = [job[s] EXCEPT !.pc = "try", !.copied = TRUE]) => job'[s].pc = "try" /\ job'[s].copied = TRUE
  BY <1>2 DEF Fields
<1>16. (job'[s] = [job[s] EXCEPT !.pc = "error"]) => job'[s].pc = "error"
  BY <1>2 DEF Fields
<1>17. QED
  BY <1>3, <1>4, <1>5, <1>6, <1>8, <1>9, <1>10, <1>11, <1>14, <1>15, <1>16

LEMMA UsePortalJob ==
  ASSUME Sound, NEW s \in Sinks, UsePortal(s)
  PROVE  /\ Moved(s) /\ Same(job'[s], job[s]) /\ job'[s].copied = job[s].copied
         /\ \/ job'[s].pc \in {"try", "error"}
            \/ job'[s].pc = "send" /\ job'[s].sender = sender /\ job'[s].strokes = 0 /\ sender # 0
<1>1. job[s].pc = "try" /\ job[s].try = "portal" /\ job[s].pc \in Begun /\ job[s].pc \in Trying /\ job[s].at <= Len(job[s].input)
  BY AtEvent DEF UsePortal, Trying
<1>2. /\ DOMAIN job = Sinks /\ DOMAIN job[s] = Fields /\ Settings(settings)
      /\ Ready(settings, job[s]) /\ Told(settings, job[s])
      /\ Typing(Event(s)) <=> TypingIn(settings, Now(job[s]))
      /\ Keys(s, Event(s)) = KeysOf(job[s], Now(job[s]))
  BY <1>1, Going
<1>3. settings' = settings /\ DOMAIN job' = Sinks /\ \A x \in Sinks \ {s} : job'[x] = job[x]
  BY <1>2 DEF UsePortal
<1>4. PICK j : j = job[s]
  OBVIOUS
<1>5. PICK J : J = job'[s]
  OBVIOUS
<1>6. /\ Ready(settings, j) /\ Told(settings, j) /\ j.pc = "try" /\ j.try = "portal" /\ j.try \in Tries
      /\ DOMAIN j = Fields /\ j.pc \in Trying \ {"send"}
  BY <1>1, <1>2, <1>4 DEF Tries
<1>7. CASE sender = 0 \/ ~Understood(s) \/ broken
  <2>1. J = Lost(j)
    BY <1>2, <1>4, <1>5, <1>7 DEF UsePortal
  <2>2. Partly(settings, j)
    BY <1>6, WaitingPartly
  <2>3. JobOK(settings, J) /\ Told(settings, J)
    BY <1>6, <2>1, <2>2, LostKeeps
  <2>4. Same(J, j) /\ J.pc \in {"try", "error"} /\ J.copied = j.copied
    BY <1>6, <2>1, LostFields
  <2>5. QED
    BY <1>3, <1>4, <1>5, <2>3, <2>4 DEF Moved
<1>8. CASE ~(sender = 0 \/ ~Understood(s) \/ broken)
  <2>1. /\ DOMAIN J = Fields /\ J.input = j.input /\ J.at = j.at
        /\ J.paste = j.paste /\ J.out = j.out /\ J.won = j.won /\ J.copied = j.copied
        /\ J.failed = j.failed /\ J.pc = "send" /\ J.try = j.try /\ J.strokes = 0 /\ J.sender = sender
    BY <1>2, <1>4, <1>5, <1>8 DEF UsePortal, Fields
  <2>2. Same(J, j)
    BY <2>1 DEF Same
  <2>3. Told(settings, J)
    BY <1>6, <2>1, <2>2, BeginKeeps
  <2>4. TypingIn(settings, Now(j)) \/ Range(KeysOf(j, Now(j))) \subseteq PortalKeys
    BY <1>2, <1>4, <1>8 DEF Understood
  <2>5. 0 \in 0 .. Len(Line(settings, j)) /\ \A p \in DOMAIN Normalized(Now(j).text) :
           TypingIn(settings, Now(j)) => 0 # 2 * p - 1
    <3>1. Len(Line(settings, j)) \in Nat
      BY <1>6, LineFacts
    <3>2. ASSUME TypingIn(settings, Now(j)), NEW p \in DOMAIN Normalized(Now(j).text) PROVE 0 # 2 * p - 1
      <4>1. IsEvent(j.input[j.at]) /\ Now(j) = j.input[j.at]
        BY <1>6, ReadyFacts
      <4>2. /\ Len(Normalized(j.input[j.at].text)) \in Nat
            /\ DOMAIN Normalized(j.input[j.at].text) = 1 .. Len(Normalized(j.input[j.at].text))
        BY <3>2, <4>1, SpotFacts
      <4>3. p \in Int
        BY <3>2, <4>1, <4>2
      <4>4. QED
        BY <4>3
    <3>3. QED
      BY <3>1, <3>2
  <2>6. J.out \in Seq(Range(J.out)) /\ J.pc \in Begun
    BY <1>6, <2>1, ReadyFacts DEF Begun, Trying, PortalPhases
  <2>7. JobOK(settings, J)
    BY <1>6, <2>1, <2>4, <2>5, <2>6, JobKeeps
  <2>8. QED
    BY <1>3, <1>4, <1>5, <1>8, <2>1, <2>2, <2>3, <2>7 DEF Moved
<1>9. QED
  BY <1>7, <1>8
LEMMA SendingFacts ==
  ASSUME Sound, NEW s \in Sinks, Sending(s)
  PROVE  /\ job[s].pc = "send" /\ job[s].try \in {"portal", "again"}
         /\ DOMAIN job = Sinks /\ DOMAIN job[s] = Fields /\ Settings(settings)
         /\ Ready(settings, job[s]) /\ Told(settings, job[s])
         /\ Striking(settings, job[s], Following(s))
         /\ Untypable(s) <=> Skipped(settings, job[s], Following(s))
<1>1. job[s].pc = "send" /\ job[s].pc \in Begun /\ job[s].at <= Len(job[s].input)
  BY AtEvent DEF Sending, Trying, PortalPhases
<1>2. /\ DOMAIN job = Sinks /\ DOMAIN job[s] = Fields /\ Settings(settings)
      /\ Ready(settings, job[s]) /\ Told(settings, job[s])
      /\ Strokes(s) = Line(settings, job[s])
      /\ Typing(Event(s)) <=> TypingIn(settings, Now(job[s]))
  BY <1>1, Going
<1>3. Striking(settings, job[s], Following(s))
  BY <1>1, <1>2 DEF Striking, Sending, Following
<1>4. Untypable(s) <=> Skipped(settings, job[s], Following(s))
  BY <1>2 DEF Untypable, Skipped
<1>5. job[s].try \in {"portal", "again"}
  BY <1>1, <1>2 DEF Ready, JobOK
<1>6. QED
  BY <1>1, <1>2, <1>3, <1>4, <1>5

(* A job that sends still has what sending needs. *)
LEMMA StillUnderstood ==
  ASSUME NEW c, NEW j, Ready(c, j), j.pc \in PortalPhases
  PROVE  TypingIn(c, Now(j)) \/ Range(KeysOf(j, Now(j))) \subseteq PortalKeys
BY DEF Ready, JobOK

LEMMA SkipJob ==
  ASSUME Sound, NEW s \in Sinks, SkipCharacter(s)
  PROVE  /\ Moved(s) /\ Same(job'[s], job[s]) /\ job[s].pc = "send" /\ job'[s].pc = "send"
         /\ job'[s].sender = job[s].sender /\ job'[s].copied = job[s].copied
         /\ job'[s].strokes = job[s].strokes + 2
<1>1. Sending(s) /\ Untypable(s)
  BY DEF SkipCharacter
<1>2. /\ job[s].pc = "send" /\ job[s].try \in {"portal", "again"}
      /\ DOMAIN job = Sinks /\ DOMAIN job[s] = Fields
      /\ Ready(settings, job[s]) /\ Told(settings, job[s])
      /\ Striking(settings, job[s], Following(s)) /\ Skipped(settings, job[s], Following(s))
  BY <1>1, SendingFacts
<1>3. settings' = settings /\ DOMAIN job' = Sinks /\ \A x \in Sinks \ {s} : job'[x] = job[x]
  BY <1>2 DEF SkipCharacter
<1>4. PICK j : j = job[s]
  OBVIOUS
<1>5. PICK J : J = job'[s]
  OBVIOUS
<1>6. /\ DOMAIN J = Fields /\ J.input = j.input /\ J.at = j.at
      /\ J.paste = j.paste /\ J.out = j.out /\ J.won = j.won /\ J.copied = j.copied
      /\ J.failed = j.failed /\ J.pc = "send" /\ J.try = j.try /\ J.strokes = j.strokes + 2 /\ J.sender = j.sender
  BY <1>2, <1>4, <1>5 DEF SkipCharacter, Fields
<1>7. Same(J, j)
  BY <1>6 DEF Same
<1>8. /\ Told(settings, J) /\ J.strokes \in 0 .. Len(Line(settings, j))
      /\ \A p \in DOMAIN Normalized(Now(j).text) :
           J.strokes = 2 * p - 1 => Normalized(Now(j).text)[p] \notin NoKeysym
  <2>1. PICK x : x = Following(s)
    OBVIOUS
  <2>2. Striking(settings, j, x) /\ Skipped(settings, j, x) /\ Told(settings, j)
    BY <1>2, <1>4, <2>1
  <2>3. QED
    BY <1>6, <1>7, <2>2, SkipKeeps
<1>9. Ready(settings, j) /\ j.pc \in PortalPhases /\ J.try \in {"portal", "again"}
  BY <1>2, <1>4, <1>6 DEF PortalPhases
<1>10. J.out \in Seq(Range(J.out)) /\ J.pc \in Begun
  BY <1>6, <1>9, ReadyFacts DEF Begun, Trying, PortalPhases
<1>11. TypingIn(settings, Now(j)) \/ Range(KeysOf(j, Now(j))) \subseteq PortalKeys
  BY <1>9, StillUnderstood
<1>12. JobOK(settings, J)
  BY <1>6, <1>8, <1>9, <1>10, <1>11, JobKeeps
<1>13. QED
  BY <1>2, <1>3, <1>4, <1>5, <1>6, <1>7, <1>8, <1>12 DEF Moved

(* What the application sees of a stroke. *)
Glimpse(s) == Seen(s, Following(s).place, Following(s).key, HeldKeys)

LEMMA GlimpseFacts ==
  ASSUME Sound, NEW s \in Sinks, Sending(s), ~Untypable(s)
  PROVE  /\ Shown(s) = IF Shows(Following(s)) THEN Append(job[s].out, Glimpse(s)) ELSE job[s].out
         /\ Glimpse(s).ev = job[s].at /\ Glimpse(s).try = job[s].try /\ Glimpse(s).place = Following(s).place
         /\ Glimpse(s).mark = Following(s).key /\ Glimpse(s).mods = HeldKeys /\ Glimpse(s).win = focus
         /\ Glimpse(s).clip = (IF PastingIn(settings, Now(job[s])) THEN clip ELSE <<>>)
         /\ Glimpse(s).ours = job[s].copied
<1>1. Shown(s) = IF Shows(Following(s)) THEN Append(job[s].out, Glimpse(s)) ELSE job[s].out
  BY Zenon DEF Shown, Shows, Glimpse
<1>2. Pasting(Event(s)) <=> PastingIn(settings, Now(job[s]))
  BY DEF Pasting, PastingIn, Event, Now
<1>3. PICK x : x = Glimpse(s)
  OBVIOUS
<1>4. /\ x.ev = job[s].at /\ x.try = job[s].try /\ x.place = Following(s).place
      /\ x.mark = Following(s).key /\ x.mods = HeldKeys /\ x.win = focus
      /\ x.clip = (IF PastingIn(settings, Now(job[s])) THEN clip ELSE <<>>)
      /\ x.ours = job[s].copied
  BY <1>2, <1>3 DEF Glimpse, Seen
<1>5. QED
  BY <1>1, <1>3, <1>4

LEMMA StrokeJob ==
  ASSUME Sound, NEW s \in Sinks, Stroke(s)
  PROVE  /\ Moved(s) /\ job[s].pc = "send" /\ job'[s].pc = "send"
         /\ job'[s].input = job[s].input /\ job'[s].paste = job[s].paste /\ job'[s].at = job[s].at
         /\ job'[s].sender = job[s].sender /\ job'[s].copied = job[s].copied
         /\ job'[s].strokes = job[s].strokes + 1
         /\ job'[s].out = Shown(s)
<1>1. Sending(s) /\ ~Untypable(s)
  BY DEF Stroke
<1>2. /\ job[s].pc = "send" /\ job[s].try \in {"portal", "again"}
      /\ DOMAIN job = Sinks /\ DOMAIN job[s] = Fields
      /\ Ready(settings, job[s]) /\ Told(settings, job[s])
      /\ Striking(settings, job[s], Following(s)) /\ ~Skipped(settings, job[s], Following(s))
  BY <1>1, SendingFacts
<1>3. settings' = settings /\ DOMAIN job' = Sinks /\ \A x \in Sinks \ {s} : job'[x] = job[x]
  BY <1>2 DEF Stroke
<1>4. PICK j : j = job[s]
  OBVIOUS
<1>5. PICK J : J = job'[s]
  OBVIOUS
<1>6. /\ DOMAIN J = Fields /\ J.input = j.input /\ J.at = j.at
      /\ J.paste = j.paste /\ J.out = Shown(s) /\ J.won = j.won /\ J.copied = j.copied
      /\ J.failed = j.failed /\ J.pc = "send" /\ J.try = j.try /\ J.strokes = j.strokes + 1 /\ J.sender = j.sender
  BY <1>2, <1>4, <1>5 DEF Stroke, Fields
<1>7. PICK x : x = Following(s)
  OBVIOUS
<1>8. PICK e : e = Glimpse(s)
  OBVIOUS
<1>9. /\ J.out = IF Shows(x) THEN Append(j.out, e) ELSE j.out
      /\ e.ev = j.at /\ e.try = j.try /\ e.place = x.place /\ e.mark = x.key
  BY <1>1, <1>4, <1>6, <1>7, <1>8, GlimpseFacts
<1>10. Striking(settings, j, x) /\ ~Skipped(settings, j, x) /\ Told(settings, j) /\ Ready(settings, j) /\ j.pc \in PortalPhases
  BY <1>2, <1>4, <1>7 DEF PortalPhases
<1>11. J.out \in Seq(Range(J.out)) /\ Told(settings, J)
  BY <1>6, <1>9, <1>10, StrokeKeeps
<1>12. /\ J.strokes \in 0 .. Len(Line(settings, j))
       /\ TypingIn(settings, Now(j)) =>
            \A p \in DOMAIN Normalized(Now(j).text) :
              J.strokes = 2 * p - 1 => Normalized(Now(j).text)[p] \notin NoKeysym
  <2>1. j.strokes + 1 \in 1 .. Len(Line(settings, j))
    BY <1>10, StrokeKinds
  <2>2. Len(Line(settings, j)) \in Nat
    BY <1>10, LineFacts
  <2>3. j.strokes + 1 \in 0 .. Len(Line(settings, j))
    BY <2>1, <2>2
  <2>4. QED
    BY <1>6, <1>10, <2>3, StrokeShows
<1>13. TypingIn(settings, Now(j)) \/ Range(KeysOf(j, Now(j))) \subseteq PortalKeys
  BY <1>10, StillUnderstood
<1>14. JobOK(settings, J)
  <2>1. J.pc \in Begun /\ J.try \in {"portal", "again"}
    BY <1>2, <1>4, <1>6 DEF Begun, Trying, PortalPhases
  <2>2. QED
    BY <1>6, <1>10, <1>11, <1>12, <1>13, <2>1, JobKeeps
<1>15. QED
  BY <1>2, <1>3, <1>4, <1>5, <1>6, <1>11, <1>14 DEF Moved

LEMMA SentJob ==
  ASSUME Sound, NEW s \in Sinks, Sent(s)
  PROVE  /\ Moved(s) /\ job[s].pc = "send" /\ job'[s].pc = "event"
         /\ job'[s].input = job[s].input /\ job'[s].paste = job[s].paste /\ job'[s].out = job[s].out
         /\ job'[s].at = job[s].at + 1 /\ job'[s].copied = job[s].copied
<1>1. job[s].pc = "send" /\ job[s].pc \in Begun /\ job[s].at <= Len(job[s].input)
  BY AtEvent DEF Sent, Trying, PortalPhases
<1>2. /\ DOMAIN job = Sinks /\ DOMAIN job[s] = Fields
      /\ Ready(settings, job[s]) /\ Told(settings, job[s])
      /\ Strokes(s) = Line(settings, job[s])
  BY <1>1, Going
<1>3. settings' = settings /\ DOMAIN job' = Sinks /\ \A x \in Sinks \ {s} : job'[x] = job[x]
  BY <1>2 DEF Sent
<1>4. PICK j : j = job[s]
  OBVIOUS
<1>5. PICK J : J = job'[s]
  OBVIOUS
<1>6. J = Won(j)
  BY <1>2, <1>4, <1>5 DEF Sent
<1>7. Ready(settings, j) /\ Told(settings, j) /\ j.pc = "send" /\ DOMAIN j = Fields /\ j.strokes = Len(Line(settings, j))
  BY <1>1, <1>2, <1>4 DEF Sent
<1>8. j.try \in Tries
  BY <1>7 DEF Ready, JobOK, Tries
<1>9. Partly(settings, j)
  BY <1>7, SendingPartly
<1>10. TypedBy(j, j.at, j.try) = Spots(settings, j, j.at, j.try)
  <2>1. TypedBy(j, j.at, j.try) = {p \in Spots(settings, j, j.at, j.try) : PressedAt(settings, j, p) <= j.strokes}
    BY <1>7 DEF Told, Under, Ready
  <2>2. ASSUME NEW p \in Spots(settings, j, j.at, j.try) PROVE PressedAt(settings, j, p) <= j.strokes
    <3>1. PressedAt(settings, j, p) \in 1 .. Len(Line(settings, j)) /\ Len(Line(settings, j)) \in Nat
      BY <1>7, LineFacts
    <3>2. QED
      BY <1>7, <3>1
  <2>3. QED
    BY <2>1, <2>2
<1>11. JobOK(settings, J) /\ Told(settings, J)
  BY <1>6, <1>7, <1>8, <1>9, <1>10, WonKeeps
<1>12. /\ J.pc = "event" /\ J.at = j.at + 1 /\ J.input = j.input /\ J.paste = j.paste /\ J.out = j.out
       /\ J.copied = j.copied
  BY <1>6, <1>7, WonFields
<1>13. QED
  BY <1>1, <1>3, <1>4, <1>5, <1>11, <1>12 DEF Moved
(* A try fails. *)
LEMMA LostJob ==
  ASSUME Sound, NEW s \in Sinks, settings' = settings,
         NEW j, Ready(settings, j), Partly(settings, j), j.try \in Tries,
         job' = [job EXCEPT ![s] = Lost(j)]
  PROVE  /\ Moved(s) /\ Same(job'[s], j) /\ job'[s].copied = j.copied
         /\ job'[s].pc \in {"try", "error"}
<1>1. DOMAIN job = Sinks
  BY Basics DEF Sound
<1>2. job'[s] = Lost(j) /\ DOMAIN job' = Sinks /\ \A x \in Sinks \ {s} : job'[x] = job[x]
  BY <1>1
<1>3. JobOK(settings, Lost(j)) /\ Told(settings, Lost(j))
  BY LostKeeps
<1>4. Same(Lost(j), j) /\ Lost(j).copied = j.copied /\ Lost(j).pc \in {"try", "error"}
  BY ReadyFacts, LostFields
<1>5. QED
  BY <1>2, <1>3, <1>4 DEF Moved

(* What a program types for s. *)
ByTool(s, x) ==
  /\ x.ev = job[s].at /\ x.ours = job[s].copied
  /\ x.clip = IF PastingIn(settings, Now(job[s])) THEN clip ELSE <<>>
  /\ x.mods = IF TypingIn(settings, Now(job[s])) THEN HeldKeys
              ELSE HeldKeys \cup Range(Front(KeysOf(job[s], Now(job[s]))))

(* The first n marks are typed. *)
LEMMA ToolJob ==
  ASSUME Sound, NEW s \in Sinks, job[s].pc = "try", job[s].try \in {"wtype", "ydotool"},
         NEW m, m = Marks(s, Event(s)), NEW n \in 0 .. Len(m),
         NEW J, DOMAIN J = Fields, J.pc = "try", J.input = job[s].input, J.paste = job[s].paste,
         J.at = job[s].at, J.try = job[s].try, J.won = job[s].won, J.failed = job[s].failed,
         Grown(job[s].out, J.out, m, n)
  PROVE  /\ Ready(settings, J) /\ Partly(settings, J)
         /\ \A x \in Range(J.out) : x \in Range(job[s].out) \/ ByTool(s, x)
         /\ n = Len(m) => TypedBy(J, J.at, J.try) = Spots(settings, J, J.at, J.try)
<1>1. job[s].pc \in Begun /\ job[s].at <= Len(job[s].input)
  BY AtEvent DEF Trying
<1>2. /\ DOMAIN job = Sinks /\ DOMAIN job[s] = Fields /\ Settings(settings)
      /\ Ready(settings, job[s]) /\ Told(settings, job[s])
  BY <1>1, Going
<1>3. PICK j : j = job[s]
  OBVIOUS
<1>4. /\ Ready(settings, j) /\ Told(settings, j) /\ j.pc = "try" /\ j.try \in {"wtype", "ydotool"}
      /\ j.try \in Tries /\ j.pc \in Trying \ {"send"} /\ DOMAIN j = Fields
  BY <1>2, <1>3 DEF Tries, Trying
<1>6. /\ m \in Seq(Range(m)) /\ Len(m) \in Nat
      /\ Spots(settings, j, j.at, j.try) = 1 .. Len(m)
      /\ \A i \in 1 .. Len(m) :
           /\ m[i].ev = j.at /\ m[i].try = j.try /\ m[i].place = i /\ m[i].mark = Sign(settings, j, j.at, i)
           /\ ByTool(s, m[i])
  <2>1. j = job[s] /\ Ready(settings, j) /\ Settings(settings)
    BY <1>2, <1>3
  <2>2. /\ m \in Seq(Range(m)) /\ Len(m) \in Nat
        /\ Spots(settings, j, j.at, j.try) = 1 .. Len(m)
        /\ \A i \in 1 .. Len(m) :
             /\ m[i].ev = j.at /\ m[i].try = j.try /\ m[i].place = i /\ m[i].mark = Sign(settings, j, j.at, i)
             /\ m[i].clip = (IF PastingIn(settings, Now(j)) THEN clip ELSE <<>>)
             /\ m[i].ours = j.copied
             /\ m[i].mods = IF TypingIn(settings, Now(j)) THEN HeldKeys
                             ELSE HeldKeys \cup Range(Front(KeysOf(j, Now(j))))
    <3>1. PICK t \in {"wtype", "ydotool"} : t = j.try
      BY <1>4
    <3>2. m = Marks(s, Event(s))
      OBVIOUS
    <3>3. Listed(s, j, m, t)
      BY <2>1, <3>1, <3>2, MarkPlaces
    <3>4. QED
      BY <3>1, <3>3 DEF Listed
  <2>3. \A i \in 1 .. Len(m) : ByTool(s, m[i])
    BY <2>1, <2>2, Zenon DEF ByTool
  <2>4. QED
    BY <2>2, <2>3
<1>10. /\ DOMAIN J = Fields /\ J.pc = "try" /\ J.try = j.try /\ J.input = j.input /\ J.paste = j.paste
       /\ J.at = j.at /\ J.won = j.won /\ J.failed = j.failed
  BY <1>3
<1>11. n \in 0 .. Len(m) /\ Grown(j.out, J.out, m, n)
  BY <1>3
<1>12. Partly(settings, j) /\ TypedBy(j, j.at, j.try) = {}
  BY <1>4, WaitingPartly, FirstTryNothing
<1>13. /\ Partly(settings, J) /\ J.out \in Seq(Range(J.out))
       /\ TypedBy(J, j.at, j.try) = 1 .. n
       /\ \A x \in Range(J.out) : x \in Range(j.out) \/ \E i \in 1 .. n : x = m[i]
  <2>1. \A i \in 1 .. Len(m) :
           m[i].ev = j.at /\ m[i].try = j.try /\ m[i].place = i /\ m[i].mark = Sign(settings, j, j.at, i)
    BY <1>6
  <2>2. m \in Seq(Range(m)) /\ Len(m) \in Nat /\ Spots(settings, j, j.at, j.try) = 1 .. Len(m)
    BY <1>6
  <2>3. /\ J.input = j.input /\ J.paste = j.paste /\ J.at = j.at /\ J.try = j.try /\ J.won = j.won
        /\ J.failed = j.failed
    BY <1>10
  <2>4. QED
    <3>1. PICK N \in Nat : N = Len(m)
      BY <2>2
    <3>2. /\ Ready(settings, j) /\ Partly(settings, j) /\ j.try \in Tries /\ TypedBy(j, j.at, j.try) = {}
      BY <1>4, <1>12
    <3>3. /\ Spots(settings, j, j.at, j.try) = 1 .. N /\ m \in Seq(Range(m)) /\ Len(m) = N /\ n \in 0 .. N
          /\ \A i \in 1 .. N :
               m[i].ev = j.at /\ m[i].try = j.try /\ m[i].place = i /\ m[i].mark = Sign(settings, j, j.at, i)
      BY <1>11, <2>1, <2>2, <3>1
    <3>4. Grown(j.out, J.out, m, n)
      BY <1>11
    <3>5. QED
      <4>1. Typer(settings, j, N, m, n, J)
        BY <2>3, <3>1, <3>2, <3>3, <3>4 DEF Typer
      <4>2. Typist(settings, j, m, n, J)
        BY <4>1, ToolTypes
      <4>3. QED
        BY <4>2 DEF Typist
<1>14. Ready(settings, J)
  <2>1. J.pc \in Begun /\ J.pc \notin PortalPhases
    BY <1>10 DEF Begun, Trying, PortalPhases
  <2>2. J.try \in {"portal", "wtype", "ydotool"}
    BY <1>4, <1>10
  <2>3. JobOK(settings, J)
    BY <1>4, <1>10, <1>13, <2>1, <2>2, JobKeeps
  <2>4. QED
    BY <1>4, <1>10, <2>1, <2>3 DEF Ready
<1>15. \A x \in Range(J.out) : x \in Range(job[s].out) \/ ByTool(s, x)
  <2>1. \A i \in 1 .. n : i \in 1 .. Len(m)
    BY <1>6, <1>11
  <2>2. QED
    BY <1>3, <1>6, <1>13, <2>1
<1>16. n = Len(m) => TypedBy(J, J.at, J.try) = Spots(settings, J, J.at, J.try)
  <2>1. Spots(settings, J, J.at, J.try) = Spots(settings, j, j.at, j.try)
    <3>1. \A i, t : Spots(settings, J, i, t) = Spots(settings, j, i, t)
      BY <1>10, Depends
    <3>2. QED
      BY <1>10, <3>1
  <2>2. QED
    BY <1>6, <1>10, <1>13, <2>1
<1>17. QED
  BY <1>3, <1>10, <1>13, <1>14, <1>15, <1>16
(* The job of s after its out grew. *)
LEMMA OutFields ==
  ASSUME NEW j, DOMAIN j = Fields, NEW o
  PROVE  LET J == [j EXCEPT !.out = o] IN
         /\ DOMAIN J = Fields /\ J.out = o
         /\ J.pc = j.pc /\ J.input = j.input /\ J.paste = j.paste /\ J.at = j.at /\ J.try = j.try
         /\ J.won = j.won /\ J.failed = j.failed /\ J.copied = j.copied /\ J.sender = j.sender
         /\ J.strokes = j.strokes
BY DEF Fields

LEMMA UseToolJob ==
  ASSUME Sound, NEW s \in Sinks, UseTool(s)
  PROVE  /\ Moved(s) /\ job[s].pc = "try"
         /\ job'[s].input = job[s].input /\ job'[s].paste = job[s].paste /\ job'[s].copied = job[s].copied
         /\ \/ Same(job'[s], job[s]) /\ job'[s].pc \in {"try", "error"}
            \/ /\ job'[s].pc = "event"
               /\ \A x \in Range(job'[s].out) : x \in Range(job[s].out) \/ ByTool(s, x)
<1>1. job[s].pc = "try" /\ job[s].try \in {"wtype", "ydotool"} /\ job[s].pc \in Begun /\ job[s].at <= Len(job[s].input)
  BY AtEvent DEF UseTool, Trying
<1>2. /\ DOMAIN job = Sinks /\ DOMAIN job[s] = Fields /\ Settings(settings)
      /\ Ready(settings, job[s]) /\ Told(settings, job[s])
  BY <1>1, Going
<1>3. PICK j : j = job[s]
  OBVIOUS
<1>4. /\ Ready(settings, j) /\ Told(settings, j) /\ j.pc = "try" /\ j.try \in {"wtype", "ydotool"}
      /\ j.try \in Tries /\ j.pc \in Trying \ {"send"} /\ DOMAIN j = Fields
  BY <1>1, <1>2, <1>3 DEF Tries, Trying
<1>5. CASE ~Usable(j.try)
  <2>1. settings' = settings /\ job' = [job EXCEPT ![s] = Lost(j)]
    BY <1>2, <1>3, <1>5 DEF UseTool
  <2>2. Partly(settings, j)
    BY <1>4, WaitingPartly
  <2>3. Moved(s) /\ Same(job'[s], j) /\ job'[s].copied = j.copied /\ job'[s].pc \in {"try", "error"}
    BY <1>4, <2>1, <2>2, LostJob
  <2>4. QED
    BY <1>3, <1>4, <2>3 DEF Same
<1>6. CASE Usable(j.try)
  <2>1. PICK m : m = Marks(s, Event(s))
    OBVIOUS
  <2>2. m \in Seq(Range(m)) /\ Len(m) \in Nat
    <3>1. PICK t \in {"wtype", "ydotool"} : t = j.try
      BY <1>4
    <3>2. Listed(s, j, m, t)
      BY <1>2, <1>3, <2>1, <3>1, MarkPlaces
    <3>3. QED
      BY <3>2 DEF Listed
  <2>3. PICK o : o = j.out \o m
    OBVIOUS
  <2>4. Grown(j.out, o, m, Len(m))
    <3>1. SubSeq(m, 1, Len(m)) = m
      BY <2>2, SubSeqFull
    <3>2. j.out \in Seq(Range(j.out)) /\ Len(m) \in 0 .. Len(m)
      BY <1>4, <2>2, ReadyFacts
    <3>3. Grown(j.out, j.out \o SubSeq(m, 1, Len(m)), m, Len(m))
      BY <2>2, <3>2, Grows
    <3>4. QED
      BY <2>3, <3>1, <3>3
  <2>5. PICK K : K = [j EXCEPT !.out = o]
    OBVIOUS
  <2>6. settings' = settings /\ job' = [job EXCEPT ![s] = Won(K)]
    <3>0. settings' = settings
      BY DEF UseTool
    <3>1. job' = [job EXCEPT ![s] = IF Usable(job[s].try)
                                    THEN Won([job[s] EXCEPT !.out = job[s].out \o Marks(s, Event(s))])
                                    ELSE Lost(job[s])]
      BY DEF UseTool
    <3>2. job' = [job EXCEPT ![s] = IF Usable(j.try) THEN Won([j EXCEPT !.out = o]) ELSE Lost(j)]
      BY <1>3, <2>1, <2>3, <3>1, Zenon
    <3>3. QED
      BY <1>6, <2>5, <3>0, <3>2, Zenon
  <2>7. /\ DOMAIN K = Fields /\ K.out = o
        /\ K.pc = j.pc /\ K.input = j.input /\ K.paste = j.paste /\ K.at = j.at /\ K.try = j.try
        /\ K.won = j.won /\ K.failed = j.failed /\ K.copied = j.copied
    BY <1>4, <2>5, OutFields
  <2>8. /\ Ready(settings, K) /\ Partly(settings, K)
        /\ \A x \in Range(K.out) : x \in Range(job[s].out) \/ ByTool(s, x)
        /\ TypedBy(K, K.at, K.try) = Spots(settings, K, K.at, K.try)
    <3>1. PICK n \in 0 .. Len(m) : n = Len(m)
      BY <2>2
    <3>2. /\ K.pc = "try" /\ K.input = job[s].input /\ K.paste = job[s].paste
          /\ K.at = job[s].at /\ K.try = job[s].try /\ K.won = job[s].won /\ K.failed = job[s].failed
          /\ Grown(job[s].out, K.out, m, n)
      BY <1>3, <1>4, <2>4, <2>7, <3>1
    <3>3. QED
      BY <1>1, <2>1, <2>7, <3>1, <3>2, ToolJob
  <2>9. JobOK(settings, Won(K)) /\ Told(settings, Won(K))
    BY <1>4, <2>7, <2>8, WonKeeps
  <2>10. /\ Won(K).pc = "event" /\ Won(K).input = K.input /\ Won(K).paste = K.paste /\ Won(K).out = K.out
         /\ Won(K).copied = K.copied
    BY <2>7, WonFields
  <2>11. job'[s] = Won(K) /\ DOMAIN job' = Sinks /\ \A x \in Sinks \ {s} : job'[x] = job[x]
    BY <1>2, <2>6
  <2>12. QED
    BY <1>1, <1>3, <2>6, <2>7, <2>8, <2>9, <2>10, <2>11 DEF Moved
<1>7. QED
  BY <1>5, <1>6

LEMMA ToolFailsJob ==
  ASSUME Sound, NEW s \in Sinks, ToolFails(s)
  PROVE  /\ Moved(s) /\ job[s].pc = "try" /\ job'[s].pc \in {"try", "error"}
         /\ job'[s].input = job[s].input /\ job'[s].paste = job[s].paste /\ job'[s].copied = job[s].copied
         /\ job'[s].at = job[s].at
         /\ \A x \in Range(job'[s].out) : x \in Range(job[s].out) \/ ByTool(s, x)
<1>1. job[s].pc = "try" /\ job[s].try \in {"wtype", "ydotool"} /\ job[s].pc \in Begun /\ job[s].at <= Len(job[s].input)
  BY AtEvent DEF ToolFails, Trying
<1>2. /\ DOMAIN job = Sinks /\ DOMAIN job[s] = Fields /\ Settings(settings)
      /\ Ready(settings, job[s]) /\ Told(settings, job[s])
  BY <1>1, Going
<1>3. PICK j : j = job[s]
  OBVIOUS
<1>4. /\ Ready(settings, j) /\ j.pc = "try" /\ j.try \in {"wtype", "ydotool"}
      /\ j.try \in Tries /\ DOMAIN j = Fields
  BY <1>1, <1>2, <1>3 DEF Tries
<1>5. PICK m : m = Marks(s, Event(s))
  OBVIOUS
<1>6. m \in Seq(Range(m)) /\ Len(m) \in Nat
  <2>1. PICK t \in {"wtype", "ydotool"} : t = j.try
    BY <1>4
  <2>2. Listed(s, j, m, t)
    BY <1>2, <1>3, <1>5, <2>1, MarkPlaces
  <2>3. QED
    BY <2>2 DEF Listed
<1>7. settings' = settings /\ \E n \in 0 .. Len(m) : job' = [job EXCEPT ![s] = Lost([job[s] EXCEPT !.out = job[s].out \o SubSeq(m, 1, n)])]
  BY <1>5 DEF ToolFails
<1>8. PICK n \in 0 .. Len(m) : job' = [job EXCEPT ![s] = Lost([job[s] EXCEPT !.out = job[s].out \o SubSeq(m, 1, n)])]
  BY <1>7
<1>9. PICK o : o = j.out \o SubSeq(m, 1, n)
  OBVIOUS
<1>10. Grown(j.out, o, m, n)
  <2>1. j.out \in Seq(Range(j.out))
    BY <1>4, ReadyFacts
  <2>2. Grown(j.out, j.out \o SubSeq(m, 1, n), m, n)
    BY <1>6, <2>1, Grows
  <2>3. QED
    BY <1>9, <2>2
<1>11. PICK K : K = [j EXCEPT !.out = o]
  OBVIOUS
<1>12. job' = [job EXCEPT ![s] = Lost(K)]
  <2>1. job' = [job EXCEPT ![s] = Lost([job[s] EXCEPT !.out = job[s].out \o SubSeq(m, 1, n)])]
    BY <1>8
  <2>2. QED
    BY <1>3, <1>9, <1>11, <2>1, Zenon
<1>13. /\ DOMAIN K = Fields /\ K.out = o
       /\ K.pc = j.pc /\ K.input = j.input /\ K.paste = j.paste /\ K.at = j.at /\ K.try = j.try
       /\ K.won = j.won /\ K.failed = j.failed /\ K.copied = j.copied
  BY <1>4, <1>11, OutFields
<1>14. /\ Ready(settings, K) /\ Partly(settings, K)
       /\ \A x \in Range(K.out) : x \in Range(job[s].out) \/ ByTool(s, x)
  <2>1. /\ K.pc = "try" /\ K.input = job[s].input /\ K.paste = job[s].paste
        /\ K.at = job[s].at /\ K.try = job[s].try /\ K.won = job[s].won /\ K.failed = job[s].failed
        /\ Grown(job[s].out, K.out, m, n)
    BY <1>3, <1>4, <1>10, <1>13
  <2>2. QED
    BY <1>1, <1>5, <1>13, <2>1, ToolJob
<1>15. Moved(s) /\ Same(job'[s], K) /\ job'[s].copied = K.copied /\ job'[s].pc \in {"try", "error"}
  BY <1>4, <1>7, <1>12, <1>13, <1>14, LostJob
<1>16. QED
  BY <1>1, <1>3, <1>13, <1>14, <1>15 DEF Same
(* The portal fails: for the first time, or the session that replaced it. *)
LEMMA FailedJob ==
  ASSUME Sound, NEW s \in Sinks, settings' = settings,
         NEW j, Ready(settings, j), Partly(settings, j), j.try \in {"portal", "again"}, j.pc = "send",
         job' = [job EXCEPT ![s] = Failed(j)]
  PROVE  /\ Moved(s) /\ Same(job'[s], j) /\ job'[s].copied = j.copied
         /\ job'[s].pc \in {"reconnect", "try", "error"}
<1>1. DOMAIN job = Sinks
  BY Basics DEF Sound
<1>2. job'[s] = Failed(j) /\ DOMAIN job' = Sinks /\ \A x \in Sinks \ {s} : job'[x] = job[x]
  BY <1>1
<1>3. DOMAIN j = Fields
  BY ReadyFacts
<1>4. CASE j.try = "portal"
  <2>1. PICK J : J = [j EXCEPT !.pc = "reconnect", !.failed = @ \cup {<<j.at, "portal">>}]
    OBVIOUS
  <2>2. job'[s] = J
    BY <1>2, <1>4, <2>1 DEF Failed
  <2>3. /\ DOMAIN J = Fields /\ J.pc = "reconnect" /\ J.failed = j.failed \cup {<<j.at, "portal">>}
        /\ J.input = j.input /\ J.paste = j.paste /\ J.at = j.at /\ J.try = j.try /\ J.out = j.out
        /\ J.won = j.won /\ J.copied = j.copied
    BY <1>3, <2>1 DEF Fields
  <2>4. Same(J, j)
    BY <2>3 DEF Same
  <2>5. j.failed \subseteq J.failed /\ <<j.at, j.try>> \in J.failed
    BY <1>4, <2>3
  <2>6. Told(settings, J)
    BY <2>3, <2>4, <2>5, PauseKeeps
  <2>7. TypingIn(settings, Now(j)) \/ Range(KeysOf(j, Now(j))) \subseteq PortalKeys
    BY StillUnderstood DEF PortalPhases
  <2>8. J.out \in Seq(Range(J.out)) /\ J.pc \in Begun
    BY <2>3, ReadyFacts DEF Begun, Trying, PortalPhases
  <2>9. JobOK(settings, J)
    BY <1>4, <2>3, <2>7, <2>8, JobKeeps
  <2>10. QED
    BY <1>2, <2>2, <2>3, <2>4, <2>6, <2>9 DEF Moved
<1>5. CASE j.try # "portal"
  <2>1. job' = [job EXCEPT ![s] = Lost(j)]
    BY <1>5 DEF Failed
  <2>2. j.try \in Tries
    BY DEF Tries
  <2>3. QED
    BY <2>1, <2>2, LostJob
<1>6. QED
  BY <1>4, <1>5

LEMMA UnreachableJob ==
  ASSUME Sound, NEW s \in Sinks, Unreachable(s)
  PROVE  /\ Moved(s) /\ Same(job'[s], job[s]) /\ job'[s].copied = job[s].copied
         /\ job[s].pc = "send" /\ job'[s].pc \in {"reconnect", "try", "error"}
<1>1. Sending(s)
  BY DEF Unreachable
<1>2. /\ job[s].pc = "send" /\ job[s].try \in {"portal", "again"}
      /\ Ready(settings, job[s]) /\ Told(settings, job[s])
  BY <1>1, SendingFacts
<1>3. settings' = settings /\ job' = [job EXCEPT ![s] = Failed(job[s])]
  BY DEF Unreachable
<1>4. Partly(settings, job[s])
  BY <1>2, SendingPartly
<1>5. QED
  BY <1>2, <1>3, <1>4, FailedJob

LEMMA CallFailsJob ==
  ASSUME Sound, NEW s \in Sinks, CallFails(s)
  PROVE  /\ Moved(s) /\ job[s].pc = "send" /\ job'[s].pc \in {"reconnect", "try", "error"}
         /\ job'[s].input = job[s].input /\ job'[s].paste = job[s].paste /\ job'[s].at = job[s].at
         /\ job'[s].copied = job[s].copied
         /\ \/ held' = held /\ job'[s].out = job[s].out
            \/ held' = Effect(s) /\ job'[s].out = Shown(s)
<1>1. Sending(s) /\ ~Untypable(s)
  BY DEF CallFails
<1>2. /\ job[s].pc = "send" /\ job[s].try \in {"portal", "again"}
      /\ DOMAIN job = Sinks /\ DOMAIN job[s] = Fields
      /\ Ready(settings, job[s]) /\ Told(settings, job[s])
      /\ Striking(settings, job[s], Following(s)) /\ ~Skipped(settings, job[s], Following(s))
  BY <1>1, SendingFacts
<1>3. settings' = settings
  BY DEF CallFails
<1>4. CASE held' = held /\ job' = [job EXCEPT ![s] = Failed(job[s])]
  <2>1. Partly(settings, job[s])
    BY <1>2, SendingPartly
  <2>2. /\ Moved(s) /\ Same(job'[s], job[s]) /\ job'[s].copied = job[s].copied
        /\ job'[s].pc \in {"reconnect", "try", "error"}
    BY <1>2, <1>3, <1>4, <2>1, FailedJob
  <2>3. QED
    BY <1>2, <1>4, <2>2 DEF Same
<1>5. CASE held' = Effect(s) /\ job' = [job EXCEPT ![s] = Failed([job[s] EXCEPT !.out = Shown(s)])]
  <2>1. PICK j : j = job[s]
    OBVIOUS
  <2>2. PICK o : o = Shown(s)
    OBVIOUS
  <2>3. PICK J : J = [j EXCEPT !.out = o]
    OBVIOUS
  <2>4. job' = [job EXCEPT ![s] = Failed(J)]
    BY <1>5, <2>1, <2>2, <2>3
  <2>5. /\ DOMAIN J = Fields /\ J.out = o
        /\ J.pc = j.pc /\ J.input = j.input /\ J.paste = j.paste /\ J.at = j.at /\ J.try = j.try
        /\ J.won = j.won /\ J.failed = j.failed /\ J.copied = j.copied /\ J.strokes = j.strokes
    BY <1>2, <2>1, <2>3, OutFields
  <2>6. PICK x : x = Following(s)
    OBVIOUS
  <2>7. PICK e : e = Glimpse(s)
    OBVIOUS
  <2>8. /\ J.out = IF Shows(x) THEN Append(j.out, e) ELSE j.out
        /\ e.ev = j.at /\ e.try = j.try /\ e.place = x.place /\ e.mark = x.key
    BY <1>1, <2>1, <2>2, <2>5, <2>6, <2>7, GlimpseFacts
  <2>9. /\ Striking(settings, j, x) /\ ~Skipped(settings, j, x) /\ Told(settings, j) /\ Ready(settings, j)
        /\ j.pc = "send" /\ j.try \in {"portal", "again"}
    BY <1>2, <2>1, <2>6
  <2>10. Partly(settings, J) /\ J.out \in Seq(Range(J.out))
    BY <2>5, <2>8, <2>9, StrokeKeeps
  <2>11. Ready(settings, J)
    <3>1. /\ J.strokes \in 0 .. Len(Line(settings, j))
          /\ TypingIn(settings, Now(j)) =>
               \A p \in DOMAIN Normalized(Now(j).text) :
                 J.strokes = 2 * p - 1 => Normalized(Now(j).text)[p] \notin NoKeysym
      <4>1. /\ j.strokes \in 0 .. Len(Line(settings, j))
            /\ TypingIn(settings, Now(j)) =>
                 \A p \in DOMAIN Normalized(Now(j).text) :
                   j.strokes = 2 * p - 1 => Normalized(Now(j).text)[p] \notin NoKeysym
        BY <2>9 DEF Ready, JobOK
      <4>2. J.strokes = j.strokes
        BY <2>5
      <4>3. QED
        BY <4>1, <4>2
    <3>2. TypingIn(settings, Now(j)) \/ Range(KeysOf(j, Now(j))) \subseteq PortalKeys
      BY <2>9, StillUnderstood DEF PortalPhases
    <3>3. J.pc \in Begun /\ J.pc = "send" /\ J.try \in {"portal", "again"}
      BY <2>5, <2>9 DEF Begun, Trying, PortalPhases
    <3>4. JobOK(settings, J)
      BY <2>5, <2>9, <2>10, <3>1, <3>2, <3>3, JobKeeps
    <3>5. QED
      BY <2>5, <2>9, <3>3, <3>4 DEF Ready
  <2>12. /\ Moved(s) /\ Same(job'[s], J) /\ job'[s].copied = J.copied
         /\ job'[s].pc \in {"reconnect", "try", "error"}
    BY <1>3, <2>4, <2>5, <2>9, <2>10, <2>11, FailedJob
  <2>13. QED
    BY <1>2, <1>5, <2>1, <2>2, <2>5, <2>12 DEF Same
<1>6. QED
  BY <1>4, <1>5 DEF CallFails

(* The phases of a reconnect. *)
LEMMA PhaseJob ==
  ASSUME Sound, NEW s \in Sinks, settings' = settings, job[s].pc \in {"reconnect", "connect"},
         NEW p \in {"connect", "dialog"}, NEW n, NEW J,
         J = [job[s] EXCEPT !.pc = p, !.sender = n] \/ J = [job[s] EXCEPT !.pc = p],
         job' = [job EXCEPT ![s] = J]
  PROVE  /\ Moved(s) /\ Same(job'[s], job[s]) /\ job'[s].copied = job[s].copied /\ job'[s].pc = p
<1>1. job[s].pc \in Begun /\ job[s].pc \in Trying /\ job[s].at <= Len(job[s].input)
  BY AtEvent DEF Trying, PortalPhases
<1>2. /\ DOMAIN job = Sinks /\ DOMAIN job[s] = Fields
      /\ Ready(settings, job[s]) /\ Told(settings, job[s])
  BY <1>1, Going
<1>3. job'[s] = J /\ DOMAIN job' = Sinks /\ \A x \in Sinks \ {s} : job'[x] = job[x]
  BY <1>2
<1>4. PICK j : j = job[s]
  OBVIOUS
<1>5. /\ DOMAIN J = Fields /\ J.pc = p /\ J.failed = j.failed
      /\ J.input = j.input /\ J.paste = j.paste /\ J.at = j.at /\ J.try = j.try /\ J.out = j.out
      /\ J.won = j.won /\ J.copied = j.copied
  <2>1. DOMAIN j = Fields /\ (J = [j EXCEPT !.pc = p, !.sender = n] \/ J = [j EXCEPT !.pc = p])
    BY <1>2, <1>4
  <2>2. CASE J = [j EXCEPT !.pc = p, !.sender = n]
    BY <2>1, <2>2 DEF Fields
  <2>3. CASE J = [j EXCEPT !.pc = p]
    BY <2>1, <2>3 DEF Fields
  <2>4. QED
    BY <2>1, <2>2, <2>3
<1>6. Ready(settings, j) /\ Told(settings, j) /\ j.pc \in {"reconnect", "connect", "dialog"} /\ j.pc \in Trying \ {"send"}
  BY <1>2, <1>4 DEF Trying, PortalPhases
<1>7. Same(J, j) /\ j.failed \subseteq J.failed
  BY <1>5 DEF Same
<1>8. Partly(settings, j)
  BY <1>6, WaitingPartly
<1>9. TypedBy(j, j.at, j.try) = {} \/ <<j.at, j.try>> \in J.failed
  BY <1>5, <1>6, PausedBefore
<1>10. Told(settings, J)
  BY <1>5, <1>6, <1>7, <1>8, <1>9, PauseKeeps
<1>11. TypingIn(settings, Now(j)) \/ Range(KeysOf(j, Now(j))) \subseteq PortalKeys
  BY <1>6, StillUnderstood DEF PortalPhases
<1>12. J.out \in Seq(Range(J.out)) /\ J.pc \in Begun
  BY <1>5, <1>6, ReadyFacts DEF Begun, Trying, PortalPhases
<1>13. j.try = "portal"
  BY <1>6 DEF Ready, JobOK
<1>14. JobOK(settings, J)
  BY <1>5, <1>6, <1>11, <1>12, <1>13, JobKeeps
<1>15. QED
  BY <1>3, <1>4, <1>5, <1>7, <1>10, <1>14 DEF Moved
LEMMA ReconnectJob ==
  ASSUME Sound, NEW s \in Sinks, Reconnect(s)
  PROVE  /\ Moved(s) /\ Same(job'[s], job[s]) /\ job'[s].copied = job[s].copied
         /\ job[s].pc = "reconnect" /\ job'[s].pc = "connect" /\ job'[s].sender = bus
<1>1. DOMAIN job = Sinks /\ DOMAIN job[s] = Fields
  BY Basics DEF Sound
<1>2. PICK J : J = [job[s] EXCEPT !.pc = "connect", !.sender = bus]
  OBVIOUS
<1>3. settings' = settings /\ job[s].pc = "reconnect" /\ job' = [job EXCEPT ![s] = J]
  BY <1>1, <1>2 DEF Reconnect
<1>4. /\ Moved(s) /\ Same(job'[s], job[s]) /\ job'[s].copied = job[s].copied /\ job'[s].pc = "connect"
  BY <1>2, <1>3, PhaseJob
<1>5. job'[s].sender = bus
  BY <1>1, <1>2, <1>3 DEF Fields
<1>6. QED
  BY <1>3, <1>4, <1>5

LEMMA BreaksJob ==
  ASSUME Sound, NEW s \in Sinks, NEW why, Breaks(s, why), job[s].pc \in {"connect", "dialog"}
  PROVE  /\ Moved(s) /\ Same(job'[s], job[s]) /\ job'[s].copied = job[s].copied
         /\ job'[s].pc \in {"try", "error"}
<1>1. job[s].pc \in Begun /\ job[s].pc \in Trying \ {"send"} /\ job[s].at <= Len(job[s].input)
  BY AtEvent DEF Trying, PortalPhases
<1>2. Ready(settings, job[s]) /\ Told(settings, job[s])
  BY <1>1, Going
<1>3. job[s].try \in Tries
  BY <1>2 DEF Ready, JobOK, Tries
<1>4. Partly(settings, job[s])
  BY <1>1, <1>2, WaitingPartly
<1>5. settings' = settings /\ job' = [job EXCEPT ![s] = Lost(job[s])]
  BY DEF Breaks
<1>6. QED
  BY <1>2, <1>3, <1>4, <1>5, LostJob

LEMMA ConnectJob ==
  ASSUME Sound, NEW s \in Sinks, Connect(s)
  PROVE  /\ Moved(s) /\ Same(job'[s], job[s]) /\ job'[s].copied = job[s].copied
         /\ job[s].pc = "connect" /\ job'[s].pc \in {"dialog", "try", "error"}
<1>1. job[s].pc = "connect" /\ DOMAIN job = Sinks
  BY Basics DEF Connect, Sound
<1>2. CASE Breaks(s, Why(s))
  BY <1>1, <1>2, BreaksJob
<1>3. CASE Goto(s, "dialog") /\ settings' = settings
  <2>1. PICK J : J = [job[s] EXCEPT !.pc = "dialog"]
    OBVIOUS
  <2>2. job' = [job EXCEPT ![s] = J]
    BY <1>1, <1>3, <2>1 DEF Goto
  <2>3. QED
    BY <1>1, <1>3, <2>1, <2>2, PhaseJob
<1>4. QED
  BY <1>2, <1>3 DEF Connect

LEMMA DenyJob ==
  ASSUME Sound, NEW s \in Sinks, Deny(s)
  PROVE  /\ Moved(s) /\ Same(job'[s], job[s]) /\ job'[s].copied = job[s].copied
         /\ job[s].pc = "dialog" /\ job'[s].pc \in {"try", "error"}
<1>1. job[s].pc = "dialog" /\ \E why : Breaks(s, why)
  BY DEF Deny
<1>2. QED
  BY <1>1, BreaksJob

LEMMA GrantJob ==
  ASSUME Sound, NEW s \in Sinks, Grant(s)
  PROVE  /\ Moved(s) /\ Same(job'[s], job[s]) /\ job'[s].copied = job[s].copied
         /\ job[s].pc = "dialog" /\ job'[s].pc = "send" /\ job'[s].sender = sender' /\ job'[s].strokes = 0
<1>1. job[s].pc = "dialog" /\ job[s].pc \in Begun /\ job[s].pc \in PortalPhases /\ job[s].at <= Len(job[s].input)
  BY AtEvent DEF Grant, Trying, PortalPhases
<1>2. /\ DOMAIN job = Sinks /\ DOMAIN job[s] = Fields
      /\ Ready(settings, job[s]) /\ Told(settings, job[s])
  BY <1>1, Going
<1>3. PICK j : j = job[s]
  OBVIOUS
<1>4. PICK J : J = job'[s]
  OBVIOUS
<1>5. PICK n : n = sender'
  OBVIOUS
<1>6. settings' = settings /\ job' = [job EXCEPT ![s].pc = "send", ![s].try = "again", ![s].sender = n, ![s].strokes = 0]
  BY <1>5 DEF Grant
<1>7. DOMAIN job' = Sinks /\ \A x \in Sinks \ {s} : job'[x] = job[x]
  BY <1>2, <1>6
<1>8. /\ DOMAIN J = Fields /\ J.pc = "send" /\ J.try = "again" /\ J.sender = n /\ J.strokes = 0
      /\ J.input = j.input /\ J.paste = j.paste /\ J.at = j.at /\ J.out = j.out
      /\ J.won = j.won /\ J.copied = j.copied /\ J.failed = j.failed
  BY <1>2, <1>3, <1>4, <1>6 DEF Fields
<1>9. Same(J, j)
  BY <1>8 DEF Same
<1>10. Ready(settings, j) /\ Told(settings, j) /\ j.pc = "dialog" /\ j.pc \in PortalPhases
  BY <1>1, <1>2, <1>3
<1>11. Told(settings, J)
  BY <1>8, <1>9, <1>10, BeginKeeps
<1>12. TypingIn(settings, Now(j)) \/ Range(KeysOf(j, Now(j))) \subseteq PortalKeys
  BY <1>10, StillUnderstood
<1>13. 0 \in 0 .. Len(Line(settings, j)) /\ \A p \in DOMAIN Normalized(Now(j).text) :
         TypingIn(settings, Now(j)) => 0 # 2 * p - 1
  <2>1. Len(Line(settings, j)) \in Nat
    BY <1>10, LineFacts
  <2>2. ASSUME TypingIn(settings, Now(j)), NEW p \in DOMAIN Normalized(Now(j).text) PROVE 0 # 2 * p - 1
    <3>1. IsEvent(j.input[j.at]) /\ Now(j) = j.input[j.at]
      BY <1>10, ReadyFacts
    <3>2. /\ Len(Normalized(j.input[j.at].text)) \in Nat
          /\ DOMAIN Normalized(j.input[j.at].text) = 1 .. Len(Normalized(j.input[j.at].text))
      BY <2>2, <3>1, SpotFacts
    <3>3. p \in Int
      BY <2>2, <3>1, <3>2
    <3>4. QED
      BY <3>3
  <2>3. QED
    BY <2>1, <2>2
<1>14. J.out \in Seq(Range(J.out)) /\ J.pc \in Begun
  BY <1>8, <1>10, ReadyFacts DEF Begun, Trying, PortalPhases
<1>15. JobOK(settings, J)
  BY <1>8, <1>10, <1>12, <1>13, <1>14, JobKeeps
<1>16. QED
  BY <1>1, <1>3, <1>4, <1>5, <1>6, <1>7, <1>8, <1>9, <1>11, <1>15 DEF Moved
-----------------------------------------------------------------------------
(* The steps of the specification *)

(* All but whether the copy is ours. *)
Alike(J, j) ==
  /\ J.pc = j.pc /\ J.input = j.input /\ J.paste = j.paste /\ J.at = j.at /\ J.out = j.out
  /\ J.sender = j.sender /\ J.strokes = j.strokes

Kept ==
  /\ settings' = settings /\ DOMAIN job' = Sinks
  /\ \A x \in Sinks : JobOK(settings, job'[x]) /\ Told(settings, job'[x])
Apart(s) == \A x \in Sinks \ {s} : Alike(job'[x], job[x])

(* The steps of a delivery, which look at nothing but the present state. *)
Delivering(s) ==
  \/ Deliver(s) \/ Copy(s) \/ UseTool(s) \/ ToolFails(s)
  \/ UsePortal(s) \/ SkipCharacter(s) \/ Stroke(s) \/ Sent(s) \/ Unreachable(s) \/ CallFails(s)
  \/ Connect(s) \/ Grant(s) \/ Deny(s)

LEMMA MovedKept ==
  ASSUME Sound, NEW s \in Sinks, Moved(s)
  PROVE  Kept /\ Apart(s)
BY DEF Sound, Plain, Telling, Moved, Kept, Apart, Alike

LEMMA SameKept ==
  ASSUME Sound, job' = job, settings' = settings
  PROVE  Kept /\ \A s \in Sinks : Apart(s)
BY DEF Sound, Plain, Telling, Kept, Apart, Alike

LEMMA CopyKept ==
  ASSUME Sound, NEW s \in Sinks, Copy(s)
  PROVE  Kept /\ Apart(s)
<1>1. /\ settings' = settings /\ DOMAIN job' = Sinks
      /\ JobOK(settings, job'[s]) /\ Told(settings, job'[s])
      /\ \A x \in Sinks \ {s} : OnlyCopied(x, FALSE) \/ job'[x] = job[x]
  BY CopyJob
<1>2. ASSUME NEW x \in Sinks \ {s}
      PROVE  JobOK(settings, job'[x]) /\ Told(settings, job'[x]) /\ Alike(job'[x], job[x])
  <2>1. CASE OnlyCopied(x, FALSE)
    BY <1>1, <2>1, OnlyCopiedKeeps DEF Alike, Same
  <2>2. CASE job'[x] = job[x]
    BY <1>1, <2>2 DEF Sound, Plain, Telling, Alike
  <2>3. QED
    BY <1>1, <2>1, <2>2
<1>3. QED
  BY <1>1, <1>2 DEF Kept, Apart

LEMMA UserCopiesKept ==
  ASSUME Sound, UserCopies
  PROVE  Kept /\ \A x \in Sinks : Alike(job'[x], job[x]) /\ job'[x].copied = FALSE
<1>1. settings' = settings /\ DOMAIN job' = Sinks /\ \A x \in Sinks : OnlyCopied(x, FALSE)
  BY DEF UserCopies, OnlyCopied
<1>2. QED
  BY <1>1, OnlyCopiedKeeps DEF Kept, Alike, Same

LEMMA DeliveringMoves ==
  ASSUME Sound, NEW s \in Sinks, Delivering(s)
  PROVE  /\ Kept /\ Apart(s) /\ job[s].pc \in Begun /\ job'[s].pc \in Begun \ {"connect"}
         /\ job'[s].input = job[s].input /\ job'[s].paste = job[s].paste
         /\ UNCHANGED <<environment, flagged, look, refused>>
<1>1. UNCHANGED <<environment, flagged, look, refused>>
  <2>1. CASE Deliver(s)
    BY <2>1 DEF Deliver, windowVars, environment
  <2>2. CASE Copy(s)
    BY <2>2 DEF Copy, windowVars, environment
  <2>3. CASE UseTool(s)
    BY <2>3 DEF UseTool, windowVars, environment
  <2>4. CASE ToolFails(s)
    BY <2>4 DEF ToolFails, windowVars, environment
  <2>5. CASE UsePortal(s)
    BY <2>5 DEF UsePortal, windowVars, environment
  <2>6. CASE SkipCharacter(s)
    BY <2>6 DEF SkipCharacter, windowVars, environment
  <2>7. CASE Stroke(s)
    BY <2>7 DEF Stroke, windowVars, environment
  <2>8. CASE Sent(s)
    BY <2>8 DEF Sent, windowVars, environment
  <2>9. CASE Unreachable(s)
    BY <2>9 DEF Unreachable, windowVars, environment
  <2>10. CASE CallFails(s)
    BY <2>10 DEF CallFails, windowVars, environment
  <2>11. CASE Connect(s)
    BY <2>11 DEF Connect, windowVars, environment, Breaks
  <2>12. CASE Grant(s)
    BY <2>12 DEF Grant, windowVars, environment
  <2>13. CASE Deny(s)
    BY <2>13 DEF Deny, windowVars, environment, Breaks
  <2>14. QED
    BY <2>1, <2>2, <2>3, <2>4, <2>5, <2>6, <2>7, <2>8, <2>9, <2>10, <2>11, <2>12, <2>13 DEF Delivering
<1>2. {"event", "copy", "try", "error", "send", "reconnect", "dialog"} \subseteq Begun \ {"connect"} /\ "connect" \in Begun
  BY DEF Begun, Trying, PortalPhases
<1>3. CASE Deliver(s)
  BY <1>1, <1>2, <1>3, DeliverJob, MovedKept DEF Deliver, Same
<1>4. CASE Copy(s)
  BY <1>1, <1>2, <1>4, CopyJob, CopyKept DEF Same
<1>5. CASE UseTool(s)
  BY <1>1, <1>2, <1>5, UseToolJob, MovedKept
<1>6. CASE ToolFails(s)
  BY <1>1, <1>2, <1>6, ToolFailsJob, MovedKept
<1>7. CASE UsePortal(s)
  BY <1>1, <1>2, <1>7, UsePortalJob, MovedKept DEF UsePortal, Same
<1>8. CASE SkipCharacter(s)
  BY <1>1, <1>2, <1>8, SkipJob, MovedKept DEF Same
<1>9. CASE Stroke(s)
  BY <1>1, <1>2, <1>9, StrokeJob, MovedKept
<1>10. CASE Sent(s)
  BY <1>1, <1>2, <1>10, SentJob, MovedKept
<1>11. CASE Unreachable(s)
  BY <1>1, <1>2, <1>11, UnreachableJob, MovedKept DEF Same
<1>12. CASE CallFails(s)
  BY <1>1, <1>2, <1>12, CallFailsJob, MovedKept
<1>13. CASE Connect(s)
  BY <1>1, <1>2, <1>13, ConnectJob, MovedKept DEF Same
<1>14. CASE Grant(s)
  BY <1>1, <1>2, <1>14, GrantJob, MovedKept DEF Same
<1>15. CASE Deny(s)
  BY <1>1, <1>2, <1>15, DenyJob, MovedKept DEF Same
<1>16. QED
  BY <1>3, <1>4, <1>5, <1>6, <1>7, <1>8, <1>9, <1>10, <1>11, <1>12, <1>13, <1>14, <1>15 DEF Delivering

(* The steps in the order of the cases below. *)
LEMMA StepKinds ==
  ASSUME [Next]_vars
  PROVE  \/ \E s \in Sinks : \/ \E i \in Inputs : Take(s, i)
                             \/ Detecting(s) \/ Detected(s) \/ Finish(s) \/ Reconnect(s) \/ Delivering(s)
         \/ UserCopies
         \/ SessionClosed
         \/ ResetDetectionCache /\ UNCHANGED injectVars
         \/ \E w \in Windows \cup {NoWindow} : ChangeFocus(w) /\ UNCHANGED injectVars
         \/ \E d \in Desktops : /\ Relogin(d) /\ held' = {}
                                /\ UNCHANGED <<settings, job, clip, sender, broken, sessions, token, slipped, brokenBy>>
         \/ UNCHANGED vars
BY DEF Next, SinkStep, World, Delivering
LEMMA JobsKept ==
  ASSUME Sound, [Next]_vars
  PROVE  Kept
<1>1. ASSUME NEW s \in Sinks, NEW i \in Inputs, Take(s, i) PROVE Kept
  BY <1>1, TakeJob, MovedKept
<1>2. ASSUME NEW s \in Sinks, Detecting(s) PROVE Kept
  BY <1>2, SameKept DEF Detecting, injectVars
<1>3. ASSUME NEW s \in Sinks, Detected(s) PROVE Kept
  BY <1>3, DetectedJob, MovedKept
<1>4. ASSUME NEW s \in Sinks, Finish(s) PROVE Kept
  BY <1>4, FinishJob, MovedKept
<1>5. ASSUME NEW s \in Sinks, Reconnect(s) PROVE Kept
  BY <1>5, ReconnectJob, MovedKept
<1>6. ASSUME NEW s \in Sinks, Delivering(s) PROVE Kept
  BY <1>6, DeliveringMoves
<1>7. CASE UserCopies
  BY <1>7, UserCopiesKept
<1>8. CASE SessionClosed
  BY <1>8, SameKept DEF SessionClosed
<1>9. CASE UNCHANGED <<settings, job>>
  BY <1>9, SameKept
<1>10. CASE UNCHANGED injectVars
  BY <1>10, SameKept DEF injectVars
<1>11. CASE UNCHANGED vars
  BY <1>11, SameKept DEF vars, injectVars
<1>12. QED
  BY <1>1, <1>2, <1>3, <1>4, <1>5, <1>6, <1>7, <1>8, <1>9, <1>10, <1>11, StepKinds

(* What a step of a detection does. *)
Turned(s) ==
  /\ DOMAIN look' = Sinks /\ \A x \in Sinks \ {s} : look'[x] = look[x]
  /\ DOMAIN look'[s] = DOMAIN NoLook /\ look'[s].win = look[s].win /\ look'[s].calm = look[s].calm

LEMMA ProbeTurns ==
  ASSUME NEW s \in Sinks, DOMAIN look = Sinks, DOMAIN look[s] = DOMAIN NoLook, Probe(s)
  PROVE  /\ Turned(s) /\ UNCHANGED environment
         /\ \/ \E b \in Range(Backends) :
                 /\ Asks(s, b) /\ look'[s].step = look[s].step + 1 /\ look'[s].kind = look[s].kind
                 /\ \/ flagged' = flagged /\ refused' = refused /\ look'[s].able = look[s].able
                       /\ (b \in flagged \/ Answer(b, focus) = "")
                    \/ flagged' = flagged \cup {b} /\ refused' = refused \cup {b} /\ look'[s].able = look[s].able
                       /\ (~Serves(b) \/ Answer(b, focus) = "")
                    \/ flagged' = flagged /\ refused' = refused /\ look'[s].able = look[s].able \ {b}
            \/ \E b \in Range(Backends) :
                 /\ Asks(s, b) /\ b \notin flagged /\ Serves(b) /\ Answer(b, focus) # ""
                 /\ look'[s].step = 0 /\ look'[s].kind = Classify(Answer(b, focus)) /\ look'[s].able = look[s].able
                 /\ flagged' = flagged /\ refused' = refused
            \/ /\ look[s].step = Len(Backends) + 1 /\ look'[s].step = 0 /\ look'[s].able = look[s].able
               /\ flagged' = flagged /\ refused' = refused
<1>1. DOMAIN look[s] = {"step", "kind", "win", "able", "calm"}
  BY DEF NoLook
<1>2. ASSUME NEW b \in Range(Backends), Skip(s, b) PROVE
        /\ Turned(s) /\ UNCHANGED environment
        /\ Asks(s, b) /\ look'[s].step = look[s].step + 1 /\ look'[s].kind = look[s].kind
        /\ flagged' = flagged /\ refused' = refused /\ look'[s].able = look[s].able /\ b \in flagged
  BY <1>1, <1>2 DEF Skip, Next1, Turned, NoLook
<1>3. ASSUME NEW b \in Range(Backends), Refused(s, b) PROVE
        /\ Turned(s) /\ UNCHANGED environment
        /\ Asks(s, b) /\ look'[s].step = look[s].step + 1 /\ look'[s].kind = look[s].kind
        /\ flagged' = flagged \cup {b} /\ refused' = refused \cup {b} /\ look'[s].able = look[s].able /\ ~Serves(b)
  BY <1>1, <1>3 DEF Refused, Next1, Turned, NoLook
<1>4. ASSUME NEW b \in Range(Backends), Glitch(s, b) PROVE
        /\ Turned(s) /\ UNCHANGED environment
        /\ Asks(s, b) /\ look'[s].step = look[s].step + 1 /\ look'[s].kind = look[s].kind
        /\ flagged' = flagged /\ refused' = refused /\ look'[s].able = look[s].able \ {b}
  BY <1>1, <1>4 DEF Glitch, Turned, NoLook
<1>5. ASSUME NEW b \in Range(Backends), Nameless(s, b) PROVE
        /\ Turned(s) /\ UNCHANGED environment
        /\ Asks(s, b) /\ look'[s].step = look[s].step + 1 /\ look'[s].kind = look[s].kind
        /\ look'[s].able = look[s].able /\ Answer(b, focus) = ""
        /\ \/ flagged' = flagged /\ refused' = refused
           \/ flagged' = flagged \cup {b} /\ refused' = refused \cup {b}
  BY <1>1, <1>5 DEF Nameless, Next1, Turned, NoLook
<1>6. ASSUME NEW b \in Range(Backends), Answered(s, b) PROVE
        /\ Turned(s) /\ UNCHANGED environment
        /\ Asks(s, b) /\ b \notin flagged /\ Serves(b) /\ Answer(b, focus) # ""
        /\ look'[s].step = 0 /\ look'[s].kind = Classify(Answer(b, focus)) /\ look'[s].able = look[s].able
        /\ flagged' = flagged /\ refused' = refused
  BY <1>1, <1>6 DEF Answered, Turned, NoLook
<1>7. ASSUME GiveUp(s) PROVE
        /\ Turned(s) /\ UNCHANGED environment
        /\ look[s].step = Len(Backends) + 1 /\ look'[s].step = 0 /\ look'[s].able = look[s].able
        /\ flagged' = flagged /\ refused' = refused
  BY <1>1, <1>7 DEF GiveUp, Turned, NoLook
<1>8. CASE \E b \in Range(Backends) : Skip(s, b) \/ Refused(s, b) \/ Glitch(s, b) \/ Nameless(s, b) \/ Answered(s, b)
  <2>1. PICK b \in Range(Backends) : Skip(s, b) \/ Refused(s, b) \/ Glitch(s, b) \/ Nameless(s, b) \/ Answered(s, b)
    BY <1>8
  <2>2. CASE Skip(s, b)
    BY <1>2, <2>2
  <2>3. CASE Refused(s, b)
    BY <1>3, <2>3
  <2>4. CASE Glitch(s, b)
    BY <1>4, <2>4
  <2>5. CASE Nameless(s, b)
    BY <1>5, <2>5
  <2>6. CASE Answered(s, b)
    BY <1>6, <2>6
  <2>7. QED
    BY <2>1, <2>2, <2>3, <2>4, <2>5, <2>6
<1>9. QED
  BY <1>7, <1>8 DEF Probe
LEMMA Parts ==
  ASSUME IInv
  PROVE  TypeOK /\ Plain /\ Telling /\ Sound /\ Held /\ Ours /\ Watching /\ Looking /\ Fresh
BY DEF IInv, Sound

LEMMA StepsOfBackends ==
  /\ Len(Backends) = 5 /\ DOMAIN Backends = 1 .. 5
  /\ \A i, j \in 1 .. 5 : Backends[i] = Backends[j] => i = j
  /\ Range(Backends) = {Backends[i] : i \in 1 .. 5}
<1>1. Len(Backends) = 5 /\ DOMAIN Backends = 1 .. 5
  BY DEF Backends
<1>2. ASSUME NEW i \in 1 .. 5, NEW j \in 1 .. 5, Backends[i] = Backends[j] PROVE i = j
  BY <1>2 DEF Backends
<1>3. QED
  BY <1>1, <1>2 DEF Range

(* The frame: nothing of the detections changes, and a job only looks if it did. *)
LEMMA WatchingFrame ==
  ASSUME Watching, look' = look, flagged' = flagged, refused' = refused,
         \A x \in Sinks : job'[x].pc # "look" => job[x].pc # "look" \/ look[x].step = 0
  PROVE  Watching'
BY DEF Watching

Beheld(r) == DOMAIN r = DOMAIN NoLook /\ r.calm \in BOOLEAN /\ r.step \in {0, 1}

LEMMA WatchingOne ==
  ASSUME Watching, NEW s \in Sinks, Apart(s), flagged' = flagged, refused' = refused,
         NEW r, look' = [look EXCEPT ![s] = r], Beheld(r), job'[s].pc # "look" => r.step = 0
  PROVE  Watching'
<1>1. Len(Backends) = 5
  BY StepsOfBackends
<1>2. DOMAIN look' = Sinks /\ look'[s] = r /\ \A x \in Sinks \ {s} : look'[x] = look[x]
  BY DEF Watching
<1>3. ASSUME NEW x \in Sinks
      PROVE  /\ DOMAIN look'[x] = DOMAIN NoLook /\ look'[x].calm \in BOOLEAN
             /\ look'[x].step \in 0..Len(Backends) + 1 /\ (job'[x].pc # "look" => look'[x].step = 0)
  <2>1. CASE x = s
    BY <1>1, <1>2, <2>1 DEF Beheld
  <2>2. CASE x # s
    BY <1>2, <2>2 DEF Watching, Apart, Alike
  <2>3. QED
    BY <2>1, <2>2
<1>4. QED
  BY <1>2, <1>3 DEF Watching

LEMMA WatchingStep ==
  ASSUME IInv, [Next]_vars
  PROVE  Watching'
<1>1. Watching /\ Sound /\ DOMAIN job = Sinks
  BY Parts DEF Plain
<1>2. DOMAIN NoLook = {"step", "kind", "win", "able", "calm"} /\ NoLook.step = 0 /\ NoLook.calm = TRUE
  BY DEF NoLook
<1>3. Len(Backends) = 5
  BY StepsOfBackends
<1>4. ASSUME NEW s \in Sinks, NEW i \in Inputs, Take(s, i) PROVE Watching'
  <2>1. job'[s].pc = "look" /\ Apart(s)
    BY <1>1, <1>4, TakeJob, MovedKept
  <2>2. UNCHANGED <<flagged, refused>> /\ (Detect(s) \/ look' = [look EXCEPT ![s] = NoLook])
    BY <1>4 DEF Take
  <2>3. PICK r : r = [NoLook EXCEPT !.step = 1, !.win = focus, !.able = Able]
    OBVIOUS
  <2>4. Beheld(r) /\ Beheld(NoLook)
    BY <2>3 DEF NoLook, Beheld
  <2>5. look' = [look EXCEPT ![s] = r] \/ look' = [look EXCEPT ![s] = NoLook]
    BY <2>2, <2>3 DEF Detect
  <2>6. QED
    BY <1>1, <2>1, <2>2, <2>4, <2>5, WatchingOne
<1>5. ASSUME NEW s \in Sinks, Detecting(s) PROVE Watching'
  <2>1. job' = job /\ job[s].pc = "look" /\ Probe(s)
    BY <1>5 DEF Detecting, injectVars
  <2>2. DOMAIN look = Sinks /\ DOMAIN look[s] = DOMAIN NoLook
    BY <1>1 DEF Watching
  <2>3. Turned(s)
    BY <2>1, <2>2, ProbeTurns
  <2>4. look'[s].step \in 0 .. 6
    <3>1. ASSUME NEW b, Asks(s, b) PROVE look[s].step + 1 \in 0 .. 6
      BY <3>1, StepsOfBackends DEF Asks
    <3>2. \/ \E b \in Range(Backends) : Asks(s, b) /\ look'[s].step = look[s].step + 1
          \/ look'[s].step = 0
      BY <2>1, <2>2, ProbeTurns
    <3>3. QED
      BY <3>1, <3>2
  <2>5. flagged' \subseteq Range(Backends) /\ refused' = flagged'
    <3>1. \/ flagged' = flagged /\ refused' = refused
          \/ \E b \in Range(Backends) : flagged' = flagged \cup {b} /\ refused' = refused \cup {b}
      BY <2>1, <2>2, ProbeTurns
    <3>2. QED
      BY <1>1, <3>1 DEF Watching
  <2>6. QED
    BY <1>1, <1>3, <2>1, <2>3, <2>4, <2>5 DEF Watching, Turned
<1>6. ASSUME NEW s \in Sinks, Detected(s) PROVE Watching'
  <2>1. look[s].step = 0 /\ UNCHANGED <<look, flagged, refused>>
    BY <1>6 DEF Detected, windowVars
  <2>2. Apart(s)
    BY <1>1, <1>6, DetectedJob, MovedKept
  <2>3. QED
    BY <1>1, <2>1, <2>2, WatchingFrame DEF Apart, Alike
<1>7. ASSUME NEW s \in Sinks, Finish(s) PROVE Watching'
  <2>1. look' = [look EXCEPT ![s] = NoLook] /\ UNCHANGED <<flagged, refused>>
    BY <1>7 DEF Finish
  <2>2. Apart(s)
    BY <1>1, <1>7, FinishJob, MovedKept
  <2>3. QED
    BY <1>1, <1>2, <2>1, <2>2, WatchingOne DEF Beheld
<1>8. ASSUME NEW s \in Sinks, Reconnect(s) PROVE Watching'
  <2>1. UNCHANGED <<look, flagged, refused>>
    BY <1>8 DEF Reconnect
  <2>2. Apart(s) /\ job[s].pc = "reconnect"
    BY <1>1, <1>8, ReconnectJob, MovedKept
  <2>3. QED
    BY <1>1, <2>1, <2>2, WatchingFrame DEF Apart, Alike
<1>9. ASSUME NEW s \in Sinks, Delivering(s) PROVE Watching'
  <2>1. Apart(s) /\ job[s].pc \in Begun /\ UNCHANGED <<look, flagged, refused>>
    BY <1>1, <1>9, DeliveringMoves
  <2>2. "look" \notin Begun
    BY DEF Begun, Trying, PortalPhases
  <2>3. QED
    BY <1>1, <2>1, <2>2, WatchingFrame DEF Apart, Alike
<1>10. CASE UserCopies
  <2>1. UNCHANGED <<look, flagged, refused>>
    BY <1>10 DEF UserCopies
  <2>2. QED
    BY <1>1, <1>10, <2>1, UserCopiesKept, WatchingFrame DEF Alike
<1>11. CASE SessionClosed
  BY <1>1, <1>11, WatchingFrame DEF SessionClosed
<1>12. CASE ResetDetectionCache /\ job' = job
  <2>1. /\ DOMAIN look' = Sinks /\ flagged' = {} /\ refused' = {}
        /\ \A x \in Sinks : look'[x] = IF look[x].step = 0 THEN look[x]
                                       ELSE [look[x] EXCEPT !.able = @ \cup Awaited(look[x].step)]
    BY <1>12 DEF ResetDetectionCache
  <2>2. ASSUME NEW x \in Sinks
        PROVE  /\ DOMAIN look'[x] = DOMAIN NoLook /\ look'[x].calm = look[x].calm /\ look'[x].step = look[x].step
    BY <1>1, <1>2, <2>1 DEF Watching
  <2>3. QED
    BY <1>1, <1>12, <2>1, <2>2 DEF Watching
<1>13. CASE Disturbed /\ job' = job /\ flagged' = flagged /\ refused' = refused
  <2>1. /\ DOMAIN look' = Sinks
        /\ \A x \in Sinks : look'[x] = [look[x] EXCEPT !.calm = (look[x].step = 0) /\ @]
    BY <1>13 DEF Disturbed
  <2>2. ASSUME NEW x \in Sinks
        PROVE  DOMAIN look'[x] = DOMAIN NoLook /\ look'[x].step = look[x].step /\ look'[x].calm \in BOOLEAN
    BY <1>1, <1>2, <2>1 DEF Watching
  <2>3. QED
    BY <1>1, <1>13, <2>1, <2>2 DEF Watching
<1>14. ASSUME NEW w, ChangeFocus(w), UNCHANGED injectVars PROVE Watching'
  BY <1>13, <1>14 DEF ChangeFocus, injectVars
<1>15. ASSUME NEW d, Relogin(d), job' = job PROVE Watching'
  BY <1>13, <1>15 DEF Relogin
<1>16. CASE UNCHANGED vars
  BY <1>1, <1>16, WatchingFrame DEF vars, windowVars, injectVars
<1>17. CASE ResetDetectionCache /\ UNCHANGED injectVars
  BY <1>12, <1>17 DEF injectVars
<1>18. QED
  BY <1>4, <1>5, <1>6, <1>7, <1>8, <1>9, <1>10, <1>11, <1>14, <1>15, <1>16, <1>17, StepKinds
(* What a delivery leaves alone. *)
LEMMA DeliveringFrame ==
  ASSUME NEW s \in Sinks, Delivering(s)
  PROVE  /\ Grant(s) \/ UNCHANGED <<sessions, sender>>
         /\ Stroke(s) \/ CallFails(s) \/ UNCHANGED <<held, slipped>>
         /\ Connect(s) \/ Deny(s) \/ UNCHANGED <<broken, brokenBy>>
         /\ Copy(s) \/ UNCHANGED clip
<1>1. CASE Deliver(s)
  BY <1>1 DEF Deliver, portalVars
<1>2. CASE Copy(s)
  BY <1>2 DEF Copy, portalVars
<1>3. CASE UseTool(s)
  BY <1>3 DEF UseTool, portalVars
<1>4. CASE ToolFails(s)
  BY <1>4 DEF ToolFails, portalVars
<1>5. CASE UsePortal(s)
  BY <1>5 DEF UsePortal, portalVars
<1>6. CASE SkipCharacter(s)
  BY <1>6 DEF SkipCharacter, portalVars
<1>7. CASE Stroke(s)
  BY <1>7 DEF Stroke, portalVars
<1>8. CASE Sent(s)
  BY <1>8 DEF Sent, portalVars
<1>9. CASE Unreachable(s)
  BY <1>9 DEF Unreachable, portalVars
<1>10. CASE CallFails(s)
  BY <1>10 DEF CallFails, portalVars
<1>11. CASE Connect(s)
  BY <1>11 DEF Connect, portalVars, Breaks
<1>12. CASE Grant(s)
  BY <1>12 DEF Grant, portalVars
<1>13. CASE Deny(s)
  BY <1>13 DEF Deny, portalVars, Breaks
<1>14. QED
  BY <1>1, <1>2, <1>3, <1>4, <1>5, <1>6, <1>7, <1>8, <1>9, <1>10, <1>11, <1>12, <1>13 DEF Delivering

LEMMA SessionsStep ==
  ASSUME IInv, [Next]_vars
  PROVE  /\ bus \in Nat /\ bus' \in Nat /\ bus <= bus' /\ sessions' \in Seq(0..bus')
         /\ DOMAIN sessions \subseteq DOMAIN sessions' /\ sender' \in 0..Len(sessions')
<1>1. bus \in Nat /\ sessions \in Seq(0..bus) /\ sender \in 0..Len(sessions)
  BY Parts DEF TypeOK, Plain
<1>2. Len(sessions) \in Nat /\ DOMAIN sessions = 1 .. Len(sessions)
  BY <1>1, LenProperties
<1>3. CASE UNCHANGED <<bus, sessions, sender>>
  BY <1>1, <1>3
<1>4. ASSUME NEW s \in Sinks, Grant(s)
      PROVE  /\ bus' = bus /\ sessions' \in Seq(0..bus) /\ DOMAIN sessions \subseteq DOMAIN sessions'
             /\ sender' \in 0..Len(sessions')
  <2>1. sessions' = Append(sessions, bus) /\ sender' = Len(sessions') /\ bus' = bus /\ bus \in 0 .. bus
    BY <1>1, <1>4 DEF Grant, windowVars
  <2>2. /\ Append(sessions, bus) \in Seq(0..bus) /\ Len(Append(sessions, bus)) = Len(sessions) + 1
        /\ DOMAIN Append(sessions, bus) = 1 .. Len(sessions) + 1
    BY <1>1, <2>1, AppendFacts
  <2>3. QED
    BY <1>2, <2>1, <2>2
<1>5. CASE SessionClosed
  <2>1. bus' = bus /\ sender' = sender /\ sessions' = [sessions EXCEPT ![sender] = 0]
    BY <1>5 DEF SessionClosed, environment
  <2>2. sessions' \in Seq(0..bus) /\ Len(sessions') = Len(sessions) /\ DOMAIN sessions' = DOMAIN sessions
    <3>1. 0 \in 0 .. bus
      BY <1>1
    <3>2. sender \in 1 .. Len(sessions)
      BY <1>1, <1>2, <1>5 DEF SessionClosed, Works
    <3>3. [sessions EXCEPT ![sender] = 0] \in Seq(0..bus) /\ Len([sessions EXCEPT ![sender] = 0]) = Len(sessions)
      BY <1>1, <3>1, <3>2, ExceptSeq
    <3>4. QED
      BY <2>1, <3>3
  <2>3. QED
    BY <1>1, <2>1, <2>2
<1>6. ASSUME bus' = bus + 1, UNCHANGED <<sessions, sender>>
      PROVE  /\ bus' \in Nat /\ bus <= bus' /\ sessions' \in Seq(0..bus')
  <2>1. 0 .. bus \subseteq 0 .. bus' /\ bus' \in Nat /\ bus <= bus'
    BY <1>1, <1>6
  <2>2. QED
    BY <1>1, <1>6, <2>1, SeqMonotonic
<1>7. ASSUME NEW s \in Sinks, NEW i \in Inputs, Take(s, i) PROVE UNCHANGED <<bus, sessions, sender>>
  BY <1>7 DEF Take, environment
<1>8. ASSUME NEW s \in Sinks, Detecting(s) PROVE UNCHANGED <<bus, sessions, sender>>
  <2>1. DOMAIN look = Sinks /\ DOMAIN look[s] = DOMAIN NoLook
    BY Parts DEF Watching
  <2>2. QED
    BY <1>8, <2>1, ProbeTurns DEF Detecting, injectVars, portalVars, environment
<1>9. ASSUME NEW s \in Sinks, Detected(s) \/ Finish(s) \/ Reconnect(s) PROVE UNCHANGED <<bus, sessions, sender>>
  BY <1>9 DEF Detected, Finish, Reconnect, portalVars, windowVars, environment
<1>10. ASSUME NEW s \in Sinks, Delivering(s), ~Grant(s) PROVE UNCHANGED <<bus, sessions, sender>>
  BY <1>10, Parts, DeliveringMoves, DeliveringFrame DEF environment
<1>11. CASE UserCopies
  BY <1>3, <1>11 DEF UserCopies, environment, portalVars
<1>12. CASE UNCHANGED injectVars /\ environment' = environment
  BY <1>3, <1>12 DEF injectVars, portalVars, environment
<1>13. ASSUME UNCHANGED injectVars, ResetDetectionCache PROVE UNCHANGED <<bus, sessions, sender>>
  BY <1>13 DEF injectVars, portalVars, environment, ResetDetectionCache
<1>14. ASSUME NEW w, UNCHANGED injectVars, ChangeFocus(w) PROVE UNCHANGED <<bus, sessions, sender>>
  BY <1>14 DEF injectVars, portalVars, ChangeFocus
<1>15. ASSUME NEW d, Relogin(d), UNCHANGED <<sessions, sender>> PROVE bus' = bus + 1
  BY <1>15 DEF Relogin
<1>16. ASSUME UNCHANGED vars PROVE UNCHANGED <<bus, sessions, sender>>
  BY <1>16 DEF vars, windowVars, injectVars, portalVars
<1>17. \/ UNCHANGED <<bus, sessions, sender>>
       \/ \E s \in Sinks : Grant(s)
       \/ SessionClosed
       \/ bus' = bus + 1 /\ UNCHANGED <<sessions, sender>>
  BY <1>7, <1>8, <1>9, <1>10, <1>11, <1>13, <1>14, <1>15, <1>16, StepKinds DEF UserCopies, environment, portalVars
<1>18. CASE bus' = bus + 1 /\ UNCHANGED <<sessions, sender>>
  BY <1>1, <1>6, <1>18
<1>19. CASE \E s \in Sinks : Grant(s)
  BY <1>1, <1>4, <1>19
<1>20. QED
  BY <1>1, <1>3, <1>5, <1>17, <1>18, <1>19

LEMMA SoundStep ==
  ASSUME IInv, [Next]_vars
  PROVE  Plain' /\ Telling'
<1>1. Kept /\ Watching' /\ sessions' \in Seq(0..bus')
  BY Parts, JobsKept, WatchingStep, SessionsStep
<1>2. Plain
  BY Parts
<1>3. QED
  BY <1>1, <1>2 DEF Plain, Telling, Kept, Watching
LEMMA EnvironmentStep ==
  ASSUME IInv, [Next]_vars
  PROVE  \/ UNCHANGED environment
         \/ \E s \in Sinks : Reconnect(s) /\ addr' = Refresh /\ UNCHANGED <<desktop, bus, xdgGnome, pgrep, focus>>
         \/ \E w \in Windows \cup {NoWindow} :
              ChangeFocus(w) /\ UNCHANGED injectVars /\ focus' = w /\ UNCHANGED <<desktop, bus, addr, xdgGnome, pgrep>>
         \/ \E d \in Desktops : /\ Relogin(d) /\ desktop' = d /\ bus' = bus + 1
                                /\ UNCHANGED <<addr, xdgGnome, pgrep, focus>> /\ job' = job /\ brokenBy' = brokenBy
                                /\ UNCHANGED <<settings, broken, clip, sender, sessions, slipped>> /\ held' = {}
<1>1. ASSUME NEW s \in Sinks, NEW i \in Inputs, Take(s, i) PROVE UNCHANGED environment
  BY <1>1 DEF Take
<1>2. ASSUME NEW s \in Sinks, Detecting(s) PROVE UNCHANGED environment
  <2>1. DOMAIN look = Sinks /\ DOMAIN look[s] = DOMAIN NoLook
    BY Parts DEF Watching
  <2>2. QED
    BY <1>2, <2>1, ProbeTurns DEF Detecting
<1>3. ASSUME NEW s \in Sinks, Detected(s) \/ Finish(s) PROVE UNCHANGED environment
  BY <1>3 DEF Detected, Finish, windowVars, environment
<1>4. ASSUME NEW s \in Sinks, Reconnect(s) PROVE addr' = Refresh /\ UNCHANGED <<desktop, bus, xdgGnome, pgrep, focus>>
  BY <1>4 DEF Reconnect
<1>5. ASSUME NEW s \in Sinks, Delivering(s) PROVE UNCHANGED environment
  BY <1>5, Parts, DeliveringMoves
<1>6. UserCopies \/ SessionClosed \/ ResetDetectionCache => UNCHANGED environment
  BY DEF UserCopies, SessionClosed, ResetDetectionCache
<1>7. ASSUME NEW w, ChangeFocus(w) PROVE focus' = w /\ UNCHANGED <<desktop, bus, addr, xdgGnome, pgrep>>
  BY <1>7 DEF ChangeFocus
<1>8. ASSUME NEW d, Relogin(d) PROVE desktop' = d /\ bus' = bus + 1 /\ UNCHANGED <<addr, xdgGnome, pgrep, focus>>
  BY <1>8 DEF Relogin
<1>9. UNCHANGED vars => UNCHANGED environment
  BY DEF vars, windowVars, environment
<1>10. QED
  BY <1>1, <1>2, <1>3, <1>4, <1>5, <1>6, <1>7, <1>8, <1>9, StepKinds

(* What the steps that break nothing leave alone. *)
LEMMA BreakStep ==
  ASSUME [Next]_vars
  PROVE  \/ UNCHANGED <<broken, brokenBy>>
         \/ \E s \in Sinks : \/ Connect(s) /\ Breaks(s, Why(s))
                             \/ Deny(s) /\ (Breaks(s, "denied") \/ Breaks(s, "logged in again meanwhile"))
<1>1. ASSUME NEW s \in Sinks, NEW i \in Inputs, Take(s, i) PROVE UNCHANGED <<broken, brokenBy>>
  BY <1>1 DEF Take
<1>2. ASSUME NEW s \in Sinks, Detecting(s) \/ Detected(s) \/ Finish(s) \/ Reconnect(s)
      PROVE  UNCHANGED <<broken, brokenBy>>
  BY <1>2 DEF Detecting, Detected, Finish, Reconnect, injectVars, portalVars
<1>3. ASSUME NEW s \in Sinks, Delivering(s)
      PROVE  \/ UNCHANGED <<broken, brokenBy>>
             \/ Connect(s) /\ Breaks(s, Why(s))
             \/ Deny(s) /\ (Breaks(s, "denied") \/ Breaks(s, "logged in again meanwhile"))
  <2>1. Connect(s) => Breaks(s, Why(s)) \/ UNCHANGED <<broken, brokenBy>>
    BY DEF Connect, portalVars
  <2>2. Deny(s) => Breaks(s, "denied") \/ Breaks(s, "logged in again meanwhile")
    BY DEF Deny
  <2>3. QED
    BY <1>3, <2>1, <2>2, DeliveringFrame
<1>4. UserCopies \/ SessionClosed \/ UNCHANGED injectVars => UNCHANGED <<broken, brokenBy>>
  BY DEF UserCopies, SessionClosed, injectVars, portalVars
<1>5. UNCHANGED vars => UNCHANGED <<broken, brokenBy>>
  BY DEF vars, injectVars, portalVars
<1>6. QED
  BY <1>1, <1>2, <1>3, <1>4, <1>5, StepKinds

LEMMA FreshStep ==
  ASSUME IInv, [Next]_vars
  PROVE  Fresh' /\ (broken' <=> brokenBy' # "")
<1>1. Fresh /\ Sound /\ (broken <=> brokenBy # "") /\ bus \in Nat /\ addr \in 0..bus
  BY Parts DEF TypeOK
<1>n. bus \in Nat
  BY <1>1, Zenon
<1>2. brokenBy' # "unreachable" /\ (broken' <=> brokenBy' # "")
  <2>1. ASSUME NEW s \in Sinks, Connect(s), Breaks(s, Why(s))
        PROVE  brokenBy' # "unreachable" /\ brokenBy' # "" /\ broken' = TRUE
    <3>1. job[s].pc = "connect" /\ broken' = TRUE /\ brokenBy' = Why(s)
      BY <2>1 DEF Connect, Breaks
    <3>2. addr # bus \/ desktop \in {"sway", "hyprland"}
      <4>1. ~(addr # bus \/ desktop \in {"sway", "hyprland"}) => job'[s].pc = "dialog"
        BY <2>1, Basics, <1>1 DEF Connect, Goto, Fields, Sound
      <4>2. job'[s].pc \in {"try", "error"}
        BY <1>1, <2>1, <3>1, BreaksJob
      <4>3. QED
        BY <4>1, <4>2
    <3>3. job[s].sender = bus /\ FreshAddress # {} => addr = bus
      BY <1>1, <3>1 DEF Fresh
    <3>4. QED
      BY <3>1, <3>2, <3>3 DEF Why
  <2>2. ASSUME NEW s \in Sinks, Breaks(s, "denied") \/ Breaks(s, "logged in again meanwhile")
        PROVE  brokenBy' # "unreachable" /\ brokenBy' # "" /\ broken' = TRUE
    BY <2>2 DEF Breaks
  <2>3. CASE UNCHANGED <<broken, brokenBy>>
    BY <1>1, <2>3 DEF Fresh
  <2>4. QED
    BY <2>1, <2>2, <2>3, BreakStep
<1>3. ASSUME NEW x \in Sinks, job'[x].pc = "connect"
      PROVE  \/ job[x].pc = "connect" /\ job'[x].sender = job[x].sender
             \/ Reconnect(x) /\ job'[x].sender = bus
  <2>1. ASSUME NEW s \in Sinks, Apart(s), s # x \/ Alike(job'[x], job[x])
        PROVE  job[x].pc = "connect" /\ job'[x].sender = job[x].sender
    BY <1>3, <2>1 DEF Apart, Alike
  <2>2. ASSUME NEW s \in Sinks, NEW i \in Inputs, Take(s, i) PROVE Apart(s) /\ job'[s].pc = "look"
    BY <1>1, <2>2, TakeJob, MovedKept
  <2>3. ASSUME NEW s \in Sinks, Detecting(s) PROVE job' = job
    BY <2>3 DEF Detecting, injectVars
  <2>4. ASSUME NEW s \in Sinks, Detected(s) PROVE Apart(s) /\ job'[s].pc = "event"
    BY <1>1, <2>4, DetectedJob, MovedKept
  <2>5. ASSUME NEW s \in Sinks, Finish(s) PROVE Apart(s) /\ job'[s].pc = "idle"
    BY <1>1, <2>5, FinishJob, MovedKept
  <2>6. ASSUME NEW s \in Sinks, Reconnect(s) PROVE Apart(s) /\ job'[s].sender = bus
    BY <1>1, <2>6, ReconnectJob, MovedKept
  <2>7. ASSUME NEW s \in Sinks, Delivering(s) PROVE Apart(s) /\ job'[s].pc # "connect"
    BY <1>1, <2>7, DeliveringMoves
  <2>8. UserCopies => Alike(job'[x], job[x])
    BY <1>1, UserCopiesKept
  <2>9. SessionClosed \/ UNCHANGED injectVars \/ UNCHANGED vars => job' = job
    BY DEF SessionClosed, vars, injectVars
  <2>10. job' = job => Alike(job'[x], job[x])
    BY DEF Alike
  <2>11. Alike(job'[x], job[x]) => job[x].pc = "connect" /\ job'[x].sender = job[x].sender
    BY <1>3 DEF Alike
  <2>12. QED
    BY <1>3, <2>1, <2>2, <2>3, <2>4, <2>5, <2>6, <2>7, <2>8, <2>9, <2>10, <2>11, StepKinds
<1>4. ASSUME NEW x \in Sinks, job'[x].pc = "connect"
      PROVE  /\ job'[x].sender \in 0..bus'
             /\ job'[x].sender = bus' /\ FreshAddress' # {} => addr' = bus'
  <2>1. job[x].pc = "connect" =>
          job[x].sender \in 0..bus /\ (job[x].sender = bus /\ FreshAddress # {} => addr = bus)
    BY <1>1 DEF Fresh
  <2>2. job'[x].sender \in 0..bus
    <3>1. \/ job[x].pc = "connect" /\ job'[x].sender = job[x].sender
          \/ job'[x].sender = bus
      BY <1>3, <1>4
    <3>2. bus \in 0 .. bus
      BY <1>n
    <3>3. QED
      BY <2>1, <3>1, <3>2
  <2>3. CASE UNCHANGED environment
    <3>1. bus' = bus /\ addr' = addr /\ FreshAddress' = FreshAddress
      BY <2>3 DEF environment, FreshAddress
    <3>2. ~Reconnect(x) => job[x].pc = "connect" /\ job'[x].sender = job[x].sender
      BY <1>3, <1>4
    <3>3. Reconnect(x) => addr' = Refresh
      BY DEF Reconnect
    <3>4. QED
      BY <2>1, <2>2, <3>1, <3>2, <3>3 DEF Refresh
  <2>4. ASSUME NEW s \in Sinks, Reconnect(s), addr' = Refresh, UNCHANGED <<desktop, bus, xdgGnome, pgrep, focus>>
        PROVE  /\ job'[x].sender \in 0..bus'
               /\ job'[x].sender = bus' /\ FreshAddress' # {} => addr' = bus'
    <3>1. FreshAddress' = FreshAddress /\ bus' = bus
      BY <2>4 DEF FreshAddress
    <3>2. QED
      BY <2>2, <2>4, <3>1 DEF Refresh
  <2>5. ASSUME NEW w, UNCHANGED injectVars, focus' = w, UNCHANGED <<desktop, bus, addr, xdgGnome, pgrep>>
        PROVE  /\ job'[x].sender \in 0..bus'
               /\ job'[x].sender = bus' /\ FreshAddress' # {} => addr' = bus'
    <3>1. FreshAddress' = FreshAddress /\ bus' = bus /\ addr' = addr /\ job' = job
      BY <2>5 DEF FreshAddress, injectVars
    <3>2. QED
      BY <1>4, <2>1, <3>1
  <2>6. ASSUME bus' = bus + 1 PROVE job'[x].sender \in 0..bus' /\ job'[x].sender # bus'
    <3>1. PICK n \in 0 .. bus : n = job'[x].sender
      BY <2>2
    <3>2. n \in 0 .. bus + 1 /\ n # bus + 1
      BY <1>n
    <3>3. QED
      BY <2>6, <3>1, <3>2
  <2>7. QED
    BY <2>3, <2>4, <2>5, <2>6, EnvironmentStep
<1>5. QED
  BY <1>2, <1>4 DEF Fresh
(* A job that sends has one of the sessions. *)
LEMMA SenderStep ==
  ASSUME IInv, [Next]_vars, NEW x \in Sinks, job'[x].pc = "send"
  PROVE  job'[x].sender \in DOMAIN sessions'
<1>1. Sound /\ DOMAIN sessions \subseteq DOMAIN sessions' /\ sender' \in 0..Len(sessions') /\ sessions' \in Seq(0..bus')
  BY Parts, SessionsStep
<1>2. DOMAIN sessions = 1 .. Len(sessions) /\ Len(sessions) \in Nat /\ sender \in 0..Len(sessions)
  BY Parts, LenProperties DEF Plain, TypeOK
<1>3. job[x].pc = "send" => job[x].sender \in DOMAIN sessions
  BY Parts DEF TypeOK
<1>4. Alike(job'[x], job[x]) => job'[x].sender \in DOMAIN sessions'
  BY <1>1, <1>3 DEF Alike
<1>5. ASSUME NEW s \in Sinks, Apart(s), s # x PROVE Alike(job'[x], job[x])
  BY <1>5 DEF Apart
<1>6. ASSUME NEW s \in Sinks, NEW i \in Inputs, Take(s, i) PROVE Apart(s) /\ job'[s].pc = "look"
  BY <1>1, <1>6, TakeJob, MovedKept
<1>7. ASSUME NEW s \in Sinks, Detecting(s) PROVE job' = job
  BY <1>7 DEF Detecting, injectVars
<1>8. ASSUME NEW s \in Sinks, Detected(s) PROVE Apart(s) /\ job'[s].pc = "event"
  BY <1>1, <1>8, DetectedJob, MovedKept
<1>9. ASSUME NEW s \in Sinks, Finish(s) PROVE Apart(s) /\ job'[s].pc = "idle"
  BY <1>1, <1>9, FinishJob, MovedKept
<1>10. ASSUME NEW s \in Sinks, Reconnect(s) PROVE Apart(s) /\ job'[s].pc = "connect"
  BY <1>1, <1>10, ReconnectJob, MovedKept
<1>11. ASSUME NEW s \in Sinks, Delivering(s), s = x PROVE job'[x].sender \in DOMAIN sessions'
  <2>1. CASE UsePortal(s)
    <3>1. job'[x].sender = sender /\ sender # 0
      BY <1>1, <1>11, <2>1, UsePortalJob
    <3>2. sender \in DOMAIN sessions
      BY <1>2, <3>1
    <3>3. QED
      BY <1>1, <3>1, <3>2
  <2>2. CASE SkipCharacter(s)
    BY <1>1, <1>3, <1>11, <2>2, SkipJob
  <2>3. CASE Stroke(s)
    BY <1>1, <1>3, <1>11, <2>3, StrokeJob
  <2>4. CASE Grant(s)
    <3>1. job'[x].sender = sender' /\ sender' = Len(sessions')
      BY <1>1, <1>11, <2>4, GrantJob DEF Grant
    <3>2. sessions' = Append(sessions, bus)
      BY <2>4 DEF Grant
    <3>3. DOMAIN sessions' = 1 .. Len(sessions') /\ Len(sessions') \in Nat
      BY <1>1, LenProperties
    <3>4. Len(sessions') # 0
      BY <3>2, <1>1, <1>2, Parts, AppendProperties DEF Plain
    <3>5. QED
      BY <3>1, <3>3, <3>4
  <2>5. Deliver(s) => job'[s].pc # "send"
    BY <1>1, DeliverJob
  <2>6. Copy(s) => job'[s].pc # "send"
    BY <1>1, CopyJob
  <2>7. UseTool(s) => job'[s].pc # "send"
    BY <1>1, UseToolJob
  <2>8. ToolFails(s) => job'[s].pc # "send"
    BY <1>1, ToolFailsJob
  <2>9. Sent(s) => job'[s].pc # "send"
    BY <1>1, SentJob
  <2>10. Unreachable(s) => job'[s].pc # "send"
    BY <1>1, UnreachableJob
  <2>11. CallFails(s) => job'[s].pc # "send"
    BY <1>1, CallFailsJob
  <2>12. Connect(s) => job'[s].pc # "send"
    BY <1>1, ConnectJob
  <2>13. Deny(s) => job'[s].pc # "send"
    BY <1>1, DenyJob
  <2>14. QED
    BY <1>11, <2>1, <2>2, <2>3, <2>4, <2>5, <2>6, <2>7, <2>8, <2>9, <2>10, <2>11, <2>12, <2>13 DEF Delivering
<1>12. ASSUME NEW s \in Sinks, Delivering(s) PROVE Apart(s)
  BY <1>1, <1>12, DeliveringMoves
<1>13. UserCopies => Alike(job'[x], job[x])
  BY <1>1, UserCopiesKept
<1>14. SessionClosed \/ UNCHANGED injectVars \/ UNCHANGED vars => job' = job
  BY DEF SessionClosed, vars, injectVars
<1>15. job' = job => Alike(job'[x], job[x])
  BY DEF Alike
<1>16. QED
  BY <1>4, <1>5, <1>6, <1>7, <1>8, <1>9, <1>10, <1>11, <1>12, <1>13, <1>14, <1>15, StepKinds

AllKeys == PortalKeys \cup UNION {Range(e.text) \cup {" "} : e \in UNION {Range(i) : i \in Inputs}}

(* A key that is sent is one of those. *)
LEMMA SentKey ==
  ASSUME NEW c, NEW j, NEW x, Striking(c, j, x)
  PROVE  x.key \in AllKeys
<1>1. Ready(c, j) /\ j.pc = "send"
  BY DEF Striking
<1>2. j.input \in Inputs /\ j.at \in DOMAIN j.input /\ IsEvent(Now(j)) /\ Now(j) = j.input[j.at]
  BY <1>1, ReadyFacts
<1>3. Now(j) \in UNION {Range(i) : i \in Inputs}
  BY <1>2 DEF Range
<1>4. CASE TypingIn(c, Now(j))
  <2>1. PICK t : t = Now(j).text
    OBVIOUS
  <2>2. t \in Seq(Range(t))
    BY <1>2, <1>4, <2>1, EventKinds DEF TypingIn
  <2>3. /\ Len(Normalized(t)) \in Nat /\ DOMAIN Normalized(t) = 1 .. Len(Normalized(t))
        /\ \A p \in DOMAIN Normalized(t) : Normalized(t)[p] \in Range(t) \cup {" "}
    BY <2>2, NormalizedText
  <2>4. \E p \in 1 .. Len(Normalized(t)) : x = Press(Normalized(t)[p], p) \/ x = Release(Normalized(t)[p], p)
    BY <1>4, <2>1, StrokeKinds
  <2>5. \E p \in 1 .. Len(Normalized(t)) : x.key = Normalized(t)[p]
    BY <2>4 DEF Press, Release
  <2>6. x.key \in Range(t) \cup {" "}
    BY <2>3, <2>5
  <2>7. Range(t) \cup {" "} \in {Range(e.text) \cup {" "} : e \in UNION {Range(i) : i \in Inputs}}
    BY <1>3, <2>1
  <2>8. QED
    BY <2>6, <2>7 DEF AllKeys
<1>5. CASE ~TypingIn(c, Now(j))
  <2>1. PICK k : k = KeysOf(j, Now(j))
    OBVIOUS
  <2>2. Range(k) \subseteq PortalKeys
    BY <1>1, <1>5, <2>1, StillUnderstood DEF PortalPhases
  <2>3. \/ j.strokes + 1 \in 1 .. Len(k) /\ x = Press(k[j.strokes + 1], 1)
        \/ 2 * Len(k) - j.strokes \in 1 .. Len(k) /\ x = Release(k[2 * Len(k) - j.strokes], 1)
    BY <1>5, <2>1, StrokeKinds
  <2>4. \E p \in 1 .. Len(k) : x = Press(k[p], 1) \/ x = Release(k[p], 1)
    BY <2>3
  <2>5. \E p \in 1 .. Len(k) : x.key = k[p]
    BY <2>4 DEF Press, Release
  <2>6. Shortcut(k)
    BY <1>1, <2>1, ReadyFacts
  <2>7. DOMAIN k = 1 .. Len(k)
    BY <2>6, LenProperties DEF Shortcut
  <2>8. QED
    BY <2>2, <2>5, <2>7 DEF Range, AllKeys
<1>6. QED
  BY <1>4, <1>5

(* What a step does to the keys that are held. *)
LEMMA HeldSteps ==
  ASSUME [Next]_vars
  PROVE  \/ held' \subseteq held
         \/ \E s \in Sinks : (Stroke(s) \/ CallFails(s)) /\ held' = Effect(s)
<1>1. ASSUME NEW s \in Sinks, NEW i \in Inputs, Take(s, i) PROVE held' = held
  BY <1>1 DEF Take
<1>2. ASSUME NEW s \in Sinks, Detecting(s) \/ Detected(s) \/ Finish(s) \/ Reconnect(s) PROVE held' = held
  BY <1>2 DEF Detecting, Detected, Finish, Reconnect, injectVars, portalVars
<1>3. ASSUME NEW s \in Sinks, Delivering(s) PROVE held' = held \/ ((Stroke(s) \/ CallFails(s)) /\ held' = Effect(s))
  <2>1. Stroke(s) => held' = Effect(s)
    BY DEF Stroke
  <2>2. CallFails(s) => held' = held \/ held' = Effect(s)
    BY DEF CallFails
  <2>3. QED
    BY <1>3, <2>1, <2>2, DeliveringFrame
<1>4. SessionClosed => held' \subseteq held
  BY DEF SessionClosed
<1>5. UserCopies \/ UNCHANGED injectVars => held' = held
  BY DEF UserCopies, injectVars, portalVars
<1>6. UNCHANGED vars => held' = held
  BY DEF vars, injectVars, portalVars
<1>7. held' = {} => held' \subseteq held
  OBVIOUS
<1>8. QED
  BY <1>1, <1>2, <1>3, <1>4, <1>5, <1>6, <1>7, StepKinds

LEMMA TypeStep ==
  ASSUME IInv, [Next]_vars
  PROVE  TypeOK'
<1>1. TypeOK /\ Sound
  BY Parts
<1>2. Kept /\ Watching' /\ Plain'
  BY Parts, JobsKept, WatchingStep, SoundStep
<1>3. /\ bus \in Nat /\ bus' \in Nat /\ bus <= bus' /\ DOMAIN sessions \subseteq DOMAIN sessions'
      /\ sender' \in 0..Len(sessions')
  BY SessionsStep
<1>4. desktop' \in Desktops /\ addr' \in 0..bus' /\ focus' \in Windows \cup {NoWindow}
  <2>1. desktop \in Desktops /\ addr \in 0..bus /\ focus \in Windows \cup {NoWindow}
    BY <1>1 DEF TypeOK
  <2>2. Refresh \in 0..bus
    BY <1>3, <2>1 DEF Refresh
  <2>3. addr \in 0 .. bus + 1
    BY <1>3, <2>1
  <2>4. QED
    BY <2>1, <2>2, <2>3, EnvironmentStep DEF environment
<1>5. broken' <=> brokenBy' # ""
  BY FreshStep
<1>6. held' \subseteq (DOMAIN sessions') \X AllKeys
  <2>1. held \subseteq (DOMAIN sessions) \X AllKeys
    BY <1>1 DEF TypeOK, AllKeys
  <2>2. ASSUME NEW s \in Sinks, Sending(s) PROVE Effect(s) \subseteq (DOMAIN sessions) \X AllKeys
    <3>1. job[s].pc = "send" /\ Striking(settings, job[s], Following(s))
      BY <1>1, <2>2, SendingFacts
    <3>2. Following(s).key \in AllKeys
      BY <3>1, SentKey
    <3>3. job[s].sender \in DOMAIN sessions
      BY <1>1, <3>1 DEF TypeOK
    <3>4. Effect(s) \subseteq held \cup {<<job[s].sender, Following(s).key>>}
      BY DEF Effect
    <3>5. QED
      BY <2>1, <3>2, <3>3, <3>4
  <2>3. \A s \in Sinks : Stroke(s) \/ CallFails(s) => Sending(s)
    BY DEF Stroke, CallFails
  <2>4. QED
    BY <1>3, <2>1, <2>2, <2>3, HeldSteps
<1>7. ASSUME NEW x \in Sinks
      PROVE  /\ job'[x].pc \in {"idle", "look", "event", "copy", "try", "send", "reconnect", "connect", "dialog", "error"}
             /\ job'[x].pc = "idle" => look'[x].step = 0
             /\ job'[x].pc # "idle" => job'[x].input \in Inputs /\ job'[x].at \in 1..Len(job'[x].input) + 1
             /\ job'[x].pc = "send" => job'[x].sender \in DOMAIN sessions'
             /\ look'[x].step \in 0..Len(Backends) + 1
  <2>1. PICK j : j = job'[x]
    OBVIOUS
  <2>2. JobOK(settings, j)
    BY <1>2, <2>1 DEF Kept
  <2>3. j.pc \in {"idle", "look", "event", "copy", "try", "send", "reconnect", "connect", "dialog", "error"}
    BY <2>2 DEF JobOK, Begun, Trying, PortalPhases
  <2>4. j.pc # "idle" => j.input \in Inputs /\ j.at \in 1..Len(j.input) + 1
    <3>1. j.pc # "idle" => j.input \in Inputs
      BY <2>2 DEF JobOK
    <3>2. j.pc = "look" => j.at = 1
      BY <2>2 DEF JobOK
    <3>3. j.pc \in Begun => j.at \in 1..Len(j.input) + 1
      BY <2>2 DEF JobOK
    <3>4. j.pc # "idle" => j.pc = "look" \/ j.pc \in Begun
      BY <2>2 DEF JobOK
    <3>5. j.input \in Inputs => Len(j.input) \in Nat
      BY InputEvents
    <3>6. j.input \in Inputs => 1 \in 1..Len(j.input) + 1
      BY <3>5
    <3>7. QED
      BY <3>1, <3>2, <3>3, <3>4, <3>6
  <2>5. j.pc = "send" => j.sender \in DOMAIN sessions'
    BY <2>1, SenderStep
  <2>6. look'[x].step \in 0..Len(Backends) + 1 /\ (j.pc # "look" => look'[x].step = 0)
    BY <1>2, <2>1 DEF Watching
  <2>7. QED
    BY <2>1, <2>3, <2>4, <2>5, <2>6
<1>8. flagged' \subseteq Range(Backends) /\ refused' = flagged'
  BY <1>2 DEF Watching
<1>9. QED
  BY <1>3, <1>4, <1>5, <1>6, <1>7, <1>8 DEF TypeOK, AllKeys
-----------------------------------------------------------------------------
(* What is pasted is ours *)

LEMMA OursSame ==
  ASSUME NEW c, NEW t, NEW j, NEW J, OursJob(c, t, j), J.input = j.input, J.at = j.at, J.out = j.out,
         J.copied = j.copied, J.pc \in Trying => j.pc \in Trying
  PROVE  OursJob(c, t, J)
<1>1. Now(J) = Now(j)
  BY DEF Now
<1>2. QED
  BY <1>1 DEF OursJob

LEMMA OursBehind ==
  ASSUME NEW c, NEW t, NEW u, NEW j, NEW J, OursJob(c, u, j), J.input = j.input, J.out = j.out,
         J.pc \notin Trying \/ J.copied = FALSE \/ ~PastingIn(c, Now(J)) \/ t = Normalized(Now(J).text)
  PROVE  OursJob(c, t, J)
BY DEF OursJob

LEMMA OursNothing ==
  ASSUME NEW c, NEW t, NEW J, J.out = <<>>, J.pc \notin Trying
  PROVE  OursJob(c, t, J)
BY DEF OursJob, Range

(* One thing that is seen is seen with the clipboard t. *)
Witnessed(c, t, j, x) ==
  x.ev = j.at /\ x.ours = j.copied /\ x.clip = (IF PastingIn(c, Now(j)) THEN t ELSE <<>>)

LEMMA OursMore ==
  ASSUME NEW c, NEW t, NEW j, NEW J, OursJob(c, t, j), j.pc \in Trying, J.input = j.input,
         J.copied = j.copied, J.pc \in Trying => J.at = j.at,
         \A x \in Range(J.out) : x \in Range(j.out) \/ Witnessed(c, t, j, x)
  PROVE  OursJob(c, t, J)
<1>1. J.at = j.at => Now(J) = Now(j)
  BY DEF Now
<1>2. ASSUME NEW x \in Range(J.out), PastingIn(c, J.input[x.ev]), x.ours
      PROVE  x.clip = Normalized(J.input[x.ev].text)
  <2>1. CASE x \in Range(j.out)
    BY <1>2, <2>1 DEF OursJob
  <2>2. CASE Witnessed(c, t, j, x)
    <3>1. J.input[x.ev] = Now(j) /\ j.copied /\ x.clip = t
      BY <1>2, <2>2 DEF Witnessed, Now
    <3>2. t = Normalized(Now(j).text)
      BY <1>2, <3>1 DEF OursJob
    <3>3. QED
      BY <3>1, <3>2
  <2>3. QED
    BY <2>1, <2>2
<1>3. QED
  BY <1>1, <1>2 DEF OursJob

LEMMA OursMoved ==
  ASSUME Ours, NEW s \in Sinks, Moved(s), clip' = clip, OursJob(settings, clip, job'[s])
  PROVE  Ours'
BY DEF Ours, Moved

(* The out of a sink that typed a key. *)
LEMMA StrokeWitnessed ==
  ASSUME Sound, NEW s \in Sinks, Sending(s), ~Untypable(s)
  PROVE  \A x \in Range(Shown(s)) : x \in Range(job[s].out) \/ x = Glimpse(s)
<1>1. Ready(settings, job[s])
  BY SendingFacts
<1>2. job[s].out \in Seq(Range(job[s].out))
  BY <1>1, ReadyFacts
<1>3. Range(Append(job[s].out, Glimpse(s))) = Range(job[s].out) \cup {Glimpse(s)}
  BY <1>2, RangeOfAppend
<1>4. QED
  BY <1>3, GlimpseFacts

LEMMA OursDelivered ==
  ASSUME IInv, NEW s \in Sinks, Delivering(s)
  PROVE  Ours'
<1>1. Sound /\ Ours /\ OursJob(settings, clip, job[s])
  BY Parts DEF Ours
<1>2. {"try", "send", "reconnect", "connect", "dialog"} = Trying
  BY DEF Trying, PortalPhases
<1>3. CASE Deliver(s)
  <2>1. /\ Moved(s) /\ clip' = clip /\ Same(job'[s], job[s]) /\ job'[s].pc \in {"copy", "try"}
        /\ (job'[s].pc = "try" => ~PastingIn(settings, Now(job[s])))
    BY <1>1, <1>3, DeliverJob DEF Deliver
  <2>2. Now(job'[s]) = Now(job[s])
    BY <2>1 DEF Same, Now
  <2>3. OursJob(settings, clip, job'[s])
    BY <1>1, <1>2, <2>1, <2>2, OursBehind DEF Same
  <2>4. QED
    BY <1>1, <2>1, <2>3, OursMoved
<1>4. CASE Copy(s)
  <2>1. /\ settings' = settings /\ Same(job'[s], job[s])
        /\ \/ /\ clip' = Normalized(Now(job[s]).text) /\ job'[s].pc = "try"
              /\ \A x \in Sinks \ {s} : OnlyCopied(x, FALSE)
           \/ /\ clip' = clip /\ job'[s].pc = "error"
              /\ \A x \in Sinks \ {s} : job'[x] = job[x]
    BY <1>1, <1>4, CopyJob
  <2>2. Now(job'[s]) = Now(job[s])
    BY <2>1 DEF Same, Now
  <2>3. OursJob(settings, clip', job'[s])
    <3>1. job'[s].pc \notin Trying \/ clip' = Normalized(Now(job'[s]).text)
      BY <1>2, <2>1, <2>2
    <3>2. job'[s].input = job[s].input /\ job'[s].out = job[s].out
      BY <2>1 DEF Same
    <3>3. QED
      BY <1>1, <3>1, <3>2, OursBehind
  <2>4. ASSUME NEW x \in Sinks \ {s} PROVE OursJob(settings, clip', job'[x])
    <3>1. OursJob(settings, clip, job[x])
      BY <1>1 DEF Ours
    <3>2. CASE OnlyCopied(x, FALSE)
      <4>1. job'[x].input = job[x].input /\ job'[x].out = job[x].out /\ job'[x].copied = FALSE
        BY <1>1, <3>2, OnlyCopiedKeeps DEF Same
      <4>2. QED
        BY <3>1, <4>1, OursBehind
    <3>3. CASE clip' = clip /\ job'[x] = job[x]
      BY <3>1, <3>3
    <3>4. QED
      BY <2>1, <3>2, <3>3
  <2>5. QED
    BY <2>1, <2>3, <2>4 DEF Ours
<1>5. ASSUME Moved(s), Same(job'[s], job[s]), job'[s].copied = job[s].copied, job[s].pc \in Trying,
             Copy(s) \/ clip' = clip, ~Copy(s)
      PROVE  Ours'
  <2>1. OursJob(settings, clip, job'[s])
    BY <1>1, <1>5, OursSame DEF Same
  <2>2. QED
    BY <1>1, <1>5, <2>1, OursMoved
<1>6. ASSUME job[s].pc # "copy" PROVE ~Copy(s)
  BY <1>6 DEF Copy
<1>7. Copy(s) \/ clip' = clip
  BY DeliveringFrame
<1>8. CASE UsePortal(s)
  <2>1. Moved(s) /\ Same(job'[s], job[s]) /\ job'[s].copied = job[s].copied /\ job[s].pc = "try"
    BY <1>1, <1>8, UsePortalJob DEF UsePortal
  <2>2. QED
    BY <1>2, <1>5, <1>6, <1>7, <2>1
<1>9. CASE SkipCharacter(s)
  BY <1>1, <1>2, <1>5, <1>6, <1>7, <1>9, SkipJob
<1>10. CASE Unreachable(s)
  BY <1>1, <1>2, <1>5, <1>6, <1>7, <1>10, UnreachableJob
<1>11. CASE Connect(s)
  BY <1>1, <1>2, <1>5, <1>6, <1>7, <1>11, ConnectJob
<1>12. CASE Grant(s)
  BY <1>1, <1>2, <1>5, <1>6, <1>7, <1>12, GrantJob
<1>13. CASE Deny(s)
  BY <1>1, <1>2, <1>5, <1>6, <1>7, <1>13, DenyJob
<1>14. CASE Sent(s)
  <2>1. Moved(s) /\ job'[s].pc = "event" /\ job'[s].input = job[s].input /\ job'[s].out = job[s].out /\ clip' = clip
    BY <1>1, <1>14, SentJob DEF Sent
  <2>2. OursJob(settings, clip, job'[s])
    BY <1>1, <1>2, <2>1, OursBehind
  <2>3. QED
    BY <1>1, <2>1, <2>2, OursMoved
<1>15. CASE UseTool(s)
  <2>1. /\ Moved(s) /\ job[s].pc = "try" /\ clip' = clip
        /\ job'[s].input = job[s].input /\ job'[s].copied = job[s].copied
        /\ \/ Same(job'[s], job[s]) /\ job'[s].pc \in {"try", "error"}
           \/ /\ job'[s].pc = "event"
              /\ \A x \in Range(job'[s].out) : x \in Range(job[s].out) \/ ByTool(s, x)
    BY <1>1, <1>15, UseToolJob DEF UseTool
  <2>2. CASE Same(job'[s], job[s])
    BY <1>2, <1>5, <1>6, <1>7, <2>1, <2>2
  <2>3. CASE /\ job'[s].pc = "event"
             /\ \A x \in Range(job'[s].out) : x \in Range(job[s].out) \/ ByTool(s, x)
    <3>1. \A x : ByTool(s, x) => Witnessed(settings, clip, job[s], x)
      BY DEF ByTool, Witnessed
    <3>2. job[s].pc \in Trying /\ job'[s].pc \notin Trying
      BY <1>2, <2>1, <2>3
    <3>3. OursJob(settings, clip, job'[s])
      BY <1>1, <2>1, <2>3, <3>1, <3>2, OursMore
    <3>4. QED
      BY <1>1, <2>1, <3>3, OursMoved
  <2>4. QED
    BY <2>1, <2>2, <2>3
<1>16. CASE ToolFails(s)
  <2>1. /\ Moved(s) /\ job[s].pc = "try" /\ clip' = clip
        /\ job'[s].input = job[s].input /\ job'[s].copied = job[s].copied /\ job'[s].at = job[s].at
        /\ \A x \in Range(job'[s].out) : x \in Range(job[s].out) \/ ByTool(s, x)
    BY <1>1, <1>16, ToolFailsJob DEF ToolFails
  <2>2. \A x : ByTool(s, x) => Witnessed(settings, clip, job[s], x)
    BY DEF ByTool, Witnessed
  <2>3. job[s].pc \in Trying
    BY <1>2, <2>1
  <2>4. OursJob(settings, clip, job'[s])
    BY <1>1, <2>1, <2>2, <2>3, OursMore
  <2>5. QED
    BY <1>1, <2>1, <2>4, OursMoved
<1>17. ASSUME Sending(s), ~Untypable(s), Moved(s), clip' = clip, job[s].pc = "send",
              job'[s].input = job[s].input, job'[s].copied = job[s].copied, job'[s].at = job[s].at,
              job'[s].out = Shown(s) \/ job'[s].out = job[s].out
       PROVE  Ours'
  <2>1. \A x \in Range(job'[s].out) : x \in Range(job[s].out) \/ x = Glimpse(s)
    BY <1>1, <1>17, StrokeWitnessed
  <2>2. Witnessed(settings, clip, job[s], Glimpse(s))
    BY <1>1, <1>17, GlimpseFacts DEF Witnessed
  <2>3. job[s].pc \in Trying
    BY <1>2, <1>17
  <2>4. OursJob(settings, clip, job'[s])
    BY <1>1, <1>17, <2>1, <2>2, <2>3, OursMore
  <2>5. QED
    BY <1>1, <1>17, <2>4, OursMoved
<1>18. CASE Stroke(s)
  BY <1>1, <1>17, <1>18, StrokeJob DEF Stroke
<1>19. CASE CallFails(s)
  BY <1>1, <1>17, <1>19, CallFailsJob DEF CallFails
<1>20. QED
  BY <1>3, <1>4, <1>8, <1>9, <1>10, <1>11, <1>12, <1>13, <1>14, <1>15, <1>16, <1>18, <1>19 DEF Delivering

LEMMA OursStep ==
  ASSUME IInv, [Next]_vars
  PROVE  Ours'
<1>1. Sound /\ Ours
  BY Parts
<1>2. "look" \notin Trying /\ "event" \notin Trying /\ "idle" \notin Trying
      /\ "reconnect" \in Trying /\ "connect" \in Trying
  BY DEF Trying, PortalPhases
<1>3. ASSUME UNCHANGED <<settings, job, clip>> PROVE Ours'
  BY <1>1, <1>3 DEF Ours
<1>4. ASSUME NEW s \in Sinks, Moved(s), clip' = clip, job'[s].out = <<>>, job'[s].pc \notin Trying PROVE Ours'
  BY <1>1, <1>4, OursNothing, OursMoved
<1>5. ASSUME NEW s \in Sinks, NEW i \in Inputs, Take(s, i) PROVE Ours'
  <2>1. clip' = clip
    BY <1>5 DEF Take
  <2>2. QED
    BY <1>1, <1>2, <1>4, <1>5, <2>1, TakeJob
<1>6. ASSUME NEW s \in Sinks, Detecting(s) PROVE Ours'
  BY <1>3, <1>6 DEF Detecting, injectVars
<1>7. ASSUME NEW s \in Sinks, Detected(s) PROVE Ours'
  <2>1. clip' = clip
    BY <1>7 DEF Detected
  <2>2. QED
    BY <1>1, <1>2, <1>4, <1>7, <2>1, DetectedJob
<1>8. ASSUME NEW s \in Sinks, Finish(s) PROVE Ours'
  <2>1. clip' = clip
    BY <1>8 DEF Finish
  <2>2. QED
    BY <1>1, <1>2, <1>4, <1>8, <2>1, FinishJob
<1>9. ASSUME NEW s \in Sinks, Reconnect(s) PROVE Ours'
  <2>1. clip' = clip
    BY <1>9 DEF Reconnect
  <2>2. /\ Moved(s) /\ Same(job'[s], job[s]) /\ job'[s].copied = job[s].copied /\ job[s].pc = "reconnect"
    BY <1>1, <1>9, ReconnectJob
  <2>3. OursJob(settings, clip, job'[s])
    BY <1>1, <1>2, <2>2, OursSame DEF Ours, Same
  <2>4. QED
    BY <1>1, <2>1, <2>2, <2>3, OursMoved
<1>10. ASSUME NEW s \in Sinks, Delivering(s) PROVE Ours'
  BY <1>10, OursDelivered
<1>11. CASE UserCopies
  <2>1. settings' = settings /\ \A x \in Sinks : Alike(job'[x], job[x]) /\ job'[x].copied = FALSE
    BY <1>1, <1>11, UserCopiesKept DEF Kept
  <2>2. \A x \in Sinks : OursJob(settings, clip', job'[x])
    BY <1>1, <2>1, OursBehind DEF Ours, Alike
  <2>3. QED
    BY <2>1, <2>2 DEF Ours
<1>12. SessionClosed => UNCHANGED <<settings, job, clip>>
  BY DEF SessionClosed
<1>13. UNCHANGED injectVars => UNCHANGED <<settings, job, clip>>
  BY DEF injectVars
<1>14. UNCHANGED vars => UNCHANGED <<settings, job, clip>>
  BY DEF vars, injectVars
<1>15. QED
  BY <1>3, <1>5, <1>6, <1>7, <1>8, <1>9, <1>10, <1>11, <1>12, <1>13, <1>14, StepKinds
-----------------------------------------------------------------------------
(* The paste key fits *)

LEMMA AwaitedAwaits ==
  ASSUME NEW n
  PROVE  Awaited(n) = Awaits(Serving, focus, n)
BY DEF Awaited, Awaits, Serving

LEMMA AwaitsNext ==
  ASSUME NEW S, NEW w, NEW n \in 1 .. 5
  PROVE  /\ Awaits(S, w, n + 1) = Awaits(S, w, n) \ {Backends[n]}
         /\ Backends[n] \in S /\ Answer(Backends[n], w) # "" => Backends[n] \in Awaits(S, w, n)
<1>1. DOMAIN Backends = 1 .. 5 /\ \A i, j \in 1 .. 5 : Backends[i] = Backends[j] => i = j
  BY StepsOfBackends
<1>2. PICK B : B = Backends
  OBVIOUS
<1>3. DOMAIN B = 1 .. 5 /\ \A i, j \in 1 .. 5 : B[i] = B[j] => i = j
  BY <1>1, <1>2
<1>4. ASSUME NEW b
      PROVE  (\E i \in 1 .. 5 : i >= n + 1 /\ B[i] = b) <=> (\E i \in 1 .. 5 : i >= n /\ B[i] = b) /\ b # B[n]
  <2>1. ASSUME NEW i \in 1 .. 5, i >= n + 1, B[i] = b PROVE i >= n /\ b # B[n]
    <3>1. i >= n /\ i # n
      BY <2>1
    <3>2. QED
      BY <1>3, <2>1, <3>1
  <2>2. ASSUME NEW i \in 1 .. 5, i >= n, B[i] = b, b # B[n] PROVE i >= n + 1
    <3>1. i # n
      BY <2>2
    <3>2. QED
      BY <2>2, <3>1
  <2>3. QED
    BY <2>1, <2>2
<1>5. Awaits(S, w, n + 1) = Awaits(S, w, n) \ {B[n]}
  <2>1. ASSUME NEW b, NEW m
        PROVE  b \in Awaits(S, w, m) <=> b \in S /\ Answer(b, w) # "" /\ \E i \in 1 .. 5 : i >= m /\ B[i] = b
    BY <1>2, <1>3 DEF Awaits
  <2>2. ASSUME NEW b PROVE b \in Awaits(S, w, n + 1) <=> b \in Awaits(S, w, n) \ {B[n]}
    <3>1. b \in Awaits(S, w, n + 1) <=> b \in S /\ Answer(b, w) # "" /\ \E i \in 1 .. 5 : i >= n + 1 /\ B[i] = b
      BY <2>1
    <3>2. b \in Awaits(S, w, n) <=> b \in S /\ Answer(b, w) # "" /\ \E i \in 1 .. 5 : i >= n /\ B[i] = b
      BY <2>1
    <3>3. (\E i \in 1 .. 5 : i >= n + 1 /\ B[i] = b) <=> (\E i \in 1 .. 5 : i >= n /\ B[i] = b) /\ b # B[n]
      BY <1>4
    <3>4. QED
      BY <3>1, <3>2, <3>3, Zenon
  <2>3. QED
    BY <2>2
<1>6. B[n] \in S /\ Answer(B[n], w) # "" => B[n] \in Awaits(S, w, n)
  <2>1. n \in DOMAIN Backends /\ n >= n
    BY <1>1
  <2>2. QED
    BY <1>2, <2>1 DEF Awaits
<1>7. QED
  BY <1>2, <1>5, <1>6

LEMMA NobodyLeft ==
  ASSUME NEW S, NEW w
  PROVE  Awaits(S, w, 6) = {}
<1>1. \A i \in DOMAIN Backends : ~(i >= 6)
  BY StepsOfBackends
<1>2. QED
  BY <1>1 DEF Awaits

LEMMA ServingFrame ==
  ASSUME UNCHANGED environment
  PROVE  Serving' = Serving
BY DEF Serving, Serves, Reaches, FreshAddress, environment

LEMMA ServingRefreshed ==
  ASSUME addr' = Refresh, UNCHANGED <<desktop, bus, pgrep>>
  PROVE  Serving' = Serving
<1>1. FreshAddress' = FreshAddress
  BY DEF FreshAddress
<1>2. Reaches' <=> Reaches
  BY <1>1 DEF Reaches, Refresh
<1>3. QED
  BY <1>2 DEF Serving, Serves

LEMMA LookingFrame ==
  ASSUME Looking, look' = look, flagged' = flagged, focus' = focus, Serving' = Serving, settings' = settings,
         \A x \in Sinks : LookJob(settings, look[x], job'[x])
  PROVE  Looking'
BY DEF Looking

LEMMA LookJobSame ==
  ASSUME NEW c, NEW r, NEW j, NEW J, LookJob(c, r, j), J.paste = j.paste,
         \/ J.pc = j.pc
         \/ j.pc \in Begun /\ J.pc \in Begun
  PROVE  LookJob(c, r, J)
<1>1. "look" \notin Begun
  BY DEF Begun, Trying, PortalPhases
<1>2. QED
  BY <1>1 DEF LookJob

(* A detection of which only the step changes. *)
LEMMA KindsSame ==
  ASSUME NEW r, NEW q, r.win = q.win, r.able = q.able
  PROVE  Kinds(r) = Kinds(q)
BY DEF Kinds

LEMMA LookingProbe ==
  ASSUME IInv, NEW s \in Sinks, Detecting(s)
  PROVE  Looking'
<1>1. /\ Watching /\ Looking /\ job' = job /\ settings' = settings /\ job[s].pc = "look" /\ Probe(s)
      /\ focus \in Windows \cup {NoWindow}
  BY Parts DEF TypeOK, Detecting, injectVars
<1>2. DOMAIN look = Sinks /\ DOMAIN look[s] = DOMAIN NoLook
  BY <1>1 DEF Watching
<1>3. Turned(s) /\ UNCHANGED environment
  BY <1>1, <1>2, ProbeTurns
<1>4. Serving' = Serving /\ focus' = focus
  BY <1>3, ServingFrame DEF environment
<1>5. PICK S : S = Serving
  OBVIOUS
<1>6. PICK r : r = look[s]
  OBVIOUS
<1>7. PICK R : R = look'[s]
  OBVIOUS
<1>8. /\ Undisturbed(S, focus, flagged, r)
      /\ R.win = r.win /\ R.calm = r.calm
  BY <1>1, <1>3, <1>5, <1>6, <1>7 DEF Looking, Turned
<1>9. "look" \notin Begun
  BY DEF Begun, Trying, PortalPhases
<1>10. ASSUME NEW b, Asks(s, b) PROVE r.step \in 1 .. 5 /\ b = Backends[r.step]
  BY <1>6, <1>10, StepsOfBackends DEF Asks
<1>11. ASSUME NEW b, b \in Range(Backends), ~Serves(b) \/ Answer(b, focus) = ""
       PROVE  \A n : b \notin Awaits(S, focus, n)
  BY <1>5, <1>11 DEF Awaits, Serving
<1>12. ASSUME NEW b \in Range(Backends), Asks(s, b), R.step = r.step + 1,
         \/ flagged' = flagged /\ R.able = r.able /\ (b \in flagged \/ Answer(b, focus) = "")
         \/ flagged' = flagged \cup {b} /\ R.able = r.able /\ (~Serves(b) \/ Answer(b, focus) = "")
         \/ flagged' = flagged /\ R.able = r.able \ {b}
       PROVE  Undisturbed(S, focus, flagged', R) /\ LookJob(settings, R, job[s])
  <2>1. r.step \in 1 .. 5 /\ b = Backends[r.step]
    BY <1>10, <1>12
  <2>2. Awaits(S, focus, R.step) = Awaits(S, focus, r.step) \ {b}
    <3>1. PICK n \in 1 .. 5 : n = r.step
      BY <2>1
    <3>2. R.step = n + 1 /\ b = Backends[n]
      BY <1>12, <2>1, <3>1, Zenon
    <3>3. Awaits(S, focus, n + 1) = Awaits(S, focus, n) \ {Backends[n]}
      BY AwaitsNext
    <3>4. QED
      BY <3>1, <3>2, <3>3, Zenon
  <2>3. r.step # 0 /\ R.step # 0
    <3>1. PICK n \in 1 .. 5 : n = r.step
      BY <2>1
    <3>2. R.step = n + 1
      BY <1>12, <3>1, Zenon
    <3>3. QED
      BY <3>1, <3>2
  <2>4. ASSUME R.calm PROVE R.win = focus /\ R.able = Awaits(S, focus, R.step) \ flagged'
    <3>1. r.win = focus /\ r.able = Awaits(S, focus, r.step) \ flagged
      BY <1>8, <2>3, <2>4 DEF Undisturbed
    <3>2. Answer(b, focus) = "" \/ ~Serves(b) => b \notin Awaits(S, focus, r.step)
      BY <1>11
    <3>3. R.able = Awaits(S, focus, R.step) \ flagged'
      BY <1>12, <2>2, <3>1, <3>2
    <3>4. QED
      BY <1>8, <3>1, <3>3
  <2>5. QED
    BY <1>1, <1>9, <2>3, <2>4 DEF Undisturbed, LookJob
<1>13. ASSUME NEW b \in Range(Backends), Asks(s, b), b \notin flagged, Serves(b), Answer(b, focus) # "",
         R.step = 0, R.kind = Classify(Answer(b, focus)), R.able = r.able, flagged' = flagged
       PROVE  Undisturbed(S, focus, flagged', R) /\ LookJob(settings, R, job[s])
  <2>1. r.step \in 1 .. 5 /\ b = Backends[r.step] /\ r.step # 0
    <3>1. r.step \in 1 .. 5 /\ b = Backends[r.step]
      BY <1>10, <1>13
    <3>2. PICK n \in 1 .. 5 : n = r.step
      BY <3>1
    <3>3. QED
      BY <3>1, <3>2
  <2>2. b \in S
    BY <1>5, <1>13 DEF Serving
  <2>3. ASSUME R.calm PROVE R.kind \in Kinds(R)
    <3>1. r.win = focus /\ r.able = Awaits(S, focus, r.step) \ flagged
      BY <1>8, <2>1, <2>3 DEF Undisturbed
    <3>2. b \in Awaits(S, focus, r.step)
      BY <1>13, <2>1, <2>2, AwaitsNext
    <3>3. b \in R.able /\ R.win = focus
      BY <1>8, <1>13, <3>1, <3>2
    <3>4. Answer(b, focus) = NameOf(b, focus)
      BY <1>1, AnswerIsName
    <3>5. QED
      BY <1>13, <3>3, <3>4 DEF Kinds
  <2>4. QED
    BY <1>1, <1>9, <1>13, <2>3 DEF Undisturbed, LookJob
<1>14. ASSUME r.step = Len(Backends) + 1, R.step = 0, R.able = r.able, flagged' = flagged
       PROVE  Undisturbed(S, focus, flagged', R) /\ LookJob(settings, R, job[s])
  <2>1. r.step = 6
    BY <1>14, StepsOfBackends
  <2>2. R.calm => R.able = {}
    BY <1>8, <1>14, <2>1, NobodyLeft DEF Undisturbed
  <2>3. QED
    BY <1>1, <1>9, <1>14, <2>2 DEF Undisturbed, LookJob
<1>15. Undisturbed(S, focus, flagged', R) /\ LookJob(settings, R, job[s])
  <2>1. \/ \E b \in Range(Backends) :
             /\ Asks(s, b) /\ R.step = r.step + 1
             /\ \/ flagged' = flagged /\ R.able = r.able /\ (b \in flagged \/ Answer(b, focus) = "")
                \/ flagged' = flagged \cup {b} /\ R.able = r.able /\ (~Serves(b) \/ Answer(b, focus) = "")
                \/ flagged' = flagged /\ R.able = r.able \ {b}
        \/ \E b \in Range(Backends) :
             /\ Asks(s, b) /\ b \notin flagged /\ Serves(b) /\ Answer(b, focus) # ""
             /\ R.step = 0 /\ R.kind = Classify(Answer(b, focus)) /\ R.able = r.able /\ flagged' = flagged
        \/ r.step = Len(Backends) + 1 /\ R.step = 0 /\ R.able = r.able /\ flagged' = flagged
    BY <1>1, <1>2, <1>6, <1>7, ProbeTurns
  <2>2. QED
    BY <1>12, <1>13, <1>14, <2>1
<1>16. ASSUME NEW x \in Sinks \ {s} PROVE Undisturbed(S, focus, flagged', look[x])
  <2>1. Undisturbed(S, focus, flagged, look[x])
    BY <1>1, <1>5 DEF Looking
  <2>2. \/ flagged' = flagged
        \/ \E b \in Range(Backends) : flagged' = flagged \cup {b} /\ (~Serves(b) \/ Answer(b, focus) = "")
    BY <1>1, <1>2, ProbeTurns
  <2>3. Awaits(S, focus, look[x].step) \ flagged' = Awaits(S, focus, look[x].step) \ flagged
    BY <1>11, <2>2
  <2>4. QED
    BY <2>1, <2>3 DEF Undisturbed
<1>17. ASSUME NEW x \in Sinks
       PROVE  LookJob(settings', look'[x], job'[x]) /\ Undisturbed(Serving', focus', flagged', look'[x])
  <2>1. CASE x = s
    BY <1>1, <1>4, <1>5, <1>7, <1>15, <2>1
  <2>2. CASE x # s
    BY <1>1, <1>3, <1>4, <1>5, <1>16, <2>2 DEF Turned, Looking
  <2>3. QED
    BY <2>1, <2>2
<1>18. QED
  BY <1>17 DEF Looking
LEMMA LookingTake ==
  ASSUME IInv, NEW s \in Sinks, NEW i \in Inputs, Take(s, i)
  PROVE  Looking'
<1>1. Watching /\ Looking /\ Sound
  BY Parts
<1>2. Moved(s) /\ job'[s].pc = "look"
  BY <1>1, TakeJob
<1>3. /\ settings' = settings /\ flagged' = flagged /\ UNCHANGED environment
      /\ Detect(s) \/ look' = [look EXCEPT ![s] = NoLook]
  BY DEF Take
<1>4. Serving' = Serving /\ focus' = focus
  BY <1>3, ServingFrame DEF environment
<1>5. "look" \notin Begun
  BY DEF Begun, Trying, PortalPhases
<1>6. Able = Awaits(Serving, focus, 1) \ flagged
  <2>1. refused = flagged
    BY <1>1 DEF Watching
  <2>2. ASSUME NEW b PROVE b \in Range(Backends) <=> \E n \in DOMAIN Backends : n >= 1 /\ Backends[n] = b
    BY StepsOfBackends
  <2>3. QED
    BY <2>1, <2>2 DEF Able, Awaits, Serving
<1>7. PICK r : r = [NoLook EXCEPT !.step = 1, !.win = focus, !.able = Able]
  OBVIOUS
<1>8. r.step = 1 /\ r.win = focus /\ r.able = Able
  BY <1>7 DEF NoLook
<1>9. NoLook.step = 0 /\ NoLook.able = {}
  BY DEF NoLook
<1>10. DOMAIN look = Sinks
  BY <1>1 DEF Watching
<1>11. (look'[s] = r \/ look'[s] = NoLook) /\ \A x \in Sinks \ {s} : look'[x] = look[x]
  BY <1>3, <1>7, <1>10 DEF Detect
<1>12. LookJob(settings, r, job'[s]) /\ Undisturbed(Serving, focus, flagged, r)
  BY <1>2, <1>5, <1>6, <1>8 DEF LookJob, Undisturbed
<1>13. LookJob(settings, NoLook, job'[s]) /\ Undisturbed(Serving, focus, flagged, NoLook)
  BY <1>9 DEF LookJob, Undisturbed
<1>14. ASSUME NEW x \in Sinks
       PROVE  LookJob(settings', look'[x], job'[x]) /\ Undisturbed(Serving', focus', flagged', look'[x])
  <2>1. CASE x = s
    BY <1>3, <1>4, <1>11, <1>12, <1>13, <2>1
  <2>2. CASE x # s
    <3>1. job'[x] = job[x] /\ look'[x] = look[x]
      BY <1>2, <1>11, <2>2 DEF Moved
    <3>2. QED
      BY <1>1, <1>3, <1>4, <3>1 DEF Looking
  <2>3. QED
    BY <2>1, <2>2
<1>15. QED
  BY <1>14 DEF Looking

LEMMA LookingDetected ==
  ASSUME IInv, NEW s \in Sinks, Detected(s)
  PROVE  Looking'
<1>1. Watching /\ Looking /\ Sound
  BY Parts
<1>2. /\ Moved(s) /\ job'[s].pc = "event"
      /\ job'[s].paste = IF settings.pasteKey = AutoKey THEN PasteKeys(look[s].kind) ELSE job[s].paste
  BY <1>1, DetectedJob
<1>3. /\ job[s].pc = "look" /\ look[s].step = 0 /\ look' = look /\ flagged' = flagged /\ UNCHANGED environment
  BY DEF Detected, windowVars, environment
<1>4. Serving' = Serving /\ focus' = focus
  BY <1>3, ServingFrame DEF environment
<1>5. LookJob(settings, look[s], job'[s])
  <2>1. LookJob(settings, look[s], job[s])
    BY <1>1 DEF Looking
  <2>2. QED
    BY <1>2, <1>3, <2>1 DEF LookJob
<1>6. \A x \in Sinks \ {s} : LookJob(settings, look[x], job'[x])
  BY <1>1, <1>2 DEF Looking, Moved
<1>7. \A x \in Sinks : LookJob(settings, look[x], job'[x])
  BY <1>5, <1>6
<1>8. settings' = settings
  BY <1>2 DEF Moved
<1>9. QED
  BY <1>1, <1>3, <1>4, <1>7, <1>8, LookingFrame

LEMMA LookingFinish ==
  ASSUME IInv, NEW s \in Sinks, Finish(s)
  PROVE  Looking'
<1>1. Watching /\ Looking /\ Sound
  BY Parts
<1>2. Moved(s)
  BY <1>1, FinishJob
<1>3. look' = [look EXCEPT ![s] = NoLook] /\ flagged' = flagged /\ UNCHANGED environment
  BY DEF Finish
<1>4. Serving' = Serving /\ focus' = focus
  BY <1>3, ServingFrame DEF environment
<1>5. NoLook.step = 0 /\ NoLook.able = {}
  BY DEF NoLook
<1>6. look'[s] = NoLook /\ \A x \in Sinks \ {s} : look'[x] = look[x]
  BY <1>1, <1>3 DEF Watching
<1>7. LookJob(settings, NoLook, job'[s]) /\ Undisturbed(Serving, focus, flagged, NoLook)
  BY <1>5 DEF LookJob, Undisturbed
<1>8. ASSUME NEW x \in Sinks
      PROVE  LookJob(settings', look'[x], job'[x]) /\ Undisturbed(Serving', focus', flagged', look'[x])
  <2>1. CASE x = s
    BY <1>2, <1>3, <1>4, <1>6, <1>7, <2>1 DEF Moved
  <2>2. CASE x # s
    BY <1>1, <1>2, <1>3, <1>4, <1>6, <2>2 DEF Looking, Moved
  <2>3. QED
    BY <2>1, <2>2
<1>9. QED
  BY <1>8 DEF Looking

LEMMA LookingReset ==
  ASSUME IInv, ResetDetectionCache, UNCHANGED injectVars
  PROVE  Looking'
<1>1. Watching /\ Looking /\ Sound
  BY Parts
<1>2. /\ flagged' = {} /\ UNCHANGED environment /\ settings' = settings /\ job' = job
      /\ \A x \in Sinks :
           look'[x] = IF look[x].step = 0 THEN look[x] ELSE [look[x] EXCEPT !.able = @ \cup Awaited(look[x].step)]
  BY DEF ResetDetectionCache, injectVars
<1>3. Serving' = Serving /\ focus' = focus
  BY <1>2, ServingFrame DEF environment
<1>4. "look" \notin Begun
  BY DEF Begun, Trying, PortalPhases
<1>5. ASSUME NEW x \in Sinks
      PROVE  LookJob(settings', look'[x], job'[x]) /\ Undisturbed(Serving', focus', flagged', look'[x])
  <2>1. LookJob(settings, look[x], job[x]) /\ Undisturbed(Serving, focus, flagged, look[x])
    BY <1>1 DEF Looking
  <2>2. CASE look[x].step = 0
    <3>1. look'[x] = look[x]
      BY <1>2, <2>2
    <3>2. QED
      BY <1>2, <2>1, <2>2, <3>1 DEF Undisturbed
  <2>3. CASE look[x].step # 0
    <3>1. job[x].pc \notin Begun
      BY <1>1, <1>4, <2>3 DEF Watching
    <3>2. DOMAIN look[x] = {"step", "kind", "win", "able", "calm"}
      BY <1>1 DEF Watching, NoLook
    <3>3. look'[x] = [look[x] EXCEPT !.able = @ \cup Awaited(look[x].step)]
      BY <1>2, <2>3
    <3>4. /\ look'[x].step = look[x].step /\ look'[x].win = look[x].win /\ look'[x].calm = look[x].calm
          /\ look'[x].able = look[x].able \cup Awaited(look[x].step)
      BY <3>2, <3>3
    <3>5. LookJob(settings', look'[x], job'[x])
      BY <1>2, <2>3, <3>1, <3>4 DEF LookJob
    <3>6. Undisturbed(Serving, focus, {}, look'[x])
      BY <2>1, <3>4, AwaitedAwaits DEF Undisturbed
    <3>7. QED
      BY <1>2, <1>3, <3>5, <3>6
  <2>4. QED
    BY <2>2, <2>3
<1>6. QED
  BY <1>5 DEF Looking

LEMMA LookingDisturbed ==
  ASSUME IInv, Disturbed, job' = job, settings' = settings
  PROVE  Looking'
<1>1. Watching /\ Looking
  BY Parts
<1>2. \A x \in Sinks : look'[x] = [look[x] EXCEPT !.calm = (look[x].step = 0) /\ @]
  BY DEF Disturbed
<1>3. ASSUME NEW x \in Sinks
      PROVE  LookJob(settings', look'[x], job'[x]) /\ Undisturbed(Serving', focus', flagged', look'[x])
  <2>1. LookJob(settings, look[x], job[x])
    BY <1>1 DEF Looking
  <2>2. PICK r : r = look[x]
    OBVIOUS
  <2>3. PICK R : R = look'[x]
    OBVIOUS
  <2>4. DOMAIN r = {"step", "kind", "win", "able", "calm"} /\ R = [r EXCEPT !.calm = (r.step = 0) /\ @]
    BY <1>1, <1>2, <2>2, <2>3 DEF Watching, NoLook
  <2>5. R.step = r.step /\ R.win = r.win /\ R.able = r.able /\ R.kind = r.kind
    BY <2>4
  <2>6. R.calm <=> r.step = 0 /\ r.calm
    BY <2>4, Zenon
  <2>7. Kinds(R) = Kinds(r)
    BY <2>5, KindsSame
  <2>8. LookJob(settings, R, job[x])
    BY <2>1, <2>2, <2>5, <2>6, <2>7 DEF LookJob
  <2>9. \A S, w, F : Undisturbed(S, w, F, R)
    BY <2>5, <2>6 DEF Undisturbed
  <2>10. QED
    BY <2>3, <2>8, <2>9
<1>4. QED
  BY <1>3 DEF Looking

LEMMA LookingStep ==
  ASSUME IInv, [Next]_vars
  PROVE  Looking'
<1>1. Sound /\ Watching /\ Looking
  BY Parts
<1>2. ASSUME NEW s \in Sinks, Reconnect(s) PROVE Looking'
  <2>1. /\ UNCHANGED <<look, flagged, desktop, bus, pgrep, focus>> /\ addr' = Refresh
    BY <1>2 DEF Reconnect
  <2>2. Moved(s) /\ Same(job'[s], job[s]) /\ job[s].pc = "reconnect" /\ job'[s].pc = "connect"
    BY <1>1, <1>2, ReconnectJob
  <2>3. {"reconnect", "connect"} \subseteq Begun
    BY DEF Begun, Trying, PortalPhases
  <2>4. LookJob(settings, look[s], job'[s])
    BY <1>1, <2>2, <2>3, LookJobSame DEF Looking, Same
  <2>5. \A x \in Sinks : LookJob(settings, look[x], job'[x])
    BY <1>1, <2>2, <2>4 DEF Looking, Moved
  <2>6. settings' = settings /\ Serving' = Serving
    BY <2>1, <2>2, ServingRefreshed DEF Moved
  <2>7. QED
    BY <1>1, <2>1, <2>5, <2>6, LookingFrame
<1>3. ASSUME UNCHANGED <<environment, flagged, look, settings>>, NEW s, 
             \A x \in Sinks \ {s} : Alike(job'[x], job[x]),
             \A x \in Sinks : x = s => LookJob(settings, look[x], job'[x])
      PROVE  Looking'
  <2>1. Serving' = Serving /\ focus' = focus
    BY <1>3, ServingFrame DEF environment
  <2>2. ASSUME NEW x \in Sinks \ {s} PROVE LookJob(settings, look[x], job'[x])
    BY <1>1, <1>3, <2>2, LookJobSame DEF Looking, Alike
  <2>3. \A x \in Sinks : LookJob(settings, look[x], job'[x])
    BY <1>3, <2>2
  <2>4. QED
    BY <1>1, <1>3, <2>1, <2>3, LookingFrame
<1>4. ASSUME NEW s \in Sinks, Delivering(s) PROVE Looking'
  <2>1. /\ Kept /\ Apart(s) /\ job[s].pc \in Begun /\ job'[s].pc \in Begun
        /\ job'[s].paste = job[s].paste
        /\ UNCHANGED <<environment, flagged, look, refused>>
    BY <1>1, <1>4, DeliveringMoves
  <2>2. LookJob(settings, look[s], job'[s])
    BY <1>1, <2>1, LookJobSame DEF Looking
  <2>3. QED
    BY <1>3, <2>1, <2>2 DEF Apart, Kept
<1>5. CASE UserCopies
  <2>1. /\ settings' = settings /\ \A x \in Sinks : Alike(job'[x], job[x])
        /\ UNCHANGED <<environment, flagged, look>>
    BY <1>1, <1>5, UserCopiesKept DEF Kept, UserCopies
  <2>2. \A x \in Sinks : LookJob(settings, look[x], job'[x])
    BY <1>1, <2>1, LookJobSame DEF Looking, Alike
  <2>3. Serving' = Serving /\ focus' = focus
    BY <2>1, ServingFrame DEF environment
  <2>4. QED
    BY <1>1, <2>1, <2>2, <2>3, LookingFrame
<1>6. CASE UNCHANGED <<environment, flagged, look, settings, job>>
  <2>1. Serving' = Serving /\ focus' = focus
    BY <1>6, ServingFrame DEF environment
  <2>2. QED
    BY <1>1, <1>6, <2>1 DEF Looking
<1>7. CASE SessionClosed
  BY <1>6, <1>7 DEF SessionClosed
<1>8. CASE UNCHANGED vars
  BY <1>6, <1>8 DEF vars, windowVars, injectVars, environment
<1>9. ASSUME NEW w, ChangeFocus(w), UNCHANGED injectVars PROVE Looking'
  BY <1>9, LookingDisturbed DEF ChangeFocus, injectVars
<1>10. ASSUME NEW d, Relogin(d), UNCHANGED <<settings, job>> PROVE Looking'
  BY <1>10, LookingDisturbed DEF Relogin
<1>11. QED
  BY <1>2, <1>4, <1>5, <1>7, <1>8, <1>9, <1>10, LookingTake, LookingProbe, LookingDetected, LookingFinish,
     LookingReset, StepKinds-----------------------------------------------------------------------------
(* No key is left held *)

LEMMA TextDownSteps ==
  ASSUME NEW t, NEW L \in Nat, DOMAIN t = 1 .. L, NEW p \in 1 .. L
  PROVE  /\ TextDown(t, 0) = {} /\ TextDown(t, 2 * L) = {}
         /\ TextDown(t, 2 * p - 2) = {} /\ TextDown(t, 2 * p - 1) = {t[p]} /\ TextDown(t, 2 * p) = {}
<1>1. \A q \in 1 .. L : 0 # 2 * q - 1 /\ 2 * L # 2 * q - 1 /\ 2 * p - 2 # 2 * q - 1 /\ 2 * p # 2 * q - 1
  OBVIOUS
<1>2. \A q \in 1 .. L : 2 * p - 1 = 2 * q - 1 <=> q = p
  OBVIOUS
<1>3. TextDown(t, 2 * p - 1) = {t[p]}
  BY <1>2 DEF TextDown
<1>4. QED
  BY <1>1, <1>3 DEF TextDown

PressedInTurn(k, L) ==
  /\ KeysDown(k, 0) = {} /\ KeysDown(k, 2 * L) = {}
  /\ KeysDown(k, L - 1) = {k[i] : i \in 1 .. L - 1}
  /\ \A n \in 0 .. L - 1 : KeysDown(k, n + 1) = KeysDown(k, n) \cup {k[n + 1]}
  /\ \A n \in L .. 2 * L - 1 : KeysDown(k, n + 1) = KeysDown(k, n) \ {k[2 * L - n]}

LEMMA KeysDownSteps ==
  ASSUME NEW k, NEW L \in Nat \ {0}, DOMAIN k = 1 .. L, Len(k) = L
  PROVE  PressedInTurn(k, L)
<1> DEFINE P(n) == {k[i] : i \in {i \in 1 .. L : i <= n}}
           R(n) == {k[i] : i \in {i \in 1 .. L : i > 2 * L - n}}
<1>1. \A n : KeysDown(k, n) = P(n) \ R(n)
  BY DEF KeysDown
<1>2. \A n \in 0 .. L : R(n) = {}
  <2>1. ASSUME NEW n \in 0 .. L, NEW i \in 1 .. L PROVE ~(i > 2 * L - n)
    BY <2>1
  <2>2. QED
    BY <2>1
<1>3. P(0) = {}
  <2>1. \A i \in 1 .. L : ~(i <= 0)
    OBVIOUS
  <2>2. QED
    BY <2>1
<1>4. R(2 * L) = P(2 * L)
  <2>1. \A i \in 1 .. L : i > 2 * L - 2 * L /\ i <= 2 * L
    OBVIOUS
  <2>2. QED
    BY <2>1
<1>5. P(L - 1) = {k[i] : i \in 1 .. L - 1}
  <2>1. {i \in 1 .. L : i <= L - 1} = 1 .. L - 1
    OBVIOUS
  <2>2. QED
    BY <2>1
<1>6. ASSUME NEW n \in 0 .. L - 1 PROVE P(n + 1) = P(n) \cup {k[n + 1]}
  <2>1. {i \in 1 .. L : i <= n + 1} = {i \in 1 .. L : i <= n} \cup {n + 1}
    OBVIOUS
  <2>2. QED
    BY <2>1
<1>7. ASSUME NEW n \in L .. 2 * L - 1 PROVE P(n + 1) = P(n) /\ R(n + 1) = R(n) \cup {k[2 * L - n]}
  <2>1. \A i \in 1 .. L : i <= n /\ i <= n + 1
    OBVIOUS
  <2>2. {i \in 1 .. L : i > 2 * L - (n + 1)} = {i \in 1 .. L : i > 2 * L - n} \cup {2 * L - n}
    OBVIOUS
  <2>3. QED
    BY <2>1, <2>2
<1> HIDE DEF P, R
<1>8. \A n \in 0 .. L - 1 : KeysDown(k, n + 1) = KeysDown(k, n) \cup {k[n + 1]}
  <2>1. SUFFICES ASSUME NEW n \in 0 .. L - 1 PROVE KeysDown(k, n + 1) = KeysDown(k, n) \cup {k[n + 1]}
    OBVIOUS
  <2>2. R(n) = {} /\ R(n + 1) = {}
    BY <1>2
  <2>3. QED
    BY <1>1, <1>6, <2>2
<1>9. \A n \in L .. 2 * L - 1 : KeysDown(k, n + 1) = KeysDown(k, n) \ {k[2 * L - n]}
  BY <1>1, <1>7
<1>10. KeysDown(k, 0) = {} /\ KeysDown(k, 2 * L) = {}
  BY <1>1, <1>3, <1>4
<1>11. KeysDown(k, L - 1) = {k[i] : i \in 1 .. L - 1}
  <2>1. R(L - 1) = {}
    BY <1>2
  <2>2. QED
    BY <1>1, <1>5, <2>1
<1>12. QED
  BY <1>8, <1>9, <1>10, <1>11, Zenon DEF PressedInTurn

(* The text a job types and the shortcut it presses. *)
LEMMA TypedText ==
  ASSUME NEW c, NEW j, Ready(c, j), TypingIn(c, Now(j)), NEW t, t = Normalized(Now(j).text)
  PROVE  Len(t) \in Nat /\ DOMAIN t = 1 .. Len(t) /\ Len(Line(c, j)) = 2 * Len(t)
<1>1. IsEvent(j.input[j.at]) /\ TypingIn(c, j.input[j.at]) /\ t = Normalized(j.input[j.at].text)
  BY ReadyFacts
<1>2. QED
  BY <1>1, SpotFacts, LineFacts

LEMMA PressedKeys ==
  ASSUME NEW c, NEW j, Ready(c, j), ~TypingIn(c, Now(j)), NEW k, k = KeysOf(j, Now(j))
  PROVE  /\ Len(k) \in Nat \ {0} /\ DOMAIN k = 1 .. Len(k) /\ Len(Line(c, j)) = 2 * Len(k)
         /\ \A i \in DOMAIN k : k[i] \in Modifiers <=> i # Len(k)
         /\ Range(Front(k)) = {k[i] : i \in 1 .. Len(k) - 1}
BY ReadyFacts, ShortcutKeys, LineFacts

LEMMA DownEnds ==
  ASSUME NEW c, NEW j, Ready(c, j), j.strokes = 0 \/ j.strokes = Len(Line(c, j))
  PROVE  Down(c, j) = {}
<1>1. CASE TypingIn(c, Now(j))
  <2>1. PICK t : t = Normalized(Now(j).text)
    OBVIOUS
  <2>2. Len(t) \in Nat /\ DOMAIN t = 1 .. Len(t) /\ Len(Line(c, j)) = 2 * Len(t)
    BY <1>1, <2>1, TypedText
  <2>3. \A q \in 1 .. Len(t) : 0 # 2 * q - 1 /\ 2 * Len(t) # 2 * q - 1
    BY <2>2
  <2>4. QED
    BY <1>1, <2>1, <2>2, <2>3 DEF Down, TextDown
<1>2. CASE ~TypingIn(c, Now(j))
  <2>1. PICK k : k = KeysOf(j, Now(j))
    OBVIOUS
  <2>2. Len(k) \in Nat \ {0} /\ DOMAIN k = 1 .. Len(k) /\ Len(Line(c, j)) = 2 * Len(k)
    BY <1>2, <2>1, PressedKeys
  <2>3. KeysDown(k, 0) = {} /\ KeysDown(k, 2 * Len(k)) = {}
    <3>1. PICK L \in Nat \ {0} : L = Len(k)
      BY <2>2
    <3>2. DOMAIN k = 1 .. L
      BY <2>2, <3>1
    <3>3. PressedInTurn(k, L)
      BY <3>1, <3>2, KeysDownSteps
    <3>4. QED
      BY <3>1, <3>3 DEF PressedInTurn
  <2>4. QED
    BY <1>2, <2>1, <2>2, <2>3 DEF Down
<1>3. QED
  BY <1>1, <1>2

(* The next stroke x of j makes it J. *)
LEMMA DownStroke ==
  ASSUME NEW c, NEW j, NEW x, Striking(c, j, x),
         NEW J, J.input = j.input, J.paste = j.paste, J.at = j.at, J.strokes = j.strokes + 1
  PROVE  /\ Down(c, J) = IF x.down THEN Down(c, j) \cup {x.key} ELSE Down(c, j) \ {x.key}
         /\ Shows(x) => Down(c, j) = ModsAt(c, j, j.at)
<1>1. Ready(c, j) /\ Now(J) = Now(j) /\ KeysOf(J, Now(J)) = KeysOf(j, Now(j)) /\ Now(j) = j.input[j.at]
  BY DEF Striking, Now, KeysOf
<1>2. PICK n : n = j.strokes
  OBVIOUS
<1>3. n \in Nat /\ J.strokes = n + 1
  BY <1>2, StrokeKinds
<1>4. CASE TypingIn(c, Now(j))
  <2>1. PICK t : t = Normalized(Now(j).text)
    OBVIOUS
  <2>2. Len(t) \in Nat /\ DOMAIN t = 1 .. Len(t)
    BY <1>1, <1>4, <2>1, TypedText
  <2>3. Down(c, j) = TextDown(t, n) /\ Down(c, J) = TextDown(t, n + 1) /\ ModsAt(c, j, j.at) = {}
    BY <1>1, <1>2, <1>3, <1>4, <2>1 DEF Down, ModsAt
  <2>4. PICK p \in 1 .. Len(t) : \/ n + 1 = 2 * p - 1 /\ x = Press(t[p], p)
                                 \/ n = 2 * p - 1 /\ x = Release(t[p], p)
    BY <1>2, <1>4, <2>1, StrokeKinds
  <2>5. /\ TextDown(t, 2 * p - 2) = {} /\ TextDown(t, 2 * p - 1) = {t[p]} /\ TextDown(t, 2 * p) = {}
    BY <2>2, TextDownSteps
  <2>6. CASE n + 1 = 2 * p - 1 /\ x = Press(t[p], p)
    <3>1. n = 2 * p - 2
      BY <1>3, <2>2, <2>6
    <3>2. x.down = TRUE /\ x.key = t[p]
      BY <2>6 DEF Press
    <3>3. QED
      BY <2>3, <2>5, <2>6, <3>1, <3>2
  <2>7. CASE n = 2 * p - 1 /\ x = Release(t[p], p)
    <3>1. n + 1 = 2 * p
      BY <1>3, <2>2, <2>7
    <3>2. x.down = FALSE /\ x.key = t[p]
      BY <2>7 DEF Release
    <3>3. QED
      BY <2>3, <2>5, <2>7, <3>1, <3>2 DEF Shows
  <2>8. QED
    BY <2>4, <2>6, <2>7
<1>5. CASE ~TypingIn(c, Now(j))
  <2>1. PICK k : k = KeysOf(j, Now(j))
    OBVIOUS
  <2>2. PICK L : L = Len(k)
    OBVIOUS
  <2>3. /\ L \in Nat \ {0} /\ DOMAIN k = 1 .. L /\ \A i \in DOMAIN k : k[i] \in Modifiers <=> i # L
        /\ Range(Front(k)) = {k[i] : i \in 1 .. L - 1}
    BY <1>1, <1>5, <2>1, <2>2, PressedKeys
  <2>4. Down(c, j) = KeysDown(k, n) /\ Down(c, J) = KeysDown(k, n + 1) /\ ModsAt(c, j, j.at) = Range(Front(k))
    BY <1>1, <1>2, <1>3, <1>5, <2>1 DEF Down, ModsAt
  <2>5. /\ KeysDown(k, L - 1) = {k[i] : i \in 1 .. L - 1}
        /\ \A m \in 0 .. L - 1 : KeysDown(k, m + 1) = KeysDown(k, m) \cup {k[m + 1]}
        /\ \A m \in L .. 2 * L - 1 : KeysDown(k, m + 1) = KeysDown(k, m) \ {k[2 * L - m]}
    <3>1. L \in Nat \ {0} /\ DOMAIN k = 1 .. L /\ Len(k) = L
      BY <2>2, <2>3
    <3>2. PressedInTurn(k, L)
      BY <3>1, KeysDownSteps
    <3>3. QED
      BY <3>2 DEF PressedInTurn
  <2>6. \/ n + 1 \in 1 .. L /\ x = Press(k[n + 1], 1)
        \/ n >= L /\ 2 * L - n \in 1 .. L /\ x = Release(k[2 * L - n], 1)
    BY <1>2, <1>5, <2>1, <2>2, StrokeKinds
  <2>7. CASE n + 1 \in 1 .. L /\ x = Press(k[n + 1], 1)
    <3>1. x.down = TRUE /\ x.key = k[n + 1] /\ n \in 0 .. L - 1
      BY <1>3, <2>3, <2>7 DEF Press
    <3>2. Down(c, J) = Down(c, j) \cup {x.key}
      BY <2>4, <2>5, <3>1
    <3>3. Shows(x) => n = L - 1
      BY <1>3, <2>3, <2>7, <3>1 DEF Shows
    <3>4. Shows(x) => Down(c, j) = ModsAt(c, j, j.at)
      BY <2>3, <2>4, <2>5, <3>3
    <3>5. QED
      BY <3>1, <3>2, <3>4
  <2>8. CASE n >= L /\ 2 * L - n \in 1 .. L /\ x = Release(k[2 * L - n], 1)
    <3>1. x.down = FALSE /\ x.key = k[2 * L - n]
      BY <2>8 DEF Release
    <3>2. n \in L .. 2 * L - 1
      BY <1>3, <2>3, <2>8
    <3>3. QED
      BY <2>4, <2>5, <3>1, <3>2 DEF Shows
  <2>9. QED
    BY <2>6, <2>7, <2>8
<1>6. QED
  BY <1>4, <1>5

(* A character is passed over as a whole. *)
LEMMA DownSkip ==
  ASSUME NEW c, NEW j, NEW x, Striking(c, j, x), Skipped(c, j, x),
         NEW J, J.input = j.input, J.paste = j.paste, J.at = j.at, J.strokes = j.strokes + 2
  PROVE  Down(c, j) = {} /\ Down(c, J) = {}
<1>1. Ready(c, j) /\ Now(J) = Now(j) /\ TypingIn(c, Now(j)) /\ x.key \in NoKeysym /\ j.pc = "send"
  BY DEF Striking, Now, Skipped
<1>2. PICK t : t = Normalized(Now(j).text)
  OBVIOUS
<1>3. PICK n : n = j.strokes
  OBVIOUS
<1>4. Len(t) \in Nat /\ DOMAIN t = 1 .. Len(t)
  BY <1>1, <1>2, TypedText
<1>5. n \in Nat /\ J.strokes = n + 2
  BY <1>3, StrokeKinds
<1>6. PICK p \in 1 .. Len(t) : \/ n + 1 = 2 * p - 1 /\ x = Press(t[p], p)
                               \/ n = 2 * p - 1 /\ x = Release(t[p], p)
  BY <1>1, <1>2, <1>3, StrokeKinds
<1>7. ASSUME n = 2 * p - 1, x = Release(t[p], p) PROVE FALSE
  <2>1. t[p] \notin NoKeysym
    BY <1>1, <1>2, <1>3, <1>4, <1>7 DEF Ready, JobOK
  <2>2. QED
    BY <1>1, <1>7, <2>1 DEF Release
<1>8. n = 2 * p - 2 /\ n + 2 = 2 * p
  BY <1>5, <1>6, <1>7
<1>9. TextDown(t, 2 * p - 2) = {} /\ TextDown(t, 2 * p) = {}
  BY <1>4, TextDownSteps
<1>10. QED
  BY <1>1, <1>2, <1>3, <1>5, <1>8, <1>9 DEF Down

(* The state as Hands sees it. *)
Handling == Hands(settings, job, held, sessions, bus)

LEMMA Alive ==
  ASSUME Held
  PROVE  /\ \A n : Works(n) <=> Live(sessions, bus, n)
         /\ HeldKeys = {h[2] : h \in held}
<1>1. \A n : Works(n) <=> Live(sessions, bus, n)
  BY DEF Works, Live
<1>2. {x \in held : Works(x[1])} = held
  BY <1>1 DEF Held
<1>3. QED
  BY <1>1, <1>2 DEF HeldKeys

(* The sink that works is alone, and only a sink that sends holds keys. *)
LEMMA HandsAlone ==
  ASSUME Sound, Handling, NEW s \in Sinks, job[s].pc # "idle" \/ \A x \in Sinks : job[x].pc = "idle"
  PROVE  /\ \A x \in Sinks \ {s} : job[x].pc = "idle" /\ job[x].out = <<>>
         /\ CleanJob(settings, job[s])
         /\ \A h \in held : job[s].pc = "send" /\ h[1] = job[s].sender
         /\ job[s].pc # "send" => held = {}
         /\ job[s].pc = "send" /\ Live(sessions, bus, job[s].sender) =>
              held = {job[s].sender} \X Down(settings, job[s])
<1>1. \A x \in Sinks \ {s} : job[x].pc = "idle"
  BY DEF Handling, Hands, OneBusy
<1>2. \A x \in Sinks : job[x].pc = "idle" => job[x].out = <<>>
  BY DEF Sound, Plain, JobOK
<1>3. \A h \in held : job[s].pc = "send" /\ h[1] = job[s].sender
  BY <1>1 DEF Handling, Hands, Owned
<1>4. QED
  BY <1>1, <1>2, <1>3 DEF Handling, Hands, InHand

(* It is enough to look at the sink that works, ... *)
LEMMA HandsOne ==
  ASSUME NEW c, NEW J, NEW H, NEW S, NEW b, NEW s \in Sinks,
         \A x \in Sinks \ {s} : J[x].pc = "idle" /\ J[x].out = <<>>,
         CleanJob(c, J[s]),
         J[s].pc # "send" => H = {},
         J[s].pc = "send" =>
           /\ \A h \in H : h[1] = J[s].sender
           /\ Live(S, b, J[s].sender) => H = {J[s].sender} \X Down(c, J[s])
  PROVE  Hands(c, J, H, S, b)
<1>1. OneBusy(J)
  BY DEF OneBusy
<1>2. Owned(J, H)
  BY DEF Owned
<1>3. InHand(c, J, H, S, b)
  BY DEF InHand
<1>4. ASSUME NEW x \in Sinks PROVE CleanJob(c, J[x])
  <2>1. CASE x = s
    BY <2>1
  <2>2. CASE x # s
    <3>1. Range(J[x].out) = {}
      BY <2>2 DEF Range
    <3>2. QED
      BY <3>1 DEF CleanJob
  <2>3. QED
    BY <2>1, <2>2
<1>5. QED
  BY <1>1, <1>2, <1>3, <1>4 DEF Hands

(* ... and at the keys, when no job changes. *)
LEMMA HandsAlike ==
  ASSUME Handling, settings' = settings, \A x \in Sinks : Alike(job'[x], job[x]),
         held' \subseteq held,
         \A x \in Sinks : job[x].pc = "send" /\ Live(sessions', bus', job[x].sender) =>
           Live(sessions, bus, job[x].sender) /\ held' = held
  PROVE  Handling'
<1>1. \A x \in Sinks : /\ job'[x].pc = job[x].pc /\ job'[x].sender = job[x].sender
                       /\ Down(settings, job'[x]) = Down(settings, job[x])
                       /\ (CleanJob(settings, job[x]) => CleanJob(settings, job'[x]))
  <2>1. SUFFICES ASSUME NEW x \in Sinks
                 PROVE  /\ job'[x].pc = job[x].pc /\ job'[x].sender = job[x].sender
                        /\ Down(settings, job'[x]) = Down(settings, job[x])
                        /\ (CleanJob(settings, job[x]) => CleanJob(settings, job'[x]))
    OBVIOUS
  <2>2. PICK j : j = job[x]
    OBVIOUS
  <2>3. PICK J : J = job'[x]
    OBVIOUS
  <2>4. /\ J.pc = j.pc /\ J.input = j.input /\ J.paste = j.paste /\ J.at = j.at /\ J.out = j.out
        /\ J.sender = j.sender /\ J.strokes = j.strokes
    BY <2>2, <2>3 DEF Alike
  <2>5. Now(J) = Now(j) /\ \A e : KeysOf(J, e) = KeysOf(j, e)
    BY <2>4 DEF Now, KeysOf
  <2>6. Down(settings, J) = Down(settings, j)
    BY <2>4, <2>5 DEF Down
  <2>7. CleanJob(settings, j) => CleanJob(settings, J)
    BY <2>4, <2>5 DEF CleanJob, ModsAt
  <2>8. QED
    BY <2>2, <2>3, <2>4, <2>6, <2>7
<1>2. OneBusy(job')
  BY <1>1 DEF Handling, Hands, OneBusy
<1>3. Owned(job', held')
  BY <1>1 DEF Handling, Hands, Owned
<1>4. InHand(settings, job', held', sessions', bus')
  BY <1>1 DEF Handling, Hands, InHand
<1>5. \A x \in Sinks : CleanJob(settings, job'[x])
  BY <1>1 DEF Handling, Hands
<1>6. QED
  BY <1>2, <1>3, <1>4, <1>5 DEF Handling, Hands

LEMMA SameClean ==
  ASSUME NEW c, NEW j, NEW J, J.input = j.input, J.paste = j.paste,
         \A x \in Range(J.out) : x \in Range(j.out) \/ x.mods = ModsAt(c, j, x.ev),
         CleanJob(c, j)
  PROVE  CleanJob(c, J)
<1>1. \A i : ModsAt(c, J, i) = ModsAt(c, j, i)
  BY DEF ModsAt, KeysOf
<1>2. QED
  BY <1>1 DEF CleanJob

(* The step of the sink that works, which leaves the sessions to the others. *)
LEMMA HandsMove ==
  ASSUME Sound, Handling, NEW s \in Sinks, settings' = settings, Apart(s),
         job[s].pc # "idle" \/ \A x \in Sinks : job[x].pc = "idle",
         CleanJob(settings, job'[s]),
         job'[s].pc # "send" => held' = {},
         job'[s].pc = "send" =>
           /\ \A h \in held' : h[1] = job'[s].sender
           /\ Live(sessions', bus', job'[s].sender) => held' = {job'[s].sender} \X Down(settings, job'[s])
  PROVE  Handling'
<1>1. \A x \in Sinks \ {s} : job[x].pc = "idle" /\ job[x].out = <<>>
  BY HandsAlone
<1>2. \A x \in Sinks \ {s} : job'[x].pc = "idle" /\ job'[x].out = <<>>
  BY <1>1 DEF Apart, Alike
<1>3. Hands(settings, job', held', sessions', bus')
  BY <1>2, HandsOne
<1>4. QED
  BY <1>3 DEF Handling

(* A step from a phase in which nothing is held to another such. *)
LEMMA HandsQuiet ==
  ASSUME Sound, Handling, NEW s \in Sinks, settings' = settings, Apart(s),
         job[s].pc \notin {"idle", "send"}, job'[s].pc # "send", held' = held,
         (job'[s].input = job[s].input /\ job'[s].paste = job[s].paste) \/ job'[s].out = <<>>,
         \A x \in Range(job'[s].out) : x \in Range(job[s].out) \/ x.mods = ModsAt(settings, job[s], x.ev)
  PROVE  Handling'
<1>1. held = {} /\ CleanJob(settings, job[s])
  BY HandsAlone
<1>2. CleanJob(settings, job'[s])
  <2>1. CASE job'[s].out = <<>>
    BY <2>1 DEF CleanJob, Range
  <2>2. CASE job'[s].input = job[s].input /\ job'[s].paste = job[s].paste
    BY <1>1, <2>2, SameClean
  <2>3. QED
    BY <2>1, <2>2
<1>3. QED
  BY <1>1, <1>2, HandsMove

(* What a stroke of s does. *)
LEMMA HandsStruck ==
  ASSUME Sound, Held, Handling, NEW s \in Sinks, Sending(s), ~Untypable(s), Works(job[s].sender)
  PROVE  /\ held = {job[s].sender} \X Down(settings, job[s])
         /\ Shows(Following(s)) => Glimpse(s).mods = ModsAt(settings, job[s], Glimpse(s).ev)
         /\ \A x \in Range(Shown(s)) : x \in Range(job[s].out) \/ x.mods = ModsAt(settings, job[s], x.ev)
<1>1. job[s].pc = "send" /\ Striking(settings, job[s], Following(s))
  BY SendingFacts
<1>2. held = {job[s].sender} \X Down(settings, job[s])
  BY <1>1, HandsAlone, Alive
<1>3. {h[2] : h \in held} = Down(settings, job[s])
  <2>1. PICK n : n = job[s].sender
    OBVIOUS
  <2>2. PICK D : D = Down(settings, job[s])
    OBVIOUS
  <2>3. held = {n} \X D
    BY <1>2, <2>1, <2>2
  <2>4. \A d \in D : <<n, d>> \in held /\ <<n, d>>[2] = d
    BY <2>3
  <2>5. \A h \in held : h[2] \in D
    BY <2>3
  <2>6. QED
    BY <2>2, <2>4, <2>5
<1>4. HeldKeys = Down(settings, job[s])
  BY <1>3, Alive
<1>5. Shows(Following(s)) => Down(settings, job[s]) = ModsAt(settings, job[s], job[s].at)
  <2>1. PICK j : j = job[s]
    OBVIOUS
  <2>2. PICK x : x = Following(s)
    OBVIOUS
  <2>3. PICK J : J = [input |-> j.input, paste |-> j.paste, at |-> j.at, strokes |-> j.strokes + 1]
    OBVIOUS
  <2>4. J.input = j.input /\ J.paste = j.paste /\ J.at = j.at /\ J.strokes = j.strokes + 1
    BY <2>3
  <2>5. Striking(settings, j, x)
    BY <1>1, <2>1, <2>2
  <2>6. Shows(x) => Down(settings, j) = ModsAt(settings, j, j.at)
    BY <2>4, <2>5, DownStroke
  <2>7. QED
    BY <2>1, <2>2, <2>6
<1>6. Glimpse(s).mods = HeldKeys /\ Glimpse(s).ev = job[s].at
  BY GlimpseFacts
<1>7. Shows(Following(s)) => Glimpse(s).mods = ModsAt(settings, job[s], Glimpse(s).ev)
  BY <1>4, <1>5, <1>6
<1>8. \A x \in Range(Shown(s)) : x \in Range(job[s].out) \/ (x = Glimpse(s) /\ Shows(Following(s)))
  BY StrokeWitnessed, GlimpseFacts
<1>9. QED
  BY <1>2, <1>7, <1>8

LEMMA HandsTool ==
  ASSUME Sound, Held, Handling, NEW s \in Sinks, job[s].pc = "try", NEW x, ByTool(s, x)
  PROVE  x.mods = ModsAt(settings, job[s], x.ev)
<1>1. held = {}
  BY HandsAlone
<1>2. HeldKeys = {}
  BY <1>1 DEF HeldKeys
<1>3. QED
  BY <1>2 DEF ByTool, ModsAt, Now
LEMMA HandsDelivered ==
  ASSUME IInv, NEW s \in Sinks, Delivering(s), ~slipped'
  PROVE  Handling'
<1>1. /\ Sound /\ Held /\ Apart(s) /\ job[s].pc \in Begun /\ settings' = settings /\ bus' = bus
      /\ job'[s].input = job[s].input /\ job'[s].paste = job[s].paste
  BY Parts, DeliveringMoves DEF Kept, environment
<1>2. job[s].pc # "idle"
  BY <1>1 DEF Begun, Trying, PortalPhases
<1>3. /\ Grant(s) \/ UNCHANGED <<sessions, sender>>
      /\ Stroke(s) \/ CallFails(s) \/ UNCHANGED <<held, slipped>>
  BY DeliveringFrame
<1>4. ~slipped
  <2>1. CallFails(s) => slipped' = (slipped \/ held' # {})
    BY DEF CallFails
  <2>2. Stroke(s) => slipped' = slipped
    BY DEF Stroke
  <2>3. QED
    BY <1>3, <2>1, <2>2
<1>5. Handling
  BY <1>1, <1>4 DEF Held, Handling
<1>6. /\ CleanJob(settings, job[s]) /\ \A h \in held : job[s].pc = "send" /\ h[1] = job[s].sender
      /\ job[s].pc # "send" => held = {}
      /\ job[s].pc = "send" /\ Live(sessions, bus, job[s].sender) => held = {job[s].sender} \X Down(settings, job[s])
  BY <1>1, <1>2, <1>5, HandsAlone
<1>7. Same(job'[s], job[s]) => CleanJob(settings, job'[s])
  BY <1>6, SameClean DEF Same
<1>8. ASSUME job[s].pc # "send", job'[s].pc # "send",
             \A x \in Range(job'[s].out) : x \in Range(job[s].out) \/ x.mods = ModsAt(settings, job[s], x.ev)
      PROVE  Handling'
  <2>1. held' = held
    BY <1>3, <1>8 DEF Stroke, CallFails, Sending
  <2>2. QED
    BY <1>1, <1>2, <1>5, <1>8, <2>1, HandsQuiet
<1>9. ASSUME job[s].pc # "send", job'[s].pc # "send", Same(job'[s], job[s]) PROVE Handling'
  BY <1>8, <1>9 DEF Same
<1>10. CASE Deliver(s)
  BY <1>1, <1>9, <1>10, DeliverJob DEF Deliver
<1>11. CASE Copy(s)
  BY <1>1, <1>9, <1>11, CopyJob
<1>12. CASE UseTool(s)
  <2>1. /\ job[s].pc = "try" /\ job'[s].pc # "send"
        /\ \A x \in Range(job'[s].out) : x \in Range(job[s].out) \/ ByTool(s, x)
    BY <1>1, <1>12, UseToolJob DEF Same
  <2>2. \A x \in Range(job'[s].out) : x \in Range(job[s].out) \/ x.mods = ModsAt(settings, job[s], x.ev)
    BY <1>1, <1>5, <2>1, HandsTool
  <2>3. QED
    BY <1>8, <2>1, <2>2
<1>13. CASE ToolFails(s)
  <2>1. /\ job[s].pc = "try" /\ job'[s].pc # "send"
        /\ \A x \in Range(job'[s].out) : x \in Range(job[s].out) \/ ByTool(s, x)
    BY <1>1, <1>13, ToolFailsJob
  <2>2. \A x \in Range(job'[s].out) : x \in Range(job[s].out) \/ x.mods = ModsAt(settings, job[s], x.ev)
    BY <1>1, <1>5, <2>1, HandsTool
  <2>3. QED
    BY <1>8, <2>1, <2>2
<1>14. CASE Connect(s)
  BY <1>1, <1>9, <1>14, ConnectJob
<1>15. CASE Deny(s)
  BY <1>1, <1>9, <1>15, DenyJob
(* A connection that is new holds nothing. *)
<1>16. ASSUME job[s].pc # "send", job'[s].pc = "send", Same(job'[s], job[s]), Ready(settings, job'[s]), job'[s].strokes = 0
       PROVE  Handling'
  <2>1. held' = {}
    BY <1>3, <1>6, <1>16 DEF Stroke, CallFails, Sending
  <2>2. Down(settings, job'[s]) = {}
    BY <1>16, DownEnds
  <2>3. CleanJob(settings, job'[s])
    BY <1>7, <1>16
  <2>4. held' = {job'[s].sender} \X Down(settings, job'[s])
    BY <2>1, <2>2
  <2>5. QED
    BY <1>1, <1>2, <1>5, <1>16, <2>1, <2>3, <2>4, HandsMove
<1>17. ASSUME JobOK(settings, job'[s]), job'[s].pc = "send" PROVE Ready(settings, job'[s])
  BY <1>17 DEF Ready, JobOK, Begun, Trying, PortalPhases
<1>18. CASE UsePortal(s)
  <2>1. /\ Moved(s) /\ Same(job'[s], job[s]) /\ job[s].pc = "try"
        /\ job'[s].pc \in {"try", "error"} \/ (job'[s].pc = "send" /\ job'[s].strokes = 0)
    BY <1>1, <1>18, UsePortalJob DEF UsePortal
  <2>2. QED
    BY <1>9, <1>16, <1>17, <2>1 DEF Moved
<1>19. CASE Grant(s)
  BY <1>1, <1>16, <1>17, <1>19, GrantJob DEF Moved
<1>20. CASE SkipCharacter(s)
  <2>1. /\ Same(job'[s], job[s]) /\ job[s].pc = "send" /\ job'[s].pc = "send"
        /\ job'[s].sender = job[s].sender /\ job'[s].strokes = job[s].strokes + 2
    BY <1>1, <1>20, SkipJob
  <2>2. UNCHANGED <<held, sessions>>
    BY <1>20 DEF SkipCharacter, portalVars
  <2>3. Striking(settings, job[s], Following(s)) /\ Skipped(settings, job[s], Following(s))
    BY <1>1, <1>20, SendingFacts DEF SkipCharacter
  <2>4. Down(settings, job[s]) = {} /\ Down(settings, job'[s]) = {}
    BY <2>1, <2>3, DownSkip DEF Same
  <2>5. QED
    BY <1>1, <1>2, <1>5, <1>6, <1>7, <2>1, <2>2, <2>4, HandsMove
<1>21. CASE Stroke(s)
  <2>1. /\ job[s].pc = "send" /\ job'[s].pc = "send" /\ job'[s].at = job[s].at
        /\ job'[s].sender = job[s].sender /\ job'[s].strokes = job[s].strokes + 1 /\ job'[s].out = Shown(s)
    BY <1>1, <1>21, StrokeJob
  <2>2. held' = Effect(s) /\ sessions' = sessions /\ Sending(s) /\ ~Untypable(s) /\ Works(job[s].sender)
    BY <1>21 DEF Stroke
  <2>3. /\ held = {job[s].sender} \X Down(settings, job[s])
        /\ \A x \in Range(Shown(s)) : x \in Range(job[s].out) \/ x.mods = ModsAt(settings, job[s], x.ev)
    BY <1>1, <1>5, <2>2, HandsStruck
  <2>4. CleanJob(settings, job'[s])
    BY <1>1, <1>6, <2>1, <2>3, SameClean
  <2>5. PICK x : x = Following(s)
    OBVIOUS
  <2>6. Striking(settings, job[s], x)
    BY <1>1, <2>2, <2>5, SendingFacts
  <2>7. Down(settings, job'[s]) = IF x.down THEN Down(settings, job[s]) \cup {x.key} ELSE Down(settings, job[s]) \ {x.key}
    BY <1>1, <2>1, <2>6, DownStroke
  <2>8. held' = {job'[s].sender} \X Down(settings, job'[s])
    <3>1. held' = IF x.down THEN held \cup {<<job[s].sender, x.key>>} ELSE held \ {<<job[s].sender, x.key>>}
      BY <2>2, <2>5 DEF Effect
    <3>2. PICK n : n = job[s].sender
      OBVIOUS
    <3>3. PICK D : D = Down(settings, job[s])
      OBVIOUS
    <3>4. /\ ({n} \X D) \cup {<<n, x.key>>} = {n} \X (D \cup {x.key})
          /\ ({n} \X D) \ {<<n, x.key>>} = {n} \X (D \ {x.key})
      OBVIOUS
    <3>5. QED
      BY <2>1, <2>3, <2>7, <3>1, <3>2, <3>3, <3>4
  <2>9. \A h \in held' : h[1] = job'[s].sender
    BY <2>8
  <2>10. QED
    BY <1>1, <1>2, <1>5, <2>1, <2>4, <2>8, <2>9, HandsMove
<1>22. CASE Sent(s)
  <2>1. /\ job[s].pc = "send" /\ job'[s].pc = "event" /\ job'[s].out = job[s].out
    BY <1>1, <1>22, SentJob
  <2>2. /\ job[s].pc \in Begun /\ job[s].at <= Len(job[s].input)
    BY <1>1, <2>1, AtEvent DEF Trying, PortalPhases
  <2>3. Ready(settings, job[s]) /\ Strokes(s) = Line(settings, job[s])
    BY <1>1, <2>2, Going
  <2>4. Down(settings, job[s]) = {}
    BY <1>22, <2>3, DownEnds DEF Sent
  <2>5. held = {}
    <3>1. CASE Live(sessions, bus, job[s].sender)
      BY <1>6, <2>1, <2>4, <3>1
    <3>2. CASE ~Live(sessions, bus, job[s].sender)
      BY <1>1, <1>6, <3>2 DEF Held
    <3>3. QED
      BY <3>1, <3>2
  <2>6. held' = held
    BY <1>22 DEF Sent, portalVars
  <2>7. CleanJob(settings, job'[s])
    BY <1>1, <1>6, <2>1, SameClean
  <2>8. QED
    BY <1>1, <1>2, <1>5, <2>1, <2>5, <2>6, <2>7, HandsMove
<1>23. CASE Unreachable(s)
  <2>1. Same(job'[s], job[s]) /\ job'[s].pc # "send"
    BY <1>1, <1>23, UnreachableJob
  <2>2. ~Live(sessions, bus, job[s].sender) /\ held' = held
    BY <1>1, <1>23, Alive DEF Unreachable, portalVars
  <2>3. held' = {}
    BY <1>1, <1>6, <2>2 DEF Held
  <2>4. QED
    BY <1>1, <1>2, <1>5, <1>7, <2>1, <2>3, HandsMove
<1>24. CASE CallFails(s)
  <2>1. /\ job'[s].pc # "send" /\ (job'[s].out = job[s].out \/ job'[s].out = Shown(s))
    BY <1>1, <1>24, CallFailsJob
  <2>2. /\ Sending(s) /\ ~Untypable(s) /\ Works(job[s].sender) /\ slipped' = (slipped \/ held' # {})
    BY <1>24 DEF CallFails
  <2>3. held' = {}
    BY <2>2
  <2>4. \A x \in Range(Shown(s)) : x \in Range(job[s].out) \/ x.mods = ModsAt(settings, job[s], x.ev)
    BY <1>1, <1>5, <2>2, HandsStruck
  <2>5. CleanJob(settings, job'[s])
    BY <1>1, <1>6, <2>1, <2>4, SameClean
  <2>6. job'[s].pc # "send"
    BY <1>1, <1>24, CallFailsJob
  <2>7. QED
    BY <1>1, <1>2, <1>5, <2>3, <2>5, <2>6, HandsMove
<1>25. QED
  BY <1>10, <1>11, <1>12, <1>13, <1>14, <1>15, <1>18, <1>19, <1>20, <1>21, <1>22, <1>23, <1>24 DEF Delivering

(* Keys stay on sessions that live. *)
LEMMA LivingKeys ==
  ASSUME IInv, [Next]_vars
  PROVE  bus' # 0 /\ \A h \in held' : Live(sessions', bus', h[1])
<1>1. Sound /\ Held
  BY Parts
<1>2. /\ bus \in Nat /\ bus' \in Nat /\ bus <= bus' /\ bus # 0 /\ sessions \in Seq(0..bus)
      /\ \A h \in held : Live(sessions, bus, h[1]) /\ h[1] \in DOMAIN sessions
  BY <1>1, SessionsStep, Parts DEF Held, TypeOK, Sound, Plain
<1>3. bus' # 0
  BY <1>2
<1>4. DOMAIN sessions = 1 .. Len(sessions) /\ Len(sessions) \in Nat
  BY <1>2, LenProperties
<1>5. CASE UNCHANGED <<bus, sessions>> /\ held' \subseteq held
  BY <1>2, <1>5
<1>6. ASSUME NEW s \in Sinks, Delivering(s) PROVE \A h \in held' : Live(sessions', bus', h[1])
  <2>1. bus' = bus
    BY <1>1, <1>6, DeliveringMoves DEF environment
  <2>2. CASE Grant(s)
    <3>1. sessions' = Append(sessions, bus) /\ held' = held
      BY <2>2 DEF Grant
    <3>2. bus \in 0 .. bus
      BY <1>2
    <3>3. \A i \in DOMAIN sessions : sessions'[i] = sessions[i]
      BY <1>2, <3>1, <3>2, AppendFacts
    <3>4. QED
      BY <1>2, <2>1, <3>1, <3>3 DEF Live
  <2>3. CASE Stroke(s) \/ CallFails(s)
    <3>1. /\ sessions' = sessions /\ (held' = held \/ held' = Effect(s))
      BY <2>3 DEF Stroke, CallFails
    <3>2. Live(sessions, bus, job[s].sender)
      BY <1>1, <2>3, Alive DEF Stroke, CallFails
    <3>3. Effect(s) \subseteq held \cup {<<job[s].sender, Following(s).key>>}
      BY DEF Effect
    <3>4. sessions' = sessions
      BY <2>3 DEF Stroke, CallFails
    <3>5. \A h \in held' : h \in held \/ h[1] = job[s].sender
      BY <3>1, <3>3
    <3>6. QED
      BY <1>2, <2>1, <3>2, <3>4, <3>5
  <2>4. CASE ~Grant(s) /\ ~(Stroke(s) \/ CallFails(s))
    BY <1>2, <1>6, <2>1, <2>4, DeliveringFrame
  <2>5. QED
    BY <2>2, <2>3, <2>4
<1>7. ASSUME SessionClosed PROVE \A h \in held' : Live(sessions', bus', h[1])
  <2>1. /\ bus' = bus /\ sessions' = [sessions EXCEPT ![sender] = 0] /\ held' = {h \in held : h[1] # sender}
    BY <1>7 DEF SessionClosed, environment
  <2>2. \A i \in DOMAIN sessions : i # sender => sessions'[i] = sessions[i]
    BY <1>2, <2>1
  <2>3. QED
    BY <1>2, <2>1, <2>2 DEF Live
<1>8. ASSUME NEW s \in Sinks, NEW i \in Inputs, Take(s, i) PROVE UNCHANGED <<bus, sessions, held>>
  BY <1>8 DEF Take, environment
<1>9. ASSUME NEW s \in Sinks, Detecting(s) PROVE UNCHANGED <<bus, sessions, held>>
  <2>1. DOMAIN look = Sinks /\ DOMAIN look[s] = DOMAIN NoLook
    BY Parts DEF Watching
  <2>2. QED
    BY <1>9, <2>1, ProbeTurns DEF Detecting, injectVars, portalVars, environment
<1>10. ASSUME NEW s \in Sinks, Detected(s) \/ Finish(s) \/ Reconnect(s) PROVE UNCHANGED <<bus, sessions, held>>
  BY <1>10 DEF Detected, Finish, Reconnect, portalVars, windowVars, environment
<1>11. UserCopies => UNCHANGED <<bus, sessions, held>>
  BY DEF UserCopies, environment, portalVars
<1>12. UNCHANGED injectVars /\ ResetDetectionCache => UNCHANGED <<bus, sessions, held>>
  BY DEF injectVars, portalVars, environment, ResetDetectionCache
<1>13. ASSUME NEW w, UNCHANGED injectVars, ChangeFocus(w) PROVE UNCHANGED <<bus, sessions, held>>
  BY <1>13 DEF injectVars, portalVars, ChangeFocus
<1>14. UNCHANGED vars => UNCHANGED <<bus, sessions, held>>
  BY DEF vars, windowVars, injectVars, portalVars
<1>15. \/ UNCHANGED <<bus, sessions, held>>
       \/ held' = {}
       \/ \E s \in Sinks : Delivering(s)
       \/ SessionClosed
  BY <1>8, <1>9, <1>10, <1>11, <1>12, <1>13, <1>14, StepKinds
<1>16. QED
  BY <1>3, <1>5, <1>6, <1>7, <1>15
LEMMA HeldStep ==
  ASSUME IInv, [Next]_vars
  PROVE  Held'
<1>1. Sound /\ Held /\ Kept /\ settings' = settings
  BY Parts, JobsKept DEF Kept
<1>2. bus' # 0 /\ \A h \in held' : Live(sessions', bus', h[1])
  BY LivingKeys
<1>3. ~slipped => Handling
  BY <1>1 DEF Held, Handling
<1>4. CASE UNCHANGED <<held, sessions, bus, slipped>> /\ \A x \in Sinks : Alike(job'[x], job[x])
  BY <1>1, <1>2, <1>3, <1>4, HandsAlike DEF Held, Handling
<1>5. job' = job => \A x \in Sinks : Alike(job'[x], job[x])
  BY DEF Alike
<1>6. ASSUME NEW s \in Sinks, NEW i \in Inputs, Take(s, i) PROVE ~slipped' => Handling'
  <2>1. SUFFICES ASSUME ~slipped' PROVE Handling'
    OBVIOUS
  <2>2. /\ job[s].pc = "idle" /\ slipped' = (slipped \/ Busy # {}) /\ held' = held
    BY <1>6 DEF Take
  <2>3. ~slipped /\ \A x \in Sinks : job[x].pc = "idle"
    BY <2>1, <2>2 DEF Busy
  <2>4. held' = {}
    BY <1>1, <1>3, <2>2, <2>3, HandsAlone
  <2>5. Apart(s) /\ job'[s].pc = "look" /\ job'[s].out = <<>>
    BY <1>1, <1>6, TakeJob, MovedKept
  <2>6. CleanJob(settings, job'[s])
    BY <2>5 DEF CleanJob, Range
  <2>7. QED
    BY <1>1, <1>3, <2>3, <2>4, <2>5, <2>6, HandsMove
<1>7. ASSUME NEW s \in Sinks, Detecting(s) PROVE UNCHANGED <<held, sessions, bus, slipped, job>>
  <2>1. DOMAIN look = Sinks /\ DOMAIN look[s] = DOMAIN NoLook
    BY Parts DEF Watching
  <2>2. QED
    BY <1>7, <2>1, ProbeTurns DEF Detecting, injectVars, portalVars, environment
<1>8. ASSUME NEW s \in Sinks, job[s].pc \notin {"idle", "send"}, job'[s].pc # "send", Apart(s),
             UNCHANGED <<held, slipped>>, Same(job'[s], job[s]) \/ job'[s].out = <<>>
      PROVE  ~slipped' => Handling'
  <2>1. \A x \in Range(job'[s].out) : x \in Range(job[s].out)
    BY <1>8 DEF Same, Range
  <2>2. QED
    BY <1>1, <1>3, <1>8, <2>1, HandsQuiet DEF Same
<1>9. ASSUME NEW s \in Sinks, Detected(s) PROVE ~slipped' => Handling'
  <2>1. job[s].pc = "look" /\ UNCHANGED <<held, slipped>>
    BY <1>9 DEF Detected, portalVars
  <2>2. Apart(s) /\ job'[s].pc = "event" /\ job'[s].out = <<>>
    BY <1>1, <1>9, DetectedJob, MovedKept
  <2>3. QED
    BY <1>8, <2>1, <2>2
<1>10. ASSUME NEW s \in Sinks, Finish(s) PROVE ~slipped' => Handling'
  <2>1. job[s].pc \in {"error", "event"} /\ UNCHANGED <<held, slipped>>
    BY <1>10 DEF Finish, portalVars
  <2>2. Apart(s) /\ job'[s].pc = "idle" /\ job'[s].out = <<>>
    BY <1>1, <1>10, FinishJob, MovedKept
  <2>3. QED
    BY <1>8, <2>1, <2>2
<1>11. ASSUME NEW s \in Sinks, Reconnect(s) PROVE ~slipped' => Handling'
  <2>1. UNCHANGED <<held, slipped>>
    BY <1>11 DEF Reconnect, portalVars
  <2>2. Apart(s) /\ Same(job'[s], job[s]) /\ job[s].pc = "reconnect" /\ job'[s].pc = "connect"
    BY <1>1, <1>11, ReconnectJob, MovedKept
  <2>3. QED
    BY <1>8, <2>1, <2>2
<1>12. ASSUME NEW s \in Sinks, Delivering(s) PROVE ~slipped' => Handling'
  BY <1>12, HandsDelivered
<1>13. CASE UserCopies
  <2>1. UNCHANGED <<held, sessions, bus, slipped>>
    BY <1>13 DEF UserCopies, environment, portalVars
  <2>2. QED
    BY <1>1, <1>4, <1>13, <2>1, UserCopiesKept
<1>14. CASE SessionClosed
  <2>1. /\ bus' = bus /\ sessions' = [sessions EXCEPT ![sender] = 0] /\ held' = {h \in held : h[1] # sender}
        /\ UNCHANGED <<job, slipped>> /\ sender # 0 /\ Works(sender)
    BY <1>14 DEF SessionClosed, environment, Works
  <2>2. sessions \in Seq(0..bus) /\ sender \in 0 .. Len(sessions) /\ bus # 0
    BY <1>1, Parts DEF Sound, Plain, TypeOK, Held
  <2>3. sender \in DOMAIN sessions
    <3>1. DOMAIN sessions = 1 .. Len(sessions) /\ Len(sessions) \in Nat
      BY <2>2, LenProperties
    <3>2. QED
      BY <2>1, <2>2, <3>1
  <2>4. ASSUME NEW x \in Sinks, job[x].pc = "send", Live(sessions', bus', job[x].sender), Handling
        PROVE  Live(sessions, bus, job[x].sender) /\ held' = held
    <3>1. job[x].sender # sender
      BY <2>1, <2>2, <2>3, <2>4 DEF Live
    <3>2. job[x].sender \in DOMAIN sessions
      BY <2>4, Parts DEF TypeOK
    <3>3. sessions'[job[x].sender] = sessions[job[x].sender]
      BY <2>1, <3>1, <3>2
    <3>4. \A h \in held : h[1] = job[x].sender
      BY <1>1, <2>4, HandsAlone
    <3>5. QED
      BY <2>1, <2>4, <3>1, <3>3, <3>4 DEF Live
  <2>5. \A x \in Sinks : Alike(job'[x], job[x])
    BY <1>5, <2>1
  <2>6. ~slipped' => Handling'
    BY <1>1, <1>3, <2>1, <2>4, <2>5, HandsAlike
  <2>7. QED
    BY <1>1, <1>2, <2>6 DEF Held, Handling
<1>15. ASSUME bus' = bus + 1, held' = {}, UNCHANGED <<settings, job, sessions, slipped>> PROVE Held'
  <2>1. ASSUME NEW x \in Sinks, job[x].pc = "send" PROVE ~Live(sessions', bus', job[x].sender)
    <3>1. job[x].sender \in DOMAIN sessions /\ sessions \in Seq(0..bus) /\ bus \in Nat
      BY <1>1, <2>1, Parts DEF TypeOK, Sound, Plain
    <3>2. PICK n \in 0 .. bus : n = sessions[job[x].sender]
      BY <3>1, ElementOfSeq, LenProperties
    <3>3. n # bus + 1
      BY <3>1, <3>2
    <3>4. QED
      BY <1>15, <3>2, <3>3 DEF Live
  <2>2. \A x \in Sinks : Alike(job'[x], job[x])
    BY <1>5, <1>15
  <2>3. ~slipped' => Handling'
    BY <1>3, <1>15, <2>1, <2>2, HandsAlike
  <2>4. QED
    BY <1>1, <1>2, <2>3 DEF Held, Handling
<1>16. UNCHANGED injectVars /\ ResetDetectionCache => UNCHANGED <<held, sessions, bus, slipped, job>>
  BY DEF injectVars, portalVars, environment, ResetDetectionCache
<1>17. ASSUME NEW w, UNCHANGED injectVars, ChangeFocus(w) PROVE UNCHANGED <<held, sessions, bus, slipped, job>>
  BY <1>17 DEF injectVars, portalVars, ChangeFocus
<1>18. UNCHANGED vars => UNCHANGED <<held, sessions, bus, slipped, job>>
  BY DEF vars, windowVars, injectVars, portalVars
<1>19. ASSUME NEW d, Relogin(d) PROVE bus' = bus + 1
  BY <1>19 DEF Relogin
<1>20. CASE ~slipped' => Handling'
  BY <1>1, <1>2, <1>20 DEF Held, Handling
<1>21. CASE UNCHANGED <<held, sessions, bus, slipped, job>>
  BY <1>4, <1>5, <1>21
<1>22. ASSUME NEW d, Relogin(d), held' = {}, UNCHANGED <<settings, job, clip, sender, broken, sessions, token, slipped, brokenBy>>
       PROVE  Held'
  BY <1>15, <1>19, <1>22
<1>23. QED
  BY <1>6, <1>7, <1>9, <1>10, <1>11, <1>12, <1>13, <1>14, <1>16, <1>17, <1>18, <1>20, <1>21, <1>22, StepKinds-----------------------------------------------------------------------------
(* The invariant *)

LEMMA InitWindow ==
  ASSUME Init
  PROVE  /\ desktop \in Desktops /\ bus = 1 /\ addr \in 0 .. 1 /\ focus \in Windows
         /\ flagged = {} /\ refused = {} /\ look = [s \in Sinks |-> NoLook]
         /\ Shortcut(settings.pasteKey) /\ settings.method \in {"clipboard", "direct"}
         /\ settings.backend \in {"auto", "portal", "wtype", "ydotool"}
<1>1. PICK x \in Setups : WindowInit(x.start) /\ settings = x.settings
  BY DEF Init
<1>2. /\ x.start \in Starts
      /\ x.settings.method \in {"clipboard", "direct"} /\ Shortcut(x.settings.pasteKey)
      /\ x.settings.backend \in {"auto", "portal", "wtype", "ydotool"}
  BY InjectionAssumption
<1>3. x.start.desktop \in Desktops /\ x.start.addr \in 0 .. 1
  BY <1>2 DEF Starts
<1>4. QED
  BY <1>1, <1>2, <1>3 DEF WindowInit

LEMMA InitSessions ==
  ASSUME Init
  PROVE  /\ sessions \in Seq(0 .. 1) /\ sender \in 0 .. Len(sessions)
         /\ held = {} /\ ~broken /\ brokenBy = ""
         /\ job = [s \in Sinks |-> Idle]
<1>1. PICK n \in 0 .. 1 : sender = n /\ sessions = [i \in 1 .. n |-> 1]
  BY DEF Init
<1>2. n \in Nat /\ \A i \in 1 .. n : 1 \in 0 .. 1
  OBVIOUS
<1>3. sessions \in Seq(0 .. 1) /\ Len(sessions) = n
  BY <1>1, <1>2
<1>4. sender \in 0 .. Len(sessions)
  BY <1>1, <1>3
<1>5. held = {} /\ job = [s \in Sinks |-> Idle] /\ brokenBy = "" /\ broken = FALSE
  BY DEF Init
<1>6. QED
  BY <1>3, <1>4, <1>5

LEMMA InitInv ==
  Init => IInv
<1> SUFFICES ASSUME Init PROVE IInv
  OBVIOUS
<1>1. /\ desktop \in Desktops /\ bus = 1 /\ addr \in 0 .. 1 /\ focus \in Windows
      /\ flagged = {} /\ refused = {} /\ look = [s \in Sinks |-> NoLook]
      /\ Shortcut(settings.pasteKey) /\ settings.method \in {"clipboard", "direct"}
      /\ settings.backend \in {"auto", "portal", "wtype", "ydotool"}
  BY InitWindow
<1>2. /\ sessions \in Seq(0 .. 1) /\ sender \in 0 .. Len(sessions)
      /\ held = {} /\ ~broken /\ brokenBy = ""
      /\ job = [s \in Sinks |-> Idle]
  BY InitSessions
<1>3. \A s \in Sinks : job[s] = Idle /\ look[s] = NoLook
  BY <1>1, <1>2
<1>4. /\ Idle.pc = "idle" /\ Idle.out = <<>> /\ Range(Idle.out) = {} /\ "idle" \notin Begun \cup Trying
  BY DEF Idle, Range, Begun, Trying, PortalPhases
<1>5. NoLook.step = 0 /\ NoLook.able = {} /\ NoLook.calm = TRUE
  BY DEF NoLook
<1>6. Len(Backends) = 5
  BY StepsOfBackends
<1>7. TypeOK
  <2>1. desktop \in Desktops /\ bus \in Nat /\ addr \in 0 .. bus /\ focus \in Windows \cup {NoWindow}
    BY <1>1
  <2>2. \A s \in Sinks : look[s].step \in 0 .. Len(Backends) + 1 /\ job[s].pc = "idle" /\ look[s].step = 0
    BY <1>3, <1>4, <1>5, <1>6
  <2>3. flagged \subseteq Range(Backends) /\ refused = flagged
    BY <1>1
  <2>4. broken <=> brokenBy # ""
    BY <1>2, Zenon
  <2>5. held \subseteq (DOMAIN sessions) \X AllKeys
    BY <1>2
  <2>6. sender \in 0 .. Len(sessions)
    BY <1>2
  <2>7. QED
    BY <2>1, <2>2, <2>3, <2>4, <2>5, <2>6 DEF TypeOK, AllKeys
<1>8. Plain
  BY <1>1, <1>2, <1>3, <1>4, <1>5, IdleJob DEF Plain
<1>9. Telling
  BY <1>3, IdleJob DEF Telling
<1>10. Held
  <2>1. OneBusy(job) /\ Owned(job, held) /\ InHand(settings, job, held, sessions, bus)
    BY <1>2, <1>3, <1>4 DEF OneBusy, Owned, InHand
  <2>2. \A s \in Sinks : CleanJob(settings, job[s])
    BY <1>3, <1>4 DEF CleanJob
  <2>3. QED
    <3>1. bus # 0
      BY <1>1
    <3>2. \A h \in held : Live(sessions, bus, h[1])
      BY <1>2
    <3>3. QED
      BY <2>1, <2>2, <3>1, <3>2 DEF Held, Hands
<1>11. Ours
  BY <1>3, <1>4, OursNothing DEF Ours
<1>12. Watching
  <2>1. DOMAIN look = Sinks /\ flagged \subseteq Range(Backends) /\ refused = flagged
    BY <1>1
  <2>2. \A s \in Sinks :
          /\ DOMAIN look[s] = DOMAIN NoLook /\ look[s].calm \in BOOLEAN
          /\ look[s].step \in 0 .. Len(Backends) + 1 /\ look[s].step = 0
    <3>1. 0 \in 0 .. Len(Backends) + 1
      BY <1>6
    <3>2. NoLook.calm \in BOOLEAN
      BY <1>5, Zenon
    <3>3. QED
      BY <1>3, <1>5, <3>1, <3>2, Zenon
  <2>3. QED
    BY <2>1, <2>2 DEF Watching
<1>13. Looking
  BY <1>3, <1>4, <1>5 DEF Looking, LookJob, Undisturbed
<1>14. Fresh
  BY <1>2, <1>3, <1>4 DEF Fresh
<1>15. QED
  BY <1>7, <1>8, <1>9, <1>10, <1>11, <1>12, <1>13, <1>14 DEF IInv

LEMMA NextInv ==
  IInv /\ [Next]_vars => IInv'
BY TypeStep, SoundStep, HeldStep, OursStep, WatchingStep, LookingStep, FreshStep DEF IInv

LEMMA Invariance ==
  Spec => []IInv
BY InitInv, NextInv, PTL DEF Spec

-----------------------------------------------------------------------------
(* What it says *)

(* A sink that shows something is in a delivery. *)
LEMMA Showing ==
  ASSUME Plain, NEW s \in Sinks
  PROVE  /\ job[s].pc \notin Begun => job[s].out = <<>> /\ Range(job[s].out) = {} /\ DOMAIN job[s].out = {}
         /\ job[s].pc \notin Begun => job[s].pc \in {"idle", "look"}
<1>1. JobOK(settings, job[s])
  BY DEF Plain
<1>2. job[s].pc \notin Begun => job[s].out = <<>> /\ job[s].pc \in {"idle", "look"}
  BY <1>1 DEF JobOK
<1>3. QED
  BY <1>2 DEF Range

LEMMA TellsOrder ==
  ASSUME Plain, Telling
  PROVE  TypedInOrder
<1>1. SUFFICES ASSUME NEW s \in Sinks, NEW j, j = job[s]
               PROVE  /\ \A n \in DOMAIN j.out \ {1} : Before(j.out[n - 1], j.out[n])
                      /\ \A x \in Range(j.out) :
                           x.place \in Places(s, x.ev, x.try) /\ x.mark = Mark(s, x.ev, x.place)
                      /\ \A i \in DOMAIN j.input : \A t \in Tries :
                           IF i \in DOMAIN j.won /\ t = j.won[i] THEN Typed(s, i, t) = Places(s, i, t)
                           ELSE \A p \in Typed(s, i, t) :
                                  /\ \A x \in Places(s, i, t) : x < p => x \in Typed(s, i, t)
                                  /\ <<i, t>> \in j.failed \/ (i = j.at /\ t = j.try /\ j.pc = "send")
  BY DEF TypedInOrder
<1>2. JobOK(settings, j) /\ Told(settings, j)
  BY <1>1 DEF Plain, Telling
<1>3. /\ \A i, t : Places(s, i, t) = Spots(settings, j, i, t) /\ Typed(s, i, t) = TypedBy(j, i, t)
      /\ \A i, p : Mark(s, i, p) = Sign(settings, j, i, p)
  BY <1>1 DEF Places, Spots, Typed, TypedBy, Mark, Sign, Typing, TypingIn, Keys, KeysOf
<1>4. CASE j.pc \notin Begun
  <2>1. Range(j.out) = {} /\ DOMAIN j.out = {}
    BY <1>1, <1>4, Showing
  <2>2. \A i, t : TypedBy(j, i, t) = {}
    BY <2>1 DEF TypedBy
  <2>3. ASSUME NEW i \in DOMAIN j.input, i \in DOMAIN j.won PROVE FALSE
    <3>1. j.pc = "idle" \/ j.pc = "look"
      BY <1>1, <1>4, Showing
    <3>2. j.pc = "idle" => j.input = <<>>
      BY <1>2 DEF JobOK
    <3>3. j.pc = "look" => j.won = <<>>
      BY <1>2 DEF JobOK
    <3>4. QED
      BY <2>3, <3>1, <3>2, <3>3
  <2>4. QED
    BY <1>3, <2>1, <2>2, <2>3
<1>5. CASE j.pc \in Begun
  <2>1. InRow(j.out) /\ Belongs(settings, j) /\ Behind(settings, j) /\ Under(settings, j)
    BY <1>2, <1>5 DEF Told
  <2>2. /\ j.at \in 1 .. Len(j.input) + 1 /\ (j.pc # "event" => j.at <= Len(j.input))
        /\ j.won \in Seq(Tries) /\ Len(j.won) = j.at - 1 /\ j.input \in Inputs
    BY <1>2, <1>5 DEF JobOK, Begun, Trying, PortalPhases
  <2>3. Len(j.input) \in Nat /\ DOMAIN j.input = 1 .. Len(j.input) /\ DOMAIN j.won = 1 .. j.at - 1
    BY <2>2, InputEvents, LenProperties
  <2>4. ASSUME NEW i \in DOMAIN j.input, NEW t \in Tries, ~(i \in DOMAIN j.won /\ t = j.won[i]), NEW p \in TypedBy(j, i, t)
        PROVE  /\ \A x \in Spots(settings, j, i, t) : x < p => x \in TypedBy(j, i, t)
               /\ <<i, t>> \in j.failed \/ (i = j.at /\ t = j.try /\ j.pc = "send")
    <3>1. i \in 1 .. j.at
      BY <2>1, <2>4 DEF Belongs, TypedBy
    <3>2. i < j.at => i \in DOMAIN j.won
      BY <2>2, <2>3, <3>1
    <3>3. \/ i = j.at /\ t = j.try /\ j.pc = "send"
          \/ Beginning(settings, j, i, t) /\ <<i, t>> \in j.failed
      BY <2>1, <2>4, <3>1, <3>2 DEF Behind
    <3>4. CASE Beginning(settings, j, i, t) /\ <<i, t>> \in j.failed
      BY <2>4, <3>4 DEF Beginning
    <3>5. CASE i = j.at /\ t = j.try /\ j.pc = "send"
      <4>1. Ready(settings, j)
        BY <1>2, <1>5, <2>2, <3>5 DEF Ready
      <4>2. TypedBy(j, i, t) = {q \in Spots(settings, j, i, t) : PressedAt(settings, j, q) <= j.strokes}
        BY <2>1, <3>5 DEF Under
      <4>3. ASSUME NEW x \in Spots(settings, j, i, t), x < p PROVE x \in TypedBy(j, i, t)
        <5>1. p \in Spots(settings, j, i, t) /\ PressedAt(settings, j, p) <= j.strokes
          BY <2>4, <4>2
        <5>2. /\ PressedAt(settings, j, x) < PressedAt(settings, j, p)
              /\ PressedAt(settings, j, x) \in 1 .. Len(Line(settings, j))
              /\ PressedAt(settings, j, p) \in 1 .. Len(Line(settings, j))
              /\ Len(Line(settings, j)) \in Nat
          BY <3>5, <4>1, <4>3, <5>1, LineFacts
        <5>3. j.strokes \in 0 .. Len(Line(settings, j))
          BY <1>2, <3>5 DEF JobOK
        <5>4. PressedAt(settings, j, x) <= j.strokes
          BY <5>1, <5>2, <5>3
        <5>5. QED
          BY <4>2, <4>3, <5>4
      <4>4. QED
        BY <3>5, <4>3
    <3>6. QED
      BY <3>3, <3>4, <3>5
  <2>5. \A i \in DOMAIN j.won : TypedBy(j, i, j.won[i]) = Spots(settings, j, i, j.won[i])
    BY <2>1 DEF Behind
  <2>6. \A n \in DOMAIN j.out \ {1} : Before(j.out[n - 1], j.out[n])
    BY <2>1 DEF InRow
  <2>7. \A x \in Range(j.out) : x.place \in Spots(settings, j, x.ev, x.try) /\ x.mark = Sign(settings, j, x.ev, x.place)
    BY <2>1 DEF Belongs
  <2>8. QED
    BY <1>3, <2>4, <2>5, <2>6, <2>7
<1>6. QED
  BY <1>4, <1>5

LEMMA HeldIsClean ==
  ASSUME Held
  PROVE  CleanKeys
<1>1. SUFFICES ASSUME ~slipped
               PROVE  /\ \A s \in Sinks : \A x \in Range(job[s].out) :
                           LET e == job[s].input[x.ev] IN x.mods = IF Typing(e) THEN {} ELSE Range(Front(Keys(s, e)))
                      /\ (\A s \in Sinks : job[s].pc # "send") => HeldKeys = {}
  BY DEF CleanKeys
<1>2. Hands(settings, job, held, sessions, bus)
  BY <1>1 DEF Held
<1>3. ASSUME NEW s \in Sinks, NEW x \in Range(job[s].out), NEW e, e = job[s].input[x.ev]
      PROVE  x.mods = IF Typing(e) THEN {} ELSE Range(Front(Keys(s, e)))
  BY <1>2, <1>3 DEF Hands, CleanJob, ModsAt, Typing, TypingIn, Keys, KeysOf
<1>4. (\A s \in Sinks : job[s].pc # "send") => HeldKeys = {}
  BY <1>2 DEF Hands, Owned, HeldKeys
<1>5. QED
  BY <1>3, <1>4

LEMMA LookFits ==
  ASSUME Plain, Looking
  PROVE  PasteFits
<1>1. SUFFICES ASSUME NEW s \in Sinks, NEW x \in Range(job[s].out), settings.pasteKey = AutoKey,
                      look[s].calm /\ look[s].able # {} /\ x.win = look[s].win
               PROVE  job[s].paste \in {PasteKeys(Classify(NameOf(b, x.win))) : b \in look[s].able}
  BY DEF PasteFits
<1>2. job[s].pc \in Begun
  BY <1>1, Showing
<1>3. LookJob(settings, look[s], job[s])
  BY DEF Looking
<1>4. job[s].paste \in {PasteKeys(k) : k \in Kinds(look[s])}
  BY <1>1, <1>2, <1>3 DEF LookJob
<1>5. QED
  BY <1>1, <1>4 DEF Kinds

LEMMA OursIsOurs ==
  ASSUME Ours
  PROVE  PasteIsOurs
BY DEF Ours, OursJob, PasteIsOurs, Pasting, PastingIn

-----------------------------------------------------------------------------
(* The theorems *)

(* In every state of every behaviour the sinks, the detections, the portal's *)
(* sessions and the keys held are of their kinds: a sink that works has an   *)
(* event of its transcription before it or has delivered the last, one that  *)
(* sends does so in a session that was opened, and the portal is broken when *)
(* and only when something broke it.                                         *)
THEOREM TypeCorrect == Spec => []TypeOK
<1>1. IInv => TypeOK
  BY DEF IInv
<1>2. QED
  BY <1>1, Invariance, PTL

(* handle_events delivers a transcription whole and in order.  What the      *)
(* window sees follows the text and the shortcuts of the transcription; each *)
(* event that is done was typed completely by one backend, and what the      *)
(* backends tried before it typed is a beginning of that event, after which  *)
(* they failed: never a later character without the ones before it.          *)
THEOREM TypedWhole == Spec => []TypedInOrder
<1>1. IInv => TypedInOrder
  BY Parts, TellsOrder
<1>2. QED
  BY <1>1, Invariance, PTL

(* send_key_sequence and send_text release what they press.  Unless a call   *)
(* failed with keys held, or two sinks typed at once, each key arrives with  *)
(* the modifiers of its own shortcut only, a typed character with none, and  *)
(* when no sink is sending no key is held, across reconnects, closed         *)
(* sessions and new logins.                                                  *)
THEOREM KeysAreClean == Spec => []CleanKeys
<1>1. IInv => CleanKeys
  BY Parts, HeldIsClean
<1>2. QED
  BY <1>1, Invariance, PTL

(* With paste_key = "auto" a text pasted into the window that had the focus  *)
(* while it was detected gets the paste key for that window, as one of the   *)
(* backends that could name it does: whichever were flagged as broken        *)
(* before, refused on the way or were asked again after a reset.             *)
THEOREM PasteKeyFits == Spec => []PasteFits
<1>1. IInv => PasteFits
  BY Parts, LookFits
<1>2. QED
  BY <1>1, Invariance, PTL

(* What a paste shortcut inserts is the text of the event, copied by wl-copy *)
(* just before, however often the key is tried again on another backend or a *)
(* new session, unless the user or the other sink copied in between.         *)
THEOREM PastesOurText == Spec => []PasteIsOurs
<1>1. IInv => PasteIsOurs
  BY Parts, OursIsOurs
<1>2. QED
  BY <1>1, Invariance, PTL

(* portal_with_reconnect asks for the D-Bus address anew before it connects: *)
(* a new login alone never leaves the session marked as broken for good.     *)
THEOREM LoginSurvived == Spec => []SurvivesRelogin
<1>1. IInv => SurvivesRelogin
  BY DEF IInv, Fresh, SurvivesRelogin
<1>2. QED
  BY <1>1, Invariance, PTL
=============================================================================
