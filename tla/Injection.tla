------------------------------ MODULE Injection ------------------------------
(***************************************************************************)
(* How a text reaches the focused window: the InjectorSink of              *)
(* src/pipeline/sink.rs, the TextInjector of src/inject/injector.rs and    *)
(* the portal session of src/inject/portal.rs.                             *)
(*                                                                         *)
(* A sink takes one transcription at a time, detects the paste key and     *)
(* delivers the events of the transcription in order: copy and paste, type *)
(* directly, or press a shortcut, through the desktop portal (key by key,  *)
(* with one reconnect), wtype or ydotool.  Two sinks share the session and *)
(* the clipboard when stop() gave up on the first one's thread.            *)
(***************************************************************************)
EXTENDS FocusedWindow

CONSTANTS
  Inputs,      \* the transcriptions: sequences of events
  Setups,      \* how the process starts, configured, with which programs installed
  NoKeysym     \* characters without an X11 keysym

AutoKey == <<"auto">>
PortalKeys == {"ctrl", "shift", "v", "backspace"}   \* those parse_paste_key knows

Modifiers == {"ctrl", "shift", "alt", "super"}

Text(t) == [type |-> "text", text |-> t, keys |-> <<>>]
Combo(k) == [type |-> "keys", text |-> <<>>, keys |-> k]

(* A shortcut ends with the one key in it that is no modifier. *)
Shortcut(k) ==
  /\ k \in Seq(Range(k)) /\ k # <<>>
  /\ \A i \in DOMAIN k : k[i] \in Modifiers <=> i # Len(k)

IsEvent(e) ==
  \/ e = Combo(e.keys) /\ Shortcut(e.keys)
  \/ e = Text(e.text) /\ e.text \in Seq(Range(e.text)) /\ Range(e.text) \cap Modifiers = {}

ASSUME InjectionAssumption ==
  /\ \A i \in Inputs : i # <<>> /\ i \in Seq(Range(i)) /\ \A e \in Range(i) : IsEvent(e)
  /\ \A x \in Setups :
       /\ x.start \in Starts
       /\ x.settings.method \in {"clipboard", "direct"} /\ Shortcut(x.settings.pasteKey)
       /\ x.settings.backend \in {"auto", "portal", "wtype", "ydotool"}

VARIABLES
  settings,
  job,       \* job[s]: what sink s is doing
  clip,      \* the clipboard
  sender,    \* the session in PortalSession.key_sender; 0: there is no portal
  broken,    \* PortalSession.broken
  sessions,  \* the buses that sessions 1, 2, ... were opened on
  held,      \* keys pressed and not released, with their session
  token,     \* what the saved restore token grants
  slipped,   \* history: a sequence stopped with keys held, or sinks overlapped
  brokenBy   \* history: what made the session broken

portalVars == <<sender, broken, sessions, held, token, slipped, brokenBy>>
injectVars == <<settings, job, clip, portalVars>>
vars == <<windowVars, injectVars>>

-----------------------------------------------------------------------------
(* The text and the keys of an event *)

(* Trailing whitespace is trimmed and one space appended. *)
Normalized(t) == Append(SubSeq(t, 1, SelectLastInSeq(t, LAMBDA c : c # " ")), " ")

(* One press or release; place is what it belongs to: a character of the    *)
(* text, or the one shortcut.                                               *)
Press(k, p) == [key |-> k, down |-> TRUE, place |-> p]
Release(k, p) == [key |-> k, down |-> FALSE, place |-> p]

(* send_key_sequence: press all, then release in reverse order; the slip    *)
(* releases only the last key.                                              *)
WrongKeySequence(keys) ==
  [i \in 1..Len(keys) + 1 |-> IF i <= Len(keys) THEN Press(keys[i], 1) ELSE Release(Last(keys), 1)]

KeySequence(keys) ==
  [i \in 1..2 * Len(keys) |->
     IF i <= Len(keys) THEN Press(keys[i], 1) ELSE Release(keys[2 * Len(keys) + 1 - i], 1)]

(* send_text: each character is pressed and released. *)
TextStrokes(t) ==
  [i \in 1..2 * Len(t) |->
     LET p == (i + 1) \div 2 IN IF i = 2 * p THEN Release(t[p], p) ELSE Press(t[p], p)]

PasteKeys(kind) == IF kind = "Terminal" THEN <<"ctrl", "shift", "v">> ELSE <<"ctrl", "v">>

Event(s) == job[s].input[job[s].at]

Pasting(e) == e.type = "text" /\ settings.method = "clipboard"
Typing(e) == e.type = "text" /\ settings.method = "direct"
Keys(s, e) == IF e.type = "keys" THEN e.keys ELSE job[s].paste

-----------------------------------------------------------------------------
(* Sessions and keys *)

Works(n) == n # 0 /\ sessions[n] = bus
HeldKeys == {h[2] : h \in {x \in held : Works(x[1])}}

(* One thing the focused application sees. *)
Seen(s, place, mark, mods) ==
  [ev |-> job[s].at, try |-> job[s].try, place |-> place, mark |-> mark, mods |-> mods, win |-> focus,
   clip |-> IF Pasting(Event(s)) THEN clip ELSE <<>>, ours |-> job[s].copied]

Idle == [pc |-> "idle", input |-> <<>>, at |-> 0, paste |-> <<>>, try |-> "portal", strokes |-> 0,
         sender |-> 0, out |-> <<>>, won |-> <<>>, failed |-> {}, copied |-> TRUE]

Init ==
  /\ \E x \in Setups : WindowInit(x.start) /\ settings = x.settings
  /\ job = [s \in Sinks |-> Idle]
  /\ clip = <<"user">>
  /\ \E n \in 0..1 :
       /\ sender = n /\ sessions = [i \in 1..n |-> 1] /\ token \in {"none", IF n = 1 THEN "keyboard" ELSE "none"}
       /\ n = 1 => addr = 1
  /\ broken = FALSE /\ held = {} /\ slipped = FALSE /\ brokenBy = ""

-----------------------------------------------------------------------------
(* InjectorSink *)

(* The next recording has a sink of its own: either the last one is done or *)
(* stop() gave up on it, stuck in the portal.                               *)
Busy == {s \in Sinks : job[s].pc # "idle"}
Stuck == {s \in Sinks : job[s].pc \in {"send", "reconnect", "connect", "dialog"}}
Goto(s, pc) == job' = [job EXCEPT ![s].pc = pc]

(* handle and handle_events: the paste key comes first, for every method. *)
Take(s, input) ==
  /\ job[s].pc = "idle" /\ Busy \subseteq Stuck /\ upsets < MaxUpsets /\ upsets' = upsets + 1
  /\ job' = [job EXCEPT ![s] =
               [Idle EXCEPT !.pc = "look", !.input = input, !.at = 1,
                            !.paste = IF settings.pasteKey = AutoKey THEN <<>> ELSE settings.pasteKey]]
  /\ slipped' = (slipped \/ Busy # {})
  /\ IF settings.pasteKey = AutoKey THEN Detect(s) ELSE look' = [look EXCEPT ![s] = NoLook]
  /\ UNCHANGED <<environment, flagged, refused, settings, clip, sender, broken,
                 sessions, held, token, brokenBy>>

Detecting(s) ==
  /\ job[s].pc = "look" /\ Probe(s)
  /\ UNCHANGED injectVars

Detected(s) ==
  /\ job[s].pc = "look" /\ look[s].step = 0
  /\ job' = [job EXCEPT ![s].pc = "event",
               ![s].paste = IF settings.pasteKey = AutoKey THEN PasteKeys(look[s].kind) ELSE @]
  /\ UNCHANGED <<windowVars, settings, clip, portalVars>>

FirstTry == IF settings.backend \in {"auto", "portal"} THEN "portal" ELSE settings.backend

Deliver(s) ==
  /\ job[s].pc = "event" /\ job[s].at <= Len(job[s].input)
  /\ job' = [job EXCEPT ![s].pc = IF Pasting(Event(s)) THEN "copy" ELSE "try", ![s].try = FirstTry]
  /\ UNCHANGED <<windowVars, settings, clip, portalVars>>

(* Every event was delivered and the sink reports the transcription, or one *)
(* failed: then the station reports an error and the rest is dropped.       *)
Finish(s) ==
  /\ job[s].pc = "error" \/ (job[s].pc = "event" /\ job[s].at > Len(job[s].input))
  /\ job' = [job EXCEPT ![s] = Idle] /\ look' = [look EXCEPT ![s] = NoLook]
  /\ UNCHANGED <<environment, flagged, refused, upsets, settings, clip, portalVars>>

(* Definitions named Wrong... are slips a programmer could make in the code *)
(* the next definition models; with one of them in its place, TLC finds the *)
(* property violated that PROJECT.json pairs it with.                       *)

(* A failed wl-copy is not an error. *)
WrongCopied(s) == TRUE

Copied(s) == "wl-copy" \in settings.tools

(* wl-copy, then the pause for the clipboard to settle. *)
Copy(s) ==
  /\ job[s].pc = "copy"
  /\ IF Copied(s)
     THEN /\ clip' = IF "wl-copy" \in settings.tools THEN Normalized(Event(s).text) ELSE clip
          /\ job' = [x \in Sinks |-> IF x = s THEN [job[s] EXCEPT !.pc = "try", !.copied = TRUE]
                                    ELSE [job[x] EXCEPT !.copied = FALSE]]
     ELSE /\ job' = [job EXCEPT ![s].pc = "error"]
          /\ UNCHANGED clip
  /\ UNCHANGED <<windowVars, settings, portalVars>>

-----------------------------------------------------------------------------
(* TextInjector: which backend is next *)

(* Auto tries the portal, wtype and ydotool; a chosen backend stands alone. *)
After(try) == CASE try \in {"portal", "again"} -> "wtype" [] try = "wtype" -> "ydotool" [] OTHER -> "none"
Fallthrough(j) == IF settings.backend = "auto" THEN After(j.try) ELSE "none"

Lost(j) ==
  [j EXCEPT !.failed = @ \cup {<<j.at, j.try>>},
            !.pc = IF Fallthrough(j) = "none" THEN "error" ELSE "try",
            !.try = IF Fallthrough(j) = "none" THEN @ ELSE Fallthrough(j)]

(* The result of one backend is not looked at. *)
WrongWon(j) ==
  IF Fallthrough(j) # "none" THEN [j EXCEPT !.pc = "try", !.try = Fallthrough(j)]
  ELSE [j EXCEPT !.pc = "event", !.at = @ + 1, !.won = Append(@, j.try)]

Won(j) == [j EXCEPT !.pc = "event", !.at = @ + 1, !.won = Append(@, j.try)]

(* wtype does not work on Mutter, GNOME's compositor. *)
Usable(tool) == tool \in settings.tools /\ ~(tool = "wtype" /\ desktop \in Gnome)

Marks(s, e) ==
  IF Typing(e) THEN [i \in DOMAIN Normalized(e.text) |-> Seen(s, i, Normalized(e.text)[i], HeldKeys)]
  ELSE <<Seen(s, 1, Last(Keys(s, e)), HeldKeys \cup Range(Front(Keys(s, e))))>>

UseTool(s) ==
  /\ job[s].pc = "try" /\ job[s].try \in {"wtype", "ydotool"}
  /\ job' = [job EXCEPT ![s] = IF Usable(@.try) THEN Won([job[s] EXCEPT !.out = job[s].out \o Marks(s, Event(s))])
                               ELSE Lost(@)]
  /\ UNCHANGED <<windowVars, settings, clip, portalVars>>

(* The program exits with an error after part of its work. *)
ToolFails(s) ==
  /\ job[s].pc = "try" /\ job[s].try \in {"wtype", "ydotool"} /\ Usable(job[s].try)
  /\ upsets < MaxUpsets /\ upsets' = upsets + 1
  /\ \E n \in 0..Len(Marks(s, Event(s))) :
       job' = [job EXCEPT ![s] = Lost([job[s] EXCEPT !.out = job[s].out \o SubSeq(Marks(s, Event(s)), 1, n)])]
  /\ UNCHANGED <<environment, flagged, look, refused, settings, clip, portalVars>>

-----------------------------------------------------------------------------
(* PortalSession: portal_with_reconnect *)

Strokes(s) == IF Typing(Event(s)) THEN TextStrokes(Normalized(Event(s).text))
              ELSE KeySequence(Keys(s, Event(s)))

Understood(s) == Typing(Event(s)) \/ Range(Keys(s, Event(s))) \subseteq PortalKeys

(* The sender is cloned; the lock is not held while the keys are sent. *)
UsePortal(s) ==
  /\ job[s].pc = "try" /\ job[s].try = "portal"
  /\ IF sender = 0 \/ ~Understood(s) \/ broken THEN job' = [job EXCEPT ![s] = Lost(@)]
     ELSE job' = [job EXCEPT ![s].pc = "send", ![s].sender = sender, ![s].strokes = 0]
  /\ UNCHANGED <<windowVars, settings, clip, portalVars>>

Sending(s) == job[s].pc = "send" /\ job[s].strokes < Len(Strokes(s))
Following(s) == Strokes(s)[job[s].strokes + 1]
Untypable(s) == Typing(Event(s)) /\ Following(s).key \in NoKeysym

(* A character without a keysym is passed over. *)
SkipCharacter(s) ==
  /\ Sending(s) /\ Untypable(s)
  /\ job' = [job EXCEPT ![s].strokes = @ + 2]
  /\ UNCHANGED <<windowVars, settings, clip, portalVars>>

(* The compositor gets the next key event of s. *)
Effect(s) ==
  LET n == job[s].sender
      x == Following(s)
  IN IF x.down THEN held \cup {<<n, x.key>>} ELSE held \ {<<n, x.key>>}
Shown(s) ==
  LET x == Following(s)
  IN IF x.down /\ x.key \notin Modifiers
     THEN Append(job[s].out, Seen(s, x.place, x.key, HeldKeys)) ELSE job[s].out

Stroke(s) ==
  /\ Sending(s) /\ ~Untypable(s) /\ Works(job[s].sender)
  /\ held' = Effect(s)
  /\ job' = [job EXCEPT ![s].strokes = @ + 1, ![s].out = Shown(s)]
  /\ UNCHANGED <<windowVars, settings, clip, sender, broken, sessions, token, slipped, brokenBy>>

Sent(s) ==
  /\ job[s].pc = "send" /\ job[s].strokes = Len(Strokes(s))
  /\ job' = [job EXCEPT ![s] = Won(@)]
  /\ UNCHANGED <<windowVars, settings, clip, portalVars>>

Failed(j) == IF j.try = "portal" THEN [j EXCEPT !.pc = "reconnect", !.failed = @ \cup {<<j.at, "portal">>}]
             ELSE Lost(j)

(* The session is gone: no key arrives, those it held are released. *)
Unreachable(s) ==
  /\ Sending(s) /\ ~Untypable(s) /\ ~Works(job[s].sender)
  /\ job' = [job EXCEPT ![s] = Failed(@)]
  /\ UNCHANGED <<windowVars, settings, clip, portalVars>>

(* A call fails on a session that works, before or after it took effect. *)
CallFails(s) ==
  /\ Sending(s) /\ ~Untypable(s) /\ Works(job[s].sender)
  /\ upsets < MaxUpsets /\ upsets' = upsets + 1
  /\ \/ held' = held /\ job' = [job EXCEPT ![s] = Failed(@)]
     \/ held' = Effect(s) /\ job' = [job EXCEPT ![s] = Failed([job[s] EXCEPT !.out = Shown(s)])]
  /\ slipped' = (slipped \/ held' # {})
  /\ UNCHANGED <<environment, flagged, look, refused, settings, clip, sender, broken,
                 sessions, token, brokenBy>>

(* Without the refresh of the D-Bus address. *)
WrongRefresh == addr

Refresh == IF FreshAddress # {} THEN bus ELSE addr

Reconnect(s) ==
  /\ job[s].pc = "reconnect"
  /\ addr' = Refresh
  /\ job' = [job EXCEPT ![s].pc = "connect", ![s].sender = bus]
  /\ UNCHANGED <<desktop, bus, xdgGnome, pgrep, focus, flagged, look, refused, upsets,
                 settings, clip, portalVars>>

Why(s) ==
  CASE bus # job[s].sender -> "logged in again meanwhile"
    [] desktop \in {"sway", "hyprland"} -> "no portal"
    [] FreshAddress = {} -> "no gnome-shell found"
    [] OTHER -> "unreachable"

(* connector.connect() fails: the session is broken for good. *)
Breaks(s, why) ==
  /\ broken' = TRUE /\ brokenBy' = why
  /\ job' = [job EXCEPT ![s] = Lost(@)]
  /\ UNCHANGED <<windowVars, settings, clip, sender, sessions, held, slipped>>

Connect(s) ==
  /\ job[s].pc = "connect"
  /\ IF addr # bus \/ desktop \in {"sway", "hyprland"}
     THEN Breaks(s, Why(s)) /\ UNCHANGED token
     ELSE Goto(s, "dialog") /\ UNCHANGED <<windowVars, settings, clip, portalVars>>

(* The user answers the permission dialog, or the restore token does.  The   *)
(* token is saved before the devices are looked at.                          *)
Answers == IF token # "none" THEN {token} ELSE {"keyboard", "no keyboard", "denied"}

Grant(s) ==
  /\ job[s].pc = "dialog" /\ addr = bus /\ "keyboard" \in Answers
  /\ token' = "keyboard"
  /\ sessions' = Append(sessions, bus) /\ sender' = Len(sessions')
  /\ job' = [job EXCEPT ![s].pc = "send", ![s].try = "again", ![s].sender = sender',
                        ![s].strokes = 0]
  /\ UNCHANGED <<windowVars, settings, clip, broken, held, slipped, brokenBy>>

Deny(s) ==
  /\ job[s].pc = "dialog"
  /\ \/ addr = bus /\ "no keyboard" \in Answers /\ token' = "no keyboard" /\ Breaks(s, "denied")
     \/ addr = bus /\ "denied" \in Answers /\ UNCHANGED token /\ Breaks(s, "denied")
     \/ addr # bus /\ UNCHANGED token /\ Breaks(s, "logged in again meanwhile")

-----------------------------------------------------------------------------
(* The rest of the world *)

UserCopies ==
  /\ upsets < MaxUpsets /\ upsets' = upsets + 1
  /\ clip' = <<"user">>
  /\ job' = [s \in Sinks |-> [job[s] EXCEPT !.copied = FALSE]]
  /\ UNCHANGED <<environment, flagged, look, refused, settings, portalVars>>

(* The desktop closes the session; the bus lives on. *)
SessionClosed ==
  /\ upsets < MaxUpsets /\ upsets' = upsets + 1
  /\ Works(sender) /\ sessions' = [sessions EXCEPT ![sender] = 0]
  /\ held' = {h \in held : h[1] # sender}
  /\ UNCHANGED <<environment, flagged, look, refused, settings, job, clip, sender, broken,
                 token, slipped, brokenBy>>

World ==
  \/ UserCopies
  \/ SessionClosed
  \/ (ResetDetectionCache \/ \E w \in Windows \cup {NoWindow} : ChangeFocus(w)) /\ UNCHANGED injectVars
  \/ \E d \in Desktops :
       /\ Relogin(d) /\ held' = {}
       /\ UNCHANGED <<settings, job, clip, sender, broken, sessions, token, slipped, brokenBy>>

SinkStep(s) ==
  \/ Detecting(s) \/ Detected(s) \/ Deliver(s) \/ Finish(s) \/ Copy(s)
  \/ UseTool(s) \/ ToolFails(s)
  \/ UsePortal(s) \/ SkipCharacter(s) \/ Stroke(s) \/ Sent(s) \/ Unreachable(s) \/ CallFails(s)
  \/ Reconnect(s) \/ Connect(s) \/ Grant(s) \/ Deny(s)

Next ==
  \/ \E s \in Sinks : SinkStep(s) \/ \E i \in Inputs : Take(s, i)
  \/ World

Spec == Init /\ [][Next]_vars

-----------------------------------------------------------------------------
(* Properties *)

Tries == {"portal", "again", "wtype", "ydotool"}
Order == [portal |-> 1, again |-> 2, wtype |-> 3, ydotool |-> 4]

TypeOK ==
  /\ desktop \in Desktops /\ bus \in Nat /\ addr \in 0..bus /\ focus \in Windows \cup {NoWindow}
  /\ flagged \subseteq Range(Backends) /\ refused = flagged
  /\ \A s \in Sinks :
       /\ look[s].step \in 0..Len(Backends) + 1
       /\ job[s].pc \in {"idle", "look", "event", "copy", "try", "send", "reconnect", "connect", "dialog", "error"}
       /\ job[s].pc = "idle" => look[s].step = 0
       /\ job[s].pc # "idle" => job[s].input \in Inputs /\ job[s].at \in 1..Len(job[s].input) + 1
       /\ job[s].pc = "send" => job[s].sender \in DOMAIN sessions
  /\ sender \in 0..Len(sessions) /\ (broken <=> brokenBy # "")
  /\ held \subseteq (DOMAIN sessions) \X (PortalKeys \cup UNION {Range(e.text) \cup {" "} : e \in UNION {Range(i) : i \in Inputs}})

(* What event i of s types through a backend: these places, with this on    *)
(* each of them.                                                            *)
Places(s, i, try) ==
  LET e == job[s].input[i] IN
    IF Typing(e)
    THEN {p \in DOMAIN Normalized(e.text) : try \in {"portal", "again"} => Normalized(e.text)[p] \notin NoKeysym}
    ELSE {1}
Mark(s, i, p) ==
  LET e == job[s].input[i] IN IF Typing(e) THEN Normalized(e.text)[p] ELSE Last(Keys(s, e))

Typed(s, i, try) ==
  {x.place : x \in {y \in Range(job[s].out) : y.ev = i /\ y.try = try}}

Before(x, y) ==
  \/ x.ev < y.ev
  \/ x.ev = y.ev /\ Order[x.try] < Order[y.try]
  \/ x.ev = y.ev /\ x.try = y.try /\ x.place < y.place

(* A transcription that the sink reports was typed whole and in order.  Each *)
(* event ends with one complete try; the tries before it typed a beginning   *)
(* of it and failed.  After an event that failed nothing more is typed.      *)
TypedInOrder ==
  \A s \in Sinks :
    LET j == job[s] IN
      /\ \A n \in DOMAIN j.out \ {1} : Before(j.out[n - 1], j.out[n])
      /\ \A x \in Range(j.out) :
           x.place \in Places(s, x.ev, x.try) /\ x.mark = Mark(s, x.ev, x.place)
      /\ \A i \in DOMAIN j.input : \A t \in Tries :
           IF i \in DOMAIN j.won /\ t = j.won[i] THEN Typed(s, i, t) = Places(s, i, t)
           ELSE \A p \in Typed(s, i, t) :
                  /\ \A x \in Places(s, i, t) : x < p => x \in Typed(s, i, t)
                  /\ <<i, t>> \in j.failed \/ (i = j.at /\ t = j.try /\ j.pc = "send")

(* A key arrives with the modifiers of its own shortcut and no others, and   *)
(* nothing stays pressed: unless a call failed in the middle of a sequence   *)
(* or two sinks typed at once (portal.rs:100 has no clean-up).               *)
CleanKeys ==
  ~slipped =>
    /\ \A s \in Sinks : \A x \in Range(job[s].out) :
         LET e == job[s].input[x.ev] IN x.mods = IF Typing(e) THEN {} ELSE Range(Front(Keys(s, e)))
    /\ (\A s \in Sinks : job[s].pc # "send") => HeldKeys = {}

(* A text pasted with an automatic paste key gets the key of the window it   *)
(* is pasted into, if that window had the focus throughout the detection and *)
(* a backend of this desktop could name it: one that has not refused since   *)
(* the flags were last reset and did not fail this time.                     *)
NameOf(b, w) == IF b \in {"hyprctl", "eval"} THEN w.class ELSE Named(w.app, w.class)
PasteFits ==
  \A s \in Sinks : \A x \in Range(job[s].out) :
    /\ Pasting(job[s].input[x.ev]) /\ settings.pasteKey = AutoKey
    /\ look[s].calm /\ look[s].able # {} /\ x.win = look[s].win
    => job[s].paste \in {PasteKeys(Classify(NameOf(b, x.win))) : b \in look[s].able}

(* What is pasted is the text of the event, unless the user or another sink  *)
(* copied something else in the meantime.                                    *)
PasteIsOurs ==
  \A s \in Sinks : \A x \in Range(job[s].out) :
    /\ Pasting(job[s].input[x.ev]) /\ x.ours
    /\ Range(Front(job[s].paste)) \subseteq x.mods
    => x.clip = Normalized(job[s].input[x.ev].text)

(* The session is given up only when the user refuses the keyboard, when     *)
(* there is no portal, when no gnome-shell is found to ask for the present   *)
(* bus, or when the user logs in again during the reconnect: a new login     *)
(* alone does not break it.                                                  *)
SurvivesRelogin == broken => brokenBy # "unreachable"
=============================================================================
