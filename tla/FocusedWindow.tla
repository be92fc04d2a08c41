---------------------------- MODULE FocusedWindow ----------------------------
(***************************************************************************)
(* Which paste key the focused window takes: src/inject/focused_window.rs. *)
(*                                                                         *)
(* A detection asks five backends one after the other, each a subprocess,  *)
(* and the first that names the window decides.  A backend that refuses is *)
(* flagged and not asked again until the flags are reset.  Meanwhile the   *)
(* user changes windows, logs out and in again (the process survives in    *)
(* tmux with the D-Bus address of the old login) and other detections run. *)
(***************************************************************************)
EXTENDS Integers, Sequences, FiniteSets, SequencesExt

CONSTANTS
  Sinks,          \* the threads that detect
  Windows,        \* windows: their app id and class, "" if they have none
  WindowList,     \* the order in which GNOME lists its windows
  FieldOrder,     \* the order in which GNOME prints a window's fields
  KnownTerminals, \* the table of that name
  WordTerminal,   \* other names that contain "terminal"
  Desktops,       \* the desktops a user of this process logs in to
  MaxUpsets       \* bound: what happens to the process, all in all

NoWindow == [app |-> "", class |-> ""]
Gnome == {"gnome40", "gnome45", "gnome45 with extension"}
Backends == <<"swaymsg", "hyprctl", "extension", "introspect", "eval">>

ASSUME FocusedWindowAssumption ==
  /\ \A w \in Windows : DOMAIN w = DOMAIN NoWindow
  /\ WindowList \in Seq(Windows) /\ Range(WindowList) = Windows
  /\ FieldOrder \in {<<"app-id", "wm-class", "has-focus">>, <<"wm-class", "app-id", "has-focus">>}
  /\ Desktops \subseteq {"sway", "hyprland", "other"} \cup Gnome
  /\ MaxUpsets \in Nat

VARIABLES
  desktop,     \* the desktop of the present login
  bus,         \* its D-Bus session bus, numbered
  addr,        \* the bus DBUS_SESSION_BUS_ADDRESS names
  xdgGnome,    \* XDG_CURRENT_DESKTOP of the process contains GNOME
  pgrep,       \* pgrep and /proc find a running gnome-shell
  focus,       \* the focused window
  flagged,     \* the backends whose ..._BROKEN flag is set
  look,        \* look[s]: the detection of s; step 0 when there is none
  refused,     \* history: who refused since the last reset
  upsets       \* how much happened so far

windowVars == <<desktop, bus, addr, xdgGnome, pgrep, focus, flagged, look, refused, upsets>>

-----------------------------------------------------------------------------
(* What the backends answer *)

Named(first, second) == IF first # "" THEN first ELSE second

(* fresh_gnome_dbus_address: the bus of the running gnome-shell, if found. *)
FreshAddress == IF pgrep /\ desktop \in Gnome THEN {bus} ELSE {}

(* A gdbus command runs with the fresh address, or else with ours. *)
Reaches == FreshAddress # {} \/ addr = bus

Serves(b) ==
  CASE b = "swaymsg" -> desktop = "sway"
    [] b = "hyprctl" -> desktop = "hyprland"
    [] b = "extension" -> Reaches /\ desktop = "gnome45 with extension"
    [] b = "introspect" -> Reaches /\ desktop = "gnome40"
    [] b = "eval" -> Reaches /\ desktop = "gnome40"

SwayName(w) == Named(w.app, w.class)
HyprName(w) == w.class
ExtensionName(w) == Named(w.app, w.class)
EvalName(w) == w.class

(* The text of Introspect.GetWindows, as the fields it prints, when w has the focus. *)
Field(x, f, w) ==
  [name |-> f, value |-> CASE f = "app-id" -> x.app
                           [] f = "wm-class" -> x.class
                           [] f = "has-focus" -> x = w]
Listing(w) ==
  [i \in 1..3 * Len(WindowList) |->
     Field(WindowList[(i - 1) \div 3 + 1], FieldOrder[((i - 1) % 3) + 1], w)]

(* The first field of that name. *)
WrongExtract(text, f) ==
  LET i == SelectInSeq(text, LAMBDA x : x.name = f) IN IF i = 0 THEN "" ELSE text[i].value

(* extract_gvariant_string: the last field of that name in the text. *)
Extract(text, f) ==
  LET i == SelectLastInSeq(text, LAMBDA x : x.name = f) IN IF i = 0 THEN "" ELSE text[i].value

(* The name comes from the text before the focus marker. *)
Introspected(w) ==
  LET mark == SelectInSeq(Listing(w), LAMBDA x : x.name = "has-focus" /\ x.value)
      before == SubSeq(Listing(w), 1, mark - 1)
  IN Named(Extract(before, "app-id"), Extract(before, "wm-class"))

(* The name that a backend serving this desktop gives w, "" for no window. *)
Answer(b, w) ==
  CASE b = "swaymsg" -> SwayName(w)
    [] b = "hyprctl" -> HyprName(w)
    [] b = "extension" -> ExtensionName(w)
    [] b = "introspect" -> Introspected(w)
    [] b = "eval" -> EvalName(w)

IsKnown(app) == app \in KnownTerminals
Classify(app) == IF IsKnown(app) \/ app \in WordTerminal THEN "Terminal" ELSE "GraphicalApp"

IsGnome == xdgGnome \/ FreshAddress # {}
Fallback == IF IsGnome THEN "Terminal" ELSE "GraphicalApp"

-----------------------------------------------------------------------------
(* Detection *)

NoLook == [step |-> 0, kind |-> "GraphicalApp", win |-> NoWindow, able |-> {}, calm |-> TRUE]

(* The backends that could name the focused window and never refused. *)
Able == {b \in Range(Backends) : Serves(b) /\ b \notin refused /\ Answer(b, focus) # ""}

(* The backends from this step on that can name it. *)
Awaited(step) ==
  {b \in Range(Backends) : /\ Serves(b) /\ Answer(b, focus) # ""
                           /\ \E i \in DOMAIN Backends : i >= step /\ Backends[i] = b}

(* How the process finds things when it starts. *)
Starts == [desktop : Desktops, addr : 0..1, xdgGnome : BOOLEAN, pgrep : BOOLEAN]

WindowInit(start) ==
  /\ desktop = start.desktop /\ addr = start.addr
  /\ xdgGnome = start.xdgGnome /\ pgrep = start.pgrep
  /\ bus = 1
  /\ focus \in Windows
  /\ flagged = {} /\ refused = {}
  /\ look = [s \in Sinks |-> NoLook]
  /\ upsets = 0

Detect(s) ==
  look' = [look EXCEPT ![s] = [NoLook EXCEPT !.step = 1, !.win = focus, !.able = Able]]

Asks(s, b) == look[s].step \in DOMAIN Backends /\ b = Backends[look[s].step]
Next1(s) == look' = [look EXCEPT ![s].step = @ + 1]
environment == <<desktop, bus, addr, xdgGnome, pgrep, focus>>

Skip(s, b) ==
  /\ Asks(s, b) /\ b \in flagged
  /\ Next1(s)
  /\ UNCHANGED <<environment, flagged, refused, upsets>>

(* The command is missing or exits with an error: run_and_mark_broken. *)
Refused(s, b) ==
  /\ Asks(s, b) /\ b \notin flagged /\ ~Serves(b)
  /\ Next1(s)
  /\ flagged' = flagged \cup {b} /\ refused' = refused \cup {b}
  /\ UNCHANGED <<environment, upsets>>

(* The command could not be run this time. *)
WrongGlitch(s, b) ==
  /\ Asks(s, b) /\ b \notin flagged /\ upsets < MaxUpsets
  /\ upsets' = upsets + 1
  /\ look' = [look EXCEPT ![s].step = @ + 1, ![s].able = @ \ {b}]
  /\ flagged' = flagged \cup {b}
  /\ UNCHANGED <<environment, refused>>

Glitch(s, b) ==
  /\ Asks(s, b) /\ b \notin flagged /\ upsets < MaxUpsets
  /\ upsets' = upsets + 1
  /\ look' = [look EXCEPT ![s].step = @ + 1, ![s].able = @ \ {b}]
  /\ UNCHANGED <<environment, flagged, refused>>

(* It names no window.  Eval alone takes that for a refusal. *)
Nameless(s, b) ==
  /\ Asks(s, b) /\ b \notin flagged /\ Serves(b) /\ Answer(b, focus) = ""
  /\ Next1(s)
  /\ IF b = "eval" THEN flagged' = flagged \cup {b} /\ refused' = refused \cup {b}
     ELSE UNCHANGED <<flagged, refused>>
  /\ UNCHANGED <<environment, upsets>>

(* It names the window: build_window_info. *)
Answered(s, b) ==
  /\ Asks(s, b) /\ b \notin flagged /\ Serves(b) /\ Answer(b, focus) # ""
  /\ look' = [look EXCEPT ![s].step = 0, ![s].kind = Classify(Answer(b, focus))]
  /\ UNCHANGED <<environment, flagged, refused, upsets>>

(* All detection failed. *)
GiveUp(s) ==
  /\ look[s].step = Len(Backends) + 1
  /\ look' = [look EXCEPT ![s].step = 0, ![s].kind = Fallback]
  /\ UNCHANGED <<environment, flagged, refused, upsets>>

Probe(s) ==
  \/ \E b \in Range(Backends) :
       Skip(s, b) \/ Refused(s, b) \/ Glitch(s, b) \/ Nameless(s, b) \/ Answered(s, b)
  \/ GiveUp(s)

(* reset_detection_cache, by start_recording in the daemon.  A detection    *)
(* under way asks those again whose turn is still to come.                  *)
ResetDetectionCache ==
  /\ upsets < MaxUpsets /\ flagged # {} /\ upsets' = upsets + 1
  /\ flagged' = {} /\ refused' = {}
  /\ look' = [s \in Sinks |->
                IF look[s].step = 0 THEN look[s] ELSE [look[s] EXCEPT !.able = @ \cup Awaited(look[s].step)]]
  /\ UNCHANGED environment

-----------------------------------------------------------------------------
(* The user *)

Disturbed == look' = [s \in Sinks |-> [look[s] EXCEPT !.calm = (look[s].step = 0) /\ @]]

ChangeFocus(w) ==
  /\ upsets < MaxUpsets /\ upsets' = upsets + 1
  /\ w # focus /\ focus' = w
  /\ Disturbed
  /\ UNCHANGED <<desktop, bus, addr, xdgGnome, pgrep, flagged, refused>>

(* A new login has a new session bus; the process keeps its environment. *)
Relogin(d) ==
  /\ upsets < MaxUpsets /\ upsets' = upsets + 1
  /\ desktop' = d /\ bus' = bus + 1
  /\ Disturbed
  /\ UNCHANGED <<addr, xdgGnome, pgrep, focus, flagged, refused>>
=============================================================================
