----------------------------- MODULE MCInjection -----------------------------
(* Injection on small instances. *)
EXTENDS Injection

CONSTANTS s1, s2
SinkSymmetry == Permutations(Sinks)

Terminal == [app |-> "foot", class |-> ""]
Browser == [app |-> "", class |-> "firefox"]
Editor == [app |-> "gedit", class |-> "my-terminal"]
SomeWindows == {Terminal, Browser, Editor}
SomeList == <<Browser, Terminal, Editor>>
TestOrder == <<"app-id", "wm-class", "has-focus">>   \* that of the tests

Hello == Text(<<"a", "?", " ">>)
DeleteWord == Combo(<<"ctrl", "backspace">>)
Undo == Combo(<<"ctrl", "z">>)   \* z is no key of the portal's table
SomeInputs == {<<Hello>>, <<Undo, DeleteWord>>}

Start(d, a, x, p) == [desktop |-> d, addr |-> a, xdgGnome |-> x, pgrep |-> p]
Setting(m, b, p, t) == [method |-> m, backend |-> b, pasteKey |-> p, tools |-> t]
Paste == Setting("clipboard", "auto", AutoKey, {"wl-copy", "wtype"})
Type == Setting("direct", "auto", <<"ctrl", "v">>, {"wtype", "ydotool"})

SomeSetups ==
  {[start |-> Start("gnome45 with extension", 1, TRUE, TRUE), settings |-> Paste],
   [start |-> Start("gnome40", 1, TRUE, TRUE), settings |-> Paste],
   [start |-> Start("sway", 1, FALSE, TRUE), settings |-> Setting("clipboard", "wtype", AutoKey, {"wl-copy", "wtype"})],
   [start |-> Start("gnome40", 0, FALSE, TRUE), settings |-> Type],
   [start |-> Start("gnome40", 1, FALSE, FALSE), settings |-> Setting("direct", "portal", <<"ctrl", "v">>, {})],
   [start |-> Start("sway", 1, FALSE, TRUE), settings |-> Setting("clipboard", "ydotool", <<"shift", "insert">>, {"ydotool"})]}
=============================================================================
