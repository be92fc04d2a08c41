SPECIFICATION Spec
CONSTANTS
  Sinks = {s1, s2}
  s1 = s1
  s2 = s2
  Windows <- SomeWindows
  WindowList <- SomeList
  FieldOrder <- TestOrder
  KnownTerminals = {"foot"}
  WordTerminal = {"my-terminal"}
  Desktops = {"sway", "gnome40", "gnome45 with extension"}
  MaxUpsets = 3
  Inputs <- SomeInputs
  Setups <- SomeSetups
  NoKeysym = {"?"}
INVARIANTS TypeOK TypedInOrder CleanKeys PasteFits PasteIsOurs SurvivesRelogin
SYMMETRY SinkSymmetry
CHECK_DEADLOCK FALSE
