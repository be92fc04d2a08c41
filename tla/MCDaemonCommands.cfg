SPECIFICATION FairSpec
CONSTANTS
  c1 = c1
  c2 = c2
  c3 = c3
  Clients = {c1, c2, c3}
  May <- MayCommand
  Models = {"tiny.en", "tiny"}
  Languages = {"auto", "en"}
  FanOut = TRUE
  Resolve <- MCResolve
  EnglishOf <- MCEnglishVariant
  Correctors = {t1}
  Symspell = FALSE
INVARIANTS TypeOK OneMicrophone SettingsAgree
PROPERTY CommandsAnswered
