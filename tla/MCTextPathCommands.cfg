SPECIFICATION Spec
CONSTANTS
  Words <- MCWords
  Nothing = ""
  Annotation = "[music]"
  Noted <- MCNoted
  Near <- MCNear
  Suggest <- MCSuggest
  Languages = {"en", "he"}
  Unknown = ""
  Dictionaries = {"en", "he"}
  Whitelist = {"he"}
  Blank = "whitespace"
  Builtin <- MCBuiltin
  Inserted <- MCInserted
  Custom <- MCCustom
  Phrases <- MCPhrases
  Overrides <- MCOverrides
  Added = {}
  Fillers <- MCFillers
  AddedFillers = {}
  Backend = "hybrid"
  Utterances <- MCUtterances
  Lists <- MCLists
  MinConfidence = 1
  Count = 3
INVARIANT CommandsTakeEffect
