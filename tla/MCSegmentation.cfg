SPECIFICATION Spec
CHECK_DEADLOCK FALSE
CONSTANTS
  Silence = 3
  MinSpeech = 2
  Target = 3
  MaxChunk = 6
  InitialGap = 3
  MinGap = 1
  PreSpeech = 2
  PostSpeech = 2
  Points <- MCPoints
  Length = 10
  Slack = 1
INVARIANTS TypeOK SpeechKept CutInPause NotHeldBack
