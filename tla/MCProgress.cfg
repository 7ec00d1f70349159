SPECIFICATION PartsSpec
CONSTANTS
  Threads = {UI, 1, 2, 3}
  Spurious = TRUE
  UI = UI
  MaxFrames = 3
  p = p
  q = q
  server = server
  none = none
PROPERTIES NoSignalLost AnswersCome BothSwitch NegotiationEnds
