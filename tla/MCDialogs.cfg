\* A server that talks on: all kinds of frames, three of them, and three clicks.
SPECIFICATION PartsSpec
CONSTANTS
  Kinds = {"box", "yesno", "login", "input", "generic", "save", "open", "error", "command", "environment", "query", "unknown", "text", "run", "post", "cookie", "cookieChunk", "quit"}
  Methods = {"SHA1", "PLAIN"}
  Sequential = FALSE
  MaxFrames = 3
  MaxClicks = 3
  left = left
  right = right
  Strangers = {stranger}
  server = server
  none = none
  MaxSent = 1
  MaxOthers = 1
INVARIANTS AnswersFit EndsCleanly PeersWereIntroduced FirstBoxDecides
SYMMETRY Symmetry
CHECK_DEADLOCK FALSE
