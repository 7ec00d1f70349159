SPECIFICATION Spec
CONSTANTS
  Retries = 2
  MaxSend = 2
  MaxRecv = 2
  MaxFailures = 2
  WireCap = 2
  LossKinds = {"fin", "rst", "timeout", "stall", "cut"}
INVARIANTS TypeOK SentOnceInOrder NoGapSinceRestore SignalPerFrame GiveUpIsShown
PROPERTIES UpRefinement DownRefinement NoDialAfterRefusal
CHECK_DEADLOCK FALSE
