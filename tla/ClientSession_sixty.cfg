SPECIFICATION Spec
CONSTANTS
  Retries = 20
  MaxSend = 0
  MaxRecv = 1
  MaxFailures = 1
  WireCap = 1
  LossKinds = {"fin"}
INVARIANT SixtyRetries
CHECK_DEADLOCK FALSE
