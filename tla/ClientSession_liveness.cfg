SPECIFICATION FairSpec
CONSTANTS
  Retries = 2
  MaxSend = 1
  MaxRecv = 2
  MaxFailures = 1
  WireCap = 1
  LossKinds = {"fin", "rst", "timeout", "stall", "cut"}
PROPERTIES LossIsNoticed StackIsDrained EndIsServed
CHECK_DEADLOCK FALSE
