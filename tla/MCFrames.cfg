SPECIFICATION PartsSpec
CONSTANTS
  WORD = 2
  FILE_MESSAGE = 4
  SLACK = 3
  Shapes <- FrameShapes
  Patient = TRUE
  MaxFrames = 3
  MaxBreaks = 1
INVARIANTS OpenedInTime FramesStayApart FileGetsItsFrame EncryptedArriveWhole RowsShowWhatWasSent
CHECK_DEADLOCK FALSE
