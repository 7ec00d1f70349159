SPECIFICATION Spec
CONSTANTS
  BIG_MESSAGE = 524287
  CHUNK_SIZE = 131071
  RBUF_SIZE = 1048575
  Messages <- PlainMessages
  Secured = FALSE
  Realtime = TRUE
  Drift <- Byte
  MaxSends = 2
INVARIANT BigMessageIsDone
CHECK_DEADLOCK FALSE
