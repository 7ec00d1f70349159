\* Five threads at a lock; three nodes, and one object of three that the list does not destroy;
\* the bounds of sound are in MCThreads.
SPECIFICATION PartsSpec
CONSTANTS
  Threads = {UI, 1, 2, 3, 4}
  Spurious = FALSE
  UI = UI
  MaxFrames = 4
  Descriptors = {1, 2, 3, 4, 5}
  Addresses = 2
  Retries = 3
  MaxLosses = 2
  MaxFiles = 2
  ServerFrames = 2
  UserMessages = 2
  Nodes = {n1, n2, n3}
  Objects = {a, b, c}
  NoClean = {c}
  AutoClean = TRUE
  MaxIndex = 3
  NULL = NULL
INVARIANTS EachRunsItsOwn ConnectionsAreSound LayersAgree SoundIsAccountedFor
PROPERTIES IsMutex IsObjectList
