\* Three variables, two numbers and four texts; the other bounds are in MCWindows.
SPECIFICATION PartsSpec
CONSTANTS
  Variables = {1, 2, 3}
  Numbers = {0, 1}
  Letter = "a"
  Notebooks <- TheNotebooks
  Registries <- TheRegistries
  Machines <- TheMachines
  label = label
  image = image
  eventbox = eventbox
  button = button
INVARIANTS TabsFollowPages CrashIsExplained ControlsAreSound AdjustmentsMoveTheirBar OperandsAreKept CallsAreSound
PROPERTY NamesKeepTheirCode
CHECK_DEADLOCK FALSE
