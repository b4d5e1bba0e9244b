SPECIFICATION Spec
CONSTANTS
  None = None
  MaxTicks = 2
  MaxVersion = 2
  MaxTime = 2
  MaxShells = 1
  MaxRestarts = 1
  Window = 2
  SetupExits = {1}
  Missing = Missing
  Torn = Torn
  Garbage = Garbage
  Nothing = Nothing
  Blank = Blank
  BundleIds = {b1, b2}
  Patterns = {p1, p2}
PROPERTIES OneAttemptPerWindow MeetingLeftAlone EveryUpgradeSettles
