SPECIFICATION ScreenFairSpec
CONSTANTS
  Windows = {"page", "note"}
  WebContent = {"page"}
  Texts = {"old", "new", "blank"}
  Unusable = {"blank"}
  Capacity = 1
  MaxWindows = 2
  HourLength = 3
  MaxTime = 3
  MaxRestarts = 1
INVARIANTS
  EveryCaptureAccounted
PROPERTIES
  EveryTickReports
CHECK_DEADLOCK FALSE
