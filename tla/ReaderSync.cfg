SPECIFICATION FairSpec
CONSTANTS
  Readers <- Browser
  Profiles <- BrowserProfiles
  ReaderOf <- ProfileReader
  Urls = {"page"}
  TicksPerSecond = 2
  BackfillSeconds = 1
  MaxClock = 5
  None = None
INVARIANTS
  ReadUpToWatermark
PROPERTIES
  WatermarkNeverRetreats
  EveryVisitIsRead
