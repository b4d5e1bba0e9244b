SPECIFICATION AnalyticsSpec
CONSTANTS
  InstallIds = {id1, id2, id3}
  Events = {"search_memory_called", "unlisted"}
  Values = {"text", "word"}
  MaxPending = 2
  MaxEras = 2
  Null = Null
PROPERTIES
  OffMeansOff
  CrashReportedOnce
