CONSTANTS
  u1 = u1
  u2 = u2
  raw = raw
  plain = plain
  other = other
  Garbled = other
  None = None
  Uris = {u1, u2}
  Times = {1, 2}
  MaxDocs = 2
  MaxKills = 1
  MaxEdits = 1
  Split = TRUE
  Texts <- MCTexts
  Originals = {raw, other}
  Reassembled <- MCReassembled
  RecentMax = 3
  RecentPage = 2
  SearchPage = 2
  PerDocCap = 2
  RankBase = 60
  Hour = 1
  DayHours = 2
  MonthDays = 3
  Absent = Absent
  ChunkMax = 6
  Overlap = 2
  Newline = Newline
  Heartbeat = 2
  GapFactor = 2
  NoiseParams = {"hl"}
  Furniture = {"back"}
  Nowhere = Nowhere
  SampleCap = 2
  MinSpeech = 3
  Threshold = 6
  Margin = 2
  Me = Me
  Nobody = Nobody
SPECIFICATION Spec
INVARIANTS OpensComplete ArchiveIsSnapshot RestoreReturnsDecoded
PROPERTIES NewestSurvives VersionedOpens
CHECK_DEADLOCK FALSE
