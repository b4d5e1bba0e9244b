SPECIFICATION Spec
CONSTANTS
  Uris <- PageUris
  Sources <- CaptureSources
  SourceOf <- PageSource
  Texts <- TwoTexts
  PieceCount <- TwoPieces
  Tags = {"tag"}
  Times = {1, 2}
  MonthLength = 3
  ChunkIds = {1, 2, 3}
  Batch = 2
  MaxAttempts = 2
  Swept = {"screen"}
INVARIANTS
  DoneIffVector
  ChunksMatchDocuments
  GivenUpOnItsOwn
PROPERTIES
  NewestVersionWins
  TagsAccumulate
CHECK_DEADLOCK FALSE
