SPECIFICATION FairSpec
CONSTANTS
  Uris <- PageUris
  Sources <- CaptureSources
  SourceOf <- PageSource
  Texts <- ThreeTexts
  PieceCount <- ThreePieces
  Tags = {}
  Times = {1, 2}
  MonthLength = 3
  ChunkIds = {1, 2, 3}
  Batch = 1
  MaxAttempts = 2
  Swept = {"screen"}
PROPERTIES
  ImplementsMemory
  EveryDocumentSettles
CHECK_DEADLOCK FALSE
