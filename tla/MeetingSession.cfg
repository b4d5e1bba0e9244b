SPECIFICATION FairSpec
CONSTANTS
  CandidateSeconds = 1
  GraceSeconds = 1
  EndSilenceSeconds = 2
  QuietReArmSeconds = 2
  VerifySlack = 1
  MaxSeconds = 5
  Backoff <- GrowingBackoff
  Gaps = {1}
  None = None
INVARIANTS
  RecorderHasAnOwner
  ManualIsVerified
  StopIsOffered
  AnnouncedAtMostTwice
PROPERTIES
  EverySessionEnds
