SPECIFICATION FairSpec
CONSTANTS
  MaxMeetings = 3
  MaxAttempts = 1
  Capacity = 2
  Writes = {TRUE, FALSE}
  MaxTrouble = 2
  None = None
INVARIANTS
  RecordingIsKept
  TranscriptIsKept
  HandledOnce
PROPERTIES
  EveryMeetingSettles
CHECK_DEADLOCK FALSE
