SPECIFICATION FairSpec
CONSTANTS
  Calls <- CallSlots
  Disposals <- DisposeSlots
  Loads <- Contexts
  None = None
  MaxLate = 2
INVARIANTS
  NoUseAfterFree
  IdleTimerOnlyWhenIdle
  FreedOnceClosed
PROPERTIES
  EveryCallSettles
  UnloadedWhenIdle
CHECK_DEADLOCK FALSE
