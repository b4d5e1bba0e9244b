SPECIFICATION FairSpec
CONSTANTS
  Cooldown = 3
  MarkerWrites = {TRUE}
  MaxChain = 4
  None = None
INVARIANTS
  EarlyWorkIsDone
PROPERTIES
  OneRestartPerCooldown
  EveryEndCompletes
  ImportRecovers
