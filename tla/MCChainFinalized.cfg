SPECIFICATION Spec
CONSTANTS
  v = v
  w = w
  none = none
  Blocks <- MCBlocks
  Genesis <- g
  NoBlock = none
  ParentOf <- MCParentOf
  NumberOf <- MCNumberOf
  ValidatorOf <- MCValidatorOf
  StampOf <- MCStampOf
  BodyValid <- MCBodyValid
  StakeOf <- MCStakeOf
  Depth = 1
  BlockTime = 1
  Times <- MCTimes
  MaxChildren = 2
  MaxAborts = 0
PROPERTIES FinalizedKept
