CONSTANTS
  none = none
  Addresses <- MCAddresses
  NoOne = none
  MinStake = 3
  MaxValidators = 2
  SeedRange = 3
  Stakes <- MCStakes
  Amounts <- MCAmounts
  MaxDelegated = 4
  v = v
  w = w
  z = z
  Candidates <- MCCandidates
  CandidateStake <- MCCandidateStake
  ResponseTimes = {50, 900}
  InvalidPoints = 250
  MaxPenalty = 300
  MinReputation = 100
  GracePeriod = 0
  SomeExperience = 1
  MuchExperience = 2
  Recent = 2
  NotLongAgo = 3
  MaxHeight = 4
  MaxRecords = 3
SPECIFICATION MCSpec
INVARIANTS TypeOK DelegationsKept WalkDividesByStake  ShareByWeight
PROPERTIES  MissNeverHelps
CHECK_DEADLOCK FALSE
