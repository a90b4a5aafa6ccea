SPECIFICATION FlagFairSpec
CONSTANTS
  Vehicles = {1, 2}
  Group <- RivalGroup
  MixedCase = {}
  Pos <- LinePos
  Waters <- RivalWaters
  Dist <- LineDist
  Flags <- ThreeFlags
  FlagOrder <- ThreeFlagOrder
  FlagPos <- ThreeFlagPos
  FlagRange <- ThreeFlagRange
  NearBuffer = 1
  ScoreGap = 2
  Elapse = {1, 3}
  MaxGrabs = 2
  Nobody = Nobody
  NoFlag = NoFlag
  NoRecord = NoRecord
INVARIANTS
  FlagTypeOK
  PostedScoreIsCurrent
  HasFlagIsTold
  GoalsCostGrabs
  LeaderIsAhead
PROPERTIES
  SummaryFollowsOwners
  CarriersScoreAtHome
