SPECIFICATION GameFairSpec
CONSTANTS
  Vehicles = {1, 2}
  Group <- RaidGroup
  MixedCase = {2}
  Pos <- LinePos
  Waters <- RaidWaters
  Zone <- LineZone
  Dist <- LineDist
  TagRange = 2
  TagMinInterval = 0
  TagDuration = 1
  Elapse = {0}
  MaxPending = 1
  Flags <- TwoFlags
  FlagOrder <- TwoFlagOrder
  FlagPos <- TwoFlagPos
  FlagRange <- TwoFlagRange
  NearBuffer = 0
  ScoreGap = 0
  MaxGrabs = 1
  MaxInTransit = 2
  Nobody = Nobody
  NoFlag = NoFlag
  NoRecord = NoRecord
INVARIANTS
  ListCatchesUp
  CaptivesAreListed
PROPERTIES
  ReturnIsRewarded
