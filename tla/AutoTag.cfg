SPECIFICATION AutoFairSpec
CONSTANTS
  Vehicles = {1, 2}
  Group <- ChaseGroup
  Pos <- LinePos
  Waters <- ChaseWaters
  Zone <- LineZone
  Dist <- LineDist
  TagRange = 1
  TagMinInterval = 2
  TagDuration = 2
  Elapse = {0, 1}
  MaxPending = 1
  NoRecord = NoRecord
  Chaser = 1
  Ignored = {}
  Origin = 0
  MinRange = 0
  MaxRange = 1
  MaxEvents = 1
  ZoneNames <- FlagNames
  ZoneGroup <- FlagGroup
  ZoneArea <- FlagArea
PROPERTIES
  TagsAreReleased
  ReachedEnemiesAreTagged
  CaptivesAreFreedAtHome
  DistantChasersFallSilent
