SPECIFICATION Spec
CONSTANTS
  Vehicles = {1, 2, 3}
  Group <- GuestGroup
  Pos <- LinePos
  Waters <- GuestWaters
  Zone <- LineZone
  Dist <- LineDist
  TagRange = 1
  TagMinInterval = 1
  TagDuration = 2
  Elapse = {1}
  MaxPending = 2
  NoRecord = NoRecord
INVARIANTS
  TypeOK
  TagBookkeeping
  NoOverdueTag
  FieldIsPoliced
  TagsAreAnnounced
PROPERTIES
  CaptivesDoNotTag
  ImplementsTagRules
  CanTagAgrees
