SPECIFICATION FairSpec
CONSTANTS
  r = r
  b1 = b1
  b2 = b2
  deep = deep
  edge = edge
  out = out
  Contacts = {r, b1, b2}
  MapOrder <- MCMapOrder
  TeamOf <- MCTeamOf
  Teams = {"red", "blue"}
  OwnTeam = "red"
  TeamName = "blue"
  Positions = {deep, edge, out}
  Zone = {deep, edge}
  RangeTo <- MCRange
  HighValuePointSet = TRUE
  Scores = {0}
  Garbage = {0}
  Captivities <- AnyCaught
  Waters <- MCWaters
  SelfPlaces = {edge}
  None = None
INVARIANT TypeOK
INVARIANT OnlyEnemiesAreIntercepted
PROPERTY NearestIsIntercepted
PROPERTY AlarmSettles
PROPERTY MemoryClears
