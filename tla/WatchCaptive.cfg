SPECIFICATION FairSpec
CONSTANTS
  r = r
  b1 = b1
  b2 = b2
  deep = deep
  edge = edge
  out = out
  Contacts = {r, b1, b2}
  MapOrder <- MCMapOrder
  TeamOf <- MCTeamOf
  Teams = {"red", "blue"}
  OwnTeam = "red"
  TeamName = "blue"
  Positions = {deep, edge, out}
  Zone = {deep, edge}
  RangeTo <- MCRange
  HighValuePointSet = TRUE
  Scores = {}
  Garbage = {0}
  Captivities <- OneCaught
  Waters <- MCWaters
  SelfPlaces = {}
  None = None
PROPERTY LoneIntruderIsIntercepted
