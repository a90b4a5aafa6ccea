SPECIFICATION Spec
CONSTANTS
  r1 = r1
  r2 = r2
  b1 = b1
  b2 = b2
  Defenders = {r1, r2}
  Opponents = {b1, b2}
  Players <- MCPlayers
  NameSum <- MCNameSum
  Ranges = {0, 3, 4}
  Waters <- MCWatersLimit
  CritDist = 3
  GuardDist = 1
  OriginDist = 9
  TaggedLists <- MixedCaptives
  MaxMail = 1
  NoOne = NoOne
  NoReport = NoReport
  NoNews = NoNews
INVARIANT TypeOK
INVARIANT OppListIsAMap
PROPERTY AttackerIsInView
PROPERTY PriorityStandsFirm
