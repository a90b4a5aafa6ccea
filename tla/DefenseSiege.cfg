SPECIFICATION FairSpec
CONSTANTS
  r1 = r1
  r2 = r2
  b1 = b1
  b2 = b2
  Defenders = {r1, r2}
  Opponents = {b1, b2}
  Players <- MCPlayers
  NameSum <- MCNameSum
  Ranges = {1, 4}
  Waters <- MCWaters
  CritDist = 3
  GuardDist = 1
  OriginDist = 9
  TaggedLists <- NoCaptives
  MaxMail = 1
  NoOne = NoOne
  NoReport = NoReport
  NoNews = NoNews
PROPERTY DefendersSplit
