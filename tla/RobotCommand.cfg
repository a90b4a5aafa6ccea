SPECIFICATION CommandSpec
CONSTANTS
  Sentences = {"ROBOT ATTACK", "ROBOT FOLLOW"}
  JustPublish = {"ROBOT FOLLOW"}
  Heard = {"ROBOT ATTACK", "ROBOT FOLLOW", "YES", "NO"}
  ConfirmWord <- Yes
  DeclineWord <- No
  Nothing = Nothing
  ActionOf <- TwoActions
  Opponents = {"red_one"}
  Area = {"inside"}
  NoReport = NoReport
  Places = {"inside", "outside"}
  MaxPosts = 1
  MaxTold = 2
  MaxOrders = 2
INVARIANTS
  UnreliableRobotInverts
PROPERTIES
  ImplementsConfirmation
  IntrusionsAreAnswered
