SPECIFICATION FairSpec
CONSTANTS
  Commands <- FewCommands
  Scale = 2
  MaxRudder = 2
  MaxThrust = 1
  Threshold = 1
  Grace = 1
INVARIANTS
  TypeOK
  StaleModeStopsMotors
PROPERTIES
  SwitchStopsMotors
  TurnIsKept
  SilenceStopsMotors
