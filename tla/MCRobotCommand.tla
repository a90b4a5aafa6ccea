---------------------------- MODULE MCRobotCommand ----------------------------
(***************************************************************************)
(* One robot, one opponent, and two commands: ATTACK, which has to be       *)
(* confirmed, and TRAIL, which has not.                                     *)
(***************************************************************************)
EXTENDS RobotCommand, TLC

TwoActions == ("ROBOT ATTACK" :> "ATTACK") @@ ("ROBOT FOLLOW" :> "TRAIL")
Yes == "ROBOT ATTACK" :> "YES"
No == "ROBOT ATTACK" :> "NO"
===============================================================================
