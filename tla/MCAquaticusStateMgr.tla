-------------------------- MODULE MCAquaticusStateMgr --------------------------
(***************************************************************************)
(* A red vehicle, its team mate r and opponents of the blue team.           *)
(***************************************************************************)
EXTENDS AquaticusStateMgr, TLC

CONSTANTS r, b1, b2, deep, edge, out

MCTeamOf == r :> "red" @@ b1 :> "blue" @@ b2 :> "blue"
MCMapOrder == b1 :> 1 @@ b2 :> 2 @@ r :> 3
MCRange == deep :> 1 @@ edge :> 2 @@ out :> 3

\* The team mate is always inside, the opponents come and go.
MCWaters == r :> {edge} @@ b1 :> {deep, edge, out} @@ b2 :> {deep, edge, out}

Free == {{}}
OneCaught == {{}, {b1}}
AnyCaught == {{}, {b1}, {b2}, {b1, b2}}
===============================================================================
