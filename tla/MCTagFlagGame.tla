---------------------------- MODULE MCTagFlagGame ----------------------------
(***************************************************************************)
(* A small field for TLC: a line of zone one (the flag of team one at its   *)
(* left end, one step from the boundary) and zone two (the flag of team two *)
(* at its right end).  Home is within one step of the own flag, so that     *)
(* it reaches over the boundary, as it does with the example configurations *)
(* of the two applications.                                                 *)
(***************************************************************************)
EXTENDS TagFlagGame, TLC

LinePos == 0..4
LineZone == [team \in {"one", "two"} |-> IF team = "one" THEN {1, 2} ELSE {3, 4}]
LineDist == [pq \in LinePos \X LinePos |->
               2 * IF pq[1] >= pq[2] THEN pq[1] - pq[2] ELSE pq[2] - pq[1]]
TwoFlags == {"one", "two"}
TwoFlagOrder == << "one", "two" >>
TwoFlagPos == ("one" :> 1) @@ ("two" :> 4)
TwoFlagRange == ("one" :> 3) @@ ("two" :> 3)

\* A raider of team one, and a defender of team two that stays at its flag.
RaidGroup == (1 :> "one") @@ (2 :> "two")
RaidWaters == (1 :> {1, 3}) @@ (2 :> {4})
===============================================================================
