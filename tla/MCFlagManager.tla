---------------------------- MODULE MCFlagManager ----------------------------
(***************************************************************************)
(* Small fields for TLC: a line with the flag of team one at its left end   *)
(* and that of team two at its right end.                                   *)
(***************************************************************************)
EXTENDS FlagManager, TLC

LinePos == 0..4
LineDist == [pq \in LinePos \X LinePos |->
               IF pq[1] >= pq[2] THEN pq[1] - pq[2] ELSE pq[2] - pq[1]]

\* A neutral flag lies next to the flag of team two, so that a raider of team one
\* may take two flags at once.
ThreeFlags == {"one", "two", "wild"}
ThreeFlagOrder == << "two", "wild", "one" >>
ThreeFlagPos == ("one" :> 0) @@ ("two" :> 4) @@ ("wild" :> 3)
ThreeFlagRange == ("one" :> 2) @@ ("two" :> 1) @@ ("wild" :> 1)

\* One vehicle of each team, at home or at the flags of the others.
RivalGroup == (1 :> "one") @@ (2 :> "two")
RivalWaters == (1 :> {0, 4}) @@ (2 :> {1, 4})
===============================================================================
