------------------------------ MODULE MCDefenseMulti ------------------------------
(***************************************************************************)
(* Two defenders, red_one and red_two, and opponents of the blue team.      *)
(***************************************************************************)
EXTENDS DefenseMulti, TLC

CONSTANTS r1, r2, b1, b2

\* ASCII sums of "one" and "two", the rest of the names being the same.
MCNameSum == r1 :> 322 @@ r2 :> 346

\* In the order of "players": blue_one before blue_two.
MCPlayers == << b1, b2 >>

\* b1 comes and goes, b2 stays near the flag, or at the very limit.
MCWaters == b1 :> {1, 4} @@ b2 :> {1}
MCWatersNear == b1 :> {1} @@ b2 :> {1}
MCWatersLimit == b1 :> {0, 4} @@ b2 :> {3}

\* No captives, or captives in the order of TAGGED_VEHICLES: b1, b2, r1, r2.
NoCaptives == {<< >>}
MixedCaptives == {<< >>, << b2, r1 >>}
OneCaptive == {<< >>, << b1 >>}
===============================================================================
