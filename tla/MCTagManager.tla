----------------------------- MODULE MCTagManager -----------------------------
(***************************************************************************)
(* Small fields for TLC.  The field is a line: zone one, zone two next to   *)
(* it, and the water outside.                                               *)
(***************************************************************************)
EXTENDS TagManager, TLC

LinePos == 0..3
LineZone == [team \in {"one", "two"} |-> IF team = "one" THEN {0, 1} ELSE {2}]
LineDist == [pq \in LinePos \X LinePos |->
               IF pq[1] >= pq[2] THEN pq[1] - pq[2] ELSE pq[2] - pq[1]]

\* A raider of each team, one of which also leaves the field, and a vehicle of no
\* team that stays within range of both and as near to one of them as its enemy.
GuestGroup == (1 :> "none") @@ (2 :> "one") @@ (3 :> "two")
GuestWaters == (1 :> {1}) @@ (2 :> {0, 2, 3}) @@ (3 :> {1, 2})
===============================================================================
