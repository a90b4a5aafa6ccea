------------------------------- MODULE MCAutoTag -------------------------------
(***************************************************************************)
(* One chaser of team one and one runner of team two for TLC.  The field is *)
(* a line: zone one, zone two next to it, each with its flag.               *)
(***************************************************************************)
EXTENDS AutoTag, TLC

LinePos == 0..2
LineZone == ("one" :> {0, 1}) @@ ("two" :> {2})
LineDist == [pq \in LinePos \X LinePos |->
               IF pq[1] >= pq[2] THEN pq[1] - pq[2] ELSE pq[2] - pq[1]]

ChaseGroup == (1 :> "one") @@ (2 :> "two")
ChaseWaters == (1 :> {0, 2}) @@ (2 :> {1, 2})

FlagNames == {"one_untag", "two_untag"}
FlagGroup == ("one_untag" :> "one") @@ ("two_untag" :> "two")
FlagArea == ("one_untag" :> {0}) @@ ("two_untag" :> {2})
===============================================================================
