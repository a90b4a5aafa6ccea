-------------------------- MODULE ZoneTrackOpponents --------------------------
(***************************************************************************)
(* pZoneTrackOpponents aboard a robot: at every Iterate it says AGGRESSIVE  *)
(* once for each opponent that was last reported in the zone it watches, or *)
(* says that there is none.  Whom to intercept is chosen only if a high     *)
(* value point is configured; the choice is that of pAquaticusStateMgr.     *)
(*                                                                          *)
(* The zone is what the comparison of the four bearings makes of the four   *)
(* corners.  The robots of aquaticus-USMA configure a rectangle instead and *)
(* leave the corners uninitialised, so it is no set in particular.          *)
(***************************************************************************)
EXTENDS Naturals, FiniteSets

CONSTANTS
  Opponents,        \* contacts whose name contains m_op_for
  Area,             \* positions between the bearings of the corners
  NoReport          \* m_map_node_records has no entry

VARIABLE reported   \* m_map_node_records: the last position of each opponent

TrackInit == reported = [o \in Opponents |-> NoReport]

HandleMailNodeReport(o, p) == reported' = [reported EXCEPT ![o] = p]

Intruding == {o \in Opponents : reported[o] \in Area}

\* What an Iterate says of AGGRESSIVE, in order.
Verdicts ==
  IF Intruding = {} THEN << "FALSE" >>
  ELSE [i \in 1..Cardinality(Intruding) |-> "TRUE"]
===============================================================================
