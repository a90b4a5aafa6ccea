------------------------------- MODULE ZoneEvent -------------------------------
(***************************************************************************)
(* uFldZoneEvent: each time a vehicle reports from a zone of its group, the *)
(* posts of that zone are made for it, whatever state the vehicle is in.    *)
(* Around the flag they are UNTAG_REQUEST=vname=$[VNAME].                   *)
(*                                                                          *)
(* NODE_REPORTs are handled by the thread of an active queue, apart from    *)
(* the mail and the Iterate of the application.  The list of the vehicles   *)
(* in zones is left out: nothing but the report for the screen reads it.    *)
(***************************************************************************)
CONSTANTS
  ZoneNames,        \* names of the zones
  ZoneGroup,        \* m_zones_group
  ZoneArea          \* m_zones

VARIABLE zone_posts \* posts nobody has read yet, one for each vehicle and zone

ZoneInit == zone_posts = {}

\* Bug: the vehicles served are the enemies of the zone's group.
CheckedZones_Bug(group) == {z \in ZoneNames : ZoneGroup[z] # group}

\* The zones that a vehicle of this group is looked up in.
CheckedZones(group) == {z \in ZoneNames : ZoneGroup[z] = group}

\* Vehicle v of the given group reports from p.
OnNodeReport(v, group, p) ==
  zone_posts' =
    zone_posts \cup ({z \in CheckedZones(group) : p \in ZoneArea[z]} \X {v})

\* The reader of the posts takes one.
TakePost(z, v) ==
  /\ <<z, v>> \in zone_posts
  /\ zone_posts' = zone_posts \ {<<z, v>>}
===============================================================================
