------------------------------ MODULE RangeEvent ------------------------------
(***************************************************************************)
(* pRangeEvent aboard one vehicle, the host: a message for every contact    *)
(* that is within range, once per Iterate.  It is how a robot asks for tags *)
(* (event_var = TAG_REQUEST=vname=$[SELFVNAME]).                            *)
(*                                                                          *)
(* A contact is examined when its report arrives, against the position the  *)
(* host had at that time, and is kept until its next report: neither the    *)
(* host's own moves nor the silence of the contact removes it.              *)
(***************************************************************************)
EXTENDS Integers, FiniteSets

CONSTANTS
  Contacts,         \* the other vehicles
  Ignored,          \* those of the group named by ignore_group
  Pos, Dist,        \* positions, and the distance between two of them
  Origin,           \* the position 0,0
  MinRange,         \* min_range
  MaxRange,         \* max_range
  MaxEvents         \* bound: messages that wait for their reader

VARIABLES
  own,              \* m_vx, m_vy: the host as it last reported itself
  in_range,         \* the keys of m_map_v_records
  events            \* messages posted that nobody has read yet

range_vars == << own, in_range, events >>

\* m_vx and m_vy are 0 before the first report of the host.
RangeInit ==
  /\ own = Origin
  /\ in_range = {}
  /\ events = 0

Within(p, q) == Dist[<<p, q>>] \in MinRange..MaxRange

\* Bug: a contact that has left is not taken off the list.
OnNodeReport_Bug(v, p) ==
  /\ v \notin Ignored
  /\ Within(own, p)
  /\ in_range' = in_range \cup {v}
  /\ UNCHANGED << own, events >>

\* Contact v reports from p.
OnNodeReport(v, p) ==
  /\ v \notin Ignored
  /\ in_range' = IF Within(own, p) THEN in_range \cup {v} ELSE in_range \ {v}
  /\ UNCHANGED << own, events >>

OnNodeReportLocal(p) ==
  /\ own' = p
  /\ UNCHANGED << in_range, events >>

\* Iterate.  The messages all read alike; those above the bound are left out.
PublishEvents ==
  /\ in_range # {}
  /\ LET posted == events + Cardinality(in_range)
     IN  events' = IF posted < MaxEvents THEN posted ELSE MaxEvents
  /\ UNCHANGED << own, in_range >>

\* The reader of the messages takes one.
TakeEvent ==
  /\ events > 0
  /\ events' = events - 1
  /\ UNCHANGED << own, in_range >>
===============================================================================
