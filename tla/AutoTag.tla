-------------------------------- MODULE AutoTag --------------------------------
(***************************************************************************)
(* A game in which nobody presses a button, as in the mission               *)
(* demo_competition: the chaser's pRangeEvent requests the tags, the        *)
(* shoreside's uFldZoneEvent requests the untags, and uFldTagManager, also  *)
(* on the shoreside, decides.  Vehicles move; what each application knows   *)
(* of them are the reports it has been handed.                              *)
(***************************************************************************)
EXTENDS TagManager

CONSTANTS
  Chaser,           \* the vehicle with a pRangeEvent
  Ignored, Origin, MinRange, MaxRange, MaxEvents,   \* of RangeEvent
  ZoneNames, ZoneGroup, ZoneArea                    \* of ZoneEvent

ASSUME ChaserAssumption == Chaser \in Vehicles /\ Ignored \subseteq Vehicles
ASSUME RangeAssumption ==
  /\ Origin \in Pos
  /\ MinRange \in Nat /\ MaxRange \in Nat /\ MaxEvents \in Nat

VARIABLES
  place,            \* where the vehicles are
  own, in_range, events,       \* pRangeEvent of the chaser
  zone_posts        \* UNTAG_REQUESTs of uFldZoneEvent

R == INSTANCE RangeEvent WITH Contacts <- Vehicles \ {Chaser}
Z == INSTANCE ZoneEvent

robot_vars == << own, in_range, events >>
auto_vars == << vars, place, robot_vars, zone_posts >>

AutoInit ==
  /\ Init
  /\ place \in [Vehicles -> Pos]
  /\ \A v \in Vehicles : place[v] \in Waters[v]
  /\ R!RangeInit
  /\ Z!ZoneInit

-------------------------------------------------------------------------------
(***************************************************************************)
(* The vehicles.                                                            *)
(***************************************************************************)
Sail(v, p) ==
  /\ place' = [place EXCEPT ![v] = p]
  /\ UNCHANGED << vars, robot_vars, zone_posts >>

\* A NODE_REPORT reaches the chaser's pRangeEvent.
ChaserHears(v) ==
  /\ IF v = Chaser THEN R!OnNodeReportLocal(place[v]) ELSE R!OnNodeReport(v, place[v])
  /\ UNCHANGED << vars, place, zone_posts >>

ChaserPublishes ==
  /\ R!PublishEvents
  /\ UNCHANGED << vars, place, zone_posts >>

-------------------------------------------------------------------------------
(***************************************************************************)
(* The shoreside.                                                           *)
(***************************************************************************)

\* A NODE_REPORT reaches uFldZoneEvent.
ZoneHears(v) ==
  /\ Z!OnNodeReport(v, Group[v], place[v])
  /\ UNCHANGED << vars, place, robot_vars >>

\* A NODE_REPORT reaches uFldTagManager.
RefereeHears(v) ==
  /\ NodeReport(v, place[v])
  /\ UNCHANGED << place, robot_vars, zone_posts >>

\* uFldTagManager is handed a TAG_REQUEST of the chaser.
RefereeTakesRequest ==
  /\ R!TakeEvent
  /\ \/ TagRequest(Chaser)
     \/ pass = "idle" /\ Chaser \notin Known /\ UNCHANGED vars
  /\ UNCHANGED << place, zone_posts >>

\* uFldTagManager is handed an UNTAG_REQUEST of uFldZoneEvent.
RefereeTakesUntag(z, v) ==
  /\ Z!TakePost(z, v)
  /\ \/ UntagRequest(v)
     \/ pass = "idle" /\ ~(v \in Known /\ nowtagged[v]) /\ UNCHANGED vars
  /\ UNCHANGED << place, robot_vars >>

RefereeIterates ==
  /\ Iterate
  /\ UNCHANGED << place, robot_vars, zone_posts >>

AutoNext ==
  \/ \E v \in Vehicles : \/ \E p \in Waters[v] : Sail(v, p)
                         \/ ChaserHears(v)
                         \/ ZoneHears(v)
                         \/ RefereeHears(v)
                         \/ \E z \in ZoneNames : RefereeTakesUntag(z, v)
  \/ ChaserPublishes
  \/ RefereeTakesRequest
  \/ RefereeIterates

AutoSpec == AutoInit /\ [][AutoNext]_auto_vars

\* Reports keep arriving, MOOS calls every Iterate at its AppTick, and hands an
\* application its mail before each of them.  Nobody has to sail anywhere.
AutoFairSpec ==
  /\ AutoSpec
  /\ \A v \in Vehicles : /\ WF_auto_vars(ChaserHears(v))
                         /\ WF_auto_vars(ZoneHears(v))
                         /\ SF_auto_vars(RefereeHears(v))
                         /\ SF_auto_vars(\E z \in ZoneNames : RefereeTakesUntag(z, v))
  /\ WF_auto_vars(ChaserPublishes)
  /\ SF_auto_vars(RefereeTakesRequest)
  /\ WF_auto_vars(RefereeIterates)
-------------------------------------------------------------------------------
(***************************************************************************)
(* Properties.                                                              *)
(***************************************************************************)

AtHome(v) ==
  /\ InZone(Group[v], place[v])
  /\ \E z \in ZoneNames : ZoneGroup[z] = Group[v] /\ place[v] \in ZoneArea[z]

\* The chaser, free and in its zone, has enemy t within reach there.
Reached(t) ==
  LET chaser == place[Chaser]
      team   == Group[Chaser]
  IN  /\ ~nowtagged[Chaser]
      /\ t \notin Ignored /\ Group[t] # team
      /\ InZone(team, chaser) /\ InZone(team, place[t])
      /\ R!Within(chaser, place[t]) /\ Dist[<<chaser, place[t]>>] <= TagRange

\* An enemy that stays within reach is tagged, however many requests pRangeEvent
\* makes before the chaser may tag again.
ReachedEnemiesAreTagged ==
  TimePasses =>
    []<>((\E t \in Vehicles : Reached(t)) =>
           \E t \in Vehicles : Reached(t) /\ nowtagged[t])

\* A vehicle that stays around its own flag is free for good in the end, even if
\* its tag would not run out (tag_duration is 10000 seconds in demo_competition).
CaptivesAreFreedAtHome ==
  \A v \in Vehicles : <>[]AtHome(v) => <>[](~nowtagged[v])

\* A chaser that keeps away from everybody ends its requests, also when it was the
\* chaser that left: its list is put right by the next reports of its contacts.
DistantChasersFallSilent ==
  <>[](\A t \in Vehicles \ {Chaser} : ~R!Within(place[Chaser], place[t]))
    => <>[](events = 0)
===============================================================================
