--------------------------- MODULE AquaticusStateMgr ---------------------------
(***************************************************************************)
(* pAquaticusStateMgr, which runs on every vehicle: it watches the zone the *)
(* vehicle defends, raises ENEMY_IN_ZONE and names in                       *)
(* ENEMY_IN_ZONE_INTERCEPT_UPDATES the contact to be cut off.               *)
(*                                                                          *)
(* Mail is only stored, so each kind is an action and a batch is a          *)
(* sequence of them; everything else happens in Iterate.                    *)
(*                                                                          *)
(* Data abstraction.  A position is a model value of which only two things  *)
(* are known: whether it lies in home_zone and its range to the high value  *)
(* point.  The three maps of intruders are written together and are one     *)
(* here.  m_in_zone and m_map_contacts_in_zone only feed the appcast.       *)
(***************************************************************************)
EXTENDS Integers, FiniteSets

CONSTANTS
  Contacts,       \* names in the node reports that arrive, ownship's excepted
  MapOrder,       \* their rank in the order of a std::map
  TeamOf,         \* the team that a name contains
  Teams,          \* "red" and "blue"
  OwnTeam,        \* the team this vehicle plays for
  TeamName,       \* m_self_team, the parameter team_name
  Positions, Zone,
  RangeTo,        \* of each position, to the high value point
  HighValuePointSet,
  Scores,         \* bound: the scores that are posted
  Garbage,        \* bound: what the uninitialised scores may hold
  Captivities,    \* bound: the values of TAGGED_VEHICLES
  Waters,         \* bound: the positions at which each contact is reported
  SelfPlaces,     \* bound: the positions of ownship
  None            \* no position, no contact, nothing posted

ASSUME NamesAssumption ==
  /\ IsFiniteSet(Contacts)
  /\ MapOrder \in [Contacts -> 1..Cardinality(Contacts)]
  /\ \A c, d \in Contacts : MapOrder[c] = MapOrder[d] => c = d
  /\ TeamOf \in [Contacts -> Teams]
  \* The missions set team_name to OPFOR, the other team.
  /\ Teams = {OwnTeam, TeamName} /\ OwnTeam # TeamName
  /\ None \notin Contacts
ASSUME PlacesAssumption ==
  /\ Zone \subseteq Positions /\ RangeTo \in [Positions -> Nat]
  /\ None \notin Positions
  /\ HighValuePointSet \in BOOLEAN
ASSUME ScoresAssumption ==
  Scores \subseteq Int /\ Garbage \subseteq Int /\ Captivities \subseteq SUBSET Contacts
ASSUME WatersAssumption ==
  Waters \in [Contacts -> SUBSET Positions] /\ SelfPlaces \subseteq Positions

VARIABLES
  node_records,     \* m_map_node_records, None where there is no record
  tagged_vehicles,  \* m_tagged_vehicles
  self_at,          \* (m_self_x, m_self_y), None at the origin
  self_score,       \* m_self_score
  opponent_score,   \* m_opponent_score
  intruders,        \* m_map_intruders_x, _y and _name, None where erased
  contact_track,    \* m_contact_track, None for ""
  posted,           \* what the MOOSDB holds of this application's posts
  told              \* the last score of each team that arrived, None before

mail_vars == << node_records, tagged_vehicles, self_at, self_score, opponent_score, told >>
vars == << mail_vars, intruders, contact_track, posted >>

Init ==
  /\ node_records = [c \in Contacts |-> None]
  /\ tagged_vehicles = {}
  /\ self_at = None
  \* The constructor leaves both scores uninitialised.
  /\ self_score \in Garbage /\ opponent_score \in Garbage
  /\ intruders = [c \in Contacts |-> None]
  /\ contact_track = None
  /\ posted = [self_in_my_zone |-> None, winning |-> None, enemy_in_zone |-> None,
               contact |-> None, intercept |-> None]
  /\ told = [t \in Teams |-> None]

NodeReport(c, p) ==
  /\ node_records' = [node_records EXCEPT ![c] = p]
  /\ UNCHANGED << tagged_vehicles, self_at, self_score, opponent_score, told,
                  intruders, contact_track, posted >>

Navigation(p) ==
  /\ self_at' = p
  /\ UNCHANGED << node_records, tagged_vehicles, self_score, opponent_score, told,
                  intruders, contact_track, posted >>

TaggedVehicles(captives) ==
  /\ tagged_vehicles' = captives
  /\ UNCHANGED << node_records, self_at, self_score, opponent_score, told,
                  intruders, contact_track, posted >>

\* RED_SCORES or BLUE_SCORES.
TeamScores(t, n) ==
  /\ told' = [told EXCEPT ![t] = n]
  /\ self_score' = IF t = TeamName THEN n ELSE self_score
  /\ opponent_score' = IF t = TeamName THEN opponent_score ELSE n
  /\ UNCHANGED << node_records, tagged_vehicles, self_at, intruders, contact_track, posted >>

-------------------------------------------------------------------------------
\* Bug: a captive is watched like any other contact.
Watched_Bug ==
  {c \in Contacts : TeamOf[c] = TeamName /\ node_records[c] # None}

\* Bug: the name of the contact is not looked at.
Watched_AllBug ==
  {c \in Contacts : node_records[c] # None /\ c \notin tagged_vehicles}

\* The contacts whose turn of the loop of Iterate does not end in a "continue".
Watched ==
  {c \in Contacts : TeamOf[c] = TeamName /\ node_records[c] # None
                    /\ c \notin tagged_vehicles}

Intruding == {c \in Watched : node_records[c] \in Zone}

\* Bug: a contact that has left the zone is not erased.
Remembered_Bug ==
  IF ~HighValuePointSet THEN intruders
  ELSE [c \in Contacts |-> IF c \in Intruding THEN node_records[c] ELSE intruders[c]]

\* Bug: every contact that is watched is entered, in the zone or not.
Remembered_OutBug ==
  IF ~HighValuePointSet THEN intruders
  ELSE [c \in Contacts |-> IF c \in Watched THEN node_records[c] ELSE intruders[c]]

\* m_map_intruders after the loop.
Remembered ==
  IF ~HighValuePointSet THEN intruders
  ELSE [c \in Contacts |-> IF c \in Intruding THEN node_records[c]
                           ELSE IF c \in Watched THEN None
                           ELSE intruders[c]]

Entries(map) == {c \in Contacts : map[c] # None}

FirstOf(S) == CHOOSE c \in S : \A d \in S : MapOrder[c] <= MapOrder[d]
LastOf(S) == CHOOSE c \in S : \A d \in S : MapOrder[d] <= MapOrder[c]

\* Bug: the farther of two contacts is preferred.
Closest_Bug(map) ==
  LET first == FirstOf(Entries(map))
      rest == Entries(map) \ {first}
      second == FirstOf(rest)
  IN  IF rest = {} \/ RangeTo[map[first]] >= RangeTo[map[second]] THEN first ELSE second

\* The contact that "contact=" names: of the first two entries the one whose
\* position is closer to the high value point.
Closest(map) ==
  LET first == FirstOf(Entries(map))
      rest == Entries(map) \ {first}
      second == FirstOf(rest)
  IN  IF rest = {} \/ RangeTo[map[first]] <= RangeTo[map[second]] THEN first ELSE second

Track ==
  IF Intruding = {} THEN None
  ELSE IF HighValuePointSet THEN Closest(Remembered) ELSE contact_track

\* What an Iterate leaves posted.
Posts ==
  [self_in_my_zone |-> IF self_at = None THEN posted.self_in_my_zone
                       ELSE self_at \in Zone,
   winning |-> self_score > opponent_score,
   enemy_in_zone |-> Intruding # {},
   contact |-> IF Intruding = {} THEN posted.contact ELSE LastOf(Intruding),
   intercept |-> IF Intruding # {} /\ HighValuePointSet THEN Track
                 ELSE posted.intercept]

Iterate ==
  /\ intruders' = Remembered
  /\ contact_track' = Track
  /\ posted' = Posts
  /\ UNCHANGED mail_vars

Mail ==
  \/ \E c \in Contacts : \E p \in Waters[c] : NodeReport(c, p)
  \/ \E p \in SelfPlaces : Navigation(p)
  \/ \E captives \in Captivities : TaggedVehicles(captives)
  \/ \E t \in Teams, n \in Scores : TeamScores(t, n)

Next == Mail \/ Iterate

Spec == Init /\ [][Next]_vars

\* MOOS calls Iterate AppTick times a second.
FairSpec == Spec /\ WF_vars(Iterate)

-------------------------------------------------------------------------------
MaybePosition == Positions \cup {None}
MaybeContact == Contacts \cup {None}
MaybeBoolean == BOOLEAN \cup {None}

(***************************************************************************)
(* Types.  An entry of the maps of intruders was inside the zone when it    *)
(* was written, and a contact is tracked only while the alarm is raised.    *)
(***************************************************************************)
TypeOK ==
  /\ node_records \in [Contacts -> MaybePosition]
  /\ tagged_vehicles \subseteq Contacts
  /\ self_at \in MaybePosition
  /\ self_score \in Int /\ opponent_score \in Int
  /\ intruders \in [Contacts -> Zone \cup {None}]
  /\ contact_track \in MaybeContact
  /\ told \in [Teams -> Int \cup {None}]
  /\ posted \in [self_in_my_zone : MaybeBoolean, winning : MaybeBoolean,
                 enemy_in_zone : MaybeBoolean, contact : MaybeContact,
                 intercept : MaybeContact]

\* The opponents that are inside the zone by their last report, and not captive.
FreeIntruders ==
  {c \in Contacts : TeamOf[c] # OwnTeam /\ node_records[c] \in Zone
                    /\ c \notin tagged_vehicles}

(***************************************************************************)
(* Whatever reports, captures and releases came before, the vehicle is      *)
(* ordered to intercept, and tells its helm of, opponents only, never a     *)
(* team mate in the zone.  Lines 119-143, 172-218.                          *)
(***************************************************************************)
OnlyEnemiesAreIntercepted ==
  \A c \in {posted.intercept, posted.contact, contact_track} :
     c # None => TeamOf[c] # OwnTeam

(***************************************************************************)
(* When the maps hold no captive and at most two contacts ("we assume at    *)
(* most 2 contacts", line 182), the contact that an Iterate orders to       *)
(* intercept is one inside the zone by its last report, and none inside is  *)
(* closer to the high value point: nothing of where contacts used to be     *)
(* is left in the maps.                                                     *)
(***************************************************************************)
NearestIsIntercepted ==
  [][(/\ Iterate /\ HighValuePointSet /\ FreeIntruders # {}
      /\ \A c \in tagged_vehicles : intruders[c] = None
      /\ \E c, d \in Contacts : FreeIntruders \subseteq {c, d})
       => /\ posted.intercept' \in FreeIntruders
          /\ \A c \in FreeIntruders :
                RangeTo[node_records[posted.intercept']] <= RangeTo[node_records[c]]]_vars

(***************************************************************************)
(* Liveness.  The alarm follows the reports: with an opponent that stays in *)
(* the zone, free, it is raised for good; when all opponents stay away or   *)
(* tagged it ends for good, and no contact is tracked any more.             *)
(***************************************************************************)
AlarmSettles ==
  /\ <>[](FreeIntruders # {}) => <>[](posted.enemy_in_zone = TRUE)
  /\ <>[](FreeIntruders = {}) => <>[](posted.enemy_in_zone = FALSE /\ contact_track = None)

(***************************************************************************)
(* Liveness.  What the maps hold of an opponent that was caught in the zone *)
(* does not outlive its captivity: once it stays free and outside, its      *)
(* entry is erased.  "means a contact may previously exist and should be    *)
(* removed", line 154.                                                      *)
(***************************************************************************)
MemoryClears ==
  \A c \in Contacts :
     <>[](c \notin tagged_vehicles /\ node_records[c] \notin Zone) => <>[](intruders[c] = None)

(***************************************************************************)
(* Liveness.  An opponent that stays in the zone, free and alone, is in the *)
(* end the one to intercept.  It holds while nobody is tagged; with         *)
(* captives it does not: the position of an opponent that was tagged inside *)
(* the zone stays in the maps, and if it is closer to the high value point  *)
(* the vehicle is sent after the captive.                                   *)
(***************************************************************************)
LoneIntruderIsIntercepted ==
  \A c \in Contacts :
     <>[](FreeIntruders = {c}) => <>[](HighValuePointSet => posted.intercept = c)

===============================================================================
