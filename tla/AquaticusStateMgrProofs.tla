------------------------ MODULE AquaticusStateMgrProofs ------------------------
(***************************************************************************)
(* What is proved of pAquaticusStateMgr for any contacts, positions, zone   *)
(* and mail.                                                                *)
(***************************************************************************)
EXTENDS AquaticusStateMgr, TLAPS, FiniteSetTheorems, WellFoundedInduction

\* A set of natural numbers that is not empty has a least element.
LEMMA LeastNatural ==
  ASSUME NEW T \in SUBSET Nat, T # {}
  PROVE  \E n \in T : \A k \in T : n <= k
<1> DEFINE less == OpToRel(<, Nat)
<1>1. IsWellFoundedOn(less, Nat)
  BY NatLessThanWellFounded
<1>2. \A k, n \in Nat : ~(<< k, n >> \in less) => n <= k
  BY DEF OpToRel
<1> HIDE DEF less
<1>3. T \subseteq Nat
  OBVIOUS
<1>4. PICK n \in T : \A k \in T : ~(<< k, n >> \in less)
  BY <1>1, <1>3, WFMin
<1>5. \A k \in T : n <= k
  BY <1>2, <1>3, <1>4
<1> QED BY <1>5

\* What FirstOf returns: an element that no other element precedes.
LEMMA FirstOfIsFirst ==
  ASSUME NEW S \in SUBSET Contacts, S # {}
  PROVE  /\ FirstOf(S) \in S
         /\ \A d \in S : MapOrder[FirstOf(S)] <= MapOrder[d]
<1> DEFINE ranks == {MapOrder[c] : c \in S}
<1>1. ranks \in SUBSET Nat /\ ranks # {}
  BY NamesAssumption, FS_CardinalityType
<1>2. PICK n \in ranks : \A k \in ranks : n <= k
  BY <1>1, LeastNatural
<1>3. \E c \in S : \A d \in S : MapOrder[c] <= MapOrder[d]
  BY <1>2
<1> QED BY <1>3 DEF FirstOf

\* What LastOf returns: an element of the set.
LEMMA LastOfIsElement ==
  ASSUME NEW S \in SUBSET Contacts, S # {}
  PROVE  LastOf(S) \in S
<1> DEFINE N == Cardinality(Contacts)
           ranks == {N - MapOrder[c] : c \in S}
<1>1. N \in Nat /\ \A c \in S : MapOrder[c] \in 1..N
  BY NamesAssumption, FS_CardinalityType
<1> HIDE DEF N
<1>2. ranks \in SUBSET Nat /\ ranks # {}
  BY <1>1
<1>3. PICK n \in ranks : \A k \in ranks : n <= k
  BY <1>2, LeastNatural
<1>4. PICK c \in S : n = N - MapOrder[c]
  BY <1>3
<1>5. ASSUME NEW d \in S PROVE MapOrder[d] <= MapOrder[c]
  <2>1. N - MapOrder[d] \in ranks
    OBVIOUS
  <2>2. n <= N - MapOrder[d]
    BY <2>1, <1>3
  <2> QED BY <2>2, <1>1, <1>4
<1>6. \E e \in S : \A d \in S : MapOrder[d] <= MapOrder[e]
  BY <1>5
<1> QED BY <1>6 DEF LastOf

\* The contact that "contact=" names has an entry in the maps.
LEMMA ClosestIsEntered ==
  ASSUME NEW map, Entries(map) # {}
  PROVE  Closest(map) \in Entries(map)
<1> DEFINE first == FirstOf(Entries(map))
           rest == Entries(map) \ {first}
<1>1. Entries(map) \in SUBSET Contacts
  BY DEF Entries
<1>2. first \in Entries(map)
  BY <1>1, FirstOfIsFirst
<1>3. rest # {} => FirstOf(rest) \in rest
  BY <1>1, FirstOfIsFirst
<1> QED BY <1>2, <1>3 DEF Closest

-------------------------------------------------------------------------------
(***************************************************************************)
(* The strengthening that makes OnlyEnemiesAreIntercepted inductive: the    *)
(* maps themselves hold opponents only, of which there has been a report.   *)
(***************************************************************************)
OnlyEnemiesAreKept ==
  \A c \in Contacts :
     intruders[c] # None => TeamOf[c] # OwnTeam /\ node_records[c] # None

Watch == TypeOK /\ OnlyEnemiesAreKept /\ OnlyEnemiesAreIntercepted

\* What one run of the loop leaves in the maps.
LEMMA LoopKeepsTheMaps ==
  ASSUME TypeOK
  PROVE  /\ Remembered \in [Contacts -> Zone \cup {None}]
         /\ Intruding \in SUBSET Contacts
         /\ \A c \in Intruding : TeamOf[c] = TeamName
         /\ HighValuePointSet => Intruding \subseteq Entries(Remembered)
         /\ OnlyEnemiesAreKept => \A c \in Entries(Remembered) :
                                    TeamOf[c] # OwnTeam /\ node_records[c] # None
<1>1. Remembered \in [Contacts -> Zone \cup {None}]
  BY DEF Remembered, Intruding, Watched, TypeOK
<1>2. Intruding \in SUBSET Contacts /\ \A c \in Intruding : TeamOf[c] = TeamName
  BY DEF Intruding, Watched
<1>3. HighValuePointSet => Intruding \subseteq Entries(Remembered)
  BY <1>2, PlacesAssumption DEF Intruding, Remembered, Entries
<1>4. OnlyEnemiesAreKept => \A c \in Entries(Remembered) :
                              TeamOf[c] # OwnTeam /\ node_records[c] # None
  BY <1>2, NamesAssumption DEF Remembered, Entries, OnlyEnemiesAreKept, Intruding, Watched
<1> QED BY <1>1, <1>2, <1>3, <1>4

\* Whom an Iterate tracks: an opponent of which the maps have a position.
LEMMA TrackIsAnEnemy ==
  ASSUME Watch
  PROVE  /\ Track \in MaybeContact
         /\ Track # None => TeamOf[Track] # OwnTeam
         /\ Intruding # {} => LastOf(Intruding) \in Intruding
<1>1. CASE Intruding = {}
  BY <1>1, NamesAssumption DEF Track, MaybeContact
<1>2. CASE Intruding # {} /\ HighValuePointSet
  <2>1. Closest(Remembered) \in Entries(Remembered)
    BY <1>2, LoopKeepsTheMaps, ClosestIsEntered DEF Watch
  <2>2. Track = Closest(Remembered)
    BY <1>2 DEF Track
  <2>3. Entries(Remembered) \subseteq Contacts
    BY DEF Entries
  <2> QED BY <2>1, <2>2, <2>3, <1>2, LoopKeepsTheMaps, LastOfIsElement
          DEF Watch, MaybeContact
<1>3. CASE Intruding # {} /\ ~HighValuePointSet
  <2>1. Track = contact_track
    BY <1>3 DEF Track
  <2> QED BY <2>1, <1>3, LoopKeepsTheMaps, LastOfIsElement
          DEF Watch, TypeOK, OnlyEnemiesAreIntercepted
<1> QED BY <1>1, <1>2, <1>3

LEMMA WatchStarts == Init => Watch
  BY NamesAssumption, PlacesAssumption, ScoresAssumption
     DEF Init, Watch, TypeOK, OnlyEnemiesAreKept, OnlyEnemiesAreIntercepted,
         MaybePosition, MaybeContact, MaybeBoolean

LEMMA IterateKeepsWatch == Watch /\ Iterate => Watch'
<1> SUFFICES ASSUME Watch, Iterate PROVE Watch'
  OBVIOUS
<1> DEFINE scores == self_score > opponent_score
           seen == self_at \in Zone
           threat == Intruding # {}
<1>1. /\ scores \in BOOLEAN
      /\ seen \in BOOLEAN
      /\ threat \in BOOLEAN
  OBVIOUS
<1> HIDE DEF scores, seen
<1>2. /\ posted'.winning = scores
      /\ posted'.self_in_my_zone = IF self_at = None THEN posted.self_in_my_zone ELSE seen
      /\ posted'.enemy_in_zone = threat
      /\ posted'.contact = IF Intruding = {} THEN posted.contact ELSE LastOf(Intruding)
      /\ posted'.intercept = IF Intruding # {} /\ HighValuePointSet THEN Track ELSE posted.intercept
      /\ DOMAIN posted' = {"self_in_my_zone", "winning", "enemy_in_zone", "contact", "intercept"}
  BY DEF Iterate, Posts, scores, seen
<1>3. UNCHANGED mail_vars
  BY DEF Iterate
<1>4. intruders' = Remembered /\ contact_track' = Track
  BY DEF Iterate
<1>5. \/ LastOf(Intruding) \in Contacts /\ TeamOf[LastOf(Intruding)] # OwnTeam
      \/ Intruding = {}
  BY TrackIsAnEnemy, LoopKeepsTheMaps, NamesAssumption DEF Watch
<1>6. posted'.contact \in MaybeContact
      /\ (posted'.contact # None => TeamOf[posted'.contact] # OwnTeam)
  BY <1>2, <1>5 DEF Watch, TypeOK, MaybeContact, OnlyEnemiesAreIntercepted
<1>7. posted'.intercept \in MaybeContact
      /\ (posted'.intercept # None => TeamOf[posted'.intercept] # OwnTeam)
  BY <1>2, TrackIsAnEnemy DEF Watch, TypeOK, OnlyEnemiesAreIntercepted
<1>8. OnlyEnemiesAreIntercepted'
  BY <1>4, <1>6, <1>7, TrackIsAnEnemy DEF OnlyEnemiesAreIntercepted
<1>9. OnlyEnemiesAreKept'
  BY <1>3, <1>4, LoopKeepsTheMaps DEF Watch, OnlyEnemiesAreKept, Entries, mail_vars
<1>10. TypeOK'
  <2>1. posted' = [self_in_my_zone |-> posted'.self_in_my_zone,
                   winning |-> posted'.winning,
                   enemy_in_zone |-> posted'.enemy_in_zone,
                   contact |-> posted'.contact, intercept |-> posted'.intercept]
    BY DEF Iterate, Posts
  <2>2. /\ posted'.self_in_my_zone \in MaybeBoolean
        /\ posted'.winning \in MaybeBoolean
        /\ posted'.enemy_in_zone \in MaybeBoolean
    BY <1>1, <1>2, Zenon DEF Watch, TypeOK, MaybeBoolean
  <2>3. posted' \in [self_in_my_zone : MaybeBoolean, winning : MaybeBoolean,
                     enemy_in_zone : MaybeBoolean, contact : MaybeContact,
                     intercept : MaybeContact]
    BY <2>1, <2>2, <1>6, <1>7
  <2> QED BY <2>3, <1>3, <1>4, LoopKeepsTheMaps, TrackIsAnEnemy DEF Watch, TypeOK, mail_vars
<1> QED BY <1>8, <1>9, <1>10 DEF Watch

LEMMA MailKeepsWatch == Watch /\ Mail => Watch'
<1> SUFFICES ASSUME Watch, Mail PROVE Watch'
  OBVIOUS
<1>1. UNCHANGED << intruders, contact_track, posted >>
  BY DEF Mail, NodeReport, Navigation, TaggedVehicles, TeamScores
<1>2. OnlyEnemiesAreIntercepted'
  BY <1>1 DEF Watch, OnlyEnemiesAreIntercepted
<1>4. ASSUME NEW c \in Contacts, node_records[c] # None PROVE node_records'[c] # None
  <2>1. \A d \in Contacts : \A p \in Waters[d] : p # None
    BY WatersAssumption, PlacesAssumption
  <2> QED BY <2>1, <1>4 DEF Mail, NodeReport, Navigation, TaggedVehicles, TeamScores, Watch, TypeOK
<1>5. OnlyEnemiesAreKept'
  BY <1>1, <1>4 DEF Watch, OnlyEnemiesAreKept
<1>3. TypeOK'
  <2>1. ASSUME NEW c \in Contacts, NEW p \in Waters[c], NodeReport(c, p) PROVE TypeOK'
    <3>1. p \in MaybePosition
      BY <2>1, WatersAssumption DEF MaybePosition
    <3> QED BY <2>1, <3>1 DEF NodeReport, Watch, TypeOK
  <2>2. ASSUME NEW p \in SelfPlaces, Navigation(p) PROVE TypeOK'
    BY <2>2, WatersAssumption DEF Navigation, Watch, TypeOK, MaybePosition
  <2>3. ASSUME NEW captives \in Captivities, TaggedVehicles(captives) PROVE TypeOK'
    BY <2>3, ScoresAssumption DEF TaggedVehicles, Watch, TypeOK
  <2>4. ASSUME NEW t \in Teams, NEW n \in Scores, TeamScores(t, n) PROVE TypeOK'
    BY <2>4, ScoresAssumption DEF TeamScores, Watch, TypeOK
  <2> QED BY <2>1, <2>2, <2>3, <2>4 DEF Mail
<1> QED BY <1>2, <1>3, <1>5 DEF Watch

(***************************************************************************)
(* Types, and the lasting part of them: the maps hold positions inside the  *)
(* zone only, and never a vehicle of the own team.                          *)
(***************************************************************************)
THEOREM WatchIsKept == Spec => []Watch
<1>1. Watch /\ [Next]_vars => Watch'
  <2>1. Watch /\ UNCHANGED vars => Watch'
    BY DEF vars, mail_vars, Watch, TypeOK, OnlyEnemiesAreKept, OnlyEnemiesAreIntercepted
  <2> QED BY <2>1, IterateKeepsWatch, MailKeepsWatch DEF Next
<1> QED BY WatchStarts, <1>1, PTL DEF Spec

\* The types of pAquaticusStateMgr.
THEOREM WatchTypeCorrect == Spec => []TypeOK
<1>1. Watch => TypeOK
  BY DEF Watch
<1> QED BY <1>1, WatchIsKept, PTL

(***************************************************************************)
(* A vehicle is never sent after its own team, whatever it was told and     *)
(* whatever the maps still hold.                                            *)
(***************************************************************************)
THEOREM FriendsAreSafe == Spec => []OnlyEnemiesAreIntercepted
<1>1. Watch => OnlyEnemiesAreIntercepted
  BY DEF Watch
<1> QED BY <1>1, WatchIsKept, PTL

\* The loop works on the opponents that are free and inside.
LEMMA IntrudingIsFree == TypeOK => Intruding = FreeIntruders
  BY NamesAssumption, PlacesAssumption DEF Intruding, Watched, FreeIntruders, TypeOK

\* Without an entry of a captive, the maps hold who is inside and where.
LEMMA MapsAreHonest ==
  ASSUME Watch, HighValuePointSet, \A c \in tagged_vehicles : intruders[c] = None
  PROVE  /\ Entries(Remembered) = Intruding
         /\ \A c \in Intruding : Remembered[c] = node_records[c]
<1>1. ASSUME NEW c \in Contacts, intruders[c] # None PROVE c \in Watched
  BY <1>1, NamesAssumption DEF Watch, OnlyEnemiesAreKept, Watched
<1>2. Entries(Remembered) \subseteq Intruding
  BY <1>1 DEF Entries, Remembered
<1>3. Intruding \subseteq Entries(Remembered)
  BY LoopKeepsTheMaps DEF Watch
<1>4. \A c \in Intruding : Remembered[c] = node_records[c]
  BY LoopKeepsTheMaps DEF Remembered, Watch
<1> QED BY <1>2, <1>3, <1>4

\* Of at most two entries, Closest names one that no other is closer than.
LEMMA ClosestOfTwo ==
  ASSUME NEW map, Entries(map) # {}, \A c \in Entries(map) : map[c] \in Positions,
         NEW a, NEW b, Entries(map) \subseteq {a, b}
  PROVE  \A c \in Entries(map) : RangeTo[map[Closest(map)]] <= RangeTo[map[c]]
<1> DEFINE first == FirstOf(Entries(map))
           rest == Entries(map) \ {first}
           second == FirstOf(rest)
<1>1. Entries(map) \in SUBSET Contacts
  BY DEF Entries
<1>2. first \in Entries(map) /\ (rest # {} => second \in rest)
  BY <1>1, FirstOfIsFirst
<1>3. \A c \in Entries(map) : RangeTo[map[c]] \in Nat
  BY PlacesAssumption
<1>4. Closest(map) = IF rest = {} \/ RangeTo[map[first]] <= RangeTo[map[second]]
                     THEN first ELSE second
  BY DEF Closest
<1> HIDE DEF first, second
<1>5. CASE rest = {}
  BY <1>2, <1>3, <1>4, <1>5
<1>6. CASE rest # {}
  <2>1. Entries(map) \subseteq {first, second}
    BY <1>2, <1>6
  <2> QED BY <2>1, <1>2, <1>3, <1>4, <1>6
<1> QED BY <1>5, <1>6

(***************************************************************************)
(* With at most two opponents inside, and no captive in the maps, the       *)
(* vehicle is always sent after the one closest to the high value point by  *)
(* the last reports.                                                        *)
(***************************************************************************)
THEOREM NearestIsChosen == Spec => NearestIsIntercepted
<1> DEFINE Safe ==
      (/\ Iterate /\ HighValuePointSet /\ FreeIntruders # {}
       /\ \A c \in tagged_vehicles : intruders[c] = None
       /\ \E c, d \in Contacts : FreeIntruders \subseteq {c, d})
        => /\ posted.intercept' \in FreeIntruders
           /\ \A c \in FreeIntruders :
                 RangeTo[node_records[posted.intercept']] <= RangeTo[node_records[c]]
<1>1. Watch /\ [Next]_vars => [Safe]_vars
  <2> SUFFICES ASSUME Watch, Iterate, HighValuePointSet, FreeIntruders # {},
                      \A c \in tagged_vehicles : intruders[c] = None,
                      NEW a \in Contacts, NEW b \in Contacts, FreeIntruders \subseteq {a, b}
               PROVE  /\ posted.intercept' \in FreeIntruders
                      /\ \A c \in FreeIntruders :
                            RangeTo[node_records[posted.intercept']] <= RangeTo[node_records[c]]
    OBVIOUS
  <2>1. Intruding = FreeIntruders
    BY IntrudingIsFree DEF Watch
  <2>2. posted.intercept' = Closest(Remembered)
    BY <2>1 DEF Iterate, Posts, Track
  <2>3. Entries(Remembered) = FreeIntruders
        /\ \A c \in FreeIntruders : Remembered[c] = node_records[c]
    BY <2>1, MapsAreHonest
  <2>4. Closest(Remembered) \in FreeIntruders
    BY <2>3, ClosestIsEntered
  <2>5. \A c \in Entries(Remembered) : Remembered[c] \in Positions
    BY <2>3, PlacesAssumption DEF FreeIntruders
  <2>6. \A c \in FreeIntruders : RangeTo[Remembered[Closest(Remembered)]] <= RangeTo[Remembered[c]]
    BY <2>3, <2>5, ClosestOfTwo
  <2> QED BY <2>2, <2>3, <2>4, <2>6
<1> QED BY <1>1, WatchIsKept, PTL DEF Spec, NearestIsIntercepted

-------------------------------------------------------------------------------
\* What the two scores hold once the score of their team has arrived.
ScoresAreTold ==
  /\ told[TeamName] # None => self_score = told[TeamName]
  /\ told[OwnTeam] # None => opponent_score = told[OwnTeam]

LEMMA ScoresStayTold == Spec => []ScoresAreTold
<1>1. Init => ScoresAreTold
  BY NamesAssumption DEF Init, ScoresAreTold
<1>2. Watch /\ ScoresAreTold /\ [Next]_vars => ScoresAreTold'
  <2> SUFFICES ASSUME Watch, ScoresAreTold, [Next]_vars PROVE ScoresAreTold'
    OBVIOUS
  <2>1. ASSUME NEW t \in Teams, NEW n \in Scores, TeamScores(t, n) PROVE ScoresAreTold'
    <3>1. told \in [Teams -> Int \cup {None}]
      BY DEF Watch, TypeOK
    <3>2. CASE t = TeamName
      BY <2>1, <3>1, <3>2, NamesAssumption DEF TeamScores, ScoresAreTold
    <3>3. CASE t = OwnTeam
      BY <2>1, <3>1, <3>3, NamesAssumption DEF TeamScores, ScoresAreTold
    <3> QED BY <3>2, <3>3, NamesAssumption
  <2>2. CASE UNCHANGED << told, self_score, opponent_score >>
    BY <2>2 DEF ScoresAreTold
  <2> QED BY <2>1, <2>2
          DEF Next, Mail, NodeReport, Navigation, TaggedVehicles, Iterate, vars, mail_vars
<1> QED BY <1>1, <1>2, WatchIsKept, PTL DEF Spec

(***************************************************************************)
(* Once both scores have arrived, WINNING says that the team of the         *)
(* parameter team_name is ahead (lines 64 and 69 take it for the own team). *)
(* The missions set team_name to the opposing force, as the choice of       *)
(* contacts at line 120 needs it, so the post tells the vehicle that it is  *)
(* winning exactly when the other team is.                                  *)
(***************************************************************************)
THEOREM WinningIsAboutTheOthers ==
  Spec => [][(Iterate /\ \A t \in Teams : told[t] # None)
             => posted'.winning = (told[TeamName] > told[OwnTeam])]_vars
<1>1. ScoresAreTold /\ [Next]_vars
      => [(Iterate /\ \A t \in Teams : told[t] # None)
          => posted'.winning = (told[TeamName] > told[OwnTeam])]_vars
  <2> SUFFICES ASSUME ScoresAreTold, Iterate, \A t \in Teams : told[t] # None
               PROVE  posted'.winning = (told[TeamName] > told[OwnTeam])
    OBVIOUS
  <2>1. self_score = told[TeamName] /\ opponent_score = told[OwnTeam]
    BY NamesAssumption DEF ScoresAreTold
  <2>2. posted'.winning = (self_score > opponent_score)
    BY DEF Iterate, Posts
  <2> QED BY <2>1, <2>2
<1> QED BY <1>1, ScoresStayTold, PTL DEF Spec

-------------------------------------------------------------------------------
(***************************************************************************)
(* Liveness.  WF_vars(Iterate) says that Iterates that change something go  *)
(* on for ever, or that there is for ever again a moment when an Iterate    *)
(* would change nothing.  The provers know nothing of ENABLED, so that      *)
(* moment is written out.                                                   *)
(***************************************************************************)

\* An Iterate now would change nothing.
Idle == intruders = Remembered /\ contact_track = Track /\ posted = Posts

\* The weak fairness of Iterate.
IteratesGoOn == []<><<Iterate>>_vars \/ []<>Idle

\* With a free opponent inside, an Iterate raises the alarm, and none ends it.
LEMMA IterateRaisesAlarm ==
  ASSUME Watch, FreeIntruders # {}
  PROVE  /\ Iterate => posted'.enemy_in_zone = TRUE
         /\ Idle => posted.enemy_in_zone = TRUE
         /\ posted.enemy_in_zone = TRUE /\ [Next]_vars => posted'.enemy_in_zone = TRUE
<1>1. Intruding # {}
  BY IntrudingIsFree DEF Watch
<1>2. Posts.enemy_in_zone = TRUE
  BY <1>1 DEF Posts
<1>3. Iterate => posted'.enemy_in_zone = TRUE
  BY <1>2 DEF Iterate
<1>4. Mail \/ UNCHANGED vars => posted' = posted
  BY DEF Mail, NodeReport, Navigation, TaggedVehicles, TeamScores, vars
<1> QED BY <1>2, <1>3, <1>4 DEF Next, Idle

\* With nobody free inside, an Iterate ends the alarm and the track, for good.
LEMMA IterateEndsAlarm ==
  ASSUME Watch, FreeIntruders = {}
  PROVE  /\ Iterate => (posted.enemy_in_zone = FALSE /\ contact_track = None)'
         /\ Idle => posted.enemy_in_zone = FALSE /\ contact_track = None
         /\ posted.enemy_in_zone = FALSE /\ contact_track = None /\ [Next]_vars
              => (posted.enemy_in_zone = FALSE /\ contact_track = None)'
<1>1. Intruding = {}
  BY IntrudingIsFree DEF Watch
<1>2. Posts.enemy_in_zone = FALSE /\ Track = None
  BY <1>1 DEF Posts, Track
<1>3. Iterate => posted'.enemy_in_zone = FALSE /\ contact_track' = None
  BY <1>2 DEF Iterate
<1>4. Mail \/ UNCHANGED vars => posted' = posted /\ contact_track' = contact_track
  BY DEF Mail, NodeReport, Navigation, TaggedVehicles, TeamScores, vars
<1> QED BY <1>2, <1>3, <1>4 DEF Next, Idle

(***************************************************************************)
(* As long as Iterates go on, the alarm comes to agree for good with what   *)
(* the reports say for good.                                                *)
(***************************************************************************)
THEOREM AlarmComesToRest == Spec /\ IteratesGoOn => AlarmSettles
<1> DEFINE Inside == FreeIntruders # {}
           Up == posted.enemy_in_zone = TRUE
           Down == posted.enemy_in_zone = FALSE /\ contact_track = None
<1>1. Watch /\ Inside /\ <<Iterate>>_vars => Up'
  BY IterateRaisesAlarm
<1>2. Watch /\ Inside /\ Idle => Up
  BY IterateRaisesAlarm
<1>3. Watch /\ Inside /\ Up /\ [Next]_vars => Up'
  BY IterateRaisesAlarm
<1>4. Watch /\ ~Inside /\ <<Iterate>>_vars => Down'
  BY IterateEndsAlarm
<1>5. Watch /\ ~Inside /\ Idle => Down
  BY IterateEndsAlarm
<1>6. Watch /\ ~Inside /\ Down /\ [Next]_vars => Down'
  BY IterateEndsAlarm
<1>7. (FreeIntruders = {}) <=> ~Inside
  OBVIOUS
<1> HIDE DEF Inside, Up, Down
<1>8. Spec /\ IteratesGoOn => (<>[]Inside => <>[]Up) /\ (<>[]~Inside => <>[]Down)
  BY <1>1, <1>2, <1>3, <1>4, <1>5, <1>6, WatchIsKept, PTL DEF Spec, IteratesGoOn
<1> USE DEF Inside, Up, Down
<1> QED BY <1>7, <1>8, PTL DEF AlarmSettles

\* Without a high value point nothing is ever entered.
NothingIsEntered == ~HighValuePointSet => \A c \in Contacts : intruders[c] = None

\* What does not need the maps does not fill them.
LEMMA NothingGetsEntered == Spec => []NothingIsEntered
<1>1. Init => NothingIsEntered
  BY DEF Init, NothingIsEntered
<1>2. NothingIsEntered /\ [Next]_vars => NothingIsEntered'
  BY DEF NothingIsEntered, Next, Iterate, Remembered, Mail, NodeReport, Navigation,
         TaggedVehicles, TeamScores, vars
<1> QED BY <1>1, <1>2, PTL DEF Spec

\* An entry of an opponent that is free and outside does not outlive an Iterate.
LEMMA IterateClearsMemory ==
  ASSUME Watch, NothingIsEntered,
         NEW c \in Contacts, c \notin tagged_vehicles, node_records[c] \notin Zone
  PROVE  /\ Iterate => intruders'[c] = None
         /\ Idle => intruders[c] = None
         /\ intruders[c] = None /\ [Next]_vars => intruders'[c] = None
<1>1. c \notin Intruding
  BY DEF Intruding
<1>2. intruders[c] # None => c \in Watched
  BY NamesAssumption DEF Watch, OnlyEnemiesAreKept, Watched
<1>3. Remembered[c] = None
  BY <1>1, <1>2 DEF NothingIsEntered, Remembered
<1>4. Mail \/ UNCHANGED vars => intruders' = intruders
  BY DEF Mail, NodeReport, Navigation, TaggedVehicles, TeamScores, vars
<1> QED BY <1>3, <1>4 DEF Next, Iterate, Idle

(***************************************************************************)
(* As long as Iterates go on, the maps forget who stays free and outside,   *)
(* also one that was caught inside and whose entry outlived its captivity.  *)
(***************************************************************************)
THEOREM MemoryIsCleared == Spec /\ IteratesGoOn => MemoryClears
<1> SUFFICES ASSUME NEW c \in Contacts
             PROVE  Spec /\ IteratesGoOn
                    => (<>[](c \notin tagged_vehicles /\ node_records[c] \notin Zone)
                        => <>[](intruders[c] = None))
  BY DEF MemoryClears
<1> DEFINE Away == c \notin tagged_vehicles /\ node_records[c] \notin Zone
           Gone == intruders[c] = None
           Kept == Watch /\ NothingIsEntered
<1>1. Kept /\ Away /\ <<Iterate>>_vars => Gone'
  BY IterateClearsMemory
<1>2. Kept /\ Away /\ Idle => Gone
  BY IterateClearsMemory
<1>3. Kept /\ Away /\ Gone /\ [Next]_vars => Gone'
  BY IterateClearsMemory
<1>4. Spec => []Kept
  BY WatchIsKept, NothingGetsEntered, PTL
<1> HIDE DEF Away, Gone, Kept
<1>5. Spec /\ IteratesGoOn => (<>[]Away => <>[]Gone)
  BY <1>1, <1>2, <1>3, <1>4, PTL DEF Spec, IteratesGoOn
<1> QED BY <1>5 DEF Away, Gone

\* With one opponent free inside and no entry of a captive, every Iterate orders to
\* intercept that one.
LEMMA IterateChoosesTheOne ==
  ASSUME Watch, NEW c \in Contacts, FreeIntruders = {c}, HighValuePointSet,
         \A d \in tagged_vehicles : intruders[d] = None
  PROVE  /\ Iterate => posted'.intercept = c
         /\ Idle => posted.intercept = c
         /\ posted.intercept = c /\ [Next]_vars => posted'.intercept = c
<1>1. Intruding = {c}
  BY IntrudingIsFree DEF Watch
<1>2. Entries(Remembered) = {c}
  BY <1>1, MapsAreHonest
<1>3. Track = c
  <2>1. Closest(Remembered) \in Entries(Remembered)
    BY <1>2, ClosestIsEntered
  <2> QED BY <1>1, <1>2, <2>1 DEF Track
<1>4. Posts.intercept = c
  BY <1>1, <1>3 DEF Posts
<1>5. Mail \/ UNCHANGED vars => posted' = posted
  BY DEF Mail, NodeReport, Navigation, TaggedVehicles, TeamScores, vars
<1> QED BY <1>4, <1>5 DEF Next, Iterate, Idle

(***************************************************************************)
(* The entry that a captive leaves in the maps is the only thing that can   *)
(* keep the vehicle from the one opponent that stays free inside: where     *)
(* such entries end for good, it is the one to intercept for good.          *)
(***************************************************************************)
THEOREM OnlyStaleEntriesMislead ==
  Spec /\ IteratesGoOn /\ <>[](\A d \in tagged_vehicles : intruders[d] = None)
    => LoneIntruderIsIntercepted
<1> SUFFICES ASSUME NEW c \in Contacts
             PROVE  Spec /\ IteratesGoOn
                    /\ <>[](\A d \in tagged_vehicles : intruders[d] = None)
                    => (<>[](FreeIntruders = {c})
                        => <>[](HighValuePointSet => posted.intercept = c))
  BY DEF LoneIntruderIsIntercepted
<1> DEFINE Fresh == \A d \in tagged_vehicles : intruders[d] = None
           Alone == FreeIntruders = {c}
           Aimed == HighValuePointSet => posted.intercept = c
<1>1. Watch /\ Fresh /\ Alone /\ <<Iterate>>_vars => Aimed'
  BY IterateChoosesTheOne
<1>2. Watch /\ Fresh /\ Alone /\ Idle => Aimed
  BY IterateChoosesTheOne
<1>3. Watch /\ Fresh /\ Alone /\ Aimed /\ [Next]_vars => Aimed'
  BY IterateChoosesTheOne
<1> HIDE DEF Fresh, Alone, Aimed
<1>4. Spec /\ IteratesGoOn /\ <>[]Fresh => (<>[]Alone => <>[]Aimed)
  BY <1>1, <1>2, <1>3, WatchIsKept, PTL DEF Spec, IteratesGoOn
<1> QED BY <1>4 DEF Fresh, Alone, Aimed
===============================================================================
