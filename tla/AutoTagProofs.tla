----------------------------- MODULE AutoTagProofs -----------------------------
(***************************************************************************)
(* In the game of the robots uFldTagManager does nothing that its own       *)
(* specification does not allow, so what is proved of it alone holds there. *)
(* Who is released then depends on two more applications, and is proved     *)
(* last: by whom, and that who stays at home is.                            *)
(***************************************************************************)
EXTENDS AutoTag, TagManagerProofs

\* Vehicles are always in their waters.
PlacesOK ==
  /\ DOMAIN place = Vehicles
  /\ \A v \in Vehicles : place[v] \in Waters[v]

-------------------------------------------------------------------------------
\* No step takes a vehicle out of its waters.
LEMMA PlacesStayOK == AutoSpec => []PlacesOK
<1>1. AutoInit => PlacesOK
  BY DEF AutoInit, PlacesOK
<1>2. PlacesOK /\ [AutoNext]_auto_vars => PlacesOK'
  <2> SUFFICES ASSUME PlacesOK, [AutoNext]_auto_vars PROVE PlacesOK'
    OBVIOUS
  <2>1. ASSUME NEW v \in Vehicles, NEW p \in Waters[v], Sail(v, p) PROVE PlacesOK'
    BY <2>1 DEF Sail, PlacesOK
  <2>2. ASSUME UNCHANGED place PROVE PlacesOK'
    BY <2>2 DEF PlacesOK
  <2> QED
    BY <2>1, <2>2 DEF AutoNext, auto_vars, ChaserHears, ZoneHears, RefereeHears,
                     RefereeTakesUntag, ChaserPublishes, RefereeTakesRequest,
                     RefereeIterates
<1> QED
  BY <1>1, <1>2, PTL DEF AutoSpec

\* A step of the game is one of uFldTagManager's steps or leaves it alone.
LEMMA AutoStepIsTagStep == PlacesOK /\ [AutoNext]_auto_vars => [Next]_vars
<1> SUFFICES ASSUME PlacesOK, [AutoNext]_auto_vars PROVE [Next]_vars
  OBVIOUS
<1>1. ASSUME UNCHANGED vars PROVE [Next]_vars
  BY <1>1
<1>2. ASSUME Mail \/ Iterate PROVE [Next]_vars
  BY <1>2 DEF Next
<1>3. ASSUME NEW v \in Vehicles, RefereeHears(v) PROVE Mail
  BY <1>3 DEF RefereeHears, PlacesOK, Mail
<1>4. ASSUME NEW v \in Vehicles, NEW z \in ZoneNames, RefereeTakesUntag(z, v)
      PROVE  Mail \/ UNCHANGED vars
  BY <1>4 DEF RefereeTakesUntag, Mail
<1>5. ASSUME RefereeTakesRequest PROVE Mail \/ UNCHANGED vars
  BY <1>5, ChaserAssumption DEF RefereeTakesRequest, Mail
<1>6. ASSUME \/ \E v \in Vehicles : \/ \E p \in Waters[v] : Sail(v, p)
                                    \/ ChaserHears(v)
                                    \/ ZoneHears(v)
             \/ ChaserPublishes
             \/ UNCHANGED auto_vars
      PROVE  UNCHANGED vars
  BY <1>6 DEF Sail, ChaserHears, ZoneHears, ChaserPublishes, auto_vars
<1>7. ASSUME RefereeIterates PROVE Iterate
  BY <1>7 DEF RefereeIterates
<1> QED
  BY <1>1, <1>2, <1>3, <1>4, <1>5, <1>6, <1>7 DEF AutoNext

\* However robots and zones make their requests, what uFldTagManager does is a
\* behaviour of its own specification: its safety theorems hold in the game.
THEOREM AutoRunsTagManager == AutoSpec => Spec
<1>1. AutoInit => Init
  BY DEF AutoInit
<1> QED
  BY <1>1, PlacesStayOK, AutoStepIsTagStep, PTL DEF AutoSpec, Spec

\* Robots are held to the rules of the game like everybody else: no request of
\* pRangeEvent and no post of uFldZoneEvent takes or gives a freedom unlawfully.
THEOREM RobotsFollowTheRules == AutoSpec => ImplementsTagRules
BY AutoRunsTagManager, TagManagerFollowsRules, PTL

\* The invariants of uFldTagManager hold in the game of the robots: tags and posts
\* are in step, captives tag nobody, tags end on time and the field is policed.
THEOREM RobotsKeepInvariants ==
  AutoSpec => /\ CanTagAgrees /\ CaptivesDoNotTag
              /\ [](TypeOK /\ TagBookkeeping)
              /\ [](NoOverdueTag /\ FieldIsPoliced /\ TagsAreAnnounced)
BY AutoRunsTagManager, TypeCorrect, BookkeepingIsInvariant, CaptivesAreHarmless,
   NoTagIsOverdue, FieldStaysPoliced, TagsStayAnnounced, CanTagIsHonest, PTL

-------------------------------------------------------------------------------
(***************************************************************************)
(* Releases.                                                                *)
(***************************************************************************)

\* What uFldZoneEvent asks to release is of the group of the zone it was seen in.
PostsAreOfTheGroup ==
  \A z \in ZoneNames, v \in Vehicles : <<z, v>> \in zone_posts => ZoneGroup[z] = Group[v]

\* Vehicle v is served by a zone: a release of it is asked for and not yet taken.
Served(v) == \E z \in ZoneNames : <<z, v>> \in zone_posts

\* A step releases nobody but those whose time is over and one that was seen in a
\* zone of its own group.
ReleasesAreEarned ==
  \A v \in Vehicles :
    nowtagged[v] /\ ~nowtagged'[v]
      => \/ pass = "vtags" /\ Expired(v)
         \/ \E z \in ZoneNames : /\ ZoneGroup[z] = Group[v]
                                 /\ <<z, v>> \in zone_posts
                                 /\ <<z, v>> \notin zone_posts'

\* No step of uFldTagManager but an untag request and the expiry of a tag releases.
LEMMA IterateReleasesTheExpired ==
  ASSUME TypeOK, Iterate, NEW v \in Vehicles, nowtagged[v], ~nowtagged'[v]
  PROVE  pass = "vtags" /\ Expired(v)
<1> USE DEF TypeOK
<1>1. ASSUME NEW d \in Elapse, UpdateCanTagStates(d) PROVE FALSE
  BY <1>1 DEF UpdateCanTagStates
<1>2. CASE ProcessVTag
  BY <1>2 DEF ProcessVTag, Tag
<1>3. CASE CheckForExpiredTags
  BY <1>3 DEF CheckForExpiredTags
<1>4. CASE CheckForOutOfZoneVehicles
  BY <1>4 DEF CheckForOutOfZoneVehicles
<1>5. CASE PostTagSummary
  BY <1>5 DEF PostTagSummary
<1> QED
  BY <1>1, <1>2, <1>3, <1>4, <1>5 DEF Iterate

\* Zones ask for their own.
LEMMA PostsStayOfTheGroup == AutoSpec => []PostsAreOfTheGroup
<1>1. AutoInit => PostsAreOfTheGroup
  BY DEF AutoInit, Z!ZoneInit, PostsAreOfTheGroup
<1>2. PostsAreOfTheGroup /\ [AutoNext]_auto_vars => PostsAreOfTheGroup'
  <2> SUFFICES ASSUME PostsAreOfTheGroup, [AutoNext]_auto_vars PROVE PostsAreOfTheGroup'
    OBVIOUS
  <2>1. ASSUME NEW v \in Vehicles, ZoneHears(v) PROVE PostsAreOfTheGroup'
    BY <2>1 DEF ZoneHears, Z!OnNodeReport, Z!CheckedZones, PostsAreOfTheGroup
  <2>2. ASSUME NEW v \in Vehicles, NEW z \in ZoneNames, RefereeTakesUntag(z, v)
        PROVE  PostsAreOfTheGroup'
    BY <2>2 DEF RefereeTakesUntag, Z!TakePost, PostsAreOfTheGroup
  <2>3. ASSUME UNCHANGED zone_posts PROVE PostsAreOfTheGroup'
    BY <2>3 DEF PostsAreOfTheGroup
  <2> QED
    BY <2>1, <2>2, <2>3 DEF AutoNext, auto_vars, Sail, ChaserHears, RefereeHears,
                     ChaserPublishes, RefereeTakesRequest, RefereeIterates
<1> QED
  BY <1>1, <1>2, PTL DEF AutoSpec

\* Nobody escapes: a captive is released when its tag has lasted tag_duration, or
\* when it was seen at home, at most once for each request of uFldZoneEvent.
THEOREM CaptivesEarnReleases == AutoSpec => [][ReleasesAreEarned]_auto_vars
<1>1. ASSUME TypeOK, PostsAreOfTheGroup, AutoNext PROVE ReleasesAreEarned
  <2> SUFFICES ASSUME NEW v \in Vehicles, nowtagged[v], ~nowtagged'[v]
               PROVE  \/ pass = "vtags" /\ Expired(v)
                      \/ \E z \in ZoneNames : /\ ZoneGroup[z] = Group[v]
                                              /\ <<z, v>> \in zone_posts
                                              /\ <<z, v>> \notin zone_posts'
    BY DEF ReleasesAreEarned
  <2>1. CASE RefereeIterates
    BY <1>1, <2>1, IterateReleasesTheExpired DEF RefereeIterates
  <2>2. ASSUME NEW u \in Vehicles, NEW z \in ZoneNames, RefereeTakesUntag(z, u)
        PROVE  \E y \in ZoneNames : /\ ZoneGroup[y] = Group[v]
                                    /\ <<y, v>> \in zone_posts
                                    /\ <<y, v>> \notin zone_posts'
    <3>1. u = v
      BY <1>1, <2>2 DEF RefereeTakesUntag, UntagRequest, TypeOK, vars
    <3> QED
      BY <1>1, <2>2, <3>1 DEF RefereeTakesUntag, Z!TakePost, PostsAreOfTheGroup
  <2>3. ASSUME UNCHANGED nowtagged PROVE FALSE
    BY <2>3
  <2> QED
    BY <1>1, <2>1, <2>2, <2>3 DEF AutoNext, vars, Sail, ChaserHears, ZoneHears, RefereeHears,
       NodeReport, ChaserPublishes, RefereeTakesRequest, TagRequest
<1> QED
  BY <1>1, RobotsKeepInvariants, PostsStayOfTheGroup, PTL DEF AutoSpec

-------------------------------------------------------------------------------
(***************************************************************************)
(* Freedom at home.  The fairness of AutoFairSpec as far as the release of  *)
(* a captive needs it, with ENABLED worked out: a step that would change    *)
(* something is taken again and again, or again and again (weak fairness),  *)
(* or from some time on (strong fairness), there is none.                   *)
(***************************************************************************)

\* The reports of v go on reaching uFldZoneEvent, until every zone that serves it
\* has asked for its release.
ZonesHearOf(v) ==
  \/ []<><<ZoneHears(v)>>_auto_vars
  \/ []<>(\A z \in Z!CheckedZones(Group[v]) :
            place[v] \in ZoneArea[z] => <<z, v>> \in zone_posts)

\* And they reach uFldTagManager between its Iterates, unless it knows where v is.
RefereeHearsOf(v) ==
  \/ []<><<RefereeHears(v)>>_auto_vars
  \/ <>[]~(pass = "idle" /\ record[v] # place[v])

\* Between its Iterates uFldTagManager takes the requests to release v.
RefereeServes(v) ==
  \/ []<><<\E z \in ZoneNames : RefereeTakesUntag(z, v)>>_auto_vars
  \/ <>[]~(pass = "idle" /\ Served(v))

\* Every Iterate of uFldTagManager ends, for a batch of requests is finite.
IteratesEnd == []<>(pass = "idle")

\* By its record vehicle v is in its own zone.
KnownAtHome(v) == InZone(Group[v], record[v])

\* A vehicle at home is released when its request is taken.
LEMMA TakingFrees ==
  ASSUME TypeOK, NEW v \in Vehicles, KnownAtHome(v),
         NEW z \in ZoneNames, RefereeTakesUntag(z, v)
  PROVE  ~nowtagged'[v]
<1>1. v \in Known
  BY ZoneAssumption, NoRecordAssumption DEF KnownAtHome, InZone, Known, Teams
<1> QED
  BY <1>1 DEF RefereeTakesUntag, UntagRequest, TypeOK, vars

\* In its own zone nobody is tagged, if the zones do not overlap.
LEMMA FreeAtHome ==
  ASSUME TypeOK, NEW v \in Vehicles, KnownAtHome(v), ~nowtagged[v],
         Zone["one"] \cap Zone["two"] = {}, AutoNext
  PROVE  ~nowtagged'[v]
<1> USE DEF TypeOK
<1>0. \A team \in Teams : Group[v] # team => ~InZone(team, record[v])
  BY DEF KnownAtHome, InZone, Teams
<1>1. CASE Iterate
  <2>1. CASE ProcessVTag
    <3>1. \A team : v \notin Targets(team)
      BY <1>0 DEF Targets, InZone
    <3>2. ASSUME NEW u, NEW t, t # v, Tag(u, t) PROVE ~nowtagged'[v]
      BY <3>2 DEF Tag
    <3>3. \/ UNCHANGED nowtagged
          \/ \E u, t : t \in Targets(Group[u]) /\ Tag(u, t)
      BY <2>1 DEF ProcessVTag
    <3> QED
      BY <3>1, <3>2, <3>3
  <2>2. CASE CheckForOutOfZoneVehicles
    <3>1. ~Strayed(v)
      BY DEF Strayed, OutOfZones, KnownAtHome, InZone
    <3> QED
      BY <2>2, <3>1 DEF CheckForOutOfZoneVehicles
  <2> QED
    BY <1>1, <2>1, <2>2 DEF Iterate, UpdateCanTagStates, CheckForExpiredTags,
       PostTagSummary
<1>2. ASSUME NEW u \in Vehicles, NEW z \in ZoneNames, RefereeTakesUntag(z, u)
      PROVE  ~nowtagged'[v]
  BY <1>2 DEF RefereeTakesUntag, UntagRequest, vars
<1>3. CASE UNCHANGED nowtagged
  BY <1>3
<1> QED
  BY <1>1, <1>2, <1>3 DEF AutoNext, vars, Sail, ChaserHears, ZoneHears, RefereeHears,
     NodeReport, ChaserPublishes, RefereeTakesRequest, TagRequest, RefereeIterates

\* What uFldTagManager knows of a vehicle at home stays true, and comes true with
\* its next report.
LEMMA RecordsFollow ==
  ASSUME TypeOK, PlacesOK, NEW v \in Vehicles, AtHome(v), AutoNext,
         RefereeHears(v) \/ KnownAtHome(v)
  PROVE  KnownAtHome(v)'
<1> USE DEF TypeOK, KnownAtHome
<1>1. ASSUME RefereeHears(v) PROVE KnownAtHome(v)'
  BY <1>1 DEF RefereeHears, NodeReport, AtHome, InZone
<1>2. ASSUME KnownAtHome(v), NEW u \in Vehicles, u # v, RefereeHears(u)
      PROVE  KnownAtHome(v)'
  BY <1>2 DEF RefereeHears, NodeReport, InZone
<1>3. ASSUME KnownAtHome(v), UNCHANGED record PROVE KnownAtHome(v)'
  BY <1>3 DEF InZone
<1> QED
  BY <1>1, <1>2, <1>3 DEF AutoNext, vars, Sail, ChaserHears, ZoneHears, ChaserPublishes,
     RefereeTakesRequest, TagRequest, RefereeTakesUntag, UntagRequest, RefereeIterates,
     Iterate, UpdateCanTagStates, ProcessVTag, CheckForExpiredTags,
     CheckForOutOfZoneVehicles, PostTagSummary

\* A request to release v stays until it is taken.
LEMMA RequestsStay ==
  ASSUME NEW v \in Vehicles, Served(v), [AutoNext]_auto_vars
  PROVE  Served(v)' \/ <<\E z \in ZoneNames : RefereeTakesUntag(z, v)>>_auto_vars
<1>1. ASSUME NEW u \in Vehicles, ZoneHears(u) PROVE Served(v)'
  BY <1>1 DEF ZoneHears, Z!OnNodeReport, Served
<1>2. ASSUME NEW u \in Vehicles, u # v, NEW z \in ZoneNames, RefereeTakesUntag(z, u)
      PROVE  Served(v)'
  BY <1>2 DEF RefereeTakesUntag, Z!TakePost, Served
<1>3. ASSUME NEW z \in ZoneNames, RefereeTakesUntag(z, v)
      PROVE  <<\E y \in ZoneNames : RefereeTakesUntag(y, v)>>_auto_vars
  BY <1>3 DEF RefereeTakesUntag, Z!TakePost, auto_vars
<1>4. CASE UNCHANGED zone_posts
  BY <1>4 DEF Served
<1> QED
  BY <1>1, <1>2, <1>3, <1>4 DEF AutoNext, auto_vars, Sail, ChaserHears, RefereeHears,
     ChaserPublishes, RefereeTakesRequest, RefereeIterates

\* A zone asks for the release of a vehicle at home.
LEMMA HomeIsServed ==
  ASSUME NEW v \in Vehicles, AtHome(v)
  PROVE  /\ ZoneHears(v) => Served(v)'
         /\ (\A z \in Z!CheckedZones(Group[v]) :
               place[v] \in ZoneArea[z] => <<z, v>> \in zone_posts) => Served(v)
<1>1. PICK z \in Z!CheckedZones(Group[v]) : place[v] \in ZoneArea[z]
  BY DEF AtHome, Z!CheckedZones
<1>2. z \in ZoneNames
  BY DEF Z!CheckedZones
<1> QED
  BY <1>1, <1>2 DEF ZoneHears, Z!OnNodeReport, Served

(***************************************************************************)
(* A captive that stays at home is free for good in the end, for any        *)
(* tag_duration, whoever asks for tags meanwhile: its release depends on    *)
(* reports that two applications read on their own.                         *)
(***************************************************************************)
THEOREM HomeFreesCaptives ==
  ASSUME Zone["one"] \cap Zone["two"] = {}
  PROVE  AutoSpec /\ IteratesEnd
           /\ (\A v \in Vehicles : ZonesHearOf(v) /\ RefereeHearsOf(v) /\ RefereeServes(v))
         => CaptivesAreFreedAtHome
<1> SUFFICES ASSUME NEW v \in Vehicles
             PROVE  AutoSpec /\ IteratesEnd
                      /\ ZonesHearOf(v) /\ RefereeHearsOf(v) /\ RefereeServes(v)
                    => (<>[]AtHome(v) => <>[](~nowtagged[v]))
  BY DEF CaptivesAreFreedAtHome
<1> DEFINE Free == ~nowtagged[v]
           Home == AtHome(v)
           Recorded == KnownAtHome(v)
           Asked == Served(v)
           Hears == RefereeHears(v)
           Sees == ZoneHears(v)
           All == \A z \in Z!CheckedZones(Group[v]) :
                    place[v] \in ZoneArea[z] => <<z, v>> \in zone_posts
           Takes == \E z \in ZoneNames : RefereeTakesUntag(z, v)
           Upright == TypeOK /\ PlacesOK
           Told == record[v] = place[v]
           Between == pass = "idle"
<1>1. Upright /\ Home /\ <<Hears>>_auto_vars => Recorded'
  <2>1. Hears => AutoNext
    BY DEF AutoNext
  <2> QED
    BY <2>1, RecordsFollow
<1>2. Upright /\ Home /\ Recorded /\ [AutoNext]_auto_vars => Recorded'
  <2>1. Recorded /\ UNCHANGED auto_vars => Recorded'
    BY DEF auto_vars, vars, KnownAtHome, InZone
  <2> QED
    BY <2>1, RecordsFollow
<1>3. Home /\ Told => Recorded
  BY DEF AtHome, KnownAtHome
<1>4. Home /\ <<Sees>>_auto_vars => Asked'
  BY HomeIsServed
<1>5. Home /\ All => Asked
  BY HomeIsServed
<1>6. Asked /\ [AutoNext]_auto_vars => Asked' \/ <<Takes>>_auto_vars
  BY RequestsStay
<1>7. Upright /\ Recorded /\ <<Takes>>_auto_vars => Free'
  BY TakingFrees
<1>8. Upright /\ Recorded /\ Free /\ [AutoNext]_auto_vars => Free'
  <2>1. Free /\ UNCHANGED auto_vars => Free'
    BY DEF auto_vars, vars
  <2> QED
    BY <2>1, FreeAtHome
<1>9. AutoSpec => []Upright
  BY RobotsKeepInvariants, PlacesStayOK, PTL
<1>10. ~Told <=> record[v] # place[v]
  OBVIOUS
<1>11. /\ ZonesHearOf(v) <=> ([]<><<Sees>>_auto_vars \/ []<>All)
       /\ RefereeHearsOf(v) <=> ([]<><<Hears>>_auto_vars \/ <>[]~(Between /\ ~Told))
       /\ RefereeServes(v) <=> ([]<><<Takes>>_auto_vars \/ <>[]~(Between /\ Asked))
       /\ IteratesEnd <=> []<>Between
  BY <1>10, PTL DEF ZonesHearOf, RefereeHearsOf, RefereeServes, IteratesEnd
<1> HIDE DEF Free, Home, Recorded, Asked, Hears, Sees, All, Takes, Upright, Told, Between
<1>12. AutoSpec /\ IteratesEnd /\ ZonesHearOf(v) /\ RefereeHearsOf(v) /\ RefereeServes(v)
         => (<>[]Home => <>[]Free)
  BY <1>1, <1>2, <1>3, <1>4, <1>5, <1>6, <1>7, <1>8, <1>9, <1>11, PTL DEF AutoSpec
<1> QED
  BY <1>12 DEF Home, Free
===============================================================================
