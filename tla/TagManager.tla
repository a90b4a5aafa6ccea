------------------------------ MODULE TagManager ------------------------------
(***************************************************************************)
(* uFldTagManager, the referee of tags in the capture-the-flag game.        *)
(*                                                                          *)
(* A MOOS application is single threaded: OnNewMail runs one handler per    *)
(* message, then Iterate runs.  An Iterate is a fixed sequence of passes    *)
(* over the vehicles, modelled by the program counter "pass"; mail is       *)
(* handled only between Iterates ("idle").  The passes are steps of their   *)
(* own because each of them calls Notify, so other applications see what    *)
(* was posted by one pass before the next one has run.                      *)
(*                                                                          *)
(* Data abstraction.  A vehicle name is a natural number, its rank in the   *)
(* lexicographic order in which std::map visits the names.  A time stamp is *)
(* kept as its age, saturated at the interval it is compared with, so that  *)
(* the "never" of the code (time stamp 0) is the saturated age.             *)
(***************************************************************************)
EXTENDS Integers, Sequences, FiniteSets

CONSTANTS
  Vehicles,         \* names of the vehicles that may report
  Group,            \* the GROUP field of a vehicle's node reports
  Pos,              \* positions on the water
  Waters,           \* bound: the positions each vehicle reports
  Zone,             \* the polygon of each team (zone_one, zone_two)
  Dist,             \* distance between two positions
  TagRange,         \* tag_range
  TagMinInterval,   \* tag_min_interval
  TagDuration,      \* tag_duration
  Elapse,           \* how far m_curr_time may advance between two Iterates
  MaxPending,       \* bound: tag requests that arrive within one Iterate
  NoRecord          \* m_map_node_records has no entry for the vehicle

Teams == {"one", "two"}       \* m_team_one and m_team_two

ASSUME VehiclesAssumption == Vehicles \subseteq Nat
ASSUME GroupAssumption == Group \in [Vehicles -> Teams \cup {"none", "other"}]
ASSUME WatersAssumption == Waters \in [Vehicles -> SUBSET Pos]
ASSUME ZoneAssumption == Zone \in [Teams -> SUBSET Pos]
ASSUME DistAssumption == Dist \in [Pos \X Pos -> Nat]
ASSUME IntervalAssumption ==
  /\ TagRange \in Nat
  /\ TagMinInterval \in Nat
  /\ TagDuration \in Nat
  /\ Elapse \subseteq Nat
  /\ MaxPending \in Nat
ASSUME NoRecordAssumption == NoRecord \notin Pos

VARIABLES
  record,           \* m_map_node_records: last reported position
  pending,          \* m_pending_vtags: requests, with the position they captured
  nowtagged,        \* m_map_node_vtags_nowtagged
  tagreason,        \* m_map_node_vtags_tagreason
  tag_age,          \* m_curr_time - m_map_node_vtags_timetagged
  since_tag,        \* m_curr_time - m_map_node_vtags_last_tag
  can_tag,          \* m_map_node_vtags_can_tag, the last CANTAG_<V> posted
  onfield,          \* m_map_node_onfield, the last ONFIELD_<V> posted
  ozone_tags,       \* m_ozone_tags
  tagged_vnames,    \* m_prev_tagged_vnames, the last TAGGED_VEHICLES posted
  tag_post,         \* the configured posts last made for a vehicle
  pass              \* the pass of Iterate that runs next

vars == << record, pending, nowtagged, tagreason, tag_age, since_tag, can_tag,
           onfield, ozone_tags, tagged_vnames, tag_post, pass >>

VTags == [vname : Vehicles, x : Pos]
Flag3 == {"unset", "true", "false"}        \* a map<string,bool> with no entry yet

BoolToString(b) == IF b THEN "true" ELSE "false"

-------------------------------------------------------------------------------
(***************************************************************************)
(* Who may be tagged, by whom.                                              *)
(***************************************************************************)
Known == {v \in Vehicles : record[v] # NoRecord}

InZone(team, p) == team \in Teams /\ p \in Zone[team]

OutOfZones(v) == v \in Known /\ \A team \in Teams : record[v] \notin Zone[team]

\* Bug: a vehicle that is tagged already is tagged again.
Targets_Bug(team) ==
  {t \in Known : Group[t] # team /\ InZone(team, record[t])}

\* Untagged vehicles of any other group that are in the zone of the given team.
Targets(team) ==
  {t \in Known : Group[t] # team /\ InZone(team, record[t]) /\ ~nowtagged[t]}

InRange(p, t) == Dist[<<p, record[t]>>] <= TagRange

\* The scan keeps the first of the nearest targets in the order of the names.
IsClosest(t, p, targets) ==
  /\ t \in targets
  /\ \A u \in targets :
       \/ Dist[<<p, record[t]>>] < Dist[<<p, record[u]>>]
       \/ Dist[<<p, record[t]>>] = Dist[<<p, record[u]>>] /\ t <= u

\* Bug: the range check excludes the range itself.
CanTag_Bug(v, since) ==
  /\ ~nowtagged[v]
  /\ since >= TagMinInterval
  /\ InZone(Group[v], record[v])
  /\ \E t \in Targets(Group[v]) \ {v} : Dist[<<record[v], record[t]>>] < TagRange

\* The status posted as CANTAG_<V>, from the vehicle's present position.
CanTag(v, since) ==
  /\ ~nowtagged[v]
  /\ since >= TagMinInterval
  /\ InZone(Group[v], record[v])
  /\ \E t \in Targets(Group[v]) \ {v} : InRange(record[v], t)

\* Bug: the tagger's own tag is not looked at.
Verdict_Bug(vtag) ==
  LET v    == vtag.vname
      team == Group[v]
  IN  IF team = "none" THEN "invalid"
      ELSE IF since_tag[v] < TagMinInterval THEN "freq"
      ELSE IF ~InZone(team, vtag.x) THEN "zone"
      ELSE IF \E t \in Targets(team) :
                IsClosest(t, vtag.x, Targets(team)) /\ InRange(vtag.x, t)
           THEN "tagged"
      ELSE "none"

\* The result of a tag request, from the position captured with the request.
Verdict(vtag) ==
  LET v    == vtag.vname
      team == Group[v]
  IN  IF team = "none" THEN "invalid"
      ELSE IF nowtagged[v] THEN "selftagged"
      ELSE IF since_tag[v] < TagMinInterval THEN "freq"
      ELSE IF ~InZone(team, vtag.x) THEN "zone"
      ELSE IF \E t \in Targets(team) :
                IsClosest(t, vtag.x, Targets(team)) /\ InRange(vtag.x, t)
           THEN "tagged"
      ELSE "none"

\* Bug: ages grow without end.
Age_Bug(age, d, limit) == age + d

Age(age, d, limit) == IF age + d < limit THEN age + d ELSE limit

-------------------------------------------------------------------------------
Init ==
  /\ record = [v \in Vehicles |-> NoRecord]
  /\ pending = << >>
  /\ nowtagged = [v \in Vehicles |-> FALSE]
  /\ tagreason = [v \in Vehicles |-> "none"]
  /\ tag_age = [v \in Vehicles |-> TagDuration]
  /\ since_tag = [v \in Vehicles |-> TagMinInterval]
  /\ can_tag = [v \in Vehicles |-> "unset"]
  /\ onfield = [v \in Vehicles |-> "unset"]
  /\ ozone_tags = TRUE
  /\ tagged_vnames = {}
  /\ tag_post = [v \in Vehicles |-> "none"]
  /\ pass = "idle"

-------------------------------------------------------------------------------
(***************************************************************************)
(* Mail.                                                                    *)
(***************************************************************************)

\* The record is kept whatever group it names: an unknown team is only warned of.
NodeReport(v, p) ==
  /\ pass = "idle"
  /\ record' = [record EXCEPT ![v] = p]
  /\ UNCHANGED << pending, nowtagged, tagreason, tag_age, since_tag, can_tag,
                  onfield, ozone_tags, tagged_vnames, tag_post, pass >>

\* A request of an unknown vehicle changes nothing.
TagRequest(v) ==
  /\ pass = "idle"
  /\ v \in Known
  /\ Len(pending) < MaxPending
  /\ pending' = Append(pending, [vname |-> v, x |-> record[v]])
  /\ UNCHANGED << record, nowtagged, tagreason, tag_age, since_tag, can_tag,
                  onfield, ozone_tags, tagged_vnames, tag_post, pass >>

\* Bug: the reason of the tag survives the untag.
UntagRequest_Bug(v) ==
  /\ pass = "idle"
  /\ v \in Known
  /\ nowtagged[v]
  /\ nowtagged' = [nowtagged EXCEPT ![v] = FALSE]
  /\ tag_age' = [tag_age EXCEPT ![v] = TagDuration]
  /\ tag_post' = [tag_post EXCEPT ![v] = "untag"]
  /\ UNCHANGED << record, pending, tagreason, since_tag, can_tag, onfield,
                  ozone_tags, tagged_vnames, pass >>

\* A request for a vehicle that is unknown or not tagged is ignored.
UntagRequest(v) ==
  /\ pass = "idle"
  /\ v \in Known
  /\ nowtagged[v]
  /\ nowtagged' = [nowtagged EXCEPT ![v] = FALSE]
  /\ tagreason' = [tagreason EXCEPT ![v] = "none"]
  /\ tag_age' = [tag_age EXCEPT ![v] = TagDuration]
  /\ tag_post' = [tag_post EXCEPT ![v] = "untag"]
  /\ UNCHANGED << record, pending, since_tag, can_tag, onfield, ozone_tags,
                  tagged_vnames, pass >>

OzoneTags(b) ==
  /\ pass = "idle"
  /\ ozone_tags' = b
  /\ UNCHANGED << record, pending, nowtagged, tagreason, tag_age, since_tag,
                  can_tag, onfield, tagged_vnames, tag_post, pass >>

-------------------------------------------------------------------------------
(***************************************************************************)
(* Iterate.                                                                 *)
(***************************************************************************)

\* Iterate starts: m_curr_time advances, then updateCanTagStates.
UpdateCanTagStates(d) ==
  /\ pass = "idle"
  /\ since_tag' = [v \in Vehicles |-> Age(since_tag[v], d, TagMinInterval)]
  /\ tag_age' = [v \in Vehicles |-> Age(tag_age[v], d, TagDuration)]
  /\ can_tag' = [v \in Vehicles |->
                   IF v \in Known THEN BoolToString(CanTag(v, since_tag'[v]))
                                  ELSE can_tag[v]]
  /\ pass' = "vtags"
  /\ UNCHANGED << record, pending, nowtagged, tagreason, onfield, ozone_tags,
                  tagged_vnames, tag_post >>

\* processVTag declares t tagged, at the expense of the tagger's interval.
Tag(v, t) ==
  /\ nowtagged' = [nowtagged EXCEPT ![t] = TRUE]
  /\ tagreason' = [tagreason EXCEPT ![t] = "enemy"]
  /\ tag_age' = [tag_age EXCEPT ![t] = 0]
  /\ since_tag' = [since_tag EXCEPT ![v] = 0]
  /\ tag_post' = [tag_post EXCEPT ![t] = "tag"]

\* Bug: a request made too soon starts the interval anew.
ProcessVTag_Bug ==
  /\ pass = "vtags"
  /\ pending # << >>
  /\ pending' = Tail(pending)
  /\ LET vtag    == Head(pending)
         targets == Targets(Group[vtag.vname])
     IN  \/ /\ Verdict(vtag) = "tagged"
            /\ \E t \in targets :
                 IsClosest(t, vtag.x, targets) /\ Tag(vtag.vname, t)
         \/ /\ Verdict(vtag) # "tagged"
            /\ since_tag' = IF Verdict(vtag) = "freq"
                            THEN [since_tag EXCEPT ![vtag.vname] = 0]
                            ELSE since_tag
            /\ UNCHANGED << nowtagged, tagreason, tag_age, tag_post >>
  /\ UNCHANGED << record, can_tag, onfield, ozone_tags, tagged_vnames, pass >>

\* One round of the loop of processVTags.
ProcessVTag ==
  /\ pass = "vtags"
  /\ pending # << >>
  /\ pending' = Tail(pending)
  /\ LET vtag    == Head(pending)
         targets == Targets(Group[vtag.vname])
     IN  \/ /\ Verdict(vtag) = "tagged"
            /\ \E t \in targets :
                 IsClosest(t, vtag.x, targets) /\ Tag(vtag.vname, t)
         \/ /\ Verdict(vtag) # "tagged"
            /\ UNCHANGED << nowtagged, tagreason, tag_age, since_tag, tag_post >>
  /\ UNCHANGED << record, can_tag, onfield, ozone_tags, tagged_vnames, pass >>

\* Bug: the last instant of the duration still counts.
Expired_LateBug(v) == nowtagged[v] /\ TagDuration - tag_age[v] < 0

Expired(v) == nowtagged[v] /\ TagDuration - tag_age[v] <= 0

CheckForExpiredTags ==
  /\ pass = "vtags"
  /\ pending = << >>
  /\ nowtagged' = [v \in Vehicles |-> nowtagged[v] /\ ~Expired(v)]
  /\ tagreason' = [v \in Vehicles |-> IF Expired(v) THEN "none" ELSE tagreason[v]]
  /\ tag_age' = [v \in Vehicles |-> IF Expired(v) THEN TagDuration ELSE tag_age[v]]
  /\ tag_post' = [v \in Vehicles |-> IF Expired(v) THEN "untag" ELSE tag_post[v]]
  /\ pass' = "ozone"
  /\ UNCHANGED << record, pending, since_tag, can_tag, onfield, ozone_tags,
                  tagged_vnames >>

\* Bug: a vehicle is tagged only as it crosses the boundary.
Strayed_Bug(v) == OutOfZones(v) /\ ~nowtagged[v] /\ onfield[v] # "false"

\* The vehicles that the pass over the boundary is about to tag.
Strayed(v) == OutOfZones(v) /\ ~nowtagged[v]

CheckForOutOfZoneVehicles ==
  /\ pass = "ozone"
  /\ \/ /\ ozone_tags
        /\ onfield' = [v \in Vehicles |->
                         IF v \in Known THEN BoolToString(~OutOfZones(v))
                                        ELSE onfield[v]]
        /\ nowtagged' = [v \in Vehicles |-> nowtagged[v] \/ Strayed(v)]
        /\ tagreason' = [v \in Vehicles |->
                           IF Strayed(v) THEN "boundary" ELSE tagreason[v]]
        /\ tag_age' = [v \in Vehicles |-> IF Strayed(v) THEN 0 ELSE tag_age[v]]
        /\ tag_post' = [v \in Vehicles |->
                          IF Strayed(v) THEN "tag" ELSE tag_post[v]]
     \/ /\ ~ozone_tags
        /\ UNCHANGED << onfield, nowtagged, tagreason, tag_age, tag_post >>
  /\ pass' = "summary"
  /\ UNCHANGED << record, pending, since_tag, can_tag, ozone_tags, tagged_vnames >>

\* Bug: the list is posted when its length has changed.
PostTagSummary_Bug ==
  /\ pass = "summary"
  /\ LET tagged == {v \in Vehicles : nowtagged[v]}
     IN  tagged_vnames' = IF Cardinality(tagged) # Cardinality(tagged_vnames)
                          THEN tagged ELSE tagged_vnames
  /\ pass' = "idle"
  /\ UNCHANGED << record, pending, nowtagged, tagreason, tag_age, since_tag,
                  can_tag, onfield, ozone_tags, tag_post >>

PostTagSummary ==
  /\ pass = "summary"
  /\ tagged_vnames' = {v \in Vehicles : nowtagged[v]}
  /\ pass' = "idle"
  /\ UNCHANGED << record, pending, nowtagged, tagreason, tag_age, since_tag,
                  can_tag, onfield, ozone_tags, tag_post >>

-------------------------------------------------------------------------------
Mail ==
  \/ \E v \in Vehicles : \/ TagRequest(v)
                         \/ UntagRequest(v)
                         \/ \E p \in Waters[v] : NodeReport(v, p)
  \/ \E b \in BOOLEAN : OzoneTags(b)

Iterate ==
  \/ \E d \in Elapse : UpdateCanTagStates(d)
  \/ ProcessVTag
  \/ CheckForExpiredTags
  \/ CheckForOutOfZoneVehicles
  \/ PostTagSummary

Next == Mail \/ Iterate

Spec == Init /\ [][Next]_vars
-------------------------------------------------------------------------------
(***************************************************************************)
(* Properties.                                                              *)
(***************************************************************************)

\* Every variable keeps to its type.
TypeOK ==
  /\ record \in [Vehicles -> Pos \cup {NoRecord}]
  /\ pending \in Seq(VTags)
  /\ nowtagged \in [Vehicles -> BOOLEAN]
  /\ tagreason \in [Vehicles -> {"none", "enemy", "boundary"}]
  /\ tag_age \in [Vehicles -> 0..TagDuration]
  /\ since_tag \in [Vehicles -> 0..TagMinInterval]
  /\ can_tag \in [Vehicles -> Flag3]
  /\ onfield \in [Vehicles -> Flag3]
  /\ ozone_tags \in BOOLEAN
  /\ tagged_vnames \in SUBSET Vehicles
  /\ tag_post \in [Vehicles -> {"none", "tag", "untag"}]
  /\ pass \in {"idle", "vtags", "ozone", "summary"}

\* The four places that tag or untag a vehicle (a request, an expiry, the
\* boundary, an untag request) keep the tag, its reason and the posts the
\* vehicle steers by in step.
TagBookkeeping ==
  \A v \in Vehicles : /\ nowtagged[v] <=> tagreason[v] # "none"
                      /\ nowtagged[v] <=> tag_post[v] = "tag"

\* Once the expiry pass has run no tag has lasted tag_duration, unless it was made
\* at this very instant (tag_duration may be 0).
NoOverdueTag ==
  pass # "vtags" =>
    \A v \in Vehicles : nowtagged[v] => tag_age[v] < TagDuration \/ tag_age[v] = 0

\* When an Iterate ends nobody is at large outside the field while boundary tags
\* are on, not even a vehicle whose tag ran out in the same Iterate.
FieldIsPoliced ==
  pass = "summary" /\ ozone_tags =>
    \A v \in Vehicles : OutOfZones(v) => nowtagged[v] /\ onfield[v] = "false"

\* Between Iterates a vehicle that is tagged is in the last TAGGED_VEHICLES, the
\* list uFldFlagManager denies flags by; only an untag may be missing from it.
TagsAreAnnounced ==
  pass = "idle" => {v \in Vehicles : nowtagged[v]} \subseteq tagged_vnames

\* From the moment it is tagged to its release a vehicle tags nobody, not even by a
\* request it made before, in the batch that tagged it or in a later one: who tags
\* was free and stays free, and the interval of a captive never starts anew.
CaptivesDoNotTag ==
  [][/\ \A v \in Vehicles : nowtagged[v] => since_tag'[v] >= since_tag[v]
     /\ \A t \in Vehicles :
          ~nowtagged[t] /\ tagreason'[t] = "enemy" =>
            \E v \in Vehicles : ~nowtagged[v] /\ ~nowtagged'[v] /\ since_tag'[v] = 0]_vars

\* CANTAG_<V> is computed apart from processVTag.  When it is posted, it is true
\* exactly if a tag request made then and there would be declared a tag.
CanTagAgrees ==
  [][pass = "idle" /\ pass' = "vtags" =>
       \A v \in Known : can_tag'[v] = "true"
                         <=> (Verdict([vname |-> v, x |-> record[v]]))' = "tagged"]_vars

Rules == INSTANCE TagRules
           WITH place <- record,
                state <- [v \in Vehicles |->
                            IF nowtagged[v] THEN tagreason[v] ELSE "free"],
                rest <- since_tag

\* Each step of uFldTagManager is allowed by the rules of the game: only a free
\* and rested enemy, in its zone, or the boundary takes a vehicle's freedom.
ImplementsTagRules == Rules!Spec

\* The clock of uFldTagManager does not stand still.
TimePasses == []<><<\E d \in Elapse \ {0} : UpdateCanTagStates(d)>>_vars

\* Every tag ends: by expiry if by nothing else.
TagsAreReleased == TimePasses => \A v \in Vehicles : []<>(~nowtagged[v])

===============================================================================
