--------------------------- MODULE TagManagerProofs ---------------------------
(***************************************************************************)
(* Proofs about uFldTagManager, for any vehicles, groups, field, ranges and *)
(* intervals.                                                               *)
(***************************************************************************)
EXTENDS TagManager, TLAPS, WellFoundedInduction

USE DEF Teams

-------------------------------------------------------------------------------
(***************************************************************************)
(* Types.                                                                   *)
(***************************************************************************)

\* Ageing keeps an age within its limit.
LEMMA AgeType ==
  ASSUME NEW limit \in Nat, NEW age \in 0..limit, NEW d \in Nat
  PROVE  Age(age, d, limit) \in 0..limit
BY DEF Age

\* No step takes a variable out of its type.
LEMMA TypeStep == TypeOK /\ [Next]_vars => TypeOK'
<1> SUFFICES ASSUME TypeOK, [Next]_vars PROVE TypeOK'
  OBVIOUS
<1> USE IntervalAssumption, WatersAssumption DEF TypeOK
<1>1. ASSUME NEW v \in Vehicles, TagRequest(v) PROVE TypeOK'
  <2>1. [vname |-> v, x |-> record[v]] \in VTags
    BY <1>1, NoRecordAssumption DEF TagRequest, Known, VTags
  <2> QED
    BY <1>1, <2>1 DEF TagRequest
<1>2. ASSUME NEW v \in Vehicles, UntagRequest(v) PROVE TypeOK'
  BY <1>2 DEF UntagRequest
<1>3. ASSUME NEW v \in Vehicles, NEW p \in Waters[v], NodeReport(v, p) PROVE TypeOK'
  BY <1>3 DEF NodeReport
<1>4. ASSUME NEW b \in BOOLEAN, OzoneTags(b) PROVE TypeOK'
  BY <1>4 DEF OzoneTags
<1>5. ASSUME NEW d \in Elapse, UpdateCanTagStates(d) PROVE TypeOK'
  <2>1. since_tag' \in [Vehicles -> 0..TagMinInterval]
    BY <1>5, AgeType DEF UpdateCanTagStates
  <2>2. tag_age' \in [Vehicles -> 0..TagDuration]
    BY <1>5, AgeType DEF UpdateCanTagStates
  <2>3. can_tag' \in [Vehicles -> Flag3]
    BY <1>5 DEF UpdateCanTagStates, BoolToString, Flag3
  <2> QED
    BY <1>5, <2>1, <2>2, <2>3 DEF UpdateCanTagStates
<1>6. CASE ProcessVTag
  <2>1. pending' \in Seq(VTags)
    BY <1>6 DEF ProcessVTag
  <2>2. Head(pending) \in VTags
    BY <1>6 DEF ProcessVTag
  <2>3. CASE UNCHANGED << nowtagged, tagreason, tag_age, since_tag, tag_post >>
    BY <1>6, <2>1, <2>3 DEF ProcessVTag
  <2>4. ASSUME NEW t \in Vehicles, Tag(Head(pending).vname, t) PROVE TypeOK'
    <3>1. Head(pending).vname \in Vehicles
      BY <2>2 DEF VTags
    <3> QED
      BY <1>6, <2>1, <2>4, <3>1 DEF ProcessVTag, Tag
  <2> QED
    BY <1>6, <2>3, <2>4 DEF ProcessVTag, Targets, Known
<1>7. CASE CheckForExpiredTags
  BY <1>7 DEF CheckForExpiredTags
<1>8. CASE CheckForOutOfZoneVehicles
  <2>1. CASE ozone_tags
    <3>1. nowtagged' \in [Vehicles -> BOOLEAN]
      BY <1>8, <2>1 DEF CheckForOutOfZoneVehicles
    <3>2. onfield' \in [Vehicles -> Flag3]
      <4>1. \A v : BoolToString(~OutOfZones(v)) \in Flag3
        BY DEF BoolToString, Flag3
      <4>2. onfield' = [v \in Vehicles |->
                          IF v \in Known THEN BoolToString(~OutOfZones(v))
                                         ELSE onfield[v]]
        BY <1>8, <2>1 DEF CheckForOutOfZoneVehicles
      <4> QED
        BY <4>1, <4>2
    <3>3. tag_age' \in [Vehicles -> 0..TagDuration]
      <4>1. tag_age' = [v \in Vehicles |-> IF Strayed(v) THEN 0 ELSE tag_age[v]]
        BY <1>8, <2>1 DEF CheckForOutOfZoneVehicles
      <4>2. 0 \in 0..TagDuration /\ tag_age \in [Vehicles -> 0..TagDuration]
        OBVIOUS
      <4> QED
        BY <4>1, <4>2
    <3> QED
      BY <1>8, <2>1, <3>1, <3>2, <3>3 DEF CheckForOutOfZoneVehicles
  <2>2. CASE ~ozone_tags
    BY <1>8, <2>2 DEF CheckForOutOfZoneVehicles
  <2> QED
    BY <2>1, <2>2
<1>9. CASE PostTagSummary
  BY <1>9 DEF PostTagSummary
<1>10. CASE UNCHANGED vars
  BY <1>10 DEF vars
<1> QED
  BY <1>1, <1>2, <1>3, <1>4, <1>5, <1>6, <1>7, <1>8, <1>9, <1>10
     DEF Next, Mail, Iterate

\* Every variable of uFldTagManager keeps to its type.
THEOREM TypeCorrect == Spec => []TypeOK
<1>1. Init => TypeOK
  BY IntervalAssumption DEF Init, TypeOK, Flag3
<1> QED
  BY <1>1, TypeStep, PTL DEF Spec
-------------------------------------------------------------------------------
(***************************************************************************)
(* A tag, its reason and its posts.                                         *)
(***************************************************************************)

\* No step separates a tag from its reason or from its posts.
LEMMA BookkeepingStep == TypeOK /\ TagBookkeeping /\ [Next]_vars => TagBookkeeping'
<1> SUFFICES ASSUME TypeOK, TagBookkeeping, [Next]_vars PROVE TagBookkeeping'
  OBVIOUS
<1> USE DEF TypeOK, TagBookkeeping
<1>1. ASSUME NEW v \in Vehicles, TagRequest(v) PROVE TagBookkeeping'
  BY <1>1 DEF TagRequest
<1>2. ASSUME NEW v \in Vehicles, UntagRequest(v) PROVE TagBookkeeping'
  BY <1>2 DEF UntagRequest
<1>3. ASSUME NEW v \in Vehicles, NEW p \in Waters[v], NodeReport(v, p)
      PROVE TagBookkeeping'
  BY <1>3 DEF NodeReport
<1>4. ASSUME NEW b \in BOOLEAN, OzoneTags(b) PROVE TagBookkeeping'
  BY <1>4 DEF OzoneTags
<1>5. ASSUME NEW d \in Elapse, UpdateCanTagStates(d) PROVE TagBookkeeping'
  BY <1>5 DEF UpdateCanTagStates
<1>6. CASE ProcessVTag
  <2>1. ASSUME NEW v, NEW t \in Vehicles, Tag(v, t) PROVE TagBookkeeping'
    BY <2>1 DEF Tag
  <2> QED
    BY <1>6, <2>1 DEF ProcessVTag, Targets, Known
<1>7. CASE CheckForExpiredTags
  BY <1>7 DEF CheckForExpiredTags, Expired
<1>8. CASE CheckForOutOfZoneVehicles
  BY <1>8 DEF CheckForOutOfZoneVehicles, Strayed, OutOfZones
<1>9. CASE PostTagSummary
  BY <1>9 DEF PostTagSummary
<1>10. CASE UNCHANGED vars
  BY <1>10 DEF vars
<1> QED
  BY <1>1, <1>2, <1>3, <1>4, <1>5, <1>6, <1>7, <1>8, <1>9, <1>10
     DEF Next, Mail, Iterate

\* A vehicle is tagged exactly if a reason is on record and the last posts made
\* for it were those of a tag, whichever of the four places touched it last.
THEOREM BookkeepingIsInvariant == Spec => []TagBookkeeping
<1>1. Init => TagBookkeeping
  BY DEF Init, TagBookkeeping
<1> QED
  BY <1>1, TypeCorrect, BookkeepingStep, PTL DEF Spec

-------------------------------------------------------------------------------
(***************************************************************************)
(* Captives.                                                                *)
(***************************************************************************)

\* What CaptivesDoNotTag says of a step.
NoCaptiveTags ==
  /\ \A v \in Vehicles : nowtagged[v] => since_tag'[v] >= since_tag[v]
  /\ \A t \in Vehicles :
       ~nowtagged[t] /\ tagreason'[t] = "enemy" =>
         \E v \in Vehicles : ~nowtagged[v] /\ ~nowtagged'[v] /\ since_tag'[v] = 0

\* Only processVTag gives a tag to an enemy; its verdict looks at the tagger's own
\* tag as the requests before it in the batch have left it.
LEMMA CaptivesStep == TypeOK /\ TagBookkeeping /\ [Next]_vars => NoCaptiveTags
<1> SUFFICES ASSUME TypeOK, TagBookkeeping, [Next]_vars PROVE NoCaptiveTags
  OBVIOUS
<1>1. \A v \in Vehicles : /\ since_tag[v] \in Int /\ since_tag[v] >= since_tag[v]
                          /\ ~nowtagged[v] => tagreason[v] # "enemy"
  BY DEF TypeOK, TagBookkeeping
<1>2. CASE UNCHANGED << since_tag, tagreason >>
  BY <1>1, <1>2 DEF NoCaptiveTags
<1>3. ASSUME NEW v \in Vehicles, UntagRequest(v) PROVE NoCaptiveTags
  <2>1. since_tag' = since_tag
    BY <1>3 DEF UntagRequest
  <2>2. \A t \in Vehicles : tagreason'[t] \in {"none", tagreason[t]}
    BY <1>3 DEF UntagRequest, TypeOK
  <2> QED
    BY <1>1, <2>1, <2>2 DEF NoCaptiveTags
<1>4. ASSUME NEW d \in Elapse, UpdateCanTagStates(d) PROVE NoCaptiveTags
  <2>1. ASSUME NEW v \in Vehicles PROVE since_tag'[v] >= since_tag[v]
    <3>1. since_tag'[v] = Age(since_tag[v], d, TagMinInterval)
      BY <1>4 DEF UpdateCanTagStates
    <3>2. since_tag[v] \in 0..TagMinInterval /\ d \in Nat
      BY IntervalAssumption DEF TypeOK
    <3> QED
      BY <3>1, <3>2, IntervalAssumption DEF Age
  <2>2. UNCHANGED tagreason
    BY <1>4 DEF UpdateCanTagStates
  <2> QED
    BY <1>1, <2>1, <2>2 DEF NoCaptiveTags
<1>5. CASE ProcessVTag
  <2> DEFINE vtag == Head(pending)
             v    == vtag.vname
  <2>1. v \in Vehicles
    <3>1. vtag \in VTags
      BY <1>5 DEF ProcessVTag, TypeOK
    <3> QED
      BY <3>1 DEF VTags
  <2>2. CASE Verdict(vtag) = "tagged"
    <3>1. ~nowtagged[v]
      BY <2>2 DEF Verdict
    <3>2. PICK t \in Targets(Group[v]) : Tag(v, t)
      BY <1>5, <2>2 DEF ProcessVTag
    <3>3. t # v
      BY DEF Targets
    <3>4. nowtagged'[v] = nowtagged[v] /\ since_tag'[v] = 0
      BY <2>1, <3>2, <3>3 DEF Tag, TypeOK
    <3>5. \A u \in Vehicles : nowtagged[u] => since_tag'[u] = since_tag[u]
      BY <3>1, <3>2 DEF Tag, TypeOK
    <3> QED
      <4>1. ~nowtagged'[v]
        BY <3>1, <3>4, Zenon
      <4> QED
        BY <1>1, <2>1, <3>1, <3>4, <3>5, <4>1 DEF NoCaptiveTags
  <2>3. CASE Verdict(vtag) # "tagged"
    BY <1>2, <1>5, <2>3 DEF ProcessVTag
  <2> QED
    BY <2>2, <2>3
<1>6. CASE CheckForExpiredTags
  BY <1>1, <1>6 DEF CheckForExpiredTags, NoCaptiveTags
<1>7. CASE CheckForOutOfZoneVehicles
  BY <1>1, <1>7 DEF CheckForOutOfZoneVehicles, NoCaptiveTags
<1> QED
  BY <1>2, <1>3, <1>4, <1>5, <1>6, <1>7
     DEF Next, Mail, Iterate, NodeReport, TagRequest, OzoneTags, PostTagSummary, vars

\* From its tag to its release a vehicle tags nobody, however the requests of a
\* batch are ordered: who takes a freedom is free before and after.
THEOREM CaptivesAreHarmless == Spec => CaptivesDoNotTag
<1>1. TypeOK /\ TagBookkeeping /\ [Next]_vars => NoCaptiveTags
  BY CaptivesStep
<1>2. CaptivesDoNotTag <=> [][NoCaptiveTags]_vars
  BY DEF CaptivesDoNotTag, NoCaptiveTags
<1> HIDE DEF NoCaptiveTags
<1> QED
  BY <1>1, <1>2, TypeCorrect, BookkeepingIsInvariant, PTL DEF Spec
-------------------------------------------------------------------------------
(***************************************************************************)
(* What holds after each pass.                                              *)
(***************************************************************************)

\* The expiry pass leaves no overdue tag and the boundary pass makes a fresh one.
LEMMA OverdueStep == TypeOK /\ NoOverdueTag /\ [Next]_vars => NoOverdueTag'
<1> SUFFICES ASSUME TypeOK, NoOverdueTag, [Next]_vars PROVE NoOverdueTag'
  OBVIOUS
<1> USE DEF TypeOK, NoOverdueTag
<1>1. ASSUME NEW v \in Vehicles, TagRequest(v) PROVE NoOverdueTag'
  BY <1>1 DEF TagRequest
<1>2. ASSUME NEW v \in Vehicles, UntagRequest(v) PROVE NoOverdueTag'
  BY <1>2 DEF UntagRequest
<1>3. ASSUME NEW v \in Vehicles, NEW p \in Waters[v], NodeReport(v, p)
      PROVE NoOverdueTag'
  BY <1>3 DEF NodeReport
<1>4. ASSUME NEW b \in BOOLEAN, OzoneTags(b) PROVE NoOverdueTag'
  BY <1>4 DEF OzoneTags
<1>5. ASSUME NEW d \in Elapse, UpdateCanTagStates(d) PROVE NoOverdueTag'
  BY <1>5 DEF UpdateCanTagStates
<1>6. CASE ProcessVTag
  BY <1>6 DEF ProcessVTag
<1>7. CASE CheckForExpiredTags
  <2> SUFFICES ASSUME NEW v \in Vehicles, nowtagged'[v]
               PROVE  tag_age'[v] < TagDuration \/ tag_age'[v] = 0
    BY <1>7
  <2>1. nowtagged[v] /\ ~Expired(v)
    BY <1>7 DEF CheckForExpiredTags
  <2>2. tag_age'[v] = tag_age[v]
    BY <1>7, <2>1 DEF CheckForExpiredTags
  <2> QED
    BY <2>1, <2>2, IntervalAssumption DEF Expired
<1>8. CASE CheckForOutOfZoneVehicles
  <2> SUFFICES ASSUME NEW v \in Vehicles, nowtagged'[v]
               PROVE  tag_age'[v] < TagDuration \/ tag_age'[v] = 0
    BY <1>8
  <2>1. CASE Strayed(v)
    <3>1. tag_age'[v] = 0
      BY <1>8, <2>1 DEF CheckForOutOfZoneVehicles, Strayed
    <3> QED
      BY <3>1, IntervalAssumption
  <2>2. CASE ~Strayed(v)
    <3>1. nowtagged[v] /\ tag_age'[v] = tag_age[v]
      BY <1>8, <2>2 DEF CheckForOutOfZoneVehicles, Strayed, OutOfZones
    <3> QED
      BY <1>8, <3>1 DEF CheckForOutOfZoneVehicles
  <2> QED
    BY <2>1, <2>2
<1>9. CASE PostTagSummary
  BY <1>9 DEF PostTagSummary
<1>10. CASE UNCHANGED vars
  BY <1>10 DEF vars
<1> QED
  BY <1>1, <1>2, <1>3, <1>4, <1>5, <1>6, <1>7, <1>8, <1>9, <1>10
     DEF Next, Mail, Iterate

\* From the expiry pass to the next Iterate no tag is older than tag_duration.
THEOREM NoTagIsOverdue == Spec => []NoOverdueTag
<1>1. Init => NoOverdueTag
  BY DEF Init, NoOverdueTag
<1> QED
  BY <1>1, TypeCorrect, OverdueStep, PTL DEF Spec

\* The boundary pass is the only way into the summary pass.
LEMMA PolicedStep == TypeOK /\ FieldIsPoliced /\ [Next]_vars => FieldIsPoliced'
<1> SUFFICES ASSUME TypeOK, FieldIsPoliced, [Next]_vars PROVE FieldIsPoliced'
  OBVIOUS
<1> USE DEF TypeOK, FieldIsPoliced
<1>1. ASSUME NEW v \in Vehicles, TagRequest(v) PROVE FieldIsPoliced'
  BY <1>1 DEF TagRequest
<1>2. ASSUME NEW v \in Vehicles, UntagRequest(v) PROVE FieldIsPoliced'
  BY <1>2 DEF UntagRequest
<1>3. ASSUME NEW v \in Vehicles, NEW p \in Waters[v], NodeReport(v, p)
      PROVE FieldIsPoliced'
  BY <1>3 DEF NodeReport
<1>4. ASSUME NEW b \in BOOLEAN, OzoneTags(b) PROVE FieldIsPoliced'
  BY <1>4 DEF OzoneTags
<1>5. ASSUME NEW d \in Elapse, UpdateCanTagStates(d) PROVE FieldIsPoliced'
  BY <1>5 DEF UpdateCanTagStates
<1>6. CASE ProcessVTag
  BY <1>6 DEF ProcessVTag
<1>7. CASE CheckForExpiredTags
  BY <1>7 DEF CheckForExpiredTags
<1>8. CASE CheckForOutOfZoneVehicles
  <2>1. CASE ozone_tags
    BY <1>8, <2>1
       DEF CheckForOutOfZoneVehicles, Strayed, OutOfZones, Known, BoolToString
  <2>2. CASE ~ozone_tags
    BY <1>8, <2>2 DEF CheckForOutOfZoneVehicles
  <2> QED
    BY <2>1, <2>2
<1>9. CASE PostTagSummary
  BY <1>9 DEF PostTagSummary
<1>10. CASE UNCHANGED vars
  BY <1>10 DEF vars, OutOfZones, Known
<1> QED
  BY <1>1, <1>2, <1>3, <1>4, <1>5, <1>6, <1>7, <1>8, <1>9, <1>10
     DEF Next, Mail, Iterate

\* While boundary tags are on, an Iterate leaves nobody at large off the field.
THEOREM FieldStaysPoliced == Spec => []FieldIsPoliced
<1>1. Init => FieldIsPoliced
  BY DEF Init, FieldIsPoliced
<1> QED
  BY <1>1, TypeCorrect, PolicedStep, PTL DEF Spec

\* The summary is the last pass, and mail can only take vehicles off the list.
LEMMA AnnouncedStep == TypeOK /\ TagsAreAnnounced /\ [Next]_vars => TagsAreAnnounced'
<1> SUFFICES ASSUME TypeOK, TagsAreAnnounced, [Next]_vars PROVE TagsAreAnnounced'
  OBVIOUS
<1> USE DEF TypeOK, TagsAreAnnounced
<1>1. ASSUME NEW v \in Vehicles, TagRequest(v) PROVE TagsAreAnnounced'
  BY <1>1 DEF TagRequest
<1>2. ASSUME NEW v \in Vehicles, UntagRequest(v) PROVE TagsAreAnnounced'
  BY <1>2 DEF UntagRequest
<1>3. ASSUME NEW v \in Vehicles, NEW p \in Waters[v], NodeReport(v, p)
      PROVE TagsAreAnnounced'
  BY <1>3 DEF NodeReport
<1>4. ASSUME NEW b \in BOOLEAN, OzoneTags(b) PROVE TagsAreAnnounced'
  BY <1>4 DEF OzoneTags
<1>5. ASSUME NEW d \in Elapse, UpdateCanTagStates(d) PROVE TagsAreAnnounced'
  BY <1>5 DEF UpdateCanTagStates
<1>6. CASE ProcessVTag
  BY <1>6 DEF ProcessVTag
<1>7. CASE CheckForExpiredTags
  BY <1>7 DEF CheckForExpiredTags
<1>8. CASE CheckForOutOfZoneVehicles
  BY <1>8 DEF CheckForOutOfZoneVehicles
<1>9. CASE PostTagSummary
  BY <1>9 DEF PostTagSummary
<1>10. CASE UNCHANGED vars
  BY <1>10 DEF vars
<1> QED
  BY <1>1, <1>2, <1>3, <1>4, <1>5, <1>6, <1>7, <1>8, <1>9, <1>10
     DEF Next, Mail, Iterate

\* Between Iterates every tagged vehicle is in the posted TAGGED_VEHICLES.
THEOREM TagsStayAnnounced == Spec => []TagsAreAnnounced
<1>1. Init => TagsAreAnnounced
  BY DEF Init, TagsAreAnnounced
<1> QED
  BY <1>1, TypeCorrect, AnnouncedStep, PTL DEF Spec

-------------------------------------------------------------------------------
(***************************************************************************)
(* CANTAG_<V> and processVTag.                                              *)
(***************************************************************************)

\* A nonempty set of naturals has a least element.
LEMMA LeastNatural ==
  ASSUME NEW T \in SUBSET Nat, T # {}
  PROVE  \E x \in T : \A y \in T : x <= y
<1> DEFINE R == OpToRel(<, Nat)
<1>1. PICK x \in T : \A y \in T : <<y, x>> \notin R
  <2>1. IsWellFoundedOn(R, Nat)
    BY NatLessThanWellFounded
  <2> HIDE DEF R
  <2> QED
    BY <2>1, WFMin, Zenon
<1>2. ASSUME NEW y \in T PROVE x <= y
  <2>1. ~(y < x)
    BY <1>1 DEF OpToRel
  <2> QED
    BY <2>1
<1> QED
  BY <1>2

\* Whatever the set of targets, the scan for the nearest one finds one.
LEMMA ClosestExists ==
  ASSUME TypeOK, NEW p \in Pos, NEW targets \in SUBSET Known, targets # {}
  PROVE  \E t \in targets : IsClosest(t, p, targets)
<1> DEFINE Range(t) == Dist[<<p, record[t]>>]
           Nearest(d) == {t \in targets : Range(t) = d}
<1>1. ASSUME NEW t \in targets PROVE Range(t) \in Nat /\ t \in Nat
  BY DistAssumption, VehiclesAssumption DEF TypeOK, Known
<1>2. PICK d \in {Range(t) : t \in targets} :
         \A e \in {Range(t) : t \in targets} : d <= e
  <2> DEFINE ranges == {Range(t) : t \in targets}
  <2>1. ranges \in SUBSET Nat /\ ranges # {}
    BY <1>1
  <2> HIDE DEF ranges
  <2>2. \E d \in ranges : \A e \in ranges : d <= e
    BY <2>1, LeastNatural
  <2> QED
    BY <2>2 DEF ranges
<1>3. PICK t \in Nearest(d) : \A u \in Nearest(d) : t <= u
  <2>1. Nearest(d) \in SUBSET Nat /\ Nearest(d) # {}
    BY <1>1, <1>2
  <2> QED
    BY <2>1, LeastNatural
<1>4. ASSUME NEW u \in targets
      PROVE  Range(t) < Range(u) \/ (Range(t) = Range(u) /\ t <= u)
  <2>1. Range(t) <= Range(u)
    BY <1>2, <1>3
  <2>2. Range(t) = Range(u) => t <= u
    BY <1>3
  <2> QED
    BY <1>1, <1>3, <2>1, <2>2
<1> QED
  BY <1>3, <1>4 DEF IsClosest

\* The two computations of who can tag, side by side.
StatusIsVerdict ==
  \A v \in Known :
    CanTag(v, since_tag[v]) <=> Verdict([vname |-> v, x |-> record[v]]) = "tagged"

\* A request made at the vehicle's present position would be declared a tag
\* exactly if the status computed for CANTAG_<V> is true: some target is in
\* range if and only if the nearest one is.
LEMMA VerdictIsCanTag == TypeOK => StatusIsVerdict
<1> SUFFICES ASSUME TypeOK, NEW v \in Known
             PROVE  CanTag(v, since_tag[v])
                      <=> Verdict([vname |-> v, x |-> record[v]]) = "tagged"
  BY DEF StatusIsVerdict
<1> DEFINE targets == Targets(Group[v])
           p       == record[v]
<1>1. v \in Vehicles /\ p \in Pos /\ since_tag[v] \in 0..TagMinInterval
  BY DEF TypeOK, Known
<1>2. targets \in SUBSET Known /\ v \notin targets
  BY DEF Targets
<1>3. (\E t \in targets \ {v} : InRange(p, t))
        <=> \E t \in targets : IsClosest(t, p, targets) /\ InRange(p, t)
  <2>1. ASSUME NEW t \in targets, InRange(p, t)
        PROVE  \E u \in targets : IsClosest(u, p, targets) /\ InRange(p, u)
    <3>1. PICK u \in targets : IsClosest(u, p, targets)
      BY <1>1, <1>2, ClosestExists
    <3>2. Dist[<<p, record[u]>>] <= Dist[<<p, record[t]>>]
      <4>1. Dist[<<p, record[u]>>] \in Nat /\ Dist[<<p, record[t]>>] \in Nat
        BY <1>1, <1>2, DistAssumption DEF TypeOK, Known
      <4> QED
        BY <3>1, <4>1 DEF IsClosest
    <3>3. Dist[<<p, record[u]>>] \in Nat /\ Dist[<<p, record[t]>>] \in Nat
      BY <1>1, <1>2, DistAssumption DEF TypeOK, Known
    <3> QED
      BY <2>1, <3>1, <3>2, <3>3, IntervalAssumption DEF InRange
  <2> QED
    BY <1>2, <2>1
<1>4. InZone(Group[v], p) => Group[v] # "none"
  BY DEF InZone
<1>5. since_tag[v] >= TagMinInterval <=> ~(since_tag[v] < TagMinInterval)
  BY <1>1, IntervalAssumption
<1> HIDE DEF targets
<1> QED
  BY <1>3, <1>4, <1>5 DEF CanTag, Verdict, targets

\* CANTAG_<V>, when it is posted, tells the truth about a tag request.
THEOREM CanTagIsHonest == Spec => CanTagAgrees
<1>1. StatusIsVerdict' /\ [Next]_vars
        => [pass = "idle" /\ pass' = "vtags" =>
              \A v \in Known : can_tag'[v] = "true"
                 <=> (Verdict([vname |-> v, x |-> record[v]]))' = "tagged"]_vars
  <2> SUFFICES ASSUME StatusIsVerdict', [Next]_vars, pass = "idle", pass' = "vtags",
                      NEW v \in Known
               PROVE  can_tag'[v] = "true"
                        <=> (Verdict([vname |-> v, x |-> record[v]]))' = "tagged"
    OBVIOUS
  <2>1. PICK d \in Elapse : UpdateCanTagStates(d)
    BY DEF Next, Mail, Iterate, TagRequest, UntagRequest, NodeReport, OzoneTags,
           ProcessVTag, CheckForExpiredTags, CheckForOutOfZoneVehicles,
           PostTagSummary, vars
  <2>2. can_tag'[v] = BoolToString(CanTag(v, since_tag'[v]))
    BY <2>1 DEF UpdateCanTagStates, Known
  <2>3. CanTag(v, since_tag'[v]) <=> (CanTag(v, since_tag[v]))'
    BY <2>1 DEF UpdateCanTagStates, CanTag, Targets, Known, InZone, InRange
  <2>4. v \in Known'
    BY <2>1 DEF UpdateCanTagStates, Known
  <2>5. (CanTag(v, since_tag[v]))'
          <=> (Verdict([vname |-> v, x |-> record[v]]))' = "tagged"
    BY <2>4 DEF StatusIsVerdict
  <2> QED
    BY <2>2, <2>3, <2>5 DEF BoolToString
<1> QED
  BY <1>1, TypeCorrect, VerdictIsCanTag, PTL DEF Spec, CanTagAgrees
-------------------------------------------------------------------------------
(***************************************************************************)
(* The rules of the game.                                                   *)
(***************************************************************************)

\* The freedom of the vehicles, as the rules see it.
State == [v \in Vehicles |-> IF nowtagged[v] THEN tagreason[v] ELSE "free"]

\* A request that is declared a tag is a hit.
LEMMA ProcessVTagIsHit ==
  ASSUME TypeOK, ProcessVTag
  PROVE  Rules!Next \/ UNCHANGED Rules!vars
<1> DEFINE vtag == Head(pending)
           v    == vtag.vname
<1>1. vtag \in VTags
  BY DEF ProcessVTag, TypeOK
<1>2. v \in Vehicles
  BY <1>1 DEF VTags
<1>3. CASE Verdict(vtag) = "tagged"
  <2>1. PICK t \in Targets(Group[v]) : Tag(v, t)
    BY <1>3 DEF ProcessVTag
  <2>2. /\ ~nowtagged[v]
        /\ ~(since_tag[v] < TagMinInterval)
    BY <1>3 DEF Verdict
  <2>3. /\ t \in Vehicles
        /\ ~nowtagged[t]
        /\ Group[t] # Group[v]
        /\ InZone(Group[v], record[t])
    BY DEF Targets, Known
  <2>4. since_tag[v] = TagMinInterval
    BY <1>2, <2>2, IntervalAssumption DEF TypeOK
  <2>5. State' = [State EXCEPT ![t] = "enemy"]
    BY <2>1, <2>3 DEF Tag, State, TypeOK
  <2>6. State[v] = "free" /\ State[t] = "free"
    BY <1>2, <2>2, <2>3 DEF State
  <2>7. Rules!Hit(v, t)
    BY <2>1, <2>3, <2>4, <2>5, <2>6
       DEF Rules!Hit, Rules!In, InZone, State, Tag, ProcessVTag
  <2> QED
    BY <1>2, <2>3, <2>7 DEF Rules!Next
<1>4. CASE Verdict(vtag) # "tagged"
  BY <1>4 DEF ProcessVTag, Rules!vars
<1> QED
  BY <1>3, <1>4

\* Every step is a move, a wait, a hit, a straying or a release, or invisible.
LEMMA RulesStep ==
  TypeOK /\ [Next]_vars => [Rules!Next]_(Rules!vars)
<1> SUFFICES ASSUME TypeOK, [Next]_vars
             PROVE  Rules!Next \/ UNCHANGED Rules!vars
  OBVIOUS
<1> USE DEF TypeOK
<1>1. ASSUME NEW v \in Vehicles, TagRequest(v) PROVE UNCHANGED Rules!vars
  BY <1>1 DEF TagRequest, Rules!vars
<1>2. ASSUME NEW v \in Vehicles, UntagRequest(v) PROVE Rules!Next
  <2>1. State' = [u \in Vehicles |-> IF u \in {v} THEN "free" ELSE State[u]]
    BY <1>2 DEF UntagRequest, State
  <2>2. Rules!Release({v})
    BY <1>2, <2>1 DEF UntagRequest, Rules!Release, State
  <2> QED
    BY <2>2 DEF Rules!Next
<1>3. ASSUME NEW v \in Vehicles, NEW p \in Waters[v], NodeReport(v, p)
      PROVE  Rules!Next
  <2>1. Rules!Move(v, p)
    BY <1>3 DEF NodeReport, Rules!Move
  <2> QED
    BY <2>1, WatersAssumption DEF Rules!Next
<1>4. ASSUME NEW b \in BOOLEAN, OzoneTags(b) PROVE UNCHANGED Rules!vars
  BY <1>4 DEF OzoneTags, Rules!vars
<1>5. ASSUME NEW d \in Elapse, UpdateCanTagStates(d) PROVE Rules!Next
  <2>1. Rules!Wait(d)
    BY <1>5 DEF UpdateCanTagStates, Rules!Wait, Age
  <2> QED
    BY <2>1 DEF Rules!Next
<1>6. CASE ProcessVTag
  BY <1>6, ProcessVTagIsHit
<1>7. CASE CheckForExpiredTags
  <2>1. PICK vs \in SUBSET Vehicles : vs = {v \in Vehicles : Expired(v)}
    OBVIOUS
  <2>2. ASSUME NEW v \in Vehicles
        PROVE  State'[v] = IF v \in vs THEN "free" ELSE State[v]
    <3>1. CASE Expired(v)
      BY <1>7, <2>1, <3>1 DEF CheckForExpiredTags, State
    <3>2. CASE ~Expired(v)
      <4>1. /\ nowtagged'[v] <=> nowtagged[v]
            /\ tagreason'[v] = tagreason[v]
        BY <1>7, <3>2 DEF CheckForExpiredTags
      <4> QED
        BY <2>1, <3>2, <4>1 DEF State
    <3> QED
      BY <3>1, <3>2
  <2>3. State' = [v \in Vehicles |-> IF v \in vs THEN "free" ELSE State[v]]
    BY <2>2 DEF State
  <2>4. UNCHANGED << record, since_tag >>
    BY <1>7 DEF CheckForExpiredTags
  <2>5. Rules!Release(vs)
    BY <2>3, <2>4 DEF Rules!Release, State
  <2> QED
    BY <2>5 DEF Rules!Next
<1>8. CASE CheckForOutOfZoneVehicles
  <2>1. CASE ozone_tags
    <3>1. PICK vs \in SUBSET Vehicles : vs = {v \in Vehicles : Strayed(v)}
      OBVIOUS
    <3>2. ASSUME NEW v \in Vehicles
          PROVE  State'[v] = IF v \in vs THEN "boundary" ELSE State[v]
      <4>1. CASE Strayed(v)
        BY <1>8, <2>1, <3>1, <4>1 DEF CheckForOutOfZoneVehicles, State
      <4>2. CASE ~Strayed(v)
        <5>1. /\ nowtagged'[v] <=> nowtagged[v]
              /\ tagreason'[v] = tagreason[v]
          BY <1>8, <2>1, <4>2 DEF CheckForOutOfZoneVehicles
        <5> QED
          BY <3>1, <4>2, <5>1 DEF State
      <4> QED
        BY <4>1, <4>2
    <3>3. State' = [v \in Vehicles |-> IF v \in vs THEN "boundary" ELSE State[v]]
      BY <3>2 DEF State
    <3>4. \A v \in vs : /\ State[v] = "free"
                        /\ record[v] # NoRecord
                        /\ \A team \in Teams : ~Rules!In(team, record[v])
      BY <3>1 DEF State, Strayed, OutOfZones, Known, Rules!In
    <3>5. UNCHANGED << record, since_tag >>
      BY <1>8 DEF CheckForOutOfZoneVehicles
    <3>6. Rules!Stray(vs)
      BY <3>3, <3>4, <3>5 DEF Rules!Stray, State
    <3> QED
      BY <3>6 DEF Rules!Next
  <2>2. CASE ~ozone_tags
    BY <1>8, <2>2 DEF CheckForOutOfZoneVehicles, Rules!vars
  <2> QED
    BY <2>1, <2>2
<1>9. CASE PostTagSummary
  BY <1>9 DEF PostTagSummary, Rules!vars
<1>10. CASE UNCHANGED vars
  BY <1>10 DEF vars, Rules!vars
<1> QED
  BY <1>1, <1>2, <1>3, <1>4, <1>5, <1>6, <1>7, <1>8, <1>9, <1>10
     DEF Next, Mail, Iterate

\* uFldTagManager implements the rules of the game.
THEOREM TagManagerFollowsRules == Spec => ImplementsTagRules
<1>1. Init => Rules!Init
  BY DEF Init, Rules!Init
<1> QED
  BY <1>1, TypeCorrect, RulesStep, PTL DEF Spec, ImplementsTagRules, Rules!Spec

-------------------------------------------------------------------------------
(***************************************************************************)
(* The end of a tag.                                                        *)
(***************************************************************************)

\* What time and the passes may do to the tag of v while it lasts: its age never
\* falls, so nothing renews it; it grows whenever the clock advances, up to
\* tag_duration; and at that age the tag does not outlive the expiry pass.
RunsDown(v) ==
  /\ tag_age'[v] >= tag_age[v]
  /\ (\E d \in Elapse \ {0} : UpdateCanTagStates(d)) =>
       tag_age'[v] > tag_age[v] \/ tag_age[v] = TagDuration
  /\ pass = "vtags" /\ pass' # "vtags" => tag_age[v] < TagDuration

TagsRunDown == [][\A v \in Vehicles : nowtagged[v] /\ nowtagged'[v] => RunsDown(v)]_vars

\* A tag whose age a step leaves alone, outside the expiry pass, runs down.
LEMMA IdleTagRunsDown ==
  ASSUME TypeOK, NEW v \in Vehicles, tag_age'[v] = tag_age[v],
         pass # "vtags" \/ pass' = "vtags",
         ~(pass = "idle" /\ pass' = "vtags")
  PROVE  RunsDown(v)
<1>1. tag_age[v] \in Int
  BY DEF TypeOK
<1>2. ~ \E d \in Elapse \ {0} : UpdateCanTagStates(d)
  BY DEF UpdateCanTagStates
<1> QED
  BY <1>1, <1>2 DEF RunsDown

\* Requests pass captives over, the boundary pass too, the clock adds to their
\* ages and the expiry pass spares the young ones only.
LEMMA RunsDownStep ==
  ASSUME TypeOK, [Next]_vars, NEW v \in Vehicles, nowtagged[v], nowtagged'[v]
  PROVE  RunsDown(v)
<1> USE DEF TypeOK
<1>1. ASSUME NEW d \in Elapse, UpdateCanTagStates(d) PROVE RunsDown(v)
  <2>1. tag_age'[v] = Age(tag_age[v], d, TagDuration)
    BY <1>1 DEF UpdateCanTagStates
  <2>2. ASSUME NEW e \in Elapse \ {0}, UpdateCanTagStates(e)
        PROVE  tag_age'[v] > tag_age[v] \/ tag_age[v] = TagDuration
    <3>1. tag_age'[v] = Age(tag_age[v], e, TagDuration)
      BY <2>2 DEF UpdateCanTagStates
    <3>2. e \in Nat \ {0} /\ tag_age[v] \in 0..TagDuration
      BY IntervalAssumption
    <3> QED
      BY <3>1, <3>2, IntervalAssumption DEF Age
  <2>3. tag_age'[v] >= tag_age[v]
    <3>1. d \in Nat /\ tag_age[v] \in 0..TagDuration
      BY IntervalAssumption
    <3> QED
      BY <2>1, <3>1, IntervalAssumption DEF Age
  <2>4. pass = "idle"
    BY <1>1 DEF UpdateCanTagStates
  <2> QED
    BY <2>2, <2>3, <2>4 DEF RunsDown
<1>2. CASE ProcessVTag
  <2>1. \A team : v \notin Targets(team)
    BY DEF Targets
  <2>2. ASSUME NEW u, NEW t, t # v, Tag(u, t) PROVE tag_age'[v] = tag_age[v]
    BY <2>2 DEF Tag
  <2>3. \/ UNCHANGED tag_age
        \/ \E u, t : t \in Targets(Group[u]) /\ Tag(u, t)
    BY <1>2 DEF ProcessVTag
  <2>4. tag_age'[v] = tag_age[v]
    BY <2>1, <2>2, <2>3
  <2>5. pass = "vtags" /\ pass' = "vtags"
    BY <1>2 DEF ProcessVTag
  <2> QED
    BY <2>4, <2>5, IdleTagRunsDown
<1>3. CASE CheckForExpiredTags
  <2>1. nowtagged'[v] = (nowtagged[v] /\ ~Expired(v))
    BY <1>3 DEF CheckForExpiredTags
  <2>2. ~Expired(v)
    BY <2>1, Zenon
  <2>3. tag_age'[v] = tag_age[v] /\ pass = "vtags"
    BY <1>3, <2>2 DEF CheckForExpiredTags
  <2>4. tag_age[v] \in 0..TagDuration /\ ~(TagDuration - tag_age[v] <= 0)
    BY <2>2 DEF Expired
  <2>5. ~ \E d \in Elapse \ {0} : UpdateCanTagStates(d)
    BY <2>3 DEF UpdateCanTagStates
  <2> QED
    BY <2>3, <2>4, <2>5, IntervalAssumption DEF RunsDown
<1>4. CASE CheckForOutOfZoneVehicles
  <2>1. tag_age'[v] = tag_age[v] /\ pass = "ozone"
    BY <1>4 DEF CheckForOutOfZoneVehicles, Strayed
  <2> QED
    BY <2>1, IdleTagRunsDown
<1>5. CASE PostTagSummary
  BY <1>5, IdleTagRunsDown DEF PostTagSummary
<1>6. CASE Mail
  <2>1. ASSUME NEW u \in Vehicles, UntagRequest(u) PROVE RunsDown(v)
    <3>1. u # v
      BY <2>1 DEF UntagRequest
    <3> QED
      BY <2>1, <3>1, IdleTagRunsDown DEF UntagRequest
  <2> QED
    BY <1>6, <2>1, IdleTagRunsDown DEF Mail, NodeReport, TagRequest, OzoneTags
<1>7. CASE UNCHANGED vars
  BY <1>7, IdleTagRunsDown DEF vars
<1> QED
  BY <1>1, <1>2, <1>3, <1>4, <1>5, <1>6, <1>7 DEF Next, Iterate

\* No step of uFldTagManager, and no request that a robot repeats, renews a tag or
\* holds up its end: TagDuration - tag_age[v] only falls while v is tagged, falls
\* with every advance of the clock, and is not 0 after an expiry pass.
THEOREM TagsAreNotRenewed == Spec => TagsRunDown
<1> DEFINE Down == \A v \in Vehicles : nowtagged[v] /\ nowtagged'[v] => RunsDown(v)
<1>1. TypeOK /\ [Next]_vars => Down
  BY RunsDownStep
<1>2. TagsRunDown <=> [][Down]_vars
  BY DEF TagsRunDown
<1> HIDE DEF Down
<1> QED
  BY <1>1, <1>2, TypeCorrect, PTL DEF Spec
===============================================================================
