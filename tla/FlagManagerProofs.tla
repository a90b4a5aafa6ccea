--------------------------- MODULE FlagManagerProofs ---------------------------
(***************************************************************************)
(* Proofs about uFldFlagManager, for any vehicles, flags, field and ranges. *)
(***************************************************************************)
EXTENDS FlagManager, FiniteSetTheorems, WellFoundedInduction, TLAPS

-------------------------------------------------------------------------------
(***************************************************************************)
(* Types.                                                                   *)
(***************************************************************************)

\* Sets of vehicles and of flags have sizes.
LEMMA SizesAreNatural ==
  /\ \A vs \in SUBSET Vehicles : IsFiniteSet(vs) /\ Cardinality(vs) \in Nat
  /\ \A fs \in SUBSET Flags : IsFiniteSet(fs) /\ Cardinality(fs) \in Nat
BY FlagVehiclesAssumption, FS_Subset, FS_CardinalityType

\* No step takes a variable out of its type.
LEMMA FlagTypeStep == FlagTypeOK /\ [FlagNext]_flagvars => FlagTypeOK'
<1> SUFFICES ASSUME FlagTypeOK, [FlagNext]_flagvars PROVE FlagTypeOK'
  OBVIOUS
<1> USE FlagFieldAssumption, FlagTimeAssumption, GrabBoundAssumption DEF FlagTypeOK
<1>1. ASSUME NEW v \in Vehicles, NEW p \in Waters[v], FlagNodeReport(v, p)
      PROVE  FlagTypeOK'
  BY <1>1 DEF FlagNodeReport
<1>2. ASSUME NEW vs \in SUBSET Vehicles, TaggedVehicles(vs) PROVE FlagTypeOK'
  BY <1>2 DEF TaggedVehicles
<1>3. ASSUME NEW v \in Vehicles \cup {Nobody}, NEW f \in Flags \cup {NoFlag},
             FlagReset(v, f)
      PROVE  FlagTypeOK'
  <2>1. owner' \in [Flags -> Vehicles \cup {Nobody}]
    BY <1>3 DEF FlagReset
  <2>2. has_flag' \in [Vehicles -> BOOLEAN]
    BY <1>3 DEF FlagReset
  <2> QED
    BY <1>3, <2>1, <2>2 DEF FlagReset
<1>4. CASE FlagResetAll
  <2>1. owner' \in [Flags -> Vehicles \cup {Nobody}]
    BY <1>4 DEF FlagResetAll
  <2>2. has_flag' \in [Vehicles -> BOOLEAN]
    BY <1>4 DEF FlagResetAll
  <2> QED
    BY <1>4, <2>1, <2>2 DEF FlagResetAll
<1>5. ASSUME NEW v \in Vehicles, FlagGrab(v) PROVE FlagTypeOK'
  <2>1. Cardinality(Grabbable(v)) \in Nat
    BY SizesAreNatural DEF Grabbable
  <2>2. Group[v] \in Scorekeeping
    BY DEF Scorekeeping
  <2>3. team_grabs' \in [Scorekeeping -> 0..MaxGrabs]
    <3> DEFINE n == team_grabs[Group[v]] + Cardinality(Grabbable(v))
    <3>1. n \in 0..MaxGrabs
      BY <1>5, <2>1, <2>2 DEF FlagGrab
    <3>2. team_grabs' = [team_grabs EXCEPT ![Group[v]] = n]
      BY <1>5 DEF FlagGrab
    <3> HIDE DEF n
    <3> QED
      BY <2>2, <3>1, <3>2
  <2>4. owner' \in [Flags -> Vehicles \cup {Nobody}]
    BY <1>5 DEF FlagGrab
  <2>5. has_flag' \in [Vehicles -> BOOLEAN]
    BY <1>5 DEF FlagGrab
  <2>6. score_age' \in 0..ScoreGap
    BY <1>5 DEF FlagGrab
  <2> QED
    BY <1>5, <2>3, <2>4, <2>5, <2>6 DEF FlagGrab
<1>6. ASSUME NEW d \in Elapse, FlagIterate(d) PROVE FlagTypeOK'
  <2>1. near_flag_zone' \in [Vehicles -> BOOLEAN]
    BY <1>6 DEF FlagIterate, UpdateVehiclesInFlagRange
  <2>2. /\ owner' \in [Flags -> Vehicles \cup {Nobody}]
        /\ has_flag' \in [Vehicles -> BOOLEAN]
        /\ summary' \in [Flags -> Vehicles \cup {Nobody}]
    BY <1>6 DEF FlagIterate, UpdateVehiclesHaveScored
  <2>3. in_home_zone' \in [Vehicles -> BOOLEAN]
    BY <1>6 DEF FlagIterate, UpdateVehiclesUntagged, IsHome
  <2>4. team_score' \in [Scorekeeping -> Nat]
    <3>1. \A g \in Scorekeeping : Cardinality({v \in Scorers : Group[v] = g}) \in Nat
      BY SizesAreNatural DEF Scorers
    <3> QED
      <4> DEFINE goals(g) == Cardinality({v \in Scorers : Group[v] = g})
      <4>1. team_score' = [g \in Scorekeeping |-> team_score[g] + goals(g)]
        BY <1>6 DEF FlagIterate, UpdateVehiclesHaveScored
      <4>2. \A g \in Scorekeeping : goals(g) \in Nat
        BY <3>1
      <4> HIDE DEF goals
      <4> QED
        BY <4>1, <4>2
  <2>5. /\ score_age' \in 0..ScoreGap
        /\ score_post' \in [Flags -> Nat \X Nat]
        /\ leader' \in Flags \cup {"tie"}
    <3>1. Flags \subseteq Scorekeeping
      BY DEF Scorekeeping
    <3>2. CASE score_age' = 0
      BY <1>6, <2>4, <3>1, <3>2 DEF FlagIterate, NotifyScore
    <3>3. CASE Scorers = {} /\ score_age + d < ScoreGap
      <4>1. score_age' = score_age + d /\ UNCHANGED << score_post, leader >>
        BY <1>6, <3>3 DEF FlagIterate, NotifyScore
      <4> QED
        BY <3>3, <4>1
    <3> QED
      BY <1>6, <3>2, <3>3 DEF FlagIterate, NotifyScore
  <2> QED
    BY <1>6, <2>1, <2>2, <2>3, <2>4, <2>5 DEF FlagIterate
<1>7. CASE UNCHANGED flagvars
  BY <1>7 DEF flagvars
<1> QED
  BY <1>1, <1>2, <1>3, <1>4, <1>5, <1>6, <1>7 DEF FlagNext

\* Initially every variable has its type.
LEMMA FlagTypeInit == FlagInit => FlagTypeOK
<1> SUFFICES ASSUME FlagInit PROVE FlagTypeOK
  OBVIOUS
<1>1. score_age \in 0..ScoreGap /\ 0 \in 0..MaxGrabs
  BY FlagTimeAssumption, GrabBoundAssumption DEF FlagInit
<1>2. /\ team_grabs \in [Scorekeeping -> 0..MaxGrabs]
      /\ team_score \in [Scorekeeping -> Nat]
      /\ score_post \in [Flags -> Nat \X Nat]
  BY <1>1 DEF FlagInit
<1> QED
  BY <1>1, <1>2 DEF FlagInit, FlagTypeOK

\* Every variable keeps to its type, whatever mail arrives.
THEOREM FlagTypeCorrect == FlagSpec => []FlagTypeOK
BY FlagTypeInit, FlagTypeStep, PTL DEF FlagSpec

-------------------------------------------------------------------------------
(***************************************************************************)
(* Posts.                                                                   *)
(***************************************************************************)

\* Every step but a reset that names a vehicle and a label posts the owners it
\* makes, and that one makes no owner.
LEMMA SummaryStep ==
  ASSUME FlagTypeOK, OwnersAreShown, [FlagNext]_flagvars
  PROVE  /\ OwnersAreShown'
         /\ \/ summary' = owner'
            \/ UNCHANGED << owner, summary >>
            \/ \E v \in Vehicles, f \in Flags : FlagReset(v, f)
<1> USE DEF OwnersAreShown
<1>1. ASSUME NEW d \in Elapse, FlagIterate(d)
      PROVE  summary' = owner' \/ UNCHANGED << owner, summary >>
  <2>1. CASE Scorers = {}
    <3>1. owner' = owner
      BY <1>1, <2>1 DEF FlagIterate, UpdateVehiclesHaveScored, FlagTypeOK
    <3> QED
      BY <1>1, <2>1, <3>1 DEF FlagIterate, UpdateVehiclesHaveScored
  <2> QED
    BY <1>1, <2>1 DEF FlagIterate, UpdateVehiclesHaveScored
<1>2. ASSUME NEW v \in Vehicles \cup {Nobody}, NEW f \in Flags \cup {NoFlag},
             v # Nobody \/ f # NoFlag, FlagReset(v, f)
      PROVE  /\ OwnersAreShown'
             /\ \/ summary' = owner'
                \/ UNCHANGED << owner, summary >>
                \/ v \in Vehicles /\ f \in Flags
  <2>1. \A g \in Flags : owner'[g] \in {Nobody, owner[g]}
    BY <1>2 DEF FlagReset, FlagTypeOK
  <2>2. summary' = owner' \/ summary' = summary
    BY <1>2 DEF FlagReset
  <2>3. ASSUME summary' # owner', ~(v \in Vehicles /\ f \in Flags)
        PROVE  owner' = owner
    <3>1. CASE f = NoFlag
      <4>1. ~HasFlag(v)
        BY <1>2, <2>3, <3>1 DEF FlagReset, SomeFlagsWereReset
      <4>2. \A g \in Flags : owner[g] # v /\ g # f
        BY <3>1, <4>1, FlagNamesAssumption DEF HasFlag
      <4> QED
        BY <1>2, <4>2 DEF FlagReset, FlagTypeOK
    <3>2. CASE v = Nobody /\ f \in Flags
      <4>1. owner[f] = Nobody
        BY <1>2, <2>3, <3>2, FlagNamesAssumption DEF FlagReset, SomeFlagsWereReset
      <4>2. \A g \in Flags : owner'[g] = owner[g]
        BY <1>2, <3>2, <4>1 DEF FlagReset
      <4>3. owner \in [Flags -> Vehicles \cup {Nobody}]
        BY DEF FlagTypeOK
      <4>4. owner' = [g \in Flags |-> owner'[g]]
        BY <1>2 DEF FlagReset
      <4> QED
        BY <4>2, <4>3, <4>4
    <3> QED
      BY <2>3, <3>1, <3>2
  <2> QED
    BY <2>1, <2>2, <2>3
<1>3. CASE FlagResetAll
  BY <1>3 DEF FlagResetAll
<1>4. ASSUME NEW v \in Vehicles, FlagGrab(v) PROVE summary' = owner'
  BY <1>4 DEF FlagGrab
<1>5. CASE UNCHANGED << owner, summary >>
  BY <1>5
<1> QED
  BY <1>1, <1>2, <1>3, <1>4, <1>5
     DEF FlagNext, flagvars, FlagNodeReport, TaggedVehicles

\* No owner is ever missing in the last FLAG_SUMMARY posted.
THEOREM NoOwnerIsHidden == FlagSpec => []OwnersAreShown
<1>1. FlagInit => OwnersAreShown
  BY DEF FlagInit, OwnersAreShown
<1>2. FlagTypeOK /\ OwnersAreShown /\ [FlagNext]_flagvars => OwnersAreShown'
  BY SummaryStep
<1> QED
  BY <1>1, <1>2, FlagTypeCorrect, PTL DEF FlagSpec

\* Whatever changes the owners posts them, but for a reset by both keys.
THEOREM SummaryStaysCurrent == FlagSpec => SummaryFollowsOwners
<1> DEFINE Follows ==
      summary' # owner' =>
        /\ \/ UNCHANGED << owner, summary >>
           \/ \E v \in Vehicles, f \in Flags : FlagReset(v, f)
        /\ OwnersAreShown'
<1>1. FlagTypeOK /\ OwnersAreShown /\ [FlagNext]_flagvars => Follows
  BY SummaryStep
<1>2. SummaryFollowsOwners <=> [][Follows]_flagvars
  BY DEF SummaryFollowsOwners
<1> HIDE DEF Follows
<1> QED
  BY <1>1, <1>2, FlagTypeCorrect, NoOwnerIsHidden, PTL DEF FlagSpec

\* A vehicle that was last told HAS_FLAG_<V>=true has a flag.
THEOREM NoFlagIsImagined == FlagSpec => []HasFlagIsTold
<1>1. FlagInit => HasFlagIsTold
  BY DEF FlagInit, HasFlagIsTold
<1>2. FlagTypeOK /\ HasFlagIsTold /\ [FlagNext]_flagvars => HasFlagIsTold'
  <2> SUFFICES ASSUME FlagTypeOK, HasFlagIsTold, [FlagNext]_flagvars,
                      NEW u \in Vehicles, has_flag'[u]
               PROVE  \E f \in Flags : owner'[f] = u
    BY DEF HasFlagIsTold, HasFlag
  <2>1. has_flag[u] => \E f \in Flags : owner[f] = u
    BY DEF HasFlagIsTold, HasFlag
  <2>2. CASE UNCHANGED << owner, has_flag >>
    BY <2>1, <2>2
  <2>3. ASSUME NEW v \in Vehicles \cup {Nobody}, NEW label \in Flags \cup {NoFlag},
               FlagReset(v, label)
        PROVE  \E f \in Flags : owner'[f] = u
    <3>1. PICK f \in Flags : owner[f] = u
      BY <2>1, <2>3 DEF FlagReset, FlagTypeOK
    <3>2. ~(u = v \/ f = label)
      BY <2>3, <3>1 DEF FlagReset
    <3> QED
      BY <2>3, <3>1, <3>2 DEF FlagReset
  <2>4. CASE FlagResetAll
    <3>1. owner' = owner /\ has_flag' = has_flag
      BY <2>4 DEF FlagResetAll
    <3> QED
      BY <2>1, <3>1
  <2>5. ASSUME NEW v \in Vehicles, FlagGrab(v) PROVE \E f \in Flags : owner'[f] = u
    <3>1. CASE u = v
      <4>1. PICK f \in Flags : f \in Grabbable(v)
        BY <2>5 DEF FlagGrab, Grabbable
      <4> QED
        BY <2>5, <3>1, <4>1 DEF FlagGrab
    <3>2. CASE u # v
      <4>1. has_flag[u]
        BY <2>5, <3>2 DEF FlagGrab, FlagTypeOK
      <4>2. PICK f \in Flags : owner[f] = u
        BY <2>1, <4>1
      <4>3. f \notin Grabbable(v)
        BY <4>2, FlagVehiclesAssumption DEF Grabbable
      <4> QED
        BY <2>5, <4>2, <4>3 DEF FlagGrab
    <3> QED
      BY <3>1, <3>2
  <2>6. ASSUME NEW d \in Elapse, FlagIterate(d) PROVE \E f \in Flags : owner'[f] = u
    <3>1. has_flag[u] /\ u \notin Scorers
      BY <2>6 DEF FlagIterate, UpdateVehiclesHaveScored
    <3>2. PICK f \in Flags : owner[f] = u
      BY <2>1, <3>1
    <3> QED
      BY <2>6, <3>1, <3>2 DEF FlagIterate, UpdateVehiclesHaveScored
  <2> QED
    BY <2>2, <2>3, <2>4, <2>5, <2>6 DEF FlagNext, flagvars, FlagNodeReport, TaggedVehicles
<1> QED
  BY <1>1, <1>2, FlagTypeCorrect, PTL DEF FlagSpec

\* A score that is not due is the score last posted.
THEOREM PostedScoreStaysCurrent == FlagSpec => []PostedScoreIsCurrent
<1> USE DEF PostedScoreIsCurrent
<1>1. FlagInit => PostedScoreIsCurrent
  BY FlagTimeAssumption DEF FlagInit
<1>2. FlagTypeOK /\ PostedScoreIsCurrent /\ [FlagNext]_flagvars => PostedScoreIsCurrent'
  <2> SUFFICES ASSUME FlagTypeOK, PostedScoreIsCurrent, [FlagNext]_flagvars
               PROVE  PostedScoreIsCurrent'
    OBVIOUS
  <2>1. ASSUME NEW v \in Vehicles, FlagGrab(v) PROVE PostedScoreIsCurrent'
    BY <2>1, FlagTimeAssumption DEF FlagGrab
  <2>2. ASSUME NEW d \in Elapse, FlagIterate(d) PROVE PostedScoreIsCurrent'
    <3>1. CASE Scorers = {} /\ score_age + d < ScoreGap /\ UNCHANGED score_post
      <4>1. score_age < ScoreGap
        BY <3>1, FlagTimeAssumption DEF FlagTypeOK
      <4>2. team_score' = team_score
        <5>1. \A g \in Scorekeeping : {v \in Scorers : Group[v] = g} = {}
          BY <3>1
        <5> QED
          BY <2>2, <5>1, FS_EmptySet
          DEF FlagIterate, UpdateVehiclesHaveScored, FlagTypeOK
      <4> QED
        BY <2>2, <3>1, <4>1, <4>2 DEF FlagIterate
    <3> QED
      BY <2>2, <3>1 DEF FlagIterate, NotifyScore
  <2> QED
    BY <2>1, <2>2 DEF FlagNext, flagvars, FlagNodeReport, TaggedVehicles, FlagReset,
       FlagResetAll
<1> QED
  BY <1>1, <1>2, FlagTypeCorrect, PTL DEF FlagSpec

-------------------------------------------------------------------------------
(***************************************************************************)
(* The score.                                                               *)
(***************************************************************************)
Carriers(g) == {v \in Vehicles : Group[v] = g /\ HasFlag(v)}

\* Freeing flags makes no vehicle a carrier.
LEMMA FreeingIsHarmless ==
  ASSUME FlagTypeOK, GoalsCostGrabs,
         \A f \in Flags : owner'[f] \in {owner[f], Nobody},
         UNCHANGED << team_score, team_grabs >>
  PROVE  GoalsCostGrabs'
<1> SUFFICES ASSUME NEW g \in Scorekeeping
             PROVE  team_score[g] + Cardinality(Carriers(g)') <= team_grabs[g]
  BY DEF GoalsCostGrabs, Carriers
<1>1. Carriers(g)' \subseteq Carriers(g)
  BY FlagVehiclesAssumption DEF Carriers, HasFlag
<1>2. Cardinality(Carriers(g)') <= Cardinality(Carriers(g))
  BY <1>1, SizesAreNatural, FS_Subset DEF Carriers
<1>3. Cardinality(Carriers(g)) \in Nat /\ Cardinality(Carriers(g)') \in Nat
  BY SizesAreNatural DEF Carriers
<1>4. team_score[g] + Cardinality(Carriers(g)) <= team_grabs[g]
  BY DEF GoalsCostGrabs, Carriers
<1> QED
  BY <1>2, <1>3, <1>4, GrabBoundAssumption DEF FlagTypeOK

\* A grab makes one carrier and counts at least once.
LEMMA GrabIsCounted ==
  ASSUME FlagTypeOK, GoalsCostGrabs, NEW v \in Vehicles, FlagGrab(v)
  PROVE  GoalsCostGrabs'
<1> SUFFICES ASSUME NEW g \in Scorekeeping
             PROVE  team_score'[g] + Cardinality(Carriers(g)') <= team_grabs'[g]
  BY DEF GoalsCostGrabs, Carriers
<1>1. \A u \in Vehicles \ {v} : HasFlag(u)' => HasFlag(u)
  BY FlagVehiclesAssumption DEF FlagGrab, HasFlag, Grabbable, FlagTypeOK
<1>2. Carriers(g)' \subseteq IF Group[v] = g THEN Carriers(g) \cup {v} ELSE Carriers(g)
  BY <1>1 DEF Carriers
<1>3. team_score[g] + Cardinality(Carriers(g)) <= team_grabs[g]
  BY DEF GoalsCostGrabs, Carriers
<1>4. /\ Cardinality(Carriers(g)) \in Nat /\ IsFiniteSet(Carriers(g))
      /\ Cardinality(Carriers(g)') \in Nat
  BY SizesAreNatural DEF Carriers
<1>5. team_score' = team_score /\ team_score[g] \in Nat /\ team_grabs[g] \in Nat
  BY GrabBoundAssumption DEF FlagGrab, FlagTypeOK
<1>6. CASE Group[v] = g
  <2>1. Cardinality(Carriers(g) \cup {v}) <= Cardinality(Carriers(g)) + 1
        /\ IsFiniteSet(Carriers(g) \cup {v})
        /\ Cardinality(Carriers(g) \cup {v}) \in Nat
    <3>1. /\ IsFiniteSet(Carriers(g) \cup {v})
          /\ Cardinality(Carriers(g) \cup {v})
               = IF v \in Carriers(g) THEN Cardinality(Carriers(g))
                                      ELSE Cardinality(Carriers(g)) + 1
      BY <1>4, FS_AddElement
    <3> QED
      BY <1>4, <3>1
  <2>2. Cardinality(Carriers(g)') <= Cardinality(Carriers(g) \cup {v})
    BY <1>2, <1>6, <2>1, FS_Subset
  <2>3. Cardinality(Grabbable(v)) \in Nat \ {0}
    BY SizesAreNatural, FS_EmptySet DEF FlagGrab, Grabbable
  <2>4. team_grabs'[g] = team_grabs[g] + Cardinality(Grabbable(v))
    BY <1>6 DEF FlagGrab, FlagTypeOK
  <2> QED
    BY <1>3, <1>4, <1>5, <2>1, <2>2, <2>3, <2>4
<1>7. CASE Group[v] # g
  <2>1. Cardinality(Carriers(g)') <= Cardinality(Carriers(g))
    BY <1>2, <1>4, <1>7, FS_Subset
  <2>2. team_grabs'[g] = team_grabs[g]
    BY <1>7 DEF FlagGrab, FlagTypeOK
  <2> QED
    BY <1>3, <1>4, <1>5, <2>1, <2>2
<1> QED
  BY <1>6, <1>7

\* Each goal takes a carrier off the water.
LEMMA GoalIsPaid ==
  ASSUME FlagTypeOK, GoalsCostGrabs, NEW d \in Elapse, FlagIterate(d)
  PROVE  GoalsCostGrabs'
<1> SUFFICES ASSUME NEW g \in Scorekeeping
             PROVE  team_score'[g] + Cardinality(Carriers(g)') <= team_grabs[g]
  BY DEF GoalsCostGrabs, Carriers, FlagIterate
<1> DEFINE S == {v \in Scorers : Group[v] = g}
<1>1. S \subseteq Carriers(g)
  BY DEF Scorers, Carriers
<1>2. Carriers(g)' \subseteq Carriers(g) \ S
  <2>1. \A v \in Vehicles : HasFlag(v)' => HasFlag(v) /\ v \notin Scorers
    BY FlagVehiclesAssumption
    DEF FlagIterate, UpdateVehiclesHaveScored, HasFlag, FlagTypeOK
  <2> QED
    BY <2>1 DEF Carriers
<1>3. /\ IsFiniteSet(Carriers(g)) /\ Cardinality(Carriers(g)) \in Nat
      /\ Cardinality(S) \in Nat /\ Cardinality(Carriers(g)') \in Nat
  BY SizesAreNatural DEF Carriers, Scorers
<1>4. Cardinality(Carriers(g) \ S) = Cardinality(Carriers(g)) - Cardinality(S)
      /\ IsFiniteSet(Carriers(g) \ S)
  <2>1. Carriers(g) \cap S = S
    BY <1>1
  <2> QED
    BY <1>3, <2>1, FS_Difference
<1>5. Cardinality(Carriers(g)') <= Cardinality(Carriers(g) \ S)
  BY <1>2, <1>4, FS_Subset
<1>6. team_score'[g] = team_score[g] + Cardinality(S)
  BY DEF FlagIterate, UpdateVehiclesHaveScored
<1>7. team_score[g] + Cardinality(Carriers(g)) <= team_grabs[g]
  BY DEF GoalsCostGrabs, Carriers
<1>8. team_score[g] \in Nat /\ team_grabs[g] \in Nat
  BY GrabBoundAssumption DEF FlagTypeOK
<1> HIDE DEF S
<1> QED
  BY <1>3, <1>4, <1>5, <1>6, <1>7, <1>8

\* No team has more goals than its grabs have paid for.
THEOREM GoalsArePaidFor == FlagSpec => []GoalsCostGrabs
<1>1. FlagInit => GoalsCostGrabs
  <2> SUFFICES ASSUME FlagInit, NEW g \in Scorekeeping
               PROVE  team_score[g] + Cardinality(Carriers(g)) <= team_grabs[g]
    BY DEF GoalsCostGrabs, Carriers
  <2>1. Carriers(g) = {}
    BY FlagVehiclesAssumption DEF Carriers, HasFlag, FlagInit
  <2> QED
    BY <2>1, FS_EmptySet DEF FlagInit
<1>2. FlagTypeOK /\ GoalsCostGrabs /\ [FlagNext]_flagvars => GoalsCostGrabs'
  <2> SUFFICES ASSUME FlagTypeOK, GoalsCostGrabs, [FlagNext]_flagvars
               PROVE  GoalsCostGrabs'
    OBVIOUS
  <2>1. ASSUME NEW v \in Vehicles \cup {Nobody}, NEW f \in Flags \cup {NoFlag},
               FlagReset(v, f)
        PROVE  GoalsCostGrabs'
    BY <2>1, FreeingIsHarmless DEF FlagReset
  <2>2. CASE FlagResetAll
    BY <2>2, FreeingIsHarmless DEF FlagResetAll
  <2>3. CASE UNCHANGED << owner, team_score, team_grabs >>
    BY <2>3, FreeingIsHarmless
  <2> QED
    BY <2>1, <2>2, <2>3, GrabIsCounted, GoalIsPaid
    DEF FlagNext, flagvars, FlagNodeReport, TaggedVehicles
<1> QED
  BY <1>1, <1>2, FlagTypeCorrect, PTL DEF FlagSpec

-------------------------------------------------------------------------------
(***************************************************************************)
(* The leader.  Leaders is a loop over m_flags; what it computes is proved  *)
(* by induction over its rounds, for which a set takes the place of the     *)
(* predicate: a round that is not in it would be the least such round.      *)
(***************************************************************************)

\* A set that has 0 and is closed under successors up to n has all up to n.
LEMMA FiniteInduction ==
  ASSUME NEW n \in Nat, NEW T, 0 \in T,
         \A i \in 0..n : i # n /\ i \in T => i + 1 \in T
  PROVE  0..n \subseteq T
<1> SUFFICES ASSUME 0..n \ T # {} PROVE FALSE
  OBVIOUS
<1> DEFINE less == OpToRel(<, Nat)
           rest == 0..n \ T
<1>1. IsWellFoundedOn(less, Nat)
  BY NatLessThanWellFounded
<1>2. \A k, m \in Nat : k < m => << k, m >> \in less
  BY DEF OpToRel
<1> HIDE DEF less
<1>3. rest \subseteq Nat /\ rest # {}
  OBVIOUS
<1>4. PICK m \in rest : \A k \in rest : ~(<< k, m >> \in less)
  <2> HIDE DEF rest
  <2> QED BY <1>1, <1>3, WFMin
<1>5. m # 0 /\ m \in 0..n
  OBVIOUS
<1>6. m - 1 \in T
  <2>1. << m - 1, m >> \in less
    BY <1>2, <1>5
  <2>2. m - 1 \in 0..n
    BY <1>5
  <2> QED BY <2>1, <2>2, <1>4
<1>7. m - 1 \in 0..n /\ m - 1 # n /\ (m - 1) + 1 = m
  BY <1>5
<1> QED BY <1>6, <1>7

\* f holds what a loop of n rounds that starts from first has computed after each.
IsLoop(f, n, S, first, Round) ==
  /\ f \in [0..n -> S]
  /\ f[0] = first
  /\ \A i \in 1..n : f[i] = Round[i][f[i - 1]]

\* There is such an f for any number of rounds.
LEMMA LoopIsDefined ==
  ASSUME NEW n \in Nat, NEW S, NEW first \in S, NEW Round \in [1..n -> [S -> S]]
  PROVE  \E f : IsLoop(f, n, S, first, Round)
<1> DEFINE T == {m \in 0..n : \E f : IsLoop(f, m, S, first, Round)}
<1>1. 0 \in T
  <2>1. IsLoop([i \in 0..0 |-> first], 0, S, first, Round)
    BY DEF IsLoop
  <2> QED BY <2>1
<1>2. ASSUME NEW m \in 0..n, m # n, m \in T PROVE m + 1 \in T
  <2>1. PICK f : IsLoop(f, m, S, first, Round)
    BY <1>2
  <2> DEFINE next == Round[m + 1][f[m]]
             g == [i \in 0..(m + 1) |-> IF i = m + 1 THEN next ELSE f[i]]
  <2>2. /\ f \in [0..m -> S]
        /\ f[0] = first
        /\ \A i \in 1..m : f[i] = Round[i][f[i - 1]]
    BY <2>1 DEF IsLoop
  <2>3. next \in S
    BY <2>2, <1>2
  <2>4. g \in [0..(m + 1) -> S] /\ g[0] = first
    <3> HIDE DEF next
    <3> QED BY <2>2, <2>3
  <2>5. ASSUME NEW i \in 1..(m + 1) PROVE g[i] = Round[i][g[i - 1]]
    <3>1. CASE i = m + 1
      <4>1. g[i] = next /\ g[i - 1] = f[m]
        <5> HIDE DEF next
        <5> QED BY <3>1, <1>2
      <4> QED BY <4>1, <3>1
    <3>2. CASE i # m + 1
      <4>1. g[i] = f[i] /\ g[i - 1] = f[i - 1]
        BY <3>2, <1>2
      <4> QED BY <4>1, <3>2, <2>2, <1>2
    <3> QED BY <3>1, <3>2
  <2>6. IsLoop(g, m + 1, S, first, Round)
    <3> HIDE DEF g
    <3> QED BY <2>4, <2>5 DEF IsLoop
  <2> HIDE DEF g
  <2>7. m + 1 \in 0..n
    BY <1>2
  <2> QED BY <2>6, <2>7
<1>3. n \in T
  <2> HIDE DEF T
  <2>1. 0..n \subseteq T
    BY <1>1, <1>2, FiniteInduction
  <2> QED BY <2>1
<1> QED BY <1>3

\* What the loop of notifyScore keeps from round to round.
Standing == [max : Nat, teams : SUBSET Flags]

\* Leaders is the end of a sequence of rounds, each of which compares one team.
LEMMA LeadersAreCompared ==
  ASSUME NEW score \in [Scorekeeping -> Nat]
  PROVE  \E lead : /\ Leaders(score) = lead[Len(FlagOrder)].teams
                   /\ lead[0] = [max |-> 0, teams |-> {}]
                   /\ \A i \in 1..Len(FlagOrder) :
                        lead[i] = Compared(score, lead[i - 1], FlagOrder[i])
<1> DEFINE n == Len(FlagOrder)
           first == [max |-> 0, teams |-> {}]
           Round == [i \in 1..n |-> [l \in Standing |-> Compared(score, l, FlagOrder[i])]]
<1>1. n \in Nat /\ \A i \in 1..n : FlagOrder[i] \in Flags
  BY FlagOrderAssumption
<1>2. \A i \in 1..n : score[FlagOrder[i]] \in Nat
  BY <1>1 DEF Scorekeeping
<1>3. first \in Standing
  BY DEF Standing
<1>4. Round \in [1..n -> [Standing -> Standing]]
  <2> SUFFICES ASSUME NEW i \in 1..n, NEW l \in Standing
               PROVE  Compared(score, l, FlagOrder[i]) \in Standing
    OBVIOUS
  <2>1. FlagOrder[i] \in Flags /\ score[FlagOrder[i]] \in Nat
    BY <1>1, <1>2
  <2> QED BY <2>1 DEF Compared, Standing
<1>5. PICK f : IsLoop(f, n, Standing, first, Round)
  <2>1. n \in Nat
    BY <1>1
  <2> HIDE DEF first, Round, n
  <2> QED BY <2>1, <1>3, <1>4, LoopIsDefined
<1>6. f = [i \in 0..n |-> IF i = 0 THEN first
                          ELSE Compared(score, f[i - 1], FlagOrder[i])]
  <2>1. ASSUME NEW i \in 1..n PROVE f[i] = Compared(score, f[i - 1], FlagOrder[i])
    <3>1. f[i - 1] \in Standing
      <4> HIDE DEF Round
      <4> QED BY <1>1, <1>5 DEF IsLoop
    <3>2. f[i] = Round[i][f[i - 1]]
      BY <1>5 DEF IsLoop
    <3> QED BY <3>1, <3>2
  <2> HIDE DEF Round, first, n
  <2> QED BY <1>1, <1>5, <2>1 DEF IsLoop
<1> DEFINE lead == CHOOSE g : g = [i \in 0..n |-> IF i = 0 THEN first
                                     ELSE Compared(score, g[i - 1], FlagOrder[i])]
<1>7. lead = [i \in 0..n |-> IF i = 0 THEN first
                             ELSE Compared(score, lead[i - 1], FlagOrder[i])]
  <2> HIDE DEF first
  <2> QED BY <1>6
<1>8. Leaders(score) = lead[n].teams
  BY DEF Leaders
<1> HIDE DEF lead
<1>9. lead[0] = first /\ \A i \in 1..n : lead[i] = Compared(score, lead[i - 1], FlagOrder[i])
  <2> HIDE DEF first, n
  <2> QED BY <1>1, <1>7
<1> QED BY <1>8, <1>9

\* What the loop computes: every flag whose team has as many goals as any.
LEMMA LeadersHaveTheMost ==
  ASSUME NEW score \in [Scorekeeping -> Nat]
  PROVE  \E max \in Nat :
           /\ \A f \in Flags : score[f] <= max
           /\ Leaders(score) = {f \in Flags : score[f] = max}
           /\ max = 0 \/ \E f \in Flags : score[f] = max
<1> DEFINE n == Len(FlagOrder)
<1>1. n \in Nat /\ \A i \in 1..n : FlagOrder[i] \in Flags /\ score[FlagOrder[i]] \in Nat
  <2>1. n \in Nat /\ \A i \in 1..n : FlagOrder[i] \in Flags
    BY FlagOrderAssumption
  <2> QED BY <2>1 DEF Scorekeeping
<1>2. PICK lead : /\ Leaders(score) = lead[n].teams
                  /\ lead[0] = [max |-> 0, teams |-> {}]
                  /\ \A i \in 1..n : lead[i] = Compared(score, lead[i - 1], FlagOrder[i])
  BY LeadersAreCompared
<1> HIDE DEF n
<1> DEFINE Ahead(i) ==
      /\ lead[i] \in Standing
      /\ \A j \in 1..i : score[FlagOrder[j]] <= lead[i].max
      /\ \A f \in Flags :
           f \in lead[i].teams
           <=> \E j \in 1..i : FlagOrder[j] = f /\ score[f] = lead[i].max
      /\ lead[i].max = 0 \/ \E j \in 1..i : score[FlagOrder[j]] = lead[i].max
           T == {i \in 0..n : Ahead(i)}
<1>3. 0 \in T
  BY <1>1, <1>2 DEF Standing
<1>4. ASSUME NEW i \in 0..n, i # n, i \in T PROVE i + 1 \in T
  <2> DEFINE l == lead[i]
             m == lead[i + 1]
             team == FlagOrder[i + 1]
  <2>1. Ahead(i) /\ i + 1 \in 1..n /\ i + 1 \in 0..n /\ (i + 1) - 1 = i
    BY <1>1, <1>4
  <2>2. team \in Flags /\ score[team] \in Nat /\ l.max \in Nat /\ l.teams \in SUBSET Flags
    BY <1>1, <2>1 DEF Standing
  <2>3. m = Compared(score, l, team)
    BY <1>2, <2>1
  <2>4. \A j \in 1..(i + 1) : j = i + 1 \/ j \in 1..i
    BY <1>1
  <2>5. 1..i \subseteq 1..(i + 1) /\ i + 1 \in 1..(i + 1)
    BY <1>1
  <2>6. \A j \in 1..i : FlagOrder[j] \in Flags /\ score[FlagOrder[j]] \in Nat
    BY <1>1
  <2> HIDE DEF l, m, team
  <2>7. Ahead(i + 1)
    <3>1. /\ \A j \in 1..i : score[FlagOrder[j]] <= l.max
          /\ \A f \in Flags :
               f \in l.teams <=> \E j \in 1..i : FlagOrder[j] = f /\ score[f] = l.max
          /\ l.max = 0 \/ \E j \in 1..i : score[FlagOrder[j]] = l.max
      BY <2>1 DEF l
    <3> SUFFICES
          /\ m \in Standing
          /\ \A j \in 1..(i + 1) : score[FlagOrder[j]] <= m.max
          /\ \A f \in Flags :
               f \in m.teams
               <=> \E j \in 1..(i + 1) : FlagOrder[j] = f /\ score[f] = m.max
          /\ m.max = 0 \/ \E j \in 1..(i + 1) : score[FlagOrder[j]] = m.max
      BY DEF m
    <3>2. CASE score[team] > l.max
      <4>1. m.max = score[team] /\ m.teams = {team} /\ m \in Standing
        BY <2>2, <2>3, <3>2 DEF Compared, Standing
      <4> QED BY <4>1, <2>2, <2>4, <2>5, <2>6, <3>1, <3>2 DEF team
    <3>3. CASE score[team] = l.max
      <4>1. m.max = l.max /\ m.teams = l.teams \cup {team} /\ m \in Standing
        BY <2>2, <2>3, <3>3 DEF Compared, Standing
      <4> QED BY <4>1, <2>2, <2>4, <2>5, <2>6, <3>1, <3>3 DEF team
    <3>4. CASE score[team] < l.max
      <4>1. m = l
        BY <2>2, <2>3, <3>4 DEF Compared
      <4> QED BY <4>1, <2>1, <2>2, <2>4, <2>5, <2>6, <3>1, <3>4 DEF team, l
    <3> QED BY <2>2, <3>2, <3>3, <3>4
  <2> QED BY <2>1, <2>7
<1>5. Ahead(n)
  <2> HIDE DEF T
  <2>1. 0..n \subseteq T
    BY <1>1, <1>3, <1>4, FiniteInduction
  <2>2. n \in T
    BY <1>1, <2>1
  <2> USE DEF T
  <2> QED BY <2>2
<1>6. \A f \in Flags : \E j \in 1..n : FlagOrder[j] = f
  BY FlagOrderAssumption DEF n
<1>7. /\ \A f \in Flags : score[f] <= lead[n].max
      /\ Leaders(score) = {f \in Flags : score[f] = lead[n].max}
      /\ lead[n].max = 0 \/ \E f \in Flags : score[f] = lead[n].max
      /\ lead[n].max \in Nat
  BY <1>1, <1>2, <1>5, <1>6 DEF Standing
<1> QED BY <1>7

\* The team posted as AQLEADER has more goals, as posted, than every other, and it
\* is "tie" if no team has.  (With a single flag this holds from the first post on
\* only: AQLEADER begins as "tie", and that one team has nobody to tie with.)
THEOREM LeaderStaysAhead ==
  ASSUME \A f \in Flags : \E g \in Flags : g # f
  PROVE  FlagSpec => []LeaderIsAhead
<1>1. FlagInit => LeaderIsAhead
  BY FlagNamesAssumption DEF FlagInit, LeaderIsAhead
<1>2. FlagTypeOK /\ LeaderIsAhead /\ [FlagNext]_flagvars => LeaderIsAhead'
  <2> SUFFICES ASSUME FlagTypeOK, LeaderIsAhead, [FlagNext]_flagvars
               PROVE  LeaderIsAhead'
    OBVIOUS
  <2>1. CASE UNCHANGED << score_post, leader >>
    BY <2>1 DEF LeaderIsAhead
  <2>2. ASSUME NEW d \in Elapse, FlagIterate(d), ~UNCHANGED << score_post, leader >>
        PROVE  LeaderIsAhead'
    <3> DEFINE score == team_score'
               leaders == Leaders(score)
    <3>1. score \in [Scorekeeping -> Nat]
      BY FlagTypeStep DEF FlagTypeOK
    <3>2. /\ \A f \in Flags : score_post'[f][2] = score[f]
          /\ IF Cardinality(leaders) = 1 THEN leader' \in leaders ELSE leader' = "tie"
      BY <2>2 DEF FlagIterate, NotifyScore
    <3>3. PICK max \in Nat : /\ \A f \in Flags : score[f] <= max
                             /\ leaders = {f \in Flags : score[f] = max}
                             /\ max = 0 \/ \E f \in Flags : score[f] = max
      <4> HIDE DEF score
      <4> QED BY <3>1, LeadersHaveTheMost
    <3>4. \A f \in Flags : score[f] \in Nat
      BY <3>1 DEF Scorekeeping
    <3> HIDE DEF score, leaders
    <3>5. IsFiniteSet(leaders)
      BY <3>3, SizesAreNatural
    <3>6. ASSUME NEW f \in Flags
          PROVE  leader' = f <=> \A g \in Flags \ {f} : score[g] < score[f]
      <4>1. ASSUME leader' = f, NEW g \in Flags \ {f} PROVE score[g] < score[f]
        <5>1. Cardinality(leaders) = 1 /\ f \in leaders
          BY <3>2, <4>1, FlagNamesAssumption
        <5>2. leaders = {f}
          BY <3>5, <5>1, FS_Singleton
        <5> QED BY <3>3, <3>4, <5>2
      <4>2. ASSUME \A g \in Flags \ {f} : score[g] < score[f] PROVE leader' = f
        <5>1. leaders = {f}
          BY <3>3, <3>4, <4>2
        <5>2. Cardinality(leaders) = 1
          BY <5>1, FS_Singleton
        <5> QED BY <3>2, <5>1, <5>2
      <4> QED BY <4>1, <4>2
    <3> QED BY <3>2, <3>6 DEF LeaderIsAhead
  <2> QED BY <2>1, <2>2 DEF FlagNext, flagvars, FlagNodeReport, TaggedVehicles,
             FlagReset, FlagResetAll, FlagGrab
<1> QED BY <1>1, <1>2, FlagTypeCorrect, PTL DEF FlagSpec

-------------------------------------------------------------------------------
(***************************************************************************)
(* Goals.                                                                   *)
(***************************************************************************)

\* An Iterate takes the flags from a carrier that is home, counts it for its team
\* and tells it.
LEMMA IterateScores ==
  ASSUME FlagTypeOK, NEW d \in Elapse, FlagIterate(d),
         NEW v \in Vehicles, HasFlag(v), IsHome(v)
  PROVE  /\ ~HasFlag(v)' /\ ~has_flag'[v]
         /\ team_score'[Group[v]] > team_score[Group[v]]
<1> DEFINE S == {u \in Scorers : Group[u] = Group[v]}
<1>1. v \in Scorers /\ v # Nobody
  BY FlagVehiclesAssumption DEF Scorers
<1>2. ~HasFlag(v)' /\ ~has_flag'[v]
  BY <1>1 DEF FlagIterate, UpdateVehiclesHaveScored, HasFlag, FlagTypeOK
<1>3. IsFiniteSet(S) /\ Cardinality(S) \in Nat /\ S # {}
  BY <1>1, SizesAreNatural DEF Scorers
<1>4. Cardinality(S) > 0
  BY <1>3, FS_EmptySet
<1>5. Group[v] \in Scorekeeping
  BY DEF Scorekeeping
<1>6. team_score'[Group[v]] = team_score[Group[v]] + Cardinality(S)
  BY <1>5 DEF FlagIterate, UpdateVehiclesHaveScored
<1>7. team_score[Group[v]] \in Nat
  BY <1>5 DEF FlagTypeOK
<1> HIDE DEF S
<1> QED BY <1>2, <1>3, <1>4, <1>6, <1>7

\* No carrier that is home gets past an Iterate with its flags, and its team always
\* has the goal, whatever else the same Iterate posts or unposts.
THEOREM HomeRunsCount ==
  FlagSpec => [][\A d \in Elapse : \A v \in Vehicles :
                   FlagIterate(d) /\ HasFlag(v) /\ IsHome(v)
                   => /\ ~HasFlag(v)' /\ ~has_flag'[v]
                      /\ team_score'[Group[v]] > team_score[Group[v]]]_flagvars
<1> DEFINE Counted ==
      \A d \in Elapse : \A v \in Vehicles :
        FlagIterate(d) /\ HasFlag(v) /\ IsHome(v)
        => /\ ~HasFlag(v)' /\ ~has_flag'[v]
           /\ team_score'[Group[v]] > team_score[Group[v]]
<1>1. FlagTypeOK => Counted
  BY IterateScores
<1> QED BY <1>1, FlagTypeCorrect, PTL

\* WF_flagvars(\E d \in Elapse : FlagIterate(d)), as far as it matters for goals: an
\* Iterate can always be taken, and with a carrier at home it changes something.
FlagIteratesGoOn ==
  []<><<\E d \in Elapse : FlagIterate(d)>>_flagvars \/ []<>(Scorers = {})

\* As long as Iterates go on, a carrier that stays home scores.
THEOREM HomeRunsScore == FlagSpec /\ FlagIteratesGoOn => CarriersScoreAtHome
<1> SUFFICES ASSUME NEW v \in Vehicles
             PROVE  FlagSpec /\ FlagIteratesGoOn
                    => (HasFlag(v) /\ IsHome(v) ~> ~(HasFlag(v) /\ IsHome(v)))
  BY DEF CarriersScoreAtHome
<1> DEFINE Due == HasFlag(v) /\ IsHome(v)
<1>1. FlagTypeOK /\ Due /\ <<\E d \in Elapse : FlagIterate(d)>>_flagvars => ~Due'
  BY IterateScores
<1>2. Scorers = {} => ~Due
  BY DEF Scorers
<1> HIDE DEF Due
<1>3. FlagSpec /\ FlagIteratesGoOn => (Due ~> ~Due)
  BY <1>1, <1>2, FlagTypeCorrect, PTL DEF FlagIteratesGoOn
<1> QED BY <1>3 DEF Due
===============================================================================
