--------------------------- MODULE TagFlagGameProofs ---------------------------
(***************************************************************************)
(* Proofs about uFldTagManager and uFldFlagManager together.                *)
(*                                                                          *)
(* Every step of the game is a step of uFldTagManager or leaves it alone,   *)
(* so what is proved of it alone holds in the game.  What the mail under    *)
(* way adds is proved here.                                                 *)
(***************************************************************************)
EXTENDS TagFlagGame, TagManagerProofs, FiniteSetTheorems

-------------------------------------------------------------------------------
(***************************************************************************)
(* The game contains uFldTagManager.                                        *)
(***************************************************************************)

\* Vehicles are where they may be.
PlacesOK == place \in [Vehicles -> Pos] /\ \A v \in Vehicles : place[v] \in Waters[v]

\* Vehicles stay where they may be.
LEMMA PlacesStayOK == GameSpec => []PlacesOK
<1>1. GameInit => PlacesOK
  BY DEF GameInit, PlacesOK
<1>2. PlacesOK /\ [GameNext]_gamevars => PlacesOK'
  <2> SUFFICES ASSUME PlacesOK, [GameNext]_gamevars PROVE PlacesOK'
    OBVIOUS
  <2>1. ASSUME NEW v \in Vehicles, Move(v) PROVE PlacesOK'
    BY <2>1, WatersAssumption DEF Move, PlacesOK
  <2>2. CASE UNCHANGED place
    BY <2>2 DEF PlacesOK
  <2> QED
    BY <2>1, <2>2 DEF GameNext, gamevars, ReportToTagManager, ReportToFlagManager,
       Request, TagIterate, TagMail, FlagIterate, FlagManagerMail
<1> QED
  BY <1>1, <1>2, PTL DEF GameSpec

\* Mail is about vehicles, and so is the list of captives it brings.
MailOK ==
  /\ to_tag \in Seq(Vehicles)
  /\ to_flag \in Seq(FlagMail)
  /\ tagged \in SUBSET Vehicles

\* The ordered sequences are sequences.
LEMMA OrdersAreSequences ==
  ASSUME NEW vs \in SUBSET Vehicles, NEW s \in InOrder(vs)
  PROVE  s \in Seq(vs)
<1>1. Cardinality(vs) \in Nat
  BY GameNamesAssumption, FS_Subset, FS_CardinalityType
<1> QED
  BY <1>1 DEF InOrder

\* Flag resets for vehicles are mail, and none of them is a list.
LEMMA ResetsAreMail ==
  ASSUME NEW s \in Seq(Vehicles)
  PROVE  /\ FlagResets(s) \in Seq(FlagMail)
         /\ Len(FlagResets(s)) = Len(s)
         /\ \A i \in 1..Len(s) : ~IsList(FlagResets(s)[i])
<1>1. \A i \in 1..Len(s) : [reset |-> s[i]] \in FlagMail
  BY DEF FlagMail
<1>2. \A v : ~IsList([reset |-> v])
  BY DEF IsList
<1> QED
  BY <1>1, <1>2 DEF FlagResets

\* Only the pass that posts the list changes it, to a set of vehicles.
LEMMA ListsNameVehicles ==
  Iterate => UNCHANGED tagged_vnames \/ tagged_vnames' \in SUBSET Vehicles
BY DEF Iterate, UpdateCanTagStates, ProcessVTag, CheckForExpiredTags,
   CheckForOutOfZoneVehicles, PostTagSummary

\* What a pass posts is mail: flag resets, then the list if it has changed.
LEMMA PostsAreMail ==
  ASSUME TagIterate
  PROVE  \E s \in Seq(Vehicles) :
           \/ UNCHANGED tagged_vnames /\ to_flag' = to_flag \o FlagResets(s)
           \/ /\ tagged_vnames' \in SUBSET Vehicles
              /\ to_flag' = to_flag \o FlagResets(s) \o << [list |-> tagged_vnames'] >>
<1> DEFINE fresh == {v \in Vehicles : nowtagged'[v] /\ ~nowtagged[v]}
<1>1. PICK s \in InOrder(fresh) :
        to_flag' = to_flag \o FlagResets(s)
                     \o (IF tagged_vnames' # tagged_vnames
                         THEN << [list |-> tagged_vnames'] >> ELSE << >>)
  BY DEF TagIterate, TagPosts
<1>2. s \in Seq(fresh)
  BY OrdersAreSequences
<1>3. s \in Seq(Vehicles)
  BY <1>2
<1>4. CASE UNCHANGED tagged_vnames
  <2>1. UNCHANGED tagged_vnames /\ to_flag' = to_flag \o FlagResets(s)
    BY <1>1, <1>4
  <2> QED
    BY <1>3, <2>1
<1>5. CASE tagged_vnames' # tagged_vnames
  BY <1>1, <1>3, <1>5, ListsNameVehicles DEF TagIterate
<1> QED
  BY <1>4, <1>5

\* Captives that come home are told apart and named in order.
LEMMA ReturnsAreMail ==
  ASSUME MailOK, FlagIterate
  PROVE  \E s \in Seq(Vehicles) :
           /\ to_tag' = to_tag \o [i \in 1..2 * Len(s) |-> s[(i + 1) \div 2]]
           /\ to_flag' = to_flag \o FlagResets(s)
<1>1. F!Returned \in SUBSET Vehicles
  BY DEF MailOK, F!Returned
<1>2. PICK s \in InOrder(F!Returned) :
        /\ to_tag' = to_tag \o [i \in 1..2 * Len(s) |-> s[(i + 1) \div 2]]
        /\ to_flag' = to_flag \o FlagResets(s)
  BY DEF FlagIterate
<1>3. s \in Seq(Vehicles)
  BY <1>1, OrdersAreSequences
<1> QED
  BY <1>2, <1>3

\* Mail stays mail.
LEMMA MailStaysOK == GameSpec => []MailOK
<1>1. GameInit => MailOK
  BY DEF GameInit, F!FlagInit, MailOK
<1>2. MailOK /\ [GameNext]_gamevars => MailOK'
  <2> SUFFICES ASSUME MailOK, [GameNext]_gamevars PROVE MailOK'
    OBVIOUS
  <2>1. CASE TagIterate
    <3>1. PICK s \in Seq(Vehicles) :
            \/ UNCHANGED tagged_vnames /\ to_flag' = to_flag \o FlagResets(s)
            \/ /\ tagged_vnames' \in SUBSET Vehicles
               /\ to_flag' = to_flag \o FlagResets(s) \o << [list |-> tagged_vnames'] >>
      BY <2>1, PostsAreMail
    <3>2. FlagResets(s) \in Seq(FlagMail)
      BY ResetsAreMail
    <3>3. to_flag \o FlagResets(s) \in Seq(FlagMail)
      BY <3>2 DEF MailOK
    <3>4. tagged_vnames' \in SUBSET Vehicles =>
            << [list |-> tagged_vnames'] >> \in Seq(FlagMail)
      BY DEF FlagMail
    <3>5. CASE to_flag' = to_flag \o FlagResets(s)
      BY <2>1, <3>3, <3>5 DEF TagIterate, flagvars, MailOK
    <3>6. CASE /\ tagged_vnames' \in SUBSET Vehicles
               /\ to_flag' = to_flag \o FlagResets(s) \o << [list |-> tagged_vnames'] >>
      <4> DEFINE head == to_flag \o FlagResets(s)
                 last == << [list |-> tagged_vnames'] >>
      <4>1. head \in Seq(FlagMail) /\ last \in Seq(FlagMail) /\ to_flag' = head \o last
        BY <3>3, <3>4, <3>6
      <4> HIDE DEF head, last
      <4>2. to_flag' \in Seq(FlagMail)
        BY <4>1
      <4> QED
        BY <2>1, <4>2 DEF TagIterate, flagvars, MailOK
    <3> QED
      BY <3>1, <3>5, <3>6
  <2>2. CASE TagMail
    BY <2>2 DEF TagMail, flagvars, MailOK
  <2>3. CASE FlagIterate
    <3>1. PICK s \in Seq(Vehicles) :
            /\ to_tag' = to_tag \o [i \in 1..2 * Len(s) |-> s[(i + 1) \div 2]]
            /\ to_flag' = to_flag \o FlagResets(s)
      BY <2>3, ReturnsAreMail
    <3>2. \A i \in 1..2 * Len(s) : (i + 1) \div 2 \in 1..Len(s)
      OBVIOUS
    <3>3. [i \in 1..2 * Len(s) |-> s[(i + 1) \div 2]] \in Seq(Vehicles)
      BY <3>2
    <3>4. FlagResets(s) \in Seq(FlagMail)
      BY ResetsAreMail
    <3>5. tagged' = tagged
      BY <2>3 DEF FlagIterate, F!FlagIterate
    <3> QED
      BY <3>1, <3>3, <3>4, <3>5 DEF MailOK
  <2>4. CASE FlagManagerMail
    <3>1. to_flag' \in Seq(FlagMail) /\ Head(to_flag) \in FlagMail
      BY <2>4 DEF FlagManagerMail, MailOK
    <3>2. IsList(Head(to_flag)) => Head(to_flag).list \in SUBSET Vehicles
      BY <3>1 DEF FlagMail, IsList
    <3> QED
      BY <2>4, <3>1, <3>2
      DEF FlagManagerMail, MailOK, F!TaggedVehicles, F!FlagReset
  <2>5. CASE UNCHANGED << to_tag, to_flag, tagged >>
    BY <2>5 DEF MailOK
  <2> QED
    BY <2>1, <2>2, <2>3, <2>4, <2>5
    DEF GameNext, gamevars, flagvars, Move, ReportToTagManager, ReportToFlagManager,
        Request, F!FlagNodeReport, F!FlagGrab
<1> QED
  BY <1>1, <1>2, PTL DEF GameSpec

\* A step of the game is a step of uFldTagManager or leaves it alone.
LEMMA GameStepIsTagStep == PlacesOK /\ MailOK /\ [GameNext]_gamevars => [Next]_vars
<1> SUFFICES ASSUME PlacesOK, MailOK, [GameNext]_gamevars PROVE [Next]_vars
  OBVIOUS
<1>1. ASSUME NEW v \in Vehicles, ReportToTagManager(v) PROVE Next
  BY <1>1 DEF ReportToTagManager, PlacesOK, Next, Mail
<1>2. ASSUME NEW v \in Vehicles, TagRequest(v) PROVE Next
  BY <1>2 DEF Next, Mail
<1>3. CASE Iterate
  BY <1>3 DEF Next
<1>4. CASE TagMail
  <2>1. Head(to_tag) \in Vehicles
    BY <1>4 DEF TagMail, MailOK
  <2> QED
    BY <1>4, <2>1 DEF TagMail, Next, Mail
<1>5. CASE UNCHANGED vars
  BY <1>5
<1> QED
  BY <1>1, <1>2, <1>3, <1>4, <1>5 DEF GameNext, gamevars, Move, ReportToFlagManager,
     Request, TagIterate, FlagIterate, FlagManagerMail
\* The game runs uFldTagManager as it is.
THEOREM GameRunsTagManager == GameSpec => Spec
<1>1. GameInit => Init
  BY DEF GameInit
<1> QED
  BY <1>1, PlacesStayOK, MailStaysOK, GameStepIsTagStep, PTL DEF GameSpec, Spec

\* A step of the game is a step of uFldFlagManager or leaves it alone.
LEMMA GameStepIsFlagStep ==
  PlacesOK /\ MailOK /\ [GameNext]_gamevars => [F!FlagNext]_(F!flagvars)
<1> SUFFICES ASSUME PlacesOK, MailOK, [GameNext]_gamevars
             PROVE  [F!FlagNext]_(F!flagvars)
  OBVIOUS
<1>1. ASSUME NEW v \in Vehicles, ReportToFlagManager(v) PROVE F!FlagNext
  BY <1>1 DEF ReportToFlagManager, PlacesOK, F!FlagNext
<1>2. ASSUME NEW v \in Vehicles, F!FlagGrab(v) PROVE F!FlagNext
  BY <1>2 DEF F!FlagNext
<1>3. CASE FlagIterate
  BY <1>3 DEF FlagIterate, F!FlagNext
<1>4. CASE FlagManagerMail
  <2>1. Head(to_flag) \in FlagMail
    BY <1>4 DEF FlagManagerMail, MailOK
  <2>2. CASE IsList(Head(to_flag))
    <3>1. Head(to_flag).list \in SUBSET Vehicles
      BY <2>1, <2>2 DEF FlagMail, IsList
    <3> QED
      BY <1>4, <2>2, <3>1 DEF FlagManagerMail, F!FlagNext
  <2>3. CASE ~IsList(Head(to_flag))
    <3>1. Head(to_flag).reset \in Vehicles
      BY <2>1, <2>3 DEF FlagMail, IsList
    <3>2. Head(to_flag).reset # Nobody
      BY <3>1, GameNamesAssumption
    <3> QED
      BY <1>4, <2>3, <3>1, <3>2 DEF FlagManagerMail, F!FlagNext
  <2> QED
    BY <2>2, <2>3
<1>5. CASE UNCHANGED flagvars
  BY <1>5 DEF flagvars, F!flagvars
<1> QED
  BY <1>1, <1>2, <1>3, <1>4, <1>5 DEF GameNext, gamevars, Move, ReportToTagManager,
     Request, TagIterate, TagMail

\* The game runs uFldFlagManager as it is.
THEOREM GameRunsFlagManager == GameSpec => F!FlagSpec
<1>1. GameInit => F!FlagInit
  BY DEF GameInit
<1> QED
  BY <1>1, PlacesStayOK, MailStaysOK, GameStepIsFlagStep, PTL DEF GameSpec, F!FlagSpec

-------------------------------------------------------------------------------
(***************************************************************************)
(* The list of captives.                                                    *)
(***************************************************************************)

\* Flag resets that are posted leave the lists under way as they are.
LEMMA ResetsAreNoLists ==
  ASSUME MailOK, ListCatchesUp, NEW s \in Seq(Vehicles),
         to_flag' = to_flag \o FlagResets(s), UNCHANGED << tagged, tagged_vnames >>
  PROVE  ListCatchesUp'
<1>1. \A i \in 1..Len(to_flag) : to_flag'[i] = to_flag[i]
  BY ResetsAreMail DEF MailOK
<1>2. \A i \in (Len(to_flag) + 1)..Len(to_flag') : ~IsList(to_flag'[i])
  BY ResetsAreMail DEF MailOK
<1>3. Len(to_flag) \in Nat /\ Len(to_flag') \in Nat /\ Len(to_flag) <= Len(to_flag')
  BY ResetsAreMail DEF MailOK
<1>4. Lists' = Lists
  BY <1>1, <1>2, <1>3 DEF Lists, IsList
<1> QED
  BY <1>1, <1>4 DEF ListCatchesUp, Lists

\* A message put after two sequences of messages is the last one of the three.
LEMMA LastMessage ==
  ASSUME NEW S, NEW a \in Seq(S), NEW b \in Seq(S), NEW x \in S
  PROVE  /\ Len(a \o b \o << x >>) = Len(a) + Len(b) + 1
         /\ (a \o b \o << x >>)[Len(a) + Len(b) + 1] = x
<1>1. a \o b \in Seq(S) /\ Len(a \o b) = Len(a) + Len(b)
  OBVIOUS
<1>2. PICK c \in Seq(S) : c = a \o b
  BY <1>1
<1>3. Len(c \o << x >>) = Len(c) + 1 /\ (c \o << x >>)[Len(c) + 1] = x
  OBVIOUS
<1> QED
  BY <1>1, <1>2, <1>3

\* A list that is posted is the last one under way.
LEMMA PostedListIsLast ==
  ASSUME MailOK, NEW s \in Seq(Vehicles), tagged_vnames' \in SUBSET Vehicles,
         to_flag' = to_flag \o FlagResets(s) \o << [list |-> tagged_vnames'] >>
  PROVE  ListCatchesUp'
<1> DEFINE n == Len(to_flag) + Len(s) + 1
<1>1. Len(to_flag') = n /\ n \in Nat /\ to_flag'[n] = [list |-> tagged_vnames']
  <2>1. FlagResets(s) \in Seq(FlagMail) /\ Len(FlagResets(s)) = Len(s)
    BY ResetsAreMail
  <2>2. to_flag \in Seq(FlagMail) /\ [list |-> tagged_vnames'] \in FlagMail
    BY DEF MailOK, FlagMail
  <2>3. Len(to_flag) \in Nat /\ Len(s) \in Nat
    BY <2>2
  <2> QED
    BY <2>1, <2>2, <2>3, LastMessage
<1>2. IsList(to_flag'[n])
  BY <1>1 DEF IsList
<1>3. n \in Lists' /\ Lists' \subseteq 1..n
  BY <1>1, <1>2 DEF Lists, IsList
<1> HIDE DEF n
<1>4. ASSUME NEW i \in Lists', \A j \in Lists' : j <= i PROVE i = n
  BY <1>1, <1>3, <1>4
<1> QED
  BY <1>1, <1>3, <1>4 DEF ListCatchesUp

\* A message that is handled leaves the rest under way, one place further.
LEMMA HandledMailIsGone ==
  ASSUME MailOK, ListCatchesUp, FlagManagerMail
  PROVE  ListCatchesUp'
<1>1. /\ to_flag # << >> /\ to_flag' = Tail(to_flag)
      /\ Len(to_flag) \in Nat \ {0} /\ Len(to_flag') = Len(to_flag) - 1
      /\ Head(to_flag) = to_flag[1]
  BY DEF FlagManagerMail, MailOK
<1>2. \A i \in 1..Len(to_flag') : to_flag'[i] = to_flag[i + 1]
  BY <1>1 DEF MailOK
<1>3. \A i \in Nat : i \in Lists' <=> i > 0 /\ i + 1 \in Lists
  BY <1>1, <1>2 DEF Lists, IsList
<1>4. Lists \subseteq Nat \ {0} /\ Lists' \subseteq Nat \ {0}
  BY <1>1 DEF Lists
<1>5. tagged_vnames' = tagged_vnames
  BY DEF FlagManagerMail, vars
<1>6. tagged' = IF IsList(to_flag[1]) THEN to_flag[1].list ELSE tagged
  BY <1>1 DEF FlagManagerMail, F!TaggedVehicles, F!FlagReset
<1>7. ASSUME Lists' = {} PROVE tagged' = tagged_vnames'
  <2>1. \A i \in Lists : i = 1
    <3> SUFFICES ASSUME NEW i \in Lists, i # 1 PROVE FALSE
      OBVIOUS
    <3>1. i - 1 \in Nat /\ i - 1 > 0 /\ (i - 1) + 1 = i
      BY <1>4
    <3> QED
      BY <1>3, <1>7, <3>1
  <2>2. CASE IsList(to_flag[1])
    <3>1. 1 \in Lists
      BY <1>1, <2>2 DEF Lists
    <3>2. to_flag[1].list = tagged_vnames
      BY <2>1, <3>1 DEF ListCatchesUp
    <3> QED
      BY <1>5, <1>6, <2>2, <3>2
  <2>3. CASE ~IsList(to_flag[1])
    <3>1. Lists = {}
      BY <2>1, <2>3 DEF Lists
    <3> QED
      BY <1>5, <1>6, <2>3, <3>1 DEF ListCatchesUp
  <2> QED
    BY <2>2, <2>3
<1>8. ASSUME NEW i \in Lists', \A j \in Lists' : j <= i
      PROVE  to_flag'[i].list = tagged_vnames'
  <2>1. i \in Nat /\ i + 1 \in Lists /\ i \in 1..Len(to_flag')
    BY <1>3, <1>4 DEF Lists
  <2>2. ASSUME NEW j \in Lists PROVE j <= i + 1
    <3>1. CASE j = 1
      BY <2>1, <3>1
    <3>2. CASE j # 1
      <4>1. j - 1 \in Nat /\ j - 1 > 0 /\ (j - 1) + 1 = j
        BY <1>4, <3>2
      <4>2. j - 1 \in Lists'
        BY <1>3, <4>1
      <4> QED
        BY <1>8, <2>1, <4>1, <4>2
    <3> QED
      BY <3>1, <3>2
  <2>3. to_flag[i + 1].list = tagged_vnames
    BY <2>1, <2>2 DEF ListCatchesUp
  <2> QED
    BY <1>2, <1>5, <2>1, <2>3
<1> QED
  BY <1>7, <1>8 DEF ListCatchesUp

\* Once its mail is handled uFldFlagManager has the list that was posted last.
THEOREM ListAlwaysCatchesUp == GameSpec => []ListCatchesUp
<1>1. GameInit => ListCatchesUp
  BY DEF GameInit, Init, F!FlagInit, ListCatchesUp, Lists
<1>2. MailOK /\ ListCatchesUp /\ [GameNext]_gamevars => ListCatchesUp'
  <2> SUFFICES ASSUME MailOK, ListCatchesUp, [GameNext]_gamevars
               PROVE  ListCatchesUp'
    OBVIOUS
  <2>1. CASE TagIterate
    <3>1. tagged' = tagged
      BY <2>1 DEF TagIterate, flagvars
    <3> QED
      BY <2>1, <3>1, PostsAreMail, ResetsAreNoLists, PostedListIsLast
  <2>2. CASE FlagIterate
    <3>1. tagged' = tagged /\ tagged_vnames' = tagged_vnames
      BY <2>2 DEF FlagIterate, F!FlagIterate, vars
    <3> QED
      BY <2>2, <3>1, ReturnsAreMail, ResetsAreNoLists
  <2>3. CASE FlagManagerMail
    BY <2>3, HandledMailIsGone
  <2>4. CASE UNCHANGED << to_flag, tagged, tagged_vnames >>
    BY <2>4 DEF ListCatchesUp, Lists
  <2> QED
    BY <2>1, <2>2, <2>3, <2>4
    DEF GameNext, gamevars, flagvars, vars, Move, ReportToTagManager,
        ReportToFlagManager, Request, TagMail, NodeReport, TagRequest, UntagRequest,
        F!FlagNodeReport, F!FlagGrab
<1> QED
  BY <1>1, <1>2, MailStaysOK, PTL DEF GameSpec

\* Between the Iterates of uFldTagManager, with no list under way, every captive
\* is on the list of uFldFlagManager.
THEOREM CaptivesGetListed == GameSpec => []CaptivesAreListed
<1>1. ListCatchesUp /\ TagsAreAnnounced => CaptivesAreListed
  BY DEF ListCatchesUp, TagsAreAnnounced, CaptivesAreListed
<1> QED
  BY <1>1, ListAlwaysCatchesUp, GameRunsTagManager, TagsStayAnnounced, PTL

-------------------------------------------------------------------------------
(***************************************************************************)
(* What the applications keep to alone they keep to together.               *)
(***************************************************************************)
FP == INSTANCE FlagManagerProofs

\* The field of the game is one that uFldFlagManager is proved for.
LEMMA GameIsAFlagGame ==
  /\ IsFiniteSet(Vehicles) /\ Nobody \notin Vehicles /\ IsFiniteSet(Flags)
  /\ MixedCase \subseteq Vehicles /\ NoFlag \notin Flags /\ "tie" \notin Flags
  /\ FlagOrder \in Seq(Flags)
  /\ \A f \in Flags : \E i \in 1..Len(FlagOrder) : FlagOrder[i] = f
  /\ \A i, j \in 1..Len(FlagOrder) : FlagOrder[i] = FlagOrder[j] => i = j
  /\ Waters \in [Vehicles -> SUBSET Pos]
  /\ Dist \in [Pos \X Pos -> Nat]
  /\ FlagPos \in [Flags -> Pos]
  /\ FlagRange \in [Flags -> Nat]
  /\ NearBuffer \in Nat
  /\ NoRecord \notin Pos
  /\ ScoreGap \in Nat /\ Elapse \subseteq Nat
  /\ MaxGrabs \in Nat
BY GameNamesAssumption, GameFlagsAssumption, GameFieldAssumption, WatersAssumption,
   DistAssumption, IntervalAssumption, NoRecordAssumption

\* F, which the game runs, and FP, which the theorems are about, are one module.
LEMMA SameSteps == [F!FlagNext]_(F!flagvars) => [FP!FlagNext]_(FP!flagvars)
BY Zenon DEF
   F!FlagNext, FP!FlagNext, F!flagvars, FP!flagvars, F!FlagNodeReport,
   FP!FlagNodeReport, F!TaggedVehicles, FP!TaggedVehicles, F!FlagReset,
   FP!FlagReset, F!SomeFlagsWereReset, FP!SomeFlagsWereReset, F!FlagResetAll, FP!FlagResetAll, F!FlagGrab, FP!FlagGrab,
   F!FlagIterate, FP!FlagIterate, F!UpdateVehiclesInFlagRange,
   FP!UpdateVehiclesInFlagRange, F!UpdateVehiclesHaveScored,
   FP!UpdateVehiclesHaveScored, F!UpdateVehiclesUntagged,
   FP!UpdateVehiclesUntagged, F!NotifyScore, FP!NotifyScore, F!Leaders,
   FP!Leaders, F!Compared, FP!Compared, F!Grabbable, FP!Grabbable,
   F!Reported, FP!Reported, F!FlagDist, FP!FlagDist, F!HasFlag, FP!HasFlag,
   F!IsHome, FP!IsHome, F!Scorers, FP!Scorers, F!Scorekeeping,
   FP!Scorekeeping, F!Cardinality, FP!Cardinality, F!IsFiniteSet,
   FP!IsFiniteSet

\* The same of the initial states and of the properties.
LEMMA SameStates ==
  /\ F!FlagInit => FP!FlagInit
  /\ FP!FlagTypeOK => F!FlagTypeOK
  /\ FP!OwnersAreShown => F!OwnersAreShown
  /\ FP!PostedScoreIsCurrent => F!PostedScoreIsCurrent
  /\ FP!GoalsCostGrabs => F!GoalsCostGrabs
  /\ FP!HasFlagIsTold => F!HasFlagIsTold
  /\ FP!LeaderIsAhead => F!LeaderIsAhead
BY Zenon DEF
   F!FlagInit, FP!FlagInit, F!FlagTypeOK, FP!FlagTypeOK, F!OwnersAreShown,
   FP!OwnersAreShown, F!PostedScoreIsCurrent, FP!PostedScoreIsCurrent,
   F!GoalsCostGrabs, FP!GoalsCostGrabs, F!HasFlagIsTold, FP!HasFlagIsTold,
   F!LeaderIsAhead, FP!LeaderIsAhead, F!Reported, FP!Reported, F!FlagDist,
   FP!FlagDist, F!HasFlag, FP!HasFlag, F!IsHome, FP!IsHome, F!Scorers,
   FP!Scorers, F!Scorekeeping, FP!Scorekeeping, F!Cardinality,
   FP!Cardinality, F!IsFiniteSet, FP!IsFiniteSet

\* The game meets the assumptions of the theorems about uFldFlagManager.
LEMMA FlagGameAssumptions ==
  /\ FP!IsFiniteSet(Vehicles) /\ FP!IsFiniteSet(Flags) /\ Nobody \notin Vehicles
  /\ Waters \in [Vehicles -> SUBSET Pos]
  /\ Dist \in [Pos \X Pos -> Nat]
  /\ FlagPos \in [Flags -> Pos]
  /\ FlagRange \in [Flags -> Nat]
  /\ NearBuffer \in Nat
  /\ NoRecord \notin Pos
  /\ ScoreGap \in Nat /\ Elapse \subseteq Nat /\ MaxGrabs \in Nat
<1>1. FP!IsFiniteSet(Vehicles) /\ FP!IsFiniteSet(Flags)
  BY GameNamesAssumption, GameFlagsAssumption DEF IsFiniteSet, FP!IsFiniteSet
<1> QED
  BY <1>1, GameNamesAssumption, GameFieldAssumption, WatersAssumption, DistAssumption,
     NoRecordAssumption, IntervalAssumption

\* So the theorems hold of it.
LEMMA FlagTheorems ==
  FP!FlagSpec => /\ []FP!FlagTypeOK
                 /\ []FP!OwnersAreShown
                 /\ []FP!PostedScoreIsCurrent
                 /\ []FP!GoalsCostGrabs
                 /\ []FP!HasFlagIsTold
<1>1. FP!FlagSpec => []FP!FlagTypeOK
  BY FlagGameAssumptions, GameFlagsAssumption, FP!FlagTypeCorrect
<1>2. FP!FlagSpec => []FP!OwnersAreShown
  BY FlagGameAssumptions, GameFlagsAssumption, FP!NoOwnerIsHidden
<1>3. FP!FlagSpec => []FP!PostedScoreIsCurrent
  BY FlagGameAssumptions, GameFlagsAssumption, FP!PostedScoreStaysCurrent
<1>4. FP!FlagSpec => []FP!GoalsCostGrabs
  BY FlagGameAssumptions, GameFlagsAssumption, FP!GoalsArePaidFor
<1>5. FP!FlagSpec => []FP!HasFlagIsTold
  BY FlagGameAssumptions, GameFlagsAssumption, FP!NoFlagIsImagined
<1> QED BY <1>1, <1>2, <1>3, <1>4, <1>5

\* What is a behaviour of it by one name is one by the other.
LEMMA SameBehaviours == F!FlagSpec => FP!FlagSpec
BY SameSteps, SameStates, PTL DEF F!FlagSpec, FP!FlagSpec

\* Whatever uFldTagManager sends and whenever it arrives, the score is posted as it
\* is, every goal is paid for by a grab, and who carries a flag has been told.
THEOREM GameKeepsScore ==
  GameSpec => [](/\ F!FlagTypeOK
                 /\ F!OwnersAreShown /\ F!PostedScoreIsCurrent
                 /\ F!GoalsCostGrabs /\ F!HasFlagIsTold)
BY SameBehaviours, SameStates, FlagTheorems, GameRunsFlagManager, PTL

\* A message of uFldTagManager, a goal or a grab that changes an owner posts it.
LEMMA GamePostsOwners ==
  F!FlagTypeOK /\ summary = owner /\ [GameNext]_gamevars => (summary = owner)'
<1> SUFFICES ASSUME F!FlagTypeOK, summary = owner, [GameNext]_gamevars
             PROVE  summary' = owner'
  OBVIOUS
<1>1. owner = [f \in Flags |-> owner[f]] /\ NoFlag \notin Flags
  BY GameFlagsAssumption DEF F!FlagTypeOK
<1>2. ASSUME NEW d \in Elapse, F!FlagIterate(d) PROVE summary' = owner'
  <2>1. CASE F!Scorers = {}
    BY <1>1, <1>2, <2>1 DEF F!FlagIterate, F!UpdateVehiclesHaveScored
  <2> QED
    BY <1>2, <2>1 DEF F!FlagIterate, F!UpdateVehiclesHaveScored
<1>3. ASSUME NEW v, F!FlagReset(v, NoFlag) PROVE summary' = owner'
  <2>1. CASE F!HasFlag(v)
    BY <1>3, <2>1 DEF F!FlagReset, F!SomeFlagsWereReset
  <2>2. CASE ~F!HasFlag(v)
    <3>1. \A f \in Flags : ~(owner[f] = v \/ f = NoFlag)
      BY <1>1, <2>2 DEF F!HasFlag
    <3> QED
      BY <1>1, <1>3, <2>2, <3>1 DEF F!FlagReset, F!SomeFlagsWereReset
  <2> QED
    BY <2>1, <2>2
<1>4. ASSUME NEW v \in Vehicles, F!FlagGrab(v) PROVE summary' = owner'
  BY <1>4 DEF F!FlagGrab
<1>5. CASE UNCHANGED << owner, summary >>
  BY <1>5
<1> QED
  BY <1>2, <1>3, <1>4, <1>5
     DEF GameNext, gamevars, flagvars, Move, ReportToTagManager, ReportToFlagManager,
         Request, TagIterate, TagMail, FlagIterate, FlagManagerMail,
         F!FlagNodeReport, F!TaggedVehicles

\* As the missions wire the two, resets name a vehicle and no label, and then the
\* last FLAG_SUMMARY always shows the owners as they are.
THEOREM GameSummaryIsCurrent == GameSpec => [](summary = owner)
<1>1. GameInit => summary = owner
  BY DEF GameInit, F!FlagInit
<1>2. GameSpec => []F!FlagTypeOK
  BY GameKeepsScore, PTL
<1> QED
  BY <1>1, <1>2, GamePostsOwners, PTL DEF GameSpec

\* Among two flags or more the team posted as ahead is ahead, in the game too.
THEOREM GameLeaderIsAhead ==
  ASSUME \A f \in Flags : \E g \in Flags : g # f
  PROVE  GameSpec => []F!LeaderIsAhead
<1>1. FP!FlagSpec => []FP!LeaderIsAhead
  BY FlagGameAssumptions, GameFlagsAssumption, FP!LeaderStaysAhead
<1> QED BY <1>1, SameBehaviours, SameStates, GameRunsFlagManager, PTL

\* And whatever uFldFlagManager requests, whenever its requests arrive, tags are
\* kept by the rules of the game.
THEOREM GameObeysRules ==
  GameSpec => /\ ImplementsTagRules /\ CanTagAgrees /\ CaptivesDoNotTag
              /\ [](/\ TypeOK /\ TagBookkeeping /\ NoOverdueTag
                    /\ FieldIsPoliced)
BY GameRunsTagManager, TagManagerFollowsRules, CanTagIsHonest, TypeCorrect,
   BookkeepingIsInvariant, CaptivesAreHarmless, NoTagIsOverdue, FieldStaysPoliced, PTL

-------------------------------------------------------------------------------
(***************************************************************************)
(* Captives and flags.                                                      *)
(***************************************************************************)

\* Only a grab gives a flag, and none to a vehicle that is listed as tagged.
LEMMA ListedCannotGrab ==
  ASSUME [GameNext]_gamevars, NEW v \in Vehicles, v \in tagged, ~F!HasFlag(v)
  PROVE  ~F!HasFlag(v)'
<1>1. v # Nobody
  BY GameNamesAssumption
<1>2. ASSUME NEW u \in Vehicles, F!FlagGrab(u) PROVE ~F!HasFlag(v)'
  BY <1>2 DEF F!FlagGrab, F!HasFlag
<1>3. ASSUME NEW d \in Elapse, F!FlagIterate(d) PROVE ~F!HasFlag(v)'
  BY <1>1, <1>3 DEF F!FlagIterate, F!UpdateVehiclesHaveScored, F!HasFlag
<1>4. CASE FlagManagerMail
  BY <1>1, <1>4 DEF FlagManagerMail, F!TaggedVehicles, F!FlagReset, F!HasFlag
<1>5. CASE UNCHANGED owner
  BY <1>5 DEF F!HasFlag
<1> QED
  BY <1>2, <1>3, <1>4, <1>5 DEF GameNext, gamevars, flagvars, Move, ReportToTagManager,
     ReportToFlagManager, Request, TagIterate, TagMail, FlagIterate, F!FlagNodeReport

\* A captive can get hold of a flag only while its tagging Iterate goes on or the
\* list that names it is under way: this is all of the time in which a captive's
\* grab succeeds.
THEOREM CaptivesGrabInTransitOnly ==
  GameSpec => [][pass = "idle" /\ Lists = {} =>
                   \A v \in Vehicles : nowtagged[v] /\ ~F!HasFlag(v)
                                       => ~F!HasFlag(v)']_gamevars
<1> DEFINE Barred ==
      pass = "idle" /\ Lists = {} =>
        \A v \in Vehicles : nowtagged[v] /\ ~F!HasFlag(v) => ~F!HasFlag(v)'
<1>1. CaptivesAreListed /\ [GameNext]_gamevars => Barred
  BY ListedCannotGrab DEF CaptivesAreListed
<1> QED BY <1>1, CaptivesGetListed, PTL DEF GameSpec
===============================================================================
