------------------------------ MODULE TagFlagGame ------------------------------
(***************************************************************************)
(* uFldTagManager and uFldFlagManager in one shoreside community.           *)
(*                                                                          *)
(* The applications run concurrently and talk only by mail through the      *)
(* MOOSDB, which delivers the mail of one application to another in the     *)
(* order it was posted (external).  As the missions configure them, a tag   *)
(* posts FLAG_RESET for its target at once, TAGGED_VEHICLES follows when    *)
(* the Iterate ends, and uFldFlagManager posts UNTAG_REQUEST, twice, and    *)
(* FLAG_RESET for a captive that arrives home.  Vehicles report where they  *)
(* are all the time, so an application takes a report when it handles it;   *)
(* until then the application's record lags behind the vehicle.             *)
(* Boundary tags stay on.                                                   *)
(***************************************************************************)
EXTENDS TagManager

CONSTANTS MixedCase, Flags, FlagOrder, FlagPos, FlagRange, NearBuffer, ScoreGap,
          MaxGrabs, Nobody, NoFlag,
          MaxInTransit   \* bound: messages on their way to either application

ASSUME TransitAssumption == MaxInTransit \in Nat
ASSUME GameNamesAssumption == IsFiniteSet(Vehicles) /\ Nobody \notin Vehicles
ASSUME GameFlagsAssumption ==
  /\ MixedCase \subseteq Vehicles
  /\ IsFiniteSet(Flags) /\ NoFlag \notin Flags /\ "tie" \notin Flags
  /\ FlagOrder \in Seq(Flags)
  /\ \A f \in Flags : \E i \in 1..Len(FlagOrder) : FlagOrder[i] = f
  /\ \A i, j \in 1..Len(FlagOrder) : FlagOrder[i] = FlagOrder[j] => i = j
ASSUME GameFieldAssumption ==
  /\ FlagPos \in [Flags -> Pos] /\ FlagRange \in [Flags -> Nat]
  /\ NearBuffer \in Nat /\ ScoreGap \in Nat /\ MaxGrabs \in Nat

VARIABLES report, tagged, owner, near_flag_zone, in_home_zone, team_grabs,
          team_score, score_age, score_post, leader, has_flag, summary,
          place,        \* where the vehicles are
          to_flag,      \* FLAG_RESET and TAGGED_VEHICLES on their way
          to_tag        \* the vehicles of the UNTAG_REQUESTs on their way

F == INSTANCE FlagManager

flagvars == << report, tagged, owner, near_flag_zone, in_home_zone, team_grabs,
               team_score, score_age, score_post, leader, has_flag, summary >>

gamevars == << vars, flagvars, place, to_flag, to_tag >>

FlagMail == [reset : Vehicles] \cup [list : SUBSET Vehicles]

IsList(msg) == "list" \in DOMAIN msg

\* The vehicles in the order in which std::map visits them.
InOrder(vs) ==
  {s \in [1..Cardinality(vs) -> vs] :
     \A i, j \in 1..Cardinality(vs) : i < j => s[i] < s[j]}

FlagResets(s) == [i \in 1..Len(s) |-> [reset |-> s[i]]]

-------------------------------------------------------------------------------
GameInit ==
  /\ Init
  /\ F!FlagInit
  /\ \E p \in [Vehicles -> Pos] : (\A v \in Vehicles : p[v] \in Waters[v]) /\ place = p
  /\ to_flag = << >>
  /\ to_tag = << >>

-------------------------------------------------------------------------------
(***************************************************************************)
(* The vehicles.                                                            *)
(***************************************************************************)
Move(v) ==
  /\ \E p \in Waters[v] : place' = [place EXCEPT ![v] = p]
  /\ UNCHANGED << vars, flagvars, to_flag, to_tag >>

\* A node report reaches an application.
ReportToTagManager(v) ==
  NodeReport(v, place[v]) /\ UNCHANGED << flagvars, place, to_flag, to_tag >>

ReportToFlagManager(v) ==
  F!FlagNodeReport(v, place[v]) /\ UNCHANGED << vars, place, to_flag, to_tag >>

\* A tag request or a grab request reaches its application.
Request(v) ==
  \/ TagRequest(v) /\ UNCHANGED << flagvars, place, to_flag, to_tag >>
  \/ F!FlagGrab(v) /\ UNCHANGED << vars, place, to_flag, to_tag >>

-------------------------------------------------------------------------------
(***************************************************************************)
(* uFldTagManager.                                                          *)
(***************************************************************************)

\* A pass of its Iterate posts FLAG_RESET for the vehicles it tags, and the list
\* of captives if the pass is the one that posts it and the list has changed.
TagPosts ==
  LET fresh == {v \in Vehicles : nowtagged'[v] /\ ~nowtagged[v]}
      list  == IF tagged_vnames' # tagged_vnames
               THEN << [list |-> tagged_vnames'] >> ELSE << >>
  IN  \E s \in InOrder(fresh) : to_flag' = to_flag \o FlagResets(s) \o list

TagIterate ==
  /\ Iterate
  /\ TagPosts
  /\ Len(to_flag') <= MaxInTransit
  /\ UNCHANGED << flagvars, place, to_tag >>

\* A request that finds the vehicle untagged is ignored.
TagMail ==
  /\ to_tag # << >>
  /\ pass = "idle"
  /\ to_tag' = Tail(to_tag)
  /\ \/ UntagRequest(Head(to_tag))
     \/ /\ Head(to_tag) \notin Known \/ ~nowtagged[Head(to_tag)]
        /\ UNCHANGED vars
  /\ UNCHANGED << flagvars, place, to_flag >>

-------------------------------------------------------------------------------
(***************************************************************************)
(* uFldFlagManager.                                                         *)
(***************************************************************************)
FlagIterate ==
  /\ \E d \in Elapse : F!FlagIterate(d)
  /\ \E s \in InOrder(F!Returned) :
       /\ to_tag' = to_tag \o [i \in 1..2 * Len(s) |-> s[(i + 1) \div 2]]
       /\ to_flag' = to_flag \o FlagResets(s)
  /\ Len(to_tag') <= MaxInTransit
  /\ Len(to_flag') <= MaxInTransit
  /\ UNCHANGED << vars, place >>

\* Bug: the mail is handled from its end.
FlagManagerMail_Bug ==
  /\ to_flag # << >>
  /\ to_flag' = SubSeq(to_flag, 1, Len(to_flag) - 1)
  /\ LET msg == to_flag[Len(to_flag)]
     IN  IF IsList(msg) THEN F!TaggedVehicles(msg.list)
                        ELSE F!FlagReset(msg.reset, NoFlag)
  /\ UNCHANGED << vars, place, to_tag >>

FlagManagerMail ==
  /\ to_flag # << >>
  /\ to_flag' = Tail(to_flag)
  /\ LET msg == Head(to_flag)
     IN  IF IsList(msg) THEN F!TaggedVehicles(msg.list)
                        ELSE F!FlagReset(msg.reset, NoFlag)
  /\ UNCHANGED << vars, place, to_tag >>

-------------------------------------------------------------------------------
GameNext ==
  \/ \E v \in Vehicles :
       Move(v) \/ ReportToTagManager(v) \/ ReportToFlagManager(v) \/ Request(v)
  \/ TagIterate \/ TagMail
  \/ FlagIterate \/ FlagManagerMail

GameSpec == GameInit /\ [][GameNext]_gamevars

\* Both applications Iterate for ever, and before each Iterate all the mail that
\* has arrived is handled.  Nothing is assumed of the vehicles.
GameFairSpec ==
  /\ GameSpec
  /\ WF_gamevars(TagIterate) /\ SF_gamevars(TagMail)
  /\ WF_gamevars(FlagIterate) /\ WF_gamevars(FlagManagerMail)

-------------------------------------------------------------------------------
(***************************************************************************)
(* Properties.                                                              *)
(***************************************************************************)
\* The positions of the lists among the messages under way.
Lists == {i \in 1..Len(to_flag) : IsList(to_flag[i])}

\* The list of captives that uFldFlagManager will have once its mail is handled
\* is the one that uFldTagManager posted last: posting only the changes loses none.
ListCatchesUp ==
  /\ Lists = {} => tagged = tagged_vnames
  /\ \A i \in Lists :
       (\A j \in Lists : j <= i) => to_flag[i].list = tagged_vnames

\* A captive is never missing from the list for longer than the Iterate that
\* tagged it takes to end and its mail to arrive.
CaptivesAreListed ==
  pass = "idle" /\ Lists = {} => \A v \in Vehicles : nowtagged[v] => v \in tagged

\* "Nothing grabbed - vehicle is tagged": a vehicle listed as tagged has no flag.
CaptivesHoldNoFlags == \A v \in tagged : ~F!HasFlag(v)

\* A captive that arrives home, known as a captive, is released if it stays.
ReturnIsRewarded ==
  \A v \in Vehicles \ MixedCase :
    /\ nowtagged[v] /\ v \in tagged /\ Lists = {}
    /\ F!IsHome(v) /\ ~in_home_zone[v]
    ~> ~nowtagged[v] \/ ~F!IsHome(v)
===============================================================================
