------------------------------ MODULE FlagManager ------------------------------
(***************************************************************************)
(* uFldFlagManager, the keeper of the flags and of the score.               *)
(*                                                                          *)
(* The application is single threaded and its Iterate only reads mail that  *)
(* has been handled before, so Iterate is one action: its four passes use   *)
(* disjoint variables, except for the order "score, then post the score".   *)
(* Vehicle names are model values, or naturals where uFldTagManager shares  *)
(* them; positions are points of a small field.                             *)
(***************************************************************************)
EXTENDS Integers, Sequences, FiniteSets

CONSTANTS
  Vehicles,       \* names of the vehicles that may report
  Group,          \* the GROUP field of a vehicle's node reports
  MixedCase,      \* vehicles whose names are not all lower case
  Pos,            \* positions on the water
  Waters,         \* bound: the positions each vehicle reports
  Dist,           \* distance between two positions
  Flags,          \* labels of the flags; a team's own flag has the team's name
  FlagOrder,      \* the labels in the order of m_flags
  FlagPos,        \* the position of each flag
  FlagRange,      \* the range of each flag
  NearBuffer,     \* near_flag_range_buffer
  ScoreGap,       \* time between two posts of an unchanged score (10 seconds)
  Elapse,         \* how far m_curr_time may advance between two Iterates
  MaxGrabs,       \* bound: grabs of a team
  Nobody,         \* a flag without an owner
  NoFlag,         \* a FLAG_RESET without a label
  NoRecord        \* m_map_record has no entry for the vehicle

ASSUME FlagVehiclesAssumption ==
  IsFiniteSet(Vehicles) /\ Nobody \notin Vehicles /\ IsFiniteSet(Flags)
ASSUME FlagNamesAssumption ==
  MixedCase \subseteq Vehicles /\ NoFlag \notin Flags /\ "tie" \notin Flags
ASSUME FlagOrderAssumption ==
  /\ FlagOrder \in Seq(Flags)
  /\ \A f \in Flags : \E i \in 1..Len(FlagOrder) : FlagOrder[i] = f
  /\ \A i, j \in 1..Len(FlagOrder) : FlagOrder[i] = FlagOrder[j] => i = j
ASSUME FlagFieldAssumption ==
  /\ Waters \in [Vehicles -> SUBSET Pos]
  /\ Dist \in [Pos \X Pos -> Nat]
  /\ FlagPos \in [Flags -> Pos]
  /\ FlagRange \in [Flags -> Nat]
  /\ NearBuffer \in Nat
  /\ NoRecord \notin Pos
ASSUME FlagTimeAssumption == ScoreGap \in Nat /\ Elapse \subseteq Nat
ASSUME GrabBoundAssumption == MaxGrabs \in Nat

VARIABLES
  report,           \* m_map_record: last reported position
  tagged,           \* m_tagged_vnames
  owner,            \* the owner field of m_flags
  near_flag_zone,   \* m_map_near_flag_zone
  in_home_zone,     \* m_map_in_home_zone
  team_grabs,       \* m_map_team_grabs
  team_score,       \* m_map_team_score
  score_age,        \* m_curr_time - m_postscore_last
  score_post,       \* the last <TEAM>_GRABS and <TEAM>_SCORES posted
  leader,           \* the last AQLEADER posted
  has_flag,         \* the last HAS_FLAG_<V> posted, HAS_FLAG_ALL included
  summary           \* the owners in the last FLAG_SUMMARY posted

flagvars == << report, tagged, owner, near_flag_zone, in_home_zone, team_grabs,
               team_score, score_age, score_post, leader, has_flag, summary >>

\* The keys of the maps of scores: the groups of reports and the flags' labels.
Scorekeeping == {Group[v] : v \in Vehicles} \cup Flags

-------------------------------------------------------------------------------
Reported == {v \in Vehicles : report[v] # NoRecord}

FlagDist(v, f) == Dist[<<FlagPos[f], report[v]>>]

HasFlag(v) == \E f \in Flags : owner[f] = v

\* Home is the water around the flag of the vehicle's own team.
IsHome(v) == /\ v \in Reported
             /\ Group[v] \in Flags
             /\ FlagDist(v, Group[v]) < FlagRange[Group[v]]

\* Flags that a grab by v takes, all of them at once.
Grabbable(v) ==
  {f \in Flags : /\ owner[f] = Nobody
                 /\ f # Group[v]
                 /\ FlagDist(v, f) <= FlagRange[f]}

-------------------------------------------------------------------------------
FlagInit ==
  /\ report = [v \in Vehicles |-> NoRecord]
  /\ tagged = {}
  /\ owner = [f \in Flags |-> Nobody]
  /\ near_flag_zone = [v \in Vehicles |-> FALSE]
  /\ in_home_zone = [v \in Vehicles |-> FALSE]
  /\ team_grabs = [g \in Scorekeeping |-> 0]
  /\ team_score = [g \in Scorekeeping |-> 0]
  /\ score_age = ScoreGap
  /\ score_post = [f \in Flags |-> <<0, 0>>]
  /\ leader = "tie"
  /\ has_flag = [v \in Vehicles |-> FALSE]
  /\ summary = [f \in Flags |-> Nobody]

-------------------------------------------------------------------------------
(***************************************************************************)
(* Mail.                                                                    *)
(***************************************************************************)
FlagNodeReport(v, p) ==
  /\ report' = [report EXCEPT ![v] = p]
  /\ UNCHANGED << tagged, owner, near_flag_zone, in_home_zone, team_grabs,
                  team_score, score_age, score_post, leader, has_flag, summary >>

\* Bug: the names of the last list are kept.
TaggedVehicles_Bug(vs) ==
  /\ tagged' = tagged \cup vs
  /\ UNCHANGED << report, owner, near_flag_zone, in_home_zone, team_grabs,
                  team_score, score_age, score_post, leader, has_flag, summary >>

\* TAGGED_VEHICLES replaces the list, it does not add to it.
TaggedVehicles(vs) ==
  /\ tagged' = vs
  /\ UNCHANGED << report, owner, near_flag_zone, in_home_zone, team_grabs,
                  team_score, score_age, score_post, leader, has_flag, summary >>

\* What handleMailFlagReset keeps of the two resets, "some flags were reset": with a
\* label the result of the reset by label replaces that of the reset by vname, by
\* which the flag of the label may have gone already.
SomeFlagsWereReset(v, label) ==
  IF label = NoFlag THEN HasFlag(v) ELSE owner[label] \notin {v, Nobody}

\* Bug: a reset by label does not tell the vehicle that had the flag.
FlagReset_Bug(v, label) ==
  /\ owner' = [f \in Flags |-> IF owner[f] = v \/ f = label THEN Nobody ELSE owner[f]]
  /\ has_flag' = [u \in Vehicles |-> has_flag[u] /\ u # v]
  /\ summary' = IF SomeFlagsWereReset(v, label) THEN owner' ELSE summary
  /\ UNCHANGED << report, tagged, near_flag_zone, in_home_zone, team_grabs,
                  team_score, score_age, score_post, leader >>

\* FLAG_RESET with a vname, a label or both, the vname first.  A label that no flag
\* has does what that of a flag without an owner does.
FlagReset(v, label) ==
  /\ owner' = [f \in Flags |-> IF owner[f] = v \/ f = label THEN Nobody ELSE owner[f]]
  /\ has_flag' = [u \in Vehicles |->
                    IF \E f \in Flags : owner[f] = u /\ (u = v \/ f = label)
                    THEN FALSE ELSE has_flag[u]]
  /\ summary' = IF SomeFlagsWereReset(v, label) THEN owner' ELSE summary
  /\ UNCHANGED << report, tagged, near_flag_zone, in_home_zone, team_grabs,
                  team_score, score_age, score_post, leader >>

\* HAS_FLAG_ALL=false is bridged to every vehicle as HAS_FLAG=false.
FlagResetAll ==
  /\ owner' = [f \in Flags |-> Nobody]
  /\ has_flag' = IF owner' # owner THEN [v \in Vehicles |-> FALSE] ELSE has_flag
  /\ summary' = IF owner' # owner THEN owner' ELSE summary
  /\ UNCHANGED << report, tagged, near_flag_zone, in_home_zone, team_grabs,
                  team_score, score_age, score_post, leader >>

\* Bug: the score is not marked as due.
FlagGrab_Bug(v) ==
  /\ v \in Reported
  /\ ~HasFlag(v)
  /\ v \notin tagged
  /\ Grabbable(v) # {}
  /\ team_grabs[Group[v]] + Cardinality(Grabbable(v)) <= MaxGrabs
  /\ owner' = [f \in Flags |-> IF f \in Grabbable(v) THEN v ELSE owner[f]]
  /\ has_flag' = [has_flag EXCEPT ![v] = TRUE]
  /\ team_grabs' = [team_grabs EXCEPT ![Group[v]] = @ + Cardinality(Grabbable(v))]
  /\ summary' = owner'
  /\ UNCHANGED << report, tagged, near_flag_zone, in_home_zone, team_score,
                  score_age, score_post, leader >>

\* A request is denied, without effect, unless it comes from the community it
\* names, of a vehicle that is known, has no flag and is not listed as tagged.
FlagGrab(v) ==
  /\ v \in Reported
  /\ ~HasFlag(v)
  /\ v \notin tagged
  /\ Grabbable(v) # {}
  /\ team_grabs[Group[v]] + Cardinality(Grabbable(v)) <= MaxGrabs
  /\ owner' = [f \in Flags |-> IF f \in Grabbable(v) THEN v ELSE owner[f]]
  /\ has_flag' = [has_flag EXCEPT ![v] = TRUE]
  /\ team_grabs' = [team_grabs EXCEPT ![Group[v]] = @ + Cardinality(Grabbable(v))]
  /\ score_age' = ScoreGap
  /\ summary' = owner'
  /\ UNCHANGED << report, tagged, near_flag_zone, in_home_zone, team_score,
                  score_post, leader >>

-------------------------------------------------------------------------------
(***************************************************************************)
(* Iterate.                                                                 *)
(***************************************************************************)
UpdateVehiclesInFlagRange ==
  near_flag_zone' =
    [v \in Vehicles |->
       IF v \in Reported
       THEN \E f \in Flags \ {Group[v]} : FlagDist(v, f) <= FlagRange[f] + NearBuffer
       ELSE near_flag_zone[v]]

\* Bug: a carrier scores only as it arrives, as a captive is released.
Scorers_Bug == {v \in Vehicles : HasFlag(v) /\ IsHome(v) /\ ~in_home_zone[v]}

\* A carrier that is home has scored once, however many flags it carries.
Scorers == {v \in Vehicles : HasFlag(v) /\ IsHome(v)}

\* Bug: the flags of the scorer are not reset.
UpdateVehiclesHaveScored_KeepBug ==
  /\ team_score' = [g \in Scorekeeping |->
                      team_score[g] + Cardinality({v \in Scorers : Group[v] = g})]
  /\ UNCHANGED << owner, has_flag, summary >>

\* Bug: the summary is posted before the flags are reset.
UpdateVehiclesHaveScored_SwapBug ==
  /\ team_score' = [g \in Scorekeeping |->
                      team_score[g] + Cardinality({v \in Scorers : Group[v] = g})]
  /\ owner' = [f \in Flags |-> IF owner[f] \in Scorers THEN Nobody ELSE owner[f]]
  /\ has_flag' = [v \in Vehicles |-> has_flag[v] /\ v \notin Scorers]
  /\ summary' = IF Scorers # {} THEN owner ELSE summary

UpdateVehiclesHaveScored ==
  /\ team_score' = [g \in Scorekeeping |->
                      team_score[g] + Cardinality({v \in Scorers : Group[v] = g})]
  /\ owner' = [f \in Flags |-> IF owner[f] \in Scorers THEN Nobody ELSE owner[f]]
  /\ has_flag' = [v \in Vehicles |-> has_flag[v] /\ v \notin Scorers]
  /\ summary' = IF Scorers # {} THEN owner' ELSE summary

\* Bug: the keys of m_map_record, in upper case, are looked up as they are.
Returned_Bug == {v \in tagged \cap MixedCase : IsHome(v) /\ ~in_home_zone[v]}

\* Vehicles for which UNTAG_REQUEST and the home_posts are posted: listed as
\* tagged, by their name in lower case, and home since this Iterate.
Returned == {v \in tagged \ MixedCase : IsHome(v) /\ ~in_home_zone[v]}

UpdateVehiclesUntagged ==
  in_home_zone' = [v \in Vehicles |-> IF v \in Reported THEN IsHome(v)
                                                        ELSE in_home_zone[v]]

\* Bug: a draw is won by the team that comes later.
Compared_Bug(score, lead, team) ==
  IF score[team] >= lead.max THEN [max |-> score[team], teams |-> {team}]
  ELSE lead

\* One round of the loop: the leaders up to a team, given those before it.
Compared(score, lead, team) ==
  IF score[team] > lead.max THEN [max |-> score[team], teams |-> {team}]
  ELSE IF score[team] = lead.max
    THEN [max |-> lead.max, teams |-> lead.teams \cup {team}]
  ELSE lead

\* The loop of notifyScore over m_flags: the labels with the most goals so far.
Leaders(score) ==
  LET lead[i \in 0..Len(FlagOrder)] ==
        IF i = 0 THEN [max |-> 0, teams |-> {}]
        ELSE Compared(score, lead[i - 1], FlagOrder[i])
  IN  lead[Len(FlagOrder)].teams

\* Bug: the time of the post is not noted.
NotifyScore_Bug(d) ==
  \/ /\ Scorers # {} \/ score_age + d >= ScoreGap
     /\ score_post' = [f \in Flags |-> <<team_grabs[f], team_score'[f]>>]
     /\ LET leaders == Leaders(team_score')
        IN  \E team \in Flags \cup {"tie"} :
              /\ IF Cardinality(leaders) = 1 THEN team \in leaders ELSE team = "tie"
              /\ leader' = team
     /\ score_age' = score_age + d
  \/ /\ Scorers = {} /\ score_age + d < ScoreGap
     /\ score_age' = score_age + d
     /\ UNCHANGED << score_post, leader >>

\* The score is posted when it is due: a goal or a grab makes it due at once.
NotifyScore(d) ==
  \/ /\ Scorers # {} \/ score_age + d >= ScoreGap
     /\ score_post' = [f \in Flags |-> <<team_grabs[f], team_score'[f]>>]
     /\ LET leaders == Leaders(team_score')
        IN  \E team \in Flags \cup {"tie"} :
              /\ IF Cardinality(leaders) = 1 THEN team \in leaders ELSE team = "tie"
              /\ leader' = team
     /\ score_age' = 0
  \/ /\ Scorers = {} /\ score_age + d < ScoreGap
     /\ score_age' = score_age + d
     /\ UNCHANGED << score_post, leader >>

FlagIterate(d) ==
  /\ UpdateVehiclesInFlagRange
  /\ UpdateVehiclesHaveScored
  /\ UpdateVehiclesUntagged
  /\ NotifyScore(d)
  /\ UNCHANGED << report, tagged, team_grabs >>

-------------------------------------------------------------------------------
FlagNext ==
  \/ \E v \in Vehicles : \E p \in Waters[v] : FlagNodeReport(v, p)
  \/ \E vs \in SUBSET Vehicles : TaggedVehicles(vs)
  \/ \E v \in Vehicles \cup {Nobody}, f \in Flags \cup {NoFlag} :
       (v # Nobody \/ f # NoFlag) /\ FlagReset(v, f)
  \/ FlagResetAll
  \/ \E v \in Vehicles : FlagGrab(v)
  \/ \E d \in Elapse : FlagIterate(d)

FlagSpec == FlagInit /\ [][FlagNext]_flagvars

\* MOOS calls Iterate at AppTick whatever mail arrives.
FlagFairSpec == FlagSpec /\ WF_flagvars(\E d \in Elapse : FlagIterate(d))
-------------------------------------------------------------------------------
(***************************************************************************)
(* Properties.                                                              *)
(***************************************************************************)

\* Every variable keeps to its type.
FlagTypeOK ==
  /\ report \in [Vehicles -> Pos \cup {NoRecord}]
  /\ tagged \in SUBSET Vehicles
  /\ owner \in [Flags -> Vehicles \cup {Nobody}]
  /\ near_flag_zone \in [Vehicles -> BOOLEAN]
  /\ in_home_zone \in [Vehicles -> BOOLEAN]
  /\ team_grabs \in [Scorekeeping -> 0..MaxGrabs]
  /\ team_score \in [Scorekeeping -> Nat]
  /\ score_age \in 0..ScoreGap
  /\ score_post \in [Flags -> Nat \X Nat]
  /\ leader \in Flags \cup {"tie"}
  /\ has_flag \in [Vehicles -> BOOLEAN]
  /\ summary \in [Flags -> Vehicles \cup {Nobody}]

\* Whoever has a flag is shown with it in the last FLAG_SUMMARY posted.
OwnersAreShown == \A f \in Flags : owner[f] # Nobody => summary[f] = owner[f]

\* The four places that change the owner of a flag (a grab, a goal, a reset by
\* name or label, a reset of all) post the owners as they are then.  Only a reset
\* that names a vehicle and a label may leave the summary behind, and then the
\* summary shows owners that are none, but hides none.
SummaryFollowsOwners ==
  [][summary' # owner' =>
       /\ \/ UNCHANGED << owner, summary >>
          \/ \E v \in Vehicles, f \in Flags : FlagReset(v, f)
       /\ OwnersAreShown']_flagvars

\* A goal costs a grab: each goal of a team stands for another successful grab
\* of that team, and so does each of its vehicles that has a flag.
GoalsCostGrabs ==
  \A g \in Scorekeeping :
    team_score[g] + Cardinality({v \in Vehicles : Group[v] = g /\ HasFlag(v)})
      <= team_grabs[g]

\* A score that is not due for posting is the score last posted, although it is
\* changed by two handlers and posted by a third.
PostedScoreIsCurrent ==
  score_age < ScoreGap =>
    \A f \in Flags : score_post[f] = <<team_grabs[f], team_score[f]>>

\* Nobody goes on believing that it carries a flag it has lost: whichever of the
\* four ways it went, its vehicle was told.  The reverse is not so: a carrier of
\* two flags that loses one by label is told HAS_FLAG_<V>=false.
HasFlagIsTold == \A v \in Vehicles : has_flag[v] => HasFlag(v)

\* The team posted as AQLEADER has more goals, as posted, than every other; it
\* is "tie" if there is no such team.
LeaderIsAhead ==
  \A f \in Flags :
    leader = f <=> \A g \in Flags \ {f} : score_post[g][2] < score_post[f][2]

\* A carrier that stays home scores at the next Iterate, whenever it took the flag.
CarriersScoreAtHome ==
  \A v \in Vehicles : HasFlag(v) /\ IsHome(v) ~> ~(HasFlag(v) /\ IsHome(v))
===============================================================================
