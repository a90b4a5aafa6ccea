------------------------------ MODULE DefenseMulti ------------------------------
(***************************************************************************)
(* BHV_Defense_Multi, the helm behavior by which two team mates defend one  *)
(* flag.  Each of them marks an attacker, an opponent near the flag, and    *)
(* tells the other one which, so that they mark different ones.             *)
(*                                                                          *)
(* The helm is single threaded: it puts the mail into the info buffer and   *)
(* then runs the behavior, so onRunState is one action.  The team mate's    *)
(* MULTI_NOTIFY crosses the shore by mail that may be late or lost.         *)
(*                                                                          *)
(* Data abstraction.  A position is its distance from the flag: the         *)
(* behavior tells nothing else apart when it chooses whom to mark.          *)
(***************************************************************************)
EXTENDS Integers, Sequences, FiniteSets

CONSTANTS
  Defenders,      \* the two team mates
  Opponents,      \* the names of the other team's vehicles
  Players,        \* the opponents in the order of "players"
  NameSum,        \* sum of the characters of each defender's name
  Ranges,         \* distances from the flag
  Waters,         \* bound: the distances at which each opponent is reported
  CritDist,       \* m_crit_dist
  GuardDist,      \* m_dist_from_flag
  OriginDist,     \* the distance of (0,0), the first m_oppX and m_oppY
  TaggedLists,    \* bound: the lists that TAGGED_VEHICLES may hold
  MaxMail,        \* bound: messages on their way to a defender
  NoOne,          \* the attacker "none"
  NoReport,       \* no node report of the opponent in the info buffer
  NoNews          \* no MULTI_NOTIFY in the info buffer

ASSUME DefendersAssumption ==
  /\ \E d, e \in Defenders : d # e /\ Defenders = {d, e}
  /\ NameSum \in [Defenders -> Nat]
ASSUME OpponentsAssumption ==
  /\ NoOne \notin Opponents /\ NoNews \notin Opponents
  /\ Players \in Seq(Opponents)
  /\ \A o \in Opponents : \E i \in 1..Len(Players) : Players[i] = o
  /\ \A i, j \in 1..Len(Players) : Players[i] = Players[j] => i = j
ASSUME RangesAssumption ==
  /\ Ranges \subseteq Nat /\ NoReport \notin Nat
  /\ Waters \in [Opponents -> SUBSET Ranges]
  /\ CritDist \in Nat /\ GuardDist \in Nat /\ OriginDist \in Nat
ASSUME MailAssumption == MaxMail \in Nat \ {0}
ASSUME TaggedAssumption == << >> \in TaggedLists

VARIABLES
  report,         \* the NODE_REPORT_<O> in each info buffer
  tagged,         \* the TAGGED_VEHICLES in each info buffer
  notify,         \* the MULTI_NOTIFY in each info buffer
  mail,           \* the MULTI_NOTIFYs on their way to each defender
  opp_list,       \* the names of m_opp_list; its positions are those reported
  attacker,       \* m_attacker
  opp_dist,       \* the distance of (m_oppX, m_oppY)
  covered,        \* m_covered
  steer           \* where the defender steers: to its post or to m_oppX, m_oppY

vars == << report, tagged, notify, mail, opp_list, attacker, opp_dist, covered, steer >>

Mate(d) == CHOOSE e \in Defenders : e # d

\* m_priority: of two team mates with different names one has it.
Priority(d) == NameSum[d] > NameSum[Mate(d)]

ElementsOf(s) == {s[i] : i \in 1..Len(s)}

-------------------------------------------------------------------------------
\* Bug: m_attacker starts empty, which is not "none".
Init_Bug ==
  /\ report = [d \in Defenders |-> [o \in Opponents |-> NoReport]]
  /\ tagged = [d \in Defenders |-> << >>]
  /\ notify = [d \in Defenders |-> NoNews]
  /\ mail = [d \in Defenders |-> << >>]
  /\ opp_list = [d \in Defenders |-> << >>]
  /\ attacker = [d \in Defenders |-> NoNews]
  /\ opp_dist = [d \in Defenders |-> OriginDist]
  /\ covered = [d \in Defenders |-> NoNews]
  /\ steer = [d \in Defenders |-> "post"]

Init ==
  /\ report = [d \in Defenders |-> [o \in Opponents |-> NoReport]]
  /\ tagged = [d \in Defenders |-> << >>]
  /\ notify = [d \in Defenders |-> NoNews]
  /\ mail = [d \in Defenders |-> << >>]
  /\ opp_list = [d \in Defenders |-> << >>]
  /\ attacker = [d \in Defenders |-> NoOne]
  /\ opp_dist = [d \in Defenders |-> OriginDist]
  /\ covered = [d \in Defenders |-> NoNews]
  /\ steer = [d \in Defenders |-> "post"]

-------------------------------------------------------------------------------
(***************************************************************************)
(* Mail.                                                                    *)
(***************************************************************************)
Report(d, o, r) ==
  /\ report' = [report EXCEPT ![d][o] = r]
  /\ UNCHANGED << tagged, notify, mail, opp_list, attacker, opp_dist, covered, steer >>

TaggedVehicles(d, list) ==
  /\ tagged' = [tagged EXCEPT ![d] = list]
  /\ UNCHANGED << report, notify, mail, opp_list, attacker, opp_dist, covered, steer >>

\* The info buffer keeps the last message only.
Deliver(d) ==
  /\ mail[d] # << >>
  /\ notify' = [notify EXCEPT ![d] = Head(mail[d])]
  /\ mail' = [mail EXCEPT ![d] = Tail(@)]
  /\ UNCHANGED << report, tagged, opp_list, attacker, opp_dist, covered, steer >>

Lose(d) ==
  /\ mail[d] # << >>
  /\ mail' = [mail EXCEPT ![d] = Tail(@)]
  /\ UNCHANGED << report, tagged, notify, opp_list, attacker, opp_dist, covered, steer >>

-------------------------------------------------------------------------------
(***************************************************************************)
(* onRunState.                                                              *)
(***************************************************************************)

\* Bug: every report is put at the end.
Entered_Bug(d, list, o) ==
  IF report[d][o] # NoReport /\ Len(list) < 2 * Len(Players) THEN Append(list, o)
  ELSE list

\* getOppCoords puts an opponent that it sees for the first time at the end.
Entered(d, list, o) ==
  IF report[d][o] # NoReport /\ o \notin ElementsOf(list) THEN Append(list, o)
  ELSE list

\* m_opp_list after the loop over "players".
Met(d) ==
  LET met[i \in 0..Len(Players)] ==
        IF i = 0 THEN opp_list[d] ELSE Entered(d, met[i - 1], Players[i])
  IN  met[Len(Players)]

\* Bug: a far attacker is left only if it is tagged.
Left_FarBug(d) ==
  /\ attacker[d] # NoOne
  /\ \/ attacker[d] \in ElementsOf(tagged[d])
     \/ ~Priority(d) /\ attacker[d] = covered[d]

\* Bug: the one that has the priority yields too.
Left_YieldBug(d) ==
  /\ attacker[d] # NoOne
  /\ \/ report[d][attacker[d]] > CritDist
     \/ attacker[d] \in ElementsOf(tagged[d])
     \/ attacker[d] = covered[d]

\* Bug: nobody yields.
Left_FirmBug(d) ==
  /\ attacker[d] # NoOne
  /\ \/ report[d][attacker[d]] > CritDist
     \/ attacker[d] \in ElementsOf(tagged[d])

\* getOppCoords leaves an attacker that is far, that is tagged, or that the team
\* mate covers as far as it was known at the last run.
Left(d) ==
  /\ attacker[d] # NoOne
  /\ \/ report[d][attacker[d]] > CritDist
     \/ attacker[d] \in ElementsOf(tagged[d])
     \/ ~Priority(d) /\ attacker[d] = covered[d]

Kept(d) == IF Left(d) THEN NoOne ELSE attacker[d]

\* The defender steers to (m_oppX, m_oppY) if that is within its guard.
Steer(dist) == IF dist < GuardDist THEN "opponent" ELSE "post"

\* The choice of a new attacker compares m_opp_list[i] with m_tagged[i], for an i
\* of its own: a match anywhere stands for a match of every opponent.  Where the
\* tagged list is the longer one it reads past the end of m_opp_list.
TaggedMatches(list, tags) ==
  IF \E i \in 1..Len(tags) : i <= Len(list) /\ list[i] = tags[i] THEN {TRUE}
  ELSE IF Len(tags) > Len(list) THEN {TRUE, FALSE}
  ELSE {FALSE}

Candidates(d, list, cover) ==
  {i \in 1..Len(list) : report[d][list[i]] < CritDist /\ list[i] # cover}

\* The first of the nearest candidates.
Nearest(d, list, cover) ==
  {i \in Candidates(d, list, cover) :
     \A j \in Candidates(d, list, cover) :
       \/ report[d][list[i]] < report[d][list[j]]
       \/ report[d][list[i]] = report[d][list[j]] /\ i <= j}

\* The attacker reported to the team mate is the one kept, not one chosen now.
OnRunState(d) ==
  LET keep == Kept(d)
      dist == IF keep # NoOne THEN report[d][keep] ELSE opp_dist[d]
  IN  /\ covered' = [covered EXCEPT ![d] = notify[d]]
      /\ mail' = [mail EXCEPT ![Mate(d)] =
                    IF Len(@) < MaxMail THEN Append(@, keep) ELSE @]
      /\ steer' = [steer EXCEPT ![d] = Steer(dist)]
      /\ \E list \in {Met(d)} :
           /\ opp_list' = [opp_list EXCEPT ![d] = list]
           /\ \E hidden \in TaggedMatches(list, tagged[d]) :
                LET choice == IF keep # NoOne \/ hidden THEN {}
                              ELSE Nearest(d, list, notify[d])
                IN  \/ /\ choice = {}
                       /\ attacker' = [attacker EXCEPT ![d] = keep]
                       /\ opp_dist' = [opp_dist EXCEPT ![d] = dist]
                    \/ \E i \in choice :
                         /\ attacker' = [attacker EXCEPT ![d] = list[i]]
                         /\ opp_dist' = [opp_dist EXCEPT ![d] = report[d][list[i]]]
      /\ UNCHANGED << report, tagged, notify >>

Next ==
  \E d \in Defenders :
    \/ \E o \in Opponents : \E r \in Waters[o] : Report(d, o, r)
    \/ \E list \in TaggedLists : TaggedVehicles(d, list)
    \/ Deliver(d) \/ Lose(d)
    \/ OnRunState(d)

Spec == Init /\ [][Next]_vars

\* The helm runs for ever, and the shore forwards some of the messages.
FairSpec ==
  Spec /\ \A d \in Defenders : WF_vars(OnRunState(d)) /\ SF_vars(Deliver(d))
-------------------------------------------------------------------------------
(***************************************************************************)
(* Properties.                                                              *)
(***************************************************************************)

\* Every variable keeps to its type.
TypeOK ==
  /\ report \in [Defenders -> [Opponents -> Ranges \cup {NoReport}]]
  /\ tagged \in [Defenders -> TaggedLists]
  /\ notify \in [Defenders -> Opponents \cup {NoOne, NoNews}]
  /\ mail \in [Defenders -> Seq(Opponents \cup {NoOne})]
  /\ opp_list \in [Defenders -> Seq(Opponents)]
  /\ attacker \in [Defenders -> Opponents \cup {NoOne}]
  /\ opp_dist \in [Defenders -> Ranges \cup {OriginDist}]
  /\ covered \in [Defenders -> Opponents \cup {NoOne, NoNews}]
  /\ steer \in [Defenders -> {"post", "opponent"}]

\* m_opp_list, to which every run appends, has each opponent once, and only those
\* that have reported; the attacker is one of them.
OppListIsAMap ==
  \A d \in Defenders :
    /\ \A i, j \in 1..Len(opp_list[d]) : opp_list[d][i] = opp_list[d][j] => i = j
    /\ \A o \in ElementsOf(opp_list[d]) : report[d][o] # NoReport
    /\ attacker[d] # NoOne => attacker[d] \in ElementsOf(opp_list[d])

\* After every run the attacker, kept or chosen, is within m_crit_dist of the flag
\* as last reported, and (m_oppX, m_oppY) is where it was last reported.
AttackerIsInView ==
  [][\A d \in Defenders :
       OnRunState(d) /\ attacker'[d] # NoOne
       => /\ report[d][attacker'[d]] <= CritDist
          /\ opp_dist'[d] = report[d][attacker'[d]]]_vars

\* The defender with the priority stays with its attacker, whatever its team mate
\* tells it and when, until the attacker is far or tagged.
PriorityStandsFirm ==
  [][\A d \in Defenders :
       Priority(d) /\ attacker[d] # NoOne /\ attacker'[d] # attacker[d]
       => \/ report[d][attacker[d]] > CritDist
          \/ attacker[d] \in ElementsOf(tagged[d])]_vars

\* Two attackers stay near and no vehicle is tagged, as far as both defenders know.
Siege ==
  /\ \A d \in Defenders : tagged[d] = << >>
  /\ \E a, b \in Opponents :
       a # b /\ \A d \in Defenders : \A o \in {a, b} :
                  report[d][o] # NoReport /\ report[d][o] < CritDist

\* Each defender has an attacker of its own.
Split ==
  /\ \A d \in Defenders : attacker[d] # NoOne
  /\ \A d, e \in Defenders : attacker[d] = attacker[e] => d = e

\* Under siege the defenders come to mark different attackers and stay with them,
\* although messages are late or lost and both may have begun with the same one.
DefendersSplit == <>[]Siege => <>[]Split

\* "we have identified a valid attacker": a free opponent that stays near, as both
\* defenders know, is not ignored for ever by both of them.
AttackIsMet ==
  \A o \in Opponents :
    <>[](\A d \in Defenders : /\ report[d][o] # NoReport /\ report[d][o] < CritDist
                              /\ o \notin ElementsOf(tagged[d]))
    => []<>(\E d \in Defenders : attacker[d] # NoOne)
===============================================================================
