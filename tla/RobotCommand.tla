----------------------------- MODULE RobotCommand -----------------------------
(***************************************************************************)
(* Who commands a robot, as in the mission aquaticus-USMA: the player, who  *)
(* speaks to uDialogManager and whose commands may be lost on the radio,    *)
(* pAuthority, which has the robot defend when pZoneTrackOpponents reports  *)
(* an intrusion, and pReliable, which turns the commands of either into     *)
(* their opposite.  All of them write one variable, ACTION.  The shoreside  *)
(* sets the conditions of the experiment, and resets AGGRESSIVE itself.     *)
(***************************************************************************)
EXTENDS DialogManager

CONSTANTS
  ActionOf,         \* the ACTION posted with a command
  Opponents, Area, NoReport,   \* of ZoneTrackOpponents
  Places,           \* bound: where opponents report from
  MaxPosts,         \* bound: commands that wait for the radio
  MaxTold,          \* bound: messages that wait for pAuthority
  MaxOrders         \* bound: messages that wait for pReliable

ASSUME CommandAssumption ==
  /\ MaxPosts \in Nat /\ MaxTold \in Nat /\ MaxOrders \in Nat

VARIABLES
  reported,                             \* of pZoneTrackOpponents
  aggressive_state, authority_active,   \* of pAuthority
  authority_mail,   \* AGGRESSIVE and SELF_AUTHORIZE that pAuthority has not read
  reliable_state, action_state,         \* of pReliable
  reliable_mail,    \* RELIABLE and ACTION that pReliable has not read
  action,           \* ACTION, by which the helm chooses what to do
  ordered           \* the last ACTION that was not posted by pReliable

Track == INSTANCE ZoneTrackOpponents
Auth  == INSTANCE Authority
Rel   == INSTANCE Reliable

ASSUME NothingAssumption == Nothing \notin DOMAIN Rel!Opposite

authority_vars == << aggressive_state, authority_active, authority_mail >>
reliable_vars == << reliable_state, action_state >>
order_vars == << reliable_mail, action, ordered >>
command_vars == << dialog_vars, reported, authority_vars, reliable_vars, order_vars >>

\* The helm initialises ACTION to PROTECT and AGGRESSIVE to false.
CommandInit ==
  /\ DialogInit
  /\ Track!TrackInit
  /\ Auth!AuthorityInit /\ authority_mail = << << "AGGRESSIVE", "false" >> >>
  /\ Rel!ReliableInit
  /\ action = "PROTECT" /\ ordered = "PROTECT"
  /\ reliable_mail = << << "ACTION", "PROTECT", "pHelmIvP" >> >>

\* Somebody other than pReliable posts ACTION.
Order(a, src) ==
  /\ Len(reliable_mail) < MaxOrders
  /\ action' = a /\ ordered' = a
  /\ reliable_mail' = Append(reliable_mail, << "ACTION", a, src >>)

-------------------------------------------------------------------------------
\* The recogniser of the player hears a sentence.
Speak(s) ==
  /\ Len(posts) < MaxPosts
  /\ Hear(s)
  /\ UNCHANGED << reported, authority_vars, reliable_vars, order_vars >>

RadioDelivers ==
  /\ RadioTakes
  /\ Order(ActionOf[Head(posts)], "uFldMessageHandler")
  /\ UNCHANGED << reported, authority_vars, reliable_vars >>

RadioLoses ==
  /\ RadioTakes
  /\ UNCHANGED << reported, authority_vars, reliable_vars, order_vars >>

OpponentReports(o, p) ==
  /\ Track!HandleMailNodeReport(o, p)
  /\ UNCHANGED << dialog_vars, authority_vars, reliable_vars, order_vars >>

TellAuthority(messages) ==
  /\ Len(authority_mail) + Len(messages) <= MaxTold
  /\ authority_mail' = authority_mail \o messages

TrackerIterates ==
  /\ TellAuthority([i \in DOMAIN Track!Verdicts |-> << "AGGRESSIVE", Track!Verdicts[i] >>])
  /\ UNCHANGED << dialog_vars, reported, aggressive_state, authority_active,
                  reliable_vars, order_vars >>

\* The shoreside bridges "false", and who may decide for itself.
ShoreTellsAuthority(key, value) ==
  /\ TellAuthority(<< << key, value >> >>)
  /\ UNCHANGED << dialog_vars, reported, aggressive_state, authority_active,
                  reliable_vars, order_vars >>

ShoreSetsReliable(value) ==
  /\ Len(reliable_mail) < MaxOrders
  /\ reliable_mail' = Append(reliable_mail, << "RELIABLE", value, "pShare" >>)
  /\ UNCHANGED << dialog_vars, reported, authority_vars, reliable_vars, action,
                  ordered >>

AuthorityReads ==
  /\ authority_mail # << >>
  /\ authority_mail' = Tail(authority_mail)
  /\ LET m == Head(authority_mail)
     IN  /\ Auth!OnNewMail(m[1], m[2])
         /\ \/ Auth!Triggers(m[1], m[2]) /\ Order("DEFEND", "pAuthority")
            \/ ~Auth!Triggers(m[1], m[2]) /\ UNCHANGED order_vars
  /\ UNCHANGED << dialog_vars, reported, reliable_vars >>

ReliableReads ==
  /\ reliable_mail # << >>
  /\ LET m == Head(reliable_mail)
     IN  /\ Rel!OnNewMail(m[1], m[2], m[3])
         /\ \/ /\ Rel!Interrupts(m[1], m[2], m[3])
               /\ action_state' \in DOMAIN Rel!Opposite
               /\ action' = Rel!Opposite[action_state']
               /\ reliable_mail' = Append(Tail(reliable_mail),
                                          << "ACTION", action', "pReliable" >>)
            \/ /\ ~(/\ Rel!Interrupts(m[1], m[2], m[3])
                    /\ action_state' \in DOMAIN Rel!Opposite)
               /\ reliable_mail' = Tail(reliable_mail)
               /\ UNCHANGED action
  /\ UNCHANGED << dialog_vars, reported, authority_vars, ordered >>

CommandNext ==
  \/ \E s \in Heard : Speak(s)
  \/ RadioDelivers \/ RadioLoses
  \/ \E o \in Opponents, p \in Places : OpponentReports(o, p)
  \/ TrackerIterates
  \/ ShoreTellsAuthority("AGGRESSIVE", "false")
  \/ \E value \in {"TRUE", "FALSE"} : \/ ShoreTellsAuthority("SELF_AUTHORIZE", value)
                                      \/ ShoreSetsReliable(value)
  \/ AuthorityReads \/ ReliableReads

CommandSpec == CommandInit /\ [][CommandNext]_command_vars
-------------------------------------------------------------------------------
(***************************************************************************)
(* Properties.                                                              *)
(***************************************************************************)

\* Where the orders are that pReliable has not read.
Unread == {i \in 1..Len(reliable_mail) :
             reliable_mail[i][1] = "ACTION" /\ reliable_mail[i][3] # "pReliable"}

\* While the robot is unreliable it does the opposite of what the player or
\* pAuthority ordered last, as soon as pReliable has read the order: its answers
\* are not mixed up with each other, with earlier orders or with its own posts.
\* Orders that have no opposite are left as they are, or lost to a late answer.
UnreliableRobotInverts ==
  reliable_state = "FALSE" /\ Unread = {} /\ ordered \in DOMAIN Rel!Opposite
    => action = Rel!Opposite[ordered]

\* pZoneTrackOpponents says that there are opponents in the zone, or that there are none.
Says(value) == TrackerIterates /\ Head(Track!Verdicts) = value

\* A robot that decides for itself defends at every new intrusion: opponents that
\* come and go for ever make pAuthority order DEFEND again and again, provided
\* that nobody else writes AGGRESSIVE.
IntrusionsAreAnswered ==
  /\ <>[](authority_active /\ \A i \in DOMAIN authority_mail :
            authority_mail[i] \in {"AGGRESSIVE"} \X {"TRUE", "FALSE"})
  /\ []<><<Says("TRUE")>>_command_vars
  /\ []<><<Says("FALSE")>>_command_vars
  => []<><<AuthorityReads /\ reliable_mail' # reliable_mail>>_command_vars
===============================================================================
