------------------------------- MODULE Reliable -------------------------------
(***************************************************************************)
(* pReliable makes a robot unreliable for an experiment: while RELIABLE is  *)
(* FALSE it answers every ACTION that somebody else posts with its          *)
(* opposite.  It reads its own ACTIONs too and tells them by their source.  *)
(***************************************************************************)
CONSTANT Nothing    \* m_action_state is empty

VARIABLES
  reliable_state,   \* m_reliable_state
  action_state      \* m_action_state

ReliableInit ==
  /\ reliable_state = "TRUE"
  /\ action_state = Nothing

\* What interruptReliability posts; it is silent about other actions.
Opposite ==
  [a \in {"ATTACK", "ATTACK_LEFT", "ATTACK_RIGHT", "TRAIL", "COVER",
          "STATION", "INTERCEPT", "DEFEND"} |->
     IF a \in {"ATTACK", "ATTACK_LEFT", "ATTACK_RIGHT"} THEN "DEFEND"
     ELSE IF a \in {"TRAIL", "COVER"} THEN "STATION"
     ELSE "ATTACK"]

\* Bug: its own posts are not told from those of others.
Foreign_Bug(src) == TRUE

Foreign(src) == src # "pReliable"

\* A message with the given key, value and source is read.
OnNewMail(key, value, src) ==
  \/ /\ key = "RELIABLE"
     /\ reliable_state' = value
     /\ UNCHANGED action_state
  \/ /\ key = "ACTION"
     /\ action_state' = IF Foreign(src) THEN value ELSE action_state
     /\ UNCHANGED reliable_state

\* Reading the message calls interruptReliability.
Interrupts(key, value, src) ==
  \/ key = "RELIABLE" /\ value = "FALSE" /\ action_state # Nothing
  \/ key = "ACTION" /\ Foreign(src) /\ reliable_state = "FALSE"
===============================================================================
