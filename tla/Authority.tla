------------------------------ MODULE Authority ------------------------------
(***************************************************************************)
(* pAuthority: a robot that is authorised takes its own decision to defend  *)
(* when intruders appear, once for each intrusion.  The state is the text   *)
(* of the last AGGRESSIVE, whoever posted it: "false" is not "FALSE".       *)
(***************************************************************************)
VARIABLES
  aggressive_state, \* m_internal_aggressive_state
  authority_active  \* m_authority_active

AuthorityInit ==
  /\ aggressive_state = "FALSE"
  /\ authority_active = FALSE

\* The message makes the robot post ACTION = DEFEND.
Triggers(key, value) ==
  /\ key = "AGGRESSIVE"
  /\ aggressive_state = "FALSE" /\ value = "TRUE"
  /\ authority_active

\* Bug: the state is remembered only when something was posted.
HandleAggressivePost_Bug(value) ==
  /\ aggressive_state' = IF aggressive_state = "FALSE" /\ value = "TRUE"
                         THEN value ELSE aggressive_state
  /\ UNCHANGED authority_active

HandleAggressivePost(value) ==
  /\ aggressive_state' = value
  /\ UNCHANGED authority_active

SelfAuthorize(value) ==
  /\ authority_active' = IF value \in {"TRUE", "FALSE"} THEN value = "TRUE"
                                                        ELSE authority_active
  /\ UNCHANGED aggressive_state

OnNewMail(key, value) ==
  \/ key = "AGGRESSIVE" /\ HandleAggressivePost(value)
  \/ key = "SELF_AUTHORIZE" /\ SelfAuthorize(value)
===============================================================================
