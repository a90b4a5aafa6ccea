---------------------------- MODULE DialogManager ----------------------------
(***************************************************************************)
(* uDialogManager, by which a player speaks to a robot.  The recogniser     *)
(* hands it whole sentences; a command is sent when the player has answered *)
(* the question about it with the word of confirmation.  Nothing limits how *)
(* long a question stays open, and whatever is heard then is the answer.    *)
(*                                                                          *)
(* A sentence recognised with little confidence is answered with "SAY       *)
(* AGAIN", and one that is no command with "command not defined": neither   *)
(* changes anything here.                                                   *)
(***************************************************************************)
EXTENDS Naturals, Sequences

CONSTANTS
  Sentences,        \* the keys of m_actions
  JustPublish,      \* those configured with NOCONFIRM
  Heard,            \* what the recogniser may hear
  ConfirmWord,      \* m_confirm_word
  DeclineWord,      \* m_decline_word
  Nothing           \* m_commanded_string is empty

ASSUME DialogAssumption ==
  /\ JustPublish \subseteq Sentences
  /\ Nothing \notin Sentences

VARIABLES
  dialog_state,     \* m_state, between two messages
  commanded,        \* m_commanded_string
  ack_attempts,     \* m_number_ack_attempts
  posts             \* commands posted that the radio has not taken yet

dialog_vars == << dialog_state, commanded, ack_attempts, posts >>

DialogInit ==
  /\ dialog_state = "WAIT_COMMAND"
  /\ commanded = Nothing
  /\ ack_attempts = 0
  /\ posts = << >>

TriggerVariablePosts(c) == posts' = Append(posts, c)

-------------------------------------------------------------------------------
TriggerCommandSequence(s) ==
  /\ s \in Sentences \ {"YES", "NO"}
  /\ commanded' = s
  /\ \/ /\ s \in JustPublish
        /\ TriggerVariablePosts(s)
        /\ UNCHANGED dialog_state
     \/ /\ s \notin JustPublish
        /\ dialog_state' = "WAIT_ACK"
        /\ UNCHANGED posts
  /\ UNCHANGED ack_attempts

\* The question is closed, by an answer or by one wrong answer too many.
CloseQuestion ==
  /\ dialog_state' = "WAIT_COMMAND"
  /\ ack_attempts' = 0

\* Bug: a question that is declined leaves its wrong answers to the next.
TriggerAckSequence_Bug(s) ==
  /\ UNCHANGED commanded
  /\ \/ /\ s = ConfirmWord[commanded]
        /\ TriggerVariablePosts(commanded)
        /\ CloseQuestion
     \/ /\ s # ConfirmWord[commanded] /\ s = DeclineWord[commanded]
        /\ dialog_state' = "WAIT_COMMAND"
        /\ UNCHANGED << ack_attempts, posts >>
     \/ /\ s \notin {ConfirmWord[commanded], DeclineWord[commanded]}
        /\ UNCHANGED posts
        /\ \/ ack_attempts = 1 /\ CloseQuestion
           \/ /\ ack_attempts # 1
              /\ ack_attempts' = ack_attempts + 1
              /\ UNCHANGED dialog_state

TriggerAckSequence(s) ==
  /\ UNCHANGED commanded
  /\ \/ /\ s = ConfirmWord[commanded]
        /\ TriggerVariablePosts(commanded)
        /\ CloseQuestion
     \/ /\ s # ConfirmWord[commanded] /\ s = DeclineWord[commanded]
        /\ CloseQuestion
        /\ UNCHANGED posts
     \/ /\ s \notin {ConfirmWord[commanded], DeclineWord[commanded]}
        /\ UNCHANGED posts
        /\ \/ ack_attempts = 1 /\ CloseQuestion
           \/ /\ ack_attempts # 1
              /\ ack_attempts' = ack_attempts + 1
              /\ UNCHANGED dialog_state

\* A sentence is recognised.
Hear(s) ==
  \/ dialog_state = "WAIT_COMMAND" /\ TriggerCommandSequence(s)
  \/ dialog_state = "WAIT_ACK" /\ TriggerAckSequence(s)

\* The radio takes a command.
RadioTakes ==
  /\ posts # << >>
  /\ posts' = Tail(posts)
  /\ UNCHANGED << dialog_state, commanded, ack_attempts >>

-------------------------------------------------------------------------------
Dialog == INSTANCE Confirmation
            WITH Commands  <- Sentences,
                 Immediate <- JustPublish,
                 offer   <- IF dialog_state = "WAIT_ACK" THEN commanded ELSE Nothing,
                 chances <- IF dialog_state = "WAIT_ACK" THEN 2 - ack_attempts ELSE 2

\* A command reaches the radio once, and only if its own question, the one asked
\* last, was confirmed by the first or second answer, whatever the recogniser has
\* heard before, between and after.
ImplementsConfirmation == Dialog!ConfirmSpec
===============================================================================
