----------------------------- MODULE Confirmation -----------------------------
(***************************************************************************)
(* What the dialog between a player and a robot promises: a command is sent *)
(* once, and only if the player has confirmed the question asked about it   *)
(* last, within two answers; commands that need no confirmation are sent    *)
(* only while no question is open.                                          *)
(***************************************************************************)
EXTENDS Naturals, Sequences

CONSTANTS
  Commands,         \* commands
  Immediate,        \* those that need no confirmation
  Nothing           \* no question is open

VARIABLES
  offer,            \* the command the player is asked about
  chances,          \* answers the player has left
  posts             \* commands sent that the radio has not taken yet

confirm_vars == << offer, chances, posts >>

ConfirmInit == offer = Nothing /\ chances = 2 /\ posts = << >>

Publish(c) ==
  /\ offer = Nothing /\ c \in Immediate
  /\ posts' = Append(posts, c)
  /\ UNCHANGED << offer, chances >>

Ask(c) ==
  /\ offer = Nothing /\ c \in Commands \ Immediate
  /\ offer' = c /\ chances' = 2
  /\ UNCHANGED posts

Confirm ==
  /\ offer # Nothing
  /\ posts' = Append(posts, offer)
  /\ offer' = Nothing /\ chances' = 2

Withdraw ==
  /\ offer # Nothing
  /\ offer' = Nothing /\ chances' = 2
  /\ UNCHANGED posts

Misunderstand ==
  /\ offer # Nothing /\ chances > 1
  /\ chances' = chances - 1
  /\ UNCHANGED << offer, posts >>

Radio ==
  /\ posts # << >>
  /\ posts' = Tail(posts)
  /\ UNCHANGED << offer, chances >>

ConfirmNext ==
  \/ \E c \in Commands : Publish(c) \/ Ask(c)
  \/ Confirm \/ Withdraw \/ Misunderstand
  \/ Radio

ConfirmSpec == ConfirmInit /\ [][ConfirmNext]_confirm_vars
===============================================================================
