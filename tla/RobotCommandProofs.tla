-------------------------- MODULE RobotCommandProofs --------------------------
(***************************************************************************)
(* Proofs about the dialog with a robot and about the orders it receives,   *)
(* for any sentences, words, opponents and bounds.                          *)
(***************************************************************************)
EXTENDS RobotCommand, TLAPS

-------------------------------------------------------------------------------
(***************************************************************************)
(* The dialog.                                                              *)
(***************************************************************************)

\* A question is open about a command that needs it and has at most one wrong
\* answer; without a question no wrong answers are remembered.
DialogOK ==
  /\ posts \in Seq(Sentences)
  /\ ack_attempts \in {0, 1}
  /\ \/ dialog_state = "WAIT_COMMAND" /\ ack_attempts = 0
     \/ dialog_state = "WAIT_ACK" /\ commanded \in Sentences \ JustPublish

\* A sentence that is heard keeps the dialog in order, and is one of the steps of
\* Confirmation.
LEMMA HearConfirms ==
  ASSUME DialogOK, NEW s \in Heard, Hear(s)
  PROVE  DialogOK' /\ [Dialog!ConfirmNext]_(Dialog!confirm_vars)
<1> USE DialogAssumption DEF DialogOK, TriggerVariablePosts
<1>1. CASE dialog_state = "WAIT_COMMAND" /\ TriggerCommandSequence(s)
  <2>1. s \in Sentences
    BY <1>1 DEF TriggerCommandSequence
  <2>2. CASE s \in JustPublish
    <3>1. Dialog!Publish(s)
      BY <1>1, <2>1, <2>2 DEF TriggerCommandSequence, Dialog!Publish
    <3> QED
      BY <1>1, <2>1, <2>2, <3>1 DEF TriggerCommandSequence, Dialog!ConfirmNext
  <2>3. CASE s \notin JustPublish
    <3>1. Dialog!Ask(s)
      BY <1>1, <2>1, <2>3 DEF TriggerCommandSequence, Dialog!Ask
    <3> QED
      BY <1>1, <2>1, <2>3, <3>1 DEF TriggerCommandSequence, Dialog!ConfirmNext
  <2> QED
    BY <2>2, <2>3
<1>2. CASE dialog_state = "WAIT_ACK" /\ TriggerAckSequence(s)
  <2>0. commanded \in Sentences /\ commanded # Nothing /\ UNCHANGED commanded
    BY <1>2 DEF TriggerAckSequence
  <2>1. CASE TriggerVariablePosts(commanded) /\ CloseQuestion
    <3>1. Dialog!Confirm
      BY <1>2, <2>0, <2>1 DEF CloseQuestion, Dialog!Confirm
    <3> QED
      BY <1>2, <2>0, <2>1, <3>1 DEF CloseQuestion, Dialog!ConfirmNext
  <2>2. CASE CloseQuestion /\ UNCHANGED posts
    <3>1. Dialog!Withdraw
      BY <1>2, <2>0, <2>2 DEF CloseQuestion, Dialog!Withdraw
    <3> QED
      BY <1>2, <2>0, <2>2, <3>1 DEF CloseQuestion, Dialog!ConfirmNext
  <2>3. CASE /\ ack_attempts # 1
             /\ ack_attempts' = ack_attempts + 1
             /\ UNCHANGED << dialog_state, posts >>
    <3>1. Dialog!Misunderstand
      BY <1>2, <2>0, <2>3 DEF Dialog!Misunderstand
    <3> QED
      BY <1>2, <2>0, <2>3, <3>1 DEF Dialog!ConfirmNext
  <2> QED
    BY <1>2, <2>1, <2>2, <2>3 DEF TriggerAckSequence
<1> QED
  BY <1>1, <1>2 DEF Hear

\* The radio takes commands from the front.
LEMMA RadioConfirms ==
  ASSUME DialogOK, RadioTakes
  PROVE  DialogOK' /\ [Dialog!ConfirmNext]_(Dialog!confirm_vars)
<1>1. posts' \in Seq(Sentences)
  BY DEF DialogOK, RadioTakes
<1>2. Dialog!Radio
  BY DEF RadioTakes, Dialog!Radio
<1> QED
  BY <1>1, <1>2 DEF DialogOK, RadioTakes, Dialog!ConfirmNext

\* Other steps leave the dialog alone.
LEMMA DialogStep ==
  ASSUME DialogOK, [CommandNext]_command_vars
  PROVE  DialogOK' /\ [Dialog!ConfirmNext]_(Dialog!confirm_vars)
<1>1. ASSUME NEW s \in Heard, Speak(s)
      PROVE  DialogOK' /\ [Dialog!ConfirmNext]_(Dialog!confirm_vars)
  BY <1>1, HearConfirms DEF Speak
<1>2. CASE RadioTakes
  BY <1>2, RadioConfirms
<1>3. CASE UNCHANGED dialog_vars
  BY <1>3 DEF DialogOK, dialog_vars, Dialog!confirm_vars
<1> QED
  BY <1>1, <1>2, <1>3 DEF CommandNext, command_vars, RadioDelivers, RadioLoses,
     OpponentReports, TrackerIterates, ShoreTellsAuthority, ShoreSetsReliable,
     AuthorityReads, ReliableReads

\* The dialog begins in order.
LEMMA DialogStarts == CommandInit => DialogOK /\ Dialog!ConfirmInit
BY DEF CommandInit, DialogInit, DialogOK, Dialog!ConfirmInit

\* The dialog is always in order.
LEMMA DialogStays == CommandSpec => []DialogOK
<1>1. DialogOK /\ [CommandNext]_command_vars => DialogOK'
  BY DialogStep
<1> QED
  BY <1>1, DialogStarts, PTL DEF CommandSpec

\* The robot is sent a command only if the player confirmed it, whatever sentences
\* are configured and whatever is heard: uDialogManager implements Confirmation.
THEOREM CommandsAreConfirmed == CommandSpec => ImplementsConfirmation
<1>1. DialogOK /\ [CommandNext]_command_vars
        => [Dialog!ConfirmNext]_(Dialog!confirm_vars)
  BY DialogStep
<1> QED
  BY <1>1, DialogStarts, DialogStays, PTL
     DEF CommandSpec, ImplementsConfirmation, Dialog!ConfirmSpec
-------------------------------------------------------------------------------
(***************************************************************************)
(* The orders.                                                              *)
(***************************************************************************)

Actions ==
  {"PROTECT", "DEFEND", "ATTACK", "STATION"} \cup {ActionOf[c] : c \in Sentences}

Sources == {"pHelmIvP", "pShare", "pAuthority", "pReliable", "uFldMessageHandler"}

Messages ==
  {"ACTION", "RELIABLE"} \X (Actions \cup {"TRUE", "FALSE"}) \X Sources

\* pReliable knows the last order, or has it before it; and what it has answered to
\* the orders it knows stands.
OrderOK ==
  /\ reliable_mail \in Seq(Messages)
  /\ \A i \in Unread : (\A j \in Unread : j <= i) => reliable_mail[i][2] = ordered
  /\ Unread = {} => action_state = ordered
  /\ UnreliableRobotInverts

\* Another message in the mail of pReliable is an order or it is not.
LEMMA UnreadAppended ==
  ASSUME reliable_mail \in Seq(Messages), NEW m \in Messages,
         reliable_mail' = Append(reliable_mail, m)
  PROVE  /\ reliable_mail' \in Seq(Messages)
         /\ Len(reliable_mail') = Len(reliable_mail) + 1
         /\ \A i \in 1..Len(reliable_mail) : reliable_mail'[i] = reliable_mail[i]
         /\ reliable_mail'[Len(reliable_mail')] = m
         /\ Unread' = Unread \cup (IF m[1] = "ACTION" /\ m[3] # "pReliable"
                                   THEN {Len(reliable_mail')} ELSE {})
<1>1. /\ reliable_mail' \in Seq(Messages)
      /\ Len(reliable_mail') = Len(reliable_mail) + 1
      /\ \A i \in 1..Len(reliable_mail) : reliable_mail'[i] = reliable_mail[i]
      /\ reliable_mail'[Len(reliable_mail')] = m
  OBVIOUS
<1> QED
  BY <1>1 DEF Unread

\* An order becomes the last one, unread.
LEMMA OrderKeepsOrder ==
  ASSUME OrderOK, NEW a \in Actions, NEW src \in Sources \ {"pReliable"}, Order(a, src)
  PROVE  OrderOK'
<1> DEFINE m == << "ACTION", a, src >>
<1>1. m \in Messages /\ m[1] = "ACTION" /\ m[2] = a /\ m[3] # "pReliable"
  BY DEF Messages, Sources
<1>2. /\ reliable_mail' = Append(reliable_mail, m)
      /\ ordered' = a
      /\ reliable_mail \in Seq(Messages)
  BY DEF Order, OrderOK
<1> HIDE DEF m
<1>3. /\ reliable_mail' \in Seq(Messages)
      /\ Len(reliable_mail') = Len(reliable_mail) + 1
      /\ reliable_mail'[Len(reliable_mail')] = m
      /\ Unread' = Unread \cup {Len(reliable_mail')}
  BY <1>1, <1>2, UnreadAppended
<1>4. Unread \subseteq 1..Len(reliable_mail) /\ Len(reliable_mail) \in Nat
  BY <1>2 DEF Unread
<1>5. \A i \in Unread' : (\A j \in Unread' : j <= i) => i = Len(reliable_mail')
  BY <1>3, <1>4
<1> QED
  BY <1>1, <1>2, <1>3, <1>5 DEF OrderOK, UnreliableRobotInverts

\* Other mail for pReliable leaves the orders as they are.
LEMMA AppendKeepsOrder ==
  ASSUME OrderOK, NEW m \in Messages, ~(m[1] = "ACTION" /\ m[3] # "pReliable"),
         reliable_mail' = Append(reliable_mail, m),
         UNCHANGED << ordered, action, action_state, reliable_state >>
  PROVE  OrderOK'
<1>1. /\ reliable_mail' \in Seq(Messages)
      /\ \A i \in 1..Len(reliable_mail) : reliable_mail'[i] = reliable_mail[i]
      /\ Unread' = Unread
  BY UnreadAppended DEF OrderOK
<1>2. \A i \in Unread : reliable_mail'[i] = reliable_mail[i]
  BY <1>1 DEF Unread
<1> QED
  BY <1>1, <1>2 DEF OrderOK, UnreliableRobotInverts

\* Without its first message the mail holds the other orders, one place nearer.
LEMMA UnreadShifted ==
  ASSUME reliable_mail \in Seq(Messages), reliable_mail # << >>,
         NEW own \in Messages, own[3] = "pReliable",
         \/ reliable_mail' = Tail(reliable_mail)
         \/ reliable_mail' = Append(Tail(reliable_mail), own)
  PROVE  /\ reliable_mail' \in Seq(Messages)
         /\ \A i \in Unread' : i + 1 \in Unread /\ reliable_mail'[i] = reliable_mail[i + 1]
         /\ \A i \in Unread : i = 1 \/ i - 1 \in Unread'
<1> DEFINE s == Tail(reliable_mail)
<1>1. /\ s \in Seq(Messages)
      /\ Len(s) = Len(reliable_mail) - 1 /\ Len(s) \in Nat
      /\ \A i \in 1..Len(s) : s[i] = reliable_mail[i + 1]
  OBVIOUS
<1>2. CASE reliable_mail' = s
  BY <1>1, <1>2 DEF Unread
<1>3. CASE reliable_mail' = Append(s, own)
  <2> HIDE DEF s
  <2>1. /\ reliable_mail' \in Seq(Messages)
        /\ Len(reliable_mail') = Len(s) + 1
        /\ \A i \in 1..Len(s) : reliable_mail'[i] = s[i]
        /\ reliable_mail'[Len(s) + 1] = own
    BY <1>1, <1>3
  <2>2. Unread' \subseteq 1..Len(s)
    BY <1>1, <2>1 DEF Unread
  <2>3. ASSUME NEW i \in Unread'
        PROVE  i + 1 \in Unread /\ reliable_mail'[i] = reliable_mail[i + 1]
    <3>1. i \in 1..Len(s) /\ reliable_mail'[i] = reliable_mail[i + 1]
      BY <1>1, <2>1, <2>2
    <3> QED
      BY <1>1, <3>1 DEF Unread
  <2>4. ASSUME NEW i \in Unread, i # 1
        PROVE  i - 1 \in Unread'
    <3>1. PICK k \in 1..Len(s) : k + 1 = i
      BY <1>1, <2>4 DEF Unread
    <3>2. reliable_mail'[k] = reliable_mail[i]
      BY <1>1, <2>1, <3>1
    <3>3. k \in Unread'
      BY <1>1, <2>1, <3>1, <3>2 DEF Unread
    <3> QED
      BY <1>1, <3>1, <3>3
  <2> QED
    BY <2>1, <2>3, <2>4
<1> QED
  BY <1>2, <1>3

\* The opposites are actions.
LEMMA OppositesAreActions ==
  ASSUME NEW a \in DOMAIN Rel!Opposite
  PROVE  Rel!Opposite[a] \in Actions
BY DEF Rel!Opposite, Actions

\* What pReliable does with a message keeps its answers up to date.
LEMMA ReadKeepsOrder ==
  ASSUME OrderOK, ReliableReads
  PROVE  OrderOK'
<1> DEFINE h == Head(reliable_mail)
           own == << "ACTION", action', "pReliable" >>
           answers == Rel!Interrupts(h[1], h[2], h[3]) /\ action_state' \in DOMAIN Rel!Opposite
<1>1. /\ reliable_mail \in Seq(Messages) /\ reliable_mail # << >>
      /\ h \in Messages /\ h = reliable_mail[1]
      /\ Rel!OnNewMail(h[1], h[2], h[3])
      /\ UNCHANGED ordered
  BY DEF OrderOK, ReliableReads
<1>2. \/ /\ answers
         /\ action' = Rel!Opposite[action_state']
         /\ reliable_mail' = Append(Tail(reliable_mail), own)
      \/ /\ ~answers
         /\ UNCHANGED action
         /\ reliable_mail' = Tail(reliable_mail)
  BY DEF ReliableReads
<1>3. /\ reliable_mail' \in Seq(Messages)
      /\ \A i \in Unread' : i + 1 \in Unread /\ reliable_mail'[i] = reliable_mail[i + 1]
      /\ \A i \in Unread : i = 1 \/ i - 1 \in Unread'
  <2>1. CASE answers
    <3>1. own \in Messages /\ own[3] = "pReliable"
      BY <1>2, <2>1, OppositesAreActions DEF Messages, Sources
    <3> HIDE DEF own
    <3> QED
      BY <1>1, <1>2, <2>1, <3>1, UnreadShifted
  <2>2. CASE ~answers
    <3>1. PICK other \in Messages : other[3] = "pReliable"
      <4>1. << "ACTION", "DEFEND", "pReliable" >> \in Messages
        BY DEF Messages, Sources, Actions
      <4> QED
        BY <4>1
    <3> QED
      BY <1>1, <1>2, <2>2, <3>1, UnreadShifted
  <2> QED
    BY <2>1, <2>2
<1> HIDE DEF own
<1>4. ASSUME NEW i \in Unread', \A j \in Unread' : j <= i
      PROVE  reliable_mail'[i][2] = ordered'
  <2>1. i + 1 \in Unread /\ reliable_mail'[i] = reliable_mail[i + 1]
    BY <1>3
  <2>2. Unread \subseteq Nat /\ Unread' \subseteq Nat /\ \A j \in Unread' : j >= 1
    BY <1>1, <1>3 DEF Unread
  <2>3. \A j \in Unread : j <= i + 1
    BY <1>3, <1>4, <2>2
  <2> QED
    BY <1>1, <2>1, <2>3 DEF OrderOK
<1>5. (1 \in Unread) <=> (h[1] = "ACTION" /\ h[3] # "pReliable")
  BY <1>1 DEF Unread
<1>6. h[1] \in {"ACTION", "RELIABLE"}
  BY <1>1 DEF Messages
<1>7. ASSUME Unread' = {} PROVE action_state' = ordered'
  <2>1. Unread \subseteq {1}
    BY <1>3, <1>7
  <2>2. CASE 1 \in Unread
    <3>1. reliable_mail[1][2] = ordered
      BY <2>1, <2>2 DEF OrderOK
    <3> QED
      BY <1>1, <1>5, <2>2, <3>1 DEF Rel!OnNewMail, Rel!Foreign
  <2>3. CASE 1 \notin Unread
    <3>1. action_state = ordered
      BY <2>1, <2>3 DEF OrderOK
    <3> QED
      BY <1>1, <1>5, <2>3, <3>1 DEF Rel!OnNewMail, Rel!Foreign
  <2> QED
    BY <2>2, <2>3
<1>8. ASSUME reliable_state' = "FALSE", Unread' = {}, ordered' \in DOMAIN Rel!Opposite
      PROVE  action' = Rel!Opposite[ordered']
  <2>1. action_state' = ordered'
    BY <1>7, <1>8
  <2>2. CASE answers
    BY <1>2, <2>1, <2>2
  <2>3. CASE ~answers
    <3>1. ~Rel!Interrupts(h[1], h[2], h[3])
      BY <1>8, <2>1, <2>3
    <3>2. ordered' # Nothing
      BY <1>8, NothingAssumption
    <3>3. h[1] = "ACTION" /\ h[3] = "pReliable" /\ reliable_state = "FALSE"
      BY <1>1, <1>6, <1>8, <2>1, <3>1, <3>2
         DEF Rel!Interrupts, Rel!OnNewMail, Rel!Foreign
    <3>4. Unread = {}
      BY <1>3, <1>5, <1>8, <3>3
    <3> QED
      BY <1>1, <1>2, <1>8, <2>3, <3>3, <3>4 DEF OrderOK, UnreliableRobotInverts
  <2> QED
    BY <2>2, <2>3
<1> QED
  BY <1>3, <1>4, <1>7, <1>8 DEF OrderOK, UnreliableRobotInverts

\* No step disturbs the orders.
LEMMA OrderStep == DialogOK /\ OrderOK /\ [CommandNext]_command_vars => OrderOK'
<1> SUFFICES ASSUME DialogOK, OrderOK, [CommandNext]_command_vars PROVE OrderOK'
  OBVIOUS
<1>1. CASE RadioDelivers
  <2>1. Head(posts) \in Sentences
    BY <1>1 DEF DialogOK, RadioDelivers, RadioTakes
  <2>2. ActionOf[Head(posts)] \in Actions
    BY <2>1 DEF Actions
  <2>3. Order(ActionOf[Head(posts)], "uFldMessageHandler")
    BY <1>1 DEF RadioDelivers
  <2>4. UNCHANGED << action_state, reliable_state >>
    BY <1>1 DEF RadioDelivers, reliable_vars
  <2> QED
    BY <2>2, <2>3, <2>4, OrderKeepsOrder DEF Sources
<1>2. CASE AuthorityReads
  <2>1. CASE Order("DEFEND", "pAuthority")
    BY <1>2, <2>1, OrderKeepsOrder DEF Sources, Actions
  <2>2. CASE UNCHANGED order_vars
    BY <1>2, <2>2 DEF AuthorityReads, reliable_vars, order_vars, OrderOK,
                     UnreliableRobotInverts, Unread
  <2> QED
    BY <1>2, <2>1, <2>2 DEF AuthorityReads
<1>3. ASSUME NEW value \in {"TRUE", "FALSE"}, ShoreSetsReliable(value) PROVE OrderOK'
  <2>1. << "RELIABLE", value, "pShare" >> \in Messages
    BY DEF Messages, Sources
  <2> QED
    BY <1>3, <2>1, AppendKeepsOrder DEF ShoreSetsReliable, reliable_vars
<1>4. CASE ReliableReads
  BY <1>4, ReadKeepsOrder
<1>5. ASSUME UNCHANGED << reliable_vars, order_vars >> PROVE OrderOK'
  BY <1>5 DEF reliable_vars, order_vars, OrderOK, UnreliableRobotInverts, Unread
<1> QED
  BY <1>1, <1>2, <1>3, <1>4, <1>5 DEF CommandNext, command_vars, Speak, RadioLoses,
     OpponentReports, TrackerIterates, ShoreTellsAuthority

\* The helm's own ACTION is the first order.
LEMMA OrderStarts == CommandInit => OrderOK
BY DEF CommandInit, Rel!ReliableInit, OrderOK, Messages, Actions, Sources, Unread,
    UnreliableRobotInverts

\* An unreliable robot does the opposite of the last order that pReliable has read,
\* whoever gives orders, and however the mail of the applications interleaves.
THEOREM UnreliableInverts == CommandSpec => []UnreliableRobotInverts
<1>1. OrderOK => UnreliableRobotInverts
  BY DEF OrderOK
<1> QED
  BY <1>1, OrderStarts, OrderStep, DialogStays, PTL DEF CommandSpec
===============================================================================
