------------------------------ MODULE M200Proofs ------------------------------
(***************************************************************************)
(* What iM200 keeps true of the motors for any commands, limits and times.  *)
(***************************************************************************)
EXTENDS M200, TLAPS

\* Before a command of the present mode has come its commands are zero.
UnheardIsZero == ~heard => \A k \in Heeded : des[k] = 0

-------------------------------------------------------------------------------
(***************************************************************************)
(* The way from thrust and rudder to the motors.                            *)
(***************************************************************************)

\* Clamp, which the driver uses on every command, keeps to its range.
LEMMA ClampRange ==
  ASSUME NEW x \in Int, NEW m \in Nat
  PROVE  Clamp(x, m) \in -m..m
BY DEF Clamp

\* The excess over the range of the motors is a number.
LEMMA ExcessType ==
  ASSUME NEW x \in Int, NEW m \in Nat
  PROVE  Excess(x, m) \in Int
BY DEF Excess

\* The two motor values of Spread are within the range m.
LEMMA SpreadRange ==
  ASSUME NEW a \in Int, NEW b \in Int, NEW m \in Nat
  PROVE  Spread(a, b, m) \in [L : -m..m, R : -m..m]
<1> DEFINE right == b - Excess(a, m)
<1> DEFINE left == a - Excess(right, m)
<1>1. right \in Int
  BY ExcessType
<1>2. left \in Int
  BY ExcessType, <1>1
<1>3. Clamp(left, m) \in -m..m /\ Clamp(right, m) \in -m..m
  BY ClampRange, <1>1, <1>2
<1> QED
  BY <1>3 DEF Spread

\* Moving the excess of one motor to the other keeps the difference of the two, up
\* to the sharpest turn there is, provided their mean is in range.
LEMMA SpreadKeepsTurn ==
  ASSUME NEW a \in Int, NEW b \in Int, NEW m \in Nat,
         -(2 * m) <= a + b, a + b <= 2 * m
  PROVE  Spread(a, b, m).L - Spread(a, b, m).R = Clamp(a - b, 2 * m)
BY SMTT(60) DEF Spread, Excess, Clamp

\* The configured maximum in motor units is a natural number.
LEMMA CapType == Cap \in Nat
BY LimitsAssumption DEF Cap

\* A thrust within the scale stays within the cap when it is mapped to the motors.
LEMMA Mapped ==
  ASSUME NEW t \in -Scale..Scale
  PROVE  t * MaxThrust \in Int /\ -Cap <= t * MaxThrust /\ t * MaxThrust <= Cap
<1>1. Scale \in Nat /\ MaxThrust \in Nat /\ t \in Int
  BY LimitsAssumption
<1>2. (Scale - t) * MaxThrust >= 0 /\ (Scale + t) * MaxThrust >= 0
  BY <1>1
<1>3. /\ (Scale - t) * MaxThrust = Scale * MaxThrust - t * MaxThrust
      /\ (Scale + t) * MaxThrust = Scale * MaxThrust + t * MaxThrust
  BY <1>1
<1> QED
  BY <1>1, <1>2, <1>3 DEF Cap

\* What ThrustRudderToLR computes is within the cap and has the turn asked for.
LEMMA ThrustRudderKeepsTurn ==
  ASSUME NEW thrust \in Int, NEW rudder \in Int
  PROVE  LET lr == ThrustRudderToLR(thrust, rudder)
         IN  /\ lr \in [L : -Cap..Cap, R : -Cap..Cap]
             /\ lr.L - lr.R = Clamp(2 * Clamp(rudder, MaxRudder) * MaxThrust, 2 * Cap)
<1> DEFINE t == Clamp(thrust, Scale)
<1> DEFINE r == Clamp(rudder, MaxRudder)
<1> DEFINE a == (t + r) * MaxThrust
<1> DEFINE b == (t - r) * MaxThrust
<1>1. t \in -Scale..Scale /\ r \in -MaxRudder..MaxRudder
  BY ClampRange, LimitsAssumption
<1>2. /\ t \in Int /\ r \in Int /\ MaxThrust \in Nat /\ a \in Int /\ b \in Int
      /\ t * MaxThrust \in Int
  BY <1>1, LimitsAssumption
<1>3. a + b = 2 * (t * MaxThrust) /\ a - b = 2 * r * MaxThrust
  <2> HIDE DEF t, r
  <2> QED BY <1>2
<1>4. -Cap <= t * MaxThrust /\ t * MaxThrust <= Cap
  BY <1>1, Mapped
<1>5. -(2 * Cap) <= a + b /\ a + b <= 2 * Cap
  <2> HIDE DEF a, b
  <2> DEFINE tm == t * MaxThrust
  <2>1. tm \in Int /\ a + b = 2 * tm /\ -Cap <= tm /\ tm <= Cap
    BY <1>2, <1>3, <1>4
  <2> HIDE DEF tm
  <2> QED BY <2>1, CapType
<1>6. ThrustRudderToLR(thrust, rudder) = Spread(a, b, Cap)
  BY DEF ThrustRudderToLR
<1> HIDE DEF a, b
<1>7. Spread(a, b, Cap) \in [L : -Cap..Cap, R : -Cap..Cap]
  BY <1>2, CapType, SpreadRange
<1>8. Spread(a, b, Cap).L - Spread(a, b, Cap).R = Clamp(a - b, 2 * Cap)
  BY <1>2, <1>5, CapType, SpreadKeepsTurn
<1> QED
  BY <1>3, <1>6, <1>7, <1>8

\* No thrust and no rudder is a stop.
LEMMA NothingIsStopped == ThrustRudderToLR(0, 0) = Stopped
<1>1. Clamp(0, Scale) = 0 /\ Clamp(0, MaxRudder) = 0
  BY LimitsAssumption DEF Clamp
<1>2. (0 + 0) * MaxThrust = 0 /\ (0 - 0) * MaxThrust = 0
  BY LimitsAssumption
<1>3. Excess(0, Cap) = 0 /\ Clamp(0, Cap) = 0 /\ 0 - 0 = 0
  BY CapType DEF Excess, Clamp
<1>4. Spread(0, 0, Cap) = Stopped
  BY <1>3 DEF Spread, Stopped
<1> QED
  BY <1>1, <1>2, <1>4 DEF ThrustRudderToLR

-------------------------------------------------------------------------------
(***************************************************************************)
(* Types.                                                                   *)
(***************************************************************************)

\* Motor values are numbers.
LEMMA MotorsAreInts == Motors \subseteq Int
<1>1. \A x \in Commands["L"] \cup Commands["R"] : x * Scale \in Int
  BY CommandsAssumption, LimitsAssumption DEF Keys
<1> QED
  BY <1>1, CapType DEF Motors

\* The commands that a message leaves are typed.
LEMMA HeededOnlyType ==
  ASSUME TypeOK
  PROVE  /\ HeededOnly \in [Keys -> Int]
         /\ HeededOnly["thrust"] \in Commands["thrust"] \cup {0}
         /\ HeededOnly["rudder"] \in Commands["rudder"] \cup {0}
         /\ HeededOnly["L"] \in Motors
         /\ HeededOnly["R"] \in Motors
<1>1. 0 \in Motors
  BY CapType DEF Motors
<1> QED
  BY <1>1 DEF TypeOK, HeededOnly, Keys

\* The commands that the stale check leaves are typed.
LEMMA FreshType ==
  ASSUME TypeOK
  PROVE  /\ Fresh \in [Keys -> Int]
         /\ Fresh["thrust"] \in Commands["thrust"] \cup {0}
         /\ Fresh["rudder"] \in Commands["rudder"] \cup {0}
         /\ Fresh["L"] \in Motors
         /\ Fresh["R"] \in Motors
<1>1. 0 \in Motors
  BY CapType DEF Motors
<1> QED
  BY <1>1 DEF TypeOK, Fresh, Keys

\* A command of the helm is typed in the unit it is kept in.
LEMMA CommandType ==
  ASSUME NEW k \in Keys, NEW x \in Commands[k]
  PROVE  /\ x * Unit(k) \in Int
         /\ k \in {"thrust", "rudder"} => x * Unit(k) = x
         /\ k \in {"L", "R"} => x * Unit(k) \in Motors
<1>1. x \in Int
  BY CommandsAssumption
<1>2. CASE k \in {"thrust", "rudder"}
  <2>1. Unit(k) = 1 /\ k \notin {"L", "R"}
    BY <1>2 DEF Unit
  <2> QED BY <1>1, <2>1
<1>3. CASE k \in {"L", "R"}
  <2>1. Unit(k) = Scale /\ k \notin {"thrust", "rudder"}
    BY <1>3 DEF Unit
  <2>2. x * Scale \in Int
    BY <1>1, LimitsAssumption
  <2>3. x * Scale \in Motors
    BY <1>3 DEF Motors
  <2> QED BY <2>1, <2>2, <2>3
<1> QED
  BY <1>2, <1>3 DEF Keys

\* Every state of iM200 is well typed: in particular no motor value computed from
\* thrust and rudder is beyond m_dMaxThrust.
THEOREM TypeCorrect == Spec => []TypeOK
<1>1. Init => TypeOK
  <2>1. 0 \in Motors
    BY CapType DEF Motors
  <2>2. SUFFICES ASSUME Init PROVE TypeOK
    OBVIOUS
  <2>3. gap \in [Keys -> -Grace..Threshold + 1]
    <3>1. Threshold + 1 \in -Grace..Threshold + 1 /\ -Grace \in -Grace..Threshold + 1
      BY TimesAssumption
    <3> QED BY <2>2, <3>1 DEF Init
  <2>4. front \in [L : Motors, R : Motors]
    BY <2>1, <2>2 DEF Init, Stopped
  <2>5. des \in [Keys -> Int] /\ \A k \in Keys : des[k] = 0
    BY <2>2 DEF Init
  <2> QED
    BY <2>1, <2>2, <2>3, <2>4, <2>5 DEF Init, TypeOK, Keys
<1>2. TypeOK /\ [Next]_vars => TypeOK'
  <2> SUFFICES ASSUME TypeOK, [Next]_vars PROVE TypeOK'
    OBVIOUS
  <2> USE DEF TypeOK
  <2>1. CASE Mail
    <3>1. ASSUME NEW b \in BOOLEAN, AllStop(b) PROVE TypeOK'
      BY <3>1, HeededOnlyType DEF AllStop, Motors, Cap
    <3>2. ASSUME NEW b \in BOOLEAN, ThrustModeDifferential(b) PROVE TypeOK'
      <4>1. (heard /\ b = direct) \in BOOLEAN
        OBVIOUS
      <4> QED
        BY <3>2, <4>1, HeededOnlyType DEF ThrustModeDifferential, Motors, Cap
    <3>3. ASSUME NEW k \in Keys, NEW x \in Commands[k], Desired(k, x) PROVE TypeOK'
      <4>1. /\ UNCHANGED << allstop, direct, stale_mode, conn, front, pass >>
            /\ heard' \in BOOLEAN /\ ok_stale' \in BOOLEAN
        <5>1. (ok_stale \/ x > 0) \in BOOLEAN
          OBVIOUS
        <5> QED BY <3>3, <5>1 DEF Desired
      <4>2. gap' \in [Keys -> -Grace..Threshold + 1]
        <5>1. 0 \in -Grace..Threshold + 1
          BY TimesAssumption
        <5> QED BY <3>3, <5>1 DEF Desired
      <4>3. /\ des' \in [Keys -> Int]
            /\ des'["thrust"] \in Commands["thrust"] \cup {0}
            /\ des'["rudder"] \in Commands["rudder"] \cup {0}
            /\ des'["L"] \in Motors
            /\ des'["R"] \in Motors
        <5> DEFINE y == x * Unit(k)
        <5>1. des' = HeededOnly \/ des' = [HeededOnly EXCEPT ![k] = y]
          BY <3>3 DEF Desired
        <5>2. /\ y \in Int
              /\ k \in {"thrust", "rudder"} => y \in Commands[k]
              /\ k \in {"L", "R"} => y \in Motors
          BY CommandType
        <5> HIDE DEF y
        <5> QED BY <5>1, <5>2, HeededOnlyType DEF Keys
      <4> QED BY <4>1, <4>2, <4>3 DEF Motors, Cap
    <3> QED
      BY <2>1, <3>1, <3>2, <3>3 DEF Mail
  <2>2. CASE SendCommands
    <3>1. Sent \in [L : Motors, R : Motors]
      <4>1. CASE direct
        BY <4>1, FreshType DEF Sent
      <4>2. CASE ~direct
        <5>1. Fresh["thrust"] \in Int /\ Fresh["rudder"] \in Int
          BY FreshType DEF Keys
        <5>2. Sent \in [L : -Cap..Cap, R : -Cap..Cap]
          BY <4>2, <5>1, ThrustRudderKeepsTurn DEF Sent
        <5> QED BY <5>2 DEF Motors
      <4> QED BY <4>1, <4>2
    <3>2. Sent.L \in Int /\ Sent.R \in Int
      BY <3>1, MotorsAreInts
    <3>3. /\ front' = front \/ front' = Sent
          /\ des' = Fresh \/ des' = [Fresh EXCEPT !["L"] = Sent.L, !["R"] = Sent.R]
          /\ pass' = "receive"
          /\ UNCHANGED << allstop, direct, ok_stale, gap, conn, heard >>
      BY <2>2 DEF SendCommands
    <3>4. stale_mode' \in BOOLEAN
      BY <2>2 DEF SendCommands, StaleInput
    <3>5. /\ des' \in [Keys -> Int]
          /\ des'["thrust"] \in Commands["thrust"] \cup {0}
          /\ des'["rudder"] \in Commands["rudder"] \cup {0}
          /\ des'["L"] \in Motors
          /\ des'["R"] \in Motors
      BY <3>1, <3>2, <3>3, FreshType DEF Keys
    <3> QED
      BY <3>1, <3>3, <3>4, <3>5 DEF Motors, Cap
  <2>3. CASE Receive
    BY <2>3 DEF Receive, Motors, Cap
  <2>4. CASE Disconnect
    BY <2>4 DEF Disconnect, Motors, Cap
  <2>5. CASE Tick
    <3>1. gap' \in [Keys -> -Grace..Threshold + 1]
      BY <2>5, TimesAssumption DEF Tick
    <3> QED BY <2>5, <3>1 DEF Tick, Motors, Cap
  <2>6. CASE UNCHANGED vars
    BY <2>6 DEF vars, Motors, Cap
  <2> QED
    BY <2>1, <2>2, <2>3, <2>4, <2>5, <2>6 DEF Next
<1> QED
  BY <1>1, <1>2, PTL DEF Spec

-------------------------------------------------------------------------------
(***************************************************************************)
(* The motors stop.                                                         *)
(***************************************************************************)

\* What the driver sends in an Iterate.
LEMMA SentInStale ==
  ASSUME TypeOK, SendCommands, StaleInput, conn = "open"
  PROVE  front' = Stopped
<1>1. Fresh = [k \in Keys |-> 0]
  BY DEF Fresh
<1>2. Fresh["thrust"] = 0 /\ Fresh["rudder"] = 0 /\ Fresh["L"] = 0 /\ Fresh["R"] = 0
  BY <1>1 DEF Keys
<1>3. CASE direct
  BY <1>2, <1>3 DEF SendCommands, Sent, Stopped
<1>4. CASE ~direct
  BY <1>2, <1>4, NothingIsStopped DEF SendCommands, Sent
<1> QED
  BY <1>3, <1>4

\* When the report says that stale mode has stopped the motors the front seat has
\* been told so, or the connection is lost.
THEOREM StaleMotorsStop == Spec => []StaleModeStopsMotors
<1>1. Init => StaleModeStopsMotors
  BY DEF Init, StaleModeStopsMotors
<1>2. TypeOK /\ StaleModeStopsMotors /\ [Next]_vars => StaleModeStopsMotors'
  <2> SUFFICES ASSUME TypeOK, StaleModeStopsMotors, [Next]_vars,
                      stale_mode', conn' = "open"
               PROVE  front' = Stopped
    BY DEF StaleModeStopsMotors
  <2>1. CASE SendCommands
    <3>1. StaleInput /\ conn = "open"
      BY <2>1 DEF SendCommands
    <3> QED BY <2>1, <3>1, SentInStale
  <2>2. CASE ~SendCommands
    <3>1. stale_mode' = stale_mode /\ front' = front /\ (conn' = conn \/ conn' = "lost")
      BY <2>2 DEF Next, Mail, AllStop, ThrustModeDifferential, Desired, Receive,
                  Disconnect, Tick, vars
    <3> QED BY <3>1 DEF StaleModeStopsMotors
  <2> QED
    BY <2>1, <2>2
<1> QED
  BY <1>1, <1>2, TypeCorrect, PTL DEF Spec

\* Until a command of the present mode has come its commands are zero: the message
\* that changes the mode clears those of the mode it changes to.
LEMMA UnheardStaysZero == Spec => []UnheardIsZero
<1>1. Init => UnheardIsZero
  BY DEF Init, UnheardIsZero, Heeded, Keys
<1>2. TypeOK /\ UnheardIsZero /\ [Next]_vars => UnheardIsZero'
  <2> SUFFICES ASSUME TypeOK, UnheardIsZero, [Next]_vars, ~heard',
                      NEW k \in Heeded'
               PROVE  des'[k] = 0
    BY DEF UnheardIsZero
  <2>1. k \in Keys
    BY DEF Heeded, Keys
  <2>2. CASE Mail
    <3>1. ASSUME NEW b \in BOOLEAN, AllStop(b) PROVE des'[k] = 0
      BY <2>1, <3>1 DEF AllStop, HeededOnly, UnheardIsZero, Heeded
    <3>2. ASSUME NEW b \in BOOLEAN, ThrustModeDifferential(b) PROVE des'[k] = 0
      <4>1. CASE b = direct
        BY <2>1, <3>2, <4>1 DEF ThrustModeDifferential, HeededOnly, UnheardIsZero, Heeded
      <4>2. CASE b # direct
        <5>1. k \notin Heeded
          BY <3>2, <4>2 DEF ThrustModeDifferential, Heeded, TypeOK
        <5> QED BY <2>1, <3>2, <5>1 DEF ThrustModeDifferential, HeededOnly
      <4> QED BY <4>1, <4>2
    <3>3. ASSUME NEW j \in Keys, NEW x \in Commands[j], Desired(j, x) PROVE des'[k] = 0
      BY <2>1, <3>3 DEF Desired, HeededOnly, UnheardIsZero, Heeded
    <3> QED BY <2>2, <3>1, <3>2, <3>3 DEF Mail
  <2>3. CASE SendCommands
    <3>1. k \in Heeded /\ ~heard
      BY <2>3 DEF SendCommands, Heeded
    <3>2. Fresh[k] = 0
      BY <2>1, <3>1 DEF Fresh, UnheardIsZero
    <3>3. Fresh \in [Keys -> Int]
      BY FreshType
    <3>4. CASE direct
      <4>1. Sent.L = Fresh["L"] /\ Sent.R = Fresh["R"]
        BY <3>4 DEF Sent
      <4> QED BY <4>1, <2>1, <2>3, <3>1, <3>2, <3>3, <3>4 DEF SendCommands, Heeded, Keys
    <3>5. CASE ~direct
      BY <2>1, <2>3, <3>1, <3>2, <3>3, <3>5 DEF SendCommands, Heeded, Keys
    <3> QED BY <3>4, <3>5
  <2>4. CASE Receive \/ Disconnect \/ Tick \/ UNCHANGED vars
    BY <2>4 DEF Receive, Disconnect, Tick, vars, UnheardIsZero, Heeded
  <2> QED
    BY <2>2, <2>3, <2>4 DEF Next
<1> QED
  BY <1>1, <1>2, TypeCorrect, PTL DEF Spec

\* A change of the thrust mode stops the motors until the new mode is commanded.
THEOREM SwitchIsSafe == Spec => SwitchStopsMotors
<1>1. TypeOK /\ UnheardIsZero /\ [Next]_vars
        => (pass = "idle" /\ pass' = "receive" /\ conn = "open" /\ ~heard
              => front' = Stopped)
  <2> SUFFICES ASSUME TypeOK, UnheardIsZero, [Next]_vars, pass = "idle",
                      pass' = "receive", conn = "open", ~heard
               PROVE  front' = Stopped
    OBVIOUS
  <2>1. SendCommands
    BY DEF Next, Mail, AllStop, ThrustModeDifferential, Desired, Receive,
           Disconnect, Tick, vars
  <2>2. CASE direct
    <3>1. Fresh["L"] = 0 /\ Fresh["R"] = 0
      BY <2>2 DEF Fresh, UnheardIsZero, Heeded, Keys
    <3> QED BY <2>1, <2>2, <3>1 DEF SendCommands, Sent, Stopped
  <2>3. CASE ~direct
    <3>1. Fresh["thrust"] = 0 /\ Fresh["rudder"] = 0
      BY <2>3 DEF Fresh, UnheardIsZero, Heeded, Keys
    <3> QED BY <2>1, <2>3, <3>1, NothingIsStopped DEF SendCommands, Sent
  <2> QED
    BY <2>2, <2>3
<1> QED
  BY <1>1, TypeCorrect, UnheardStaysZero, PTL DEF Spec, SwitchStopsMotors

\* In rudder-thrust mode the motors always differ by the turn asked for, as far as
\* the motors can.
THEOREM TurnHasPrecedence == Spec => TurnIsKept
<1>1. TypeOK /\ [Next]_vars
        => (pass = "idle" /\ pass' = "receive" /\ conn = "open" /\ ~direct
              => front'.L - front'.R
                   = Clamp(2 * Clamp(des'["rudder"], MaxRudder) * MaxThrust, 2 * Cap))
  <2> SUFFICES ASSUME TypeOK, [Next]_vars, pass = "idle", pass' = "receive",
                      conn = "open", ~direct
               PROVE  front'.L - front'.R
                        = Clamp(2 * Clamp(des'["rudder"], MaxRudder) * MaxThrust, 2 * Cap)
    OBVIOUS
  <2>1. SendCommands
    BY DEF Next, Mail, AllStop, ThrustModeDifferential, Desired, Receive,
           Disconnect, Tick, vars
  <2>2. front' = Sent /\ des' = [Fresh EXCEPT !["L"] = Sent.L, !["R"] = Sent.R]
    BY <2>1 DEF SendCommands
  <2>3. Fresh \in [Keys -> Int] /\ Fresh["thrust"] \in Int /\ Fresh["rudder"] \in Int
    BY FreshType DEF Keys
  <2>4. Sent.L - Sent.R = Clamp(2 * Clamp(Fresh["rudder"], MaxRudder) * MaxThrust, 2 * Cap)
    BY <2>3, ThrustRudderKeepsTurn DEF Sent
  <2>5. des'["rudder"] = Fresh["rudder"]
    BY <2>2, <2>3 DEF Keys
  <2> QED
    BY <2>2, <2>4, <2>5
<1> QED
  BY <1>1, TypeCorrect, PTL DEF Spec, TurnIsKept

-------------------------------------------------------------------------------
(***************************************************************************)
(* Silence.  The fairness of FairSpec with ENABLED worked out, and what it  *)
(* says of time: the age of a command grows beyond every threshold.         *)
(***************************************************************************)

\* Iterates go on, and the front seat goes on talking, which ends recv().
DriverGoesOn ==
  /\ []<><<SendCommands>>_vars \/ []<>(pass # "idle")
  /\ []<><<Receive>>_vars \/ []<>(pass # "receive")

\* A command that nothing replaces gets older than stale_threshold.
CommandsGrowOld ==
  <>[][~Mail]_vars => []<>(gap["thrust"] > Threshold) /\ []<>(gap["L"] > Threshold)

\* The motors are stopped where the stale check is in force.
Silenced == ok_stale /\ ~allstop /\ conn = "open" => front = Stopped

\* A command in force is old.
Outdated == \E k \in Heeded : gap[k] > Threshold

\* With an old command in force an Iterate stops the motors.
LEMMA SendSilences ==
  ASSUME TypeOK, Outdated, SendCommands
  PROVE  Silenced'
<1>1. CASE ok_stale /\ ~allstop /\ conn = "open"
  BY <1>1, SentInStale DEF StaleInput, Outdated, Silenced
<1>2. CASE ~(ok_stale /\ ~allstop /\ conn = "open")
  BY <1>2 DEF SendCommands, Silenced
<1> QED
  BY <1>1, <1>2

\* Without mail an old command stays in force, and stopped motors stay so.
LEMMA SilenceLasts ==
  ASSUME TypeOK, [Next]_vars, [~Mail]_vars
  PROVE  /\ \A k \in Keys : gap[k] > Threshold => gap'[k] > Threshold
         /\ UNCHANGED direct
         /\ Outdated /\ Silenced => Silenced'
<1>1. CASE SendCommands
  BY <1>1, SendSilences DEF SendCommands
<1>2. CASE Receive
  BY <1>2 DEF Receive, Silenced
<1>3. CASE Disconnect
  BY <1>3 DEF Disconnect, Silenced
<1>4. CASE Tick
  BY <1>4 DEF Tick, Silenced
<1>5. CASE UNCHANGED vars
  BY <1>5 DEF vars, Silenced
<1> QED
  BY <1>1, <1>2, <1>3, <1>4, <1>5 DEF Next

\* The driver waits until it sends or receives.
LEMMA DriverWaits ==
  ASSUME TypeOK, [Next]_vars
  PROVE  /\ pass \in {"idle", "receive"}
         /\ pass = "idle" => pass' = "idle" \/ <<SendCommands>>_vars
         /\ pass = "receive" => pass' = "receive" \/ <<Receive>>_vars
         /\ <<SendCommands>>_vars => pass' = "receive"
         /\ <<Receive>>_vars => pass' = "idle"
<1>1. CASE SendCommands
  BY <1>1 DEF SendCommands, TypeOK, vars, Receive
<1>2. CASE Receive
  BY <1>2 DEF Receive, TypeOK, vars, SendCommands
<1>3. CASE (Mail \/ Disconnect \/ Tick \/ UNCHANGED vars) /\ ~SendCommands /\ ~Receive
  <2>1. UNCHANGED pass
    BY <1>3 DEF Mail, AllStop, Desired, ThrustModeDifferential, Disconnect, Tick, vars
  <2> QED
    BY <1>3, <2>1 DEF TypeOK
<1> QED
  BY <1>1, <1>2, <1>3 DEF Next

(***************************************************************************)
(* When the helm falls silent the motors stop for good: whatever it said    *)
(* last and in whichever mode, and whatever values were derived from it.    *)
(***************************************************************************)
THEOREM SilenceIsNoticed == Spec /\ DriverGoesOn /\ CommandsGrowOld => SilenceStopsMotors
<1> DEFINE OldThrust == gap["thrust"] > Threshold
           OldLeft == gap["L"] > Threshold
           Idle == pass = "idle"
           Waiting == pass = "receive"
<1>1. TypeOK /\ [Next]_vars /\ [~Mail]_vars
        => /\ OldThrust => OldThrust'
           /\ OldLeft => OldLeft'
           /\ Outdated /\ Silenced => Silenced'
  BY SilenceLasts DEF Keys
<1>2. OldThrust /\ OldLeft => Outdated
  BY DEF Outdated, Heeded
<1>3. TypeOK /\ Outdated /\ <<SendCommands>>_vars => Silenced'
  BY SendSilences
<1>4. TypeOK /\ [Next]_vars
        => /\ Idle \/ Waiting
           /\ Idle => Idle' \/ <<SendCommands>>_vars
           /\ Waiting => Waiting' \/ <<Receive>>_vars
           /\ <<SendCommands>>_vars => Waiting'
           /\ <<Receive>>_vars => Idle'
           /\ ~(Idle /\ Waiting)
  BY DriverWaits
<1>0. (pass # "idle" <=> ~Idle) /\ (pass # "receive" <=> ~Waiting)
  OBVIOUS
<1>5. DriverGoesOn => /\ []<><<SendCommands>>_vars \/ []<>~Idle
                      /\ []<><<Receive>>_vars \/ []<>~Waiting
  BY <1>0, PTL DEF DriverGoesOn
<1>6. CommandsGrowOld => (<>[][~Mail]_vars => []<>OldThrust /\ []<>OldLeft)
  BY DEF CommandsGrowOld
<1> HIDE DEF OldThrust, OldLeft, Idle, Waiting
<1>7. Spec /\ DriverGoesOn /\ CommandsGrowOld => (<>[][~Mail]_vars => <>[]Silenced)
  BY <1>1, <1>2, <1>3, <1>4, <1>5, <1>6, TypeCorrect, PTL DEF Spec
<1> QED
  BY <1>7 DEF SilenceStopsMotors, Silenced
===============================================================================
