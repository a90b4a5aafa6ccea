---------------------------------- MODULE M200 ----------------------------------
(***************************************************************************)
(* iM200, the driver between the helm and the motors of a Clearpath M200.   *)
(*                                                                          *)
(* The helm commands either the motors (DESIRED_THRUST_L/_R, direct-thrust  *)
(* mode) or thrust and rudder (rudder-thrust mode), and the mode may change *)
(* at any time.  Iterate drops commands that have grown stale, turns thrust *)
(* and rudder into motor values, sends them to the front seat and then      *)
(* waits in recv() until the front seat has something to say; no mail is    *)
(* handled meanwhile.                                                       *)
(*                                                                          *)
(* Data abstraction.  Commands are integers.  Motor values are counted in   *)
(* units of 1/MAX_THRUST of a percent, which makes the scaling by           *)
(* m_dMaxThrust / MAX_THRUST exact.  Time stamps are kept as the gap to the *)
(* present, saturated one above the threshold they are compared with.       *)
(***************************************************************************)
EXTENDS Integers

Keys == {"thrust", "rudder", "L", "R"}    \* DESIRED_THRUST, _RUDDER, _THRUST_L, _R

CONSTANTS
  Commands,         \* bound: the values the helm posts, by key
  Scale,            \* MAX_THRUST, what counts as full thrust
  MaxRudder,        \* m_dMaxRudder
  MaxThrust,        \* m_dMaxThrust
  Threshold,        \* m_stale_threshold
  Grace             \* how far ahead the first thrust and rudder stamps are set

ASSUME CommandsAssumption == Commands \in [Keys -> SUBSET Int]
ASSUME LimitsAssumption == /\ Scale \in Nat
                           /\ MaxRudder \in Nat
                           /\ MaxThrust \in Nat
ASSUME TimesAssumption == Threshold \in Nat /\ Grace \in Nat

VARIABLES
  allstop,          \* m_ivpAllstop
  direct,           \* m_bDirect_thrust
  ok_stale,         \* m_bOKtoReportStale
  stale_mode,       \* m_stale_mode
  des,              \* m_des_thrust, m_des_rudder, m_des_L, m_des_R
  gap,              \* time since m_timestamp_des_*
  conn,             \* the connection to the front seat
  front,            \* the motor values that last reached the front seat
  pass,             \* "receive" while Iterate waits in recv()
  heard             \* history: a command of the present mode came since it was set

vars == << allstop, direct, ok_stale, stale_mode, des, gap, conn, front, pass, heard >>

Cap == Scale * MaxThrust                  \* m_dMaxThrust in motor units
Stopped == [L |-> 0, R |-> 0]

Unit(k) == IF k \in {"L", "R"} THEN Scale ELSE 1
Motors == -Cap..Cap \cup {x * Scale : x \in Commands["L"] \cup Commands["R"]}

-------------------------------------------------------------------------------
(***************************************************************************)
(* From thrust and rudder to the motors.                                    *)
(***************************************************************************)
Clamp(x, m) == IF x > m THEN m ELSE IF x < -m THEN -m ELSE x

\* Bug: only what is over the top is moved to the other side.
Excess_Bug(x, m) == IF x > m THEN x - m ELSE 0

\* What x goes over the range -m..m by.
Excess(x, m) == IF x > m THEN x - m ELSE IF x < -m THEN x + m ELSE 0

\* Bug: an overage of the right motor is not cut off.
Spread_Bug(a, b, m) ==
  LET right == b - Excess(a, m)
      left  == a - Excess(right, m)
  IN  [L |-> Clamp(left, m), R |-> right]

\* Step 5: what one motor has in excess is subtracted from the other, left first.
Spread(a, b, m) ==
  LET right == b - Excess(a, m)
      left  == a - Excess(right, m)
  IN  [L |-> Clamp(left, m), R |-> Clamp(right, m)]

ThrustRudderToLR(thrust, rudder) ==
  LET t == Clamp(thrust, Scale)
      r == Clamp(rudder, MaxRudder)
  IN  Spread((t + r) * MaxThrust, (t - r) * MaxThrust, Cap)

-------------------------------------------------------------------------------
Init ==
  /\ allstop = TRUE
  /\ direct \in BOOLEAN
  /\ ok_stale = FALSE
  /\ stale_mode = FALSE
  /\ des = [k \in Keys |-> 0]
  /\ gap = [k \in Keys |-> IF k \in {"L", "R"} THEN Threshold + 1 ELSE -Grace]
  /\ conn \in {"open", "lost", "invalid"}
  /\ front = Stopped
  /\ pass = "idle"
  /\ heard = FALSE

-------------------------------------------------------------------------------
(***************************************************************************)
(* Mail.  Whatever a message says, handling it forgets the commands of the  *)
(* mode the driver is not in.                                               *)
(***************************************************************************)
Heeded == IF direct THEN {"L", "R"} ELSE {"thrust", "rudder"}

\* Bug: the commands of the other mode stay.
HeededOnly_Bug == des

HeededOnly == [k \in Keys |-> IF k \in Heeded THEN des[k] ELSE 0]

AllStop(b) ==
  /\ pass = "idle"
  /\ allstop' = b
  /\ des' = HeededOnly
  /\ UNCHANGED << direct, ok_stale, stale_mode, gap, conn, front, pass, heard >>

Desired(k, x) ==
  /\ pass = "idle"
  /\ \/ /\ k \in Heeded
        /\ des' = [HeededOnly EXCEPT ![k] = x * Unit(k)]
        /\ gap' = [gap EXCEPT ![k] = 0]
        /\ ok_stale' = (ok_stale \/ x > 0)
        /\ heard' = TRUE
     \/ /\ k \notin Heeded
        /\ des' = HeededOnly
        /\ UNCHANGED << gap, ok_stale, heard >>
  /\ UNCHANGED << allstop, direct, stale_mode, conn, front, pass >>

ThrustModeDifferential(b) ==
  /\ pass = "idle"
  /\ des' = HeededOnly
  /\ direct' = b
  /\ heard' = (heard /\ b = direct)
  /\ UNCHANGED << allstop, ok_stale, stale_mode, gap, conn, front, pass >>

Mail ==
  \/ \E b \in BOOLEAN : AllStop(b) \/ ThrustModeDifferential(b)
  \/ \E k \in Keys : \E x \in Commands[k] : Desired(k, x)

-------------------------------------------------------------------------------
(***************************************************************************)
(* Iterate.                                                                 *)
(***************************************************************************)
StaleInput == ~allstop /\ ok_stale /\ \E k \in Heeded : gap[k] > Threshold

\* Bug: only the motor values are cleared.
Fresh_Bug == [k \in Keys |-> IF StaleInput /\ k \in {"L", "R"} THEN 0 ELSE des[k]]

\* The commands that StaleModeCheck leaves.
Fresh == [k \in Keys |-> IF StaleInput THEN 0 ELSE des[k]]

\* What Send writes to the front seat.
Sent == IF direct THEN [L |-> Fresh["L"], R |-> Fresh["R"]]
                  ELSE ThrustRudderToLR(Fresh["thrust"], Fresh["rudder"])

\* StaleModeCheck and Send: a failed send is reported and nothing else.
SendCommands ==
  /\ pass = "idle"
  /\ stale_mode' = StaleInput
  /\ \/ /\ conn # "invalid"
        /\ des' = [Fresh EXCEPT !["L"] = Sent.L, !["R"] = Sent.R]
        /\ front' = IF conn = "open" THEN Sent ELSE front
     \/ /\ conn = "invalid"
        /\ des' = Fresh
        /\ UNCHANGED front
  /\ pass' = "receive"
  /\ UNCHANGED << allstop, direct, ok_stale, gap, conn, heard >>

\* recv() returns: the front seat has spoken, or the socket has failed.
Receive ==
  /\ pass = "receive"
  /\ pass' = "idle"
  /\ UNCHANGED << allstop, direct, ok_stale, stale_mode, des, gap, conn, front, heard >>

\* The connection breaks; nothing ever opens it again.
Disconnect ==
  /\ conn = "open"
  /\ conn' = "lost"
  /\ UNCHANGED << allstop, direct, ok_stale, stale_mode, des, gap, front, pass, heard >>

\* Time passes, also while Iterate waits.
Tick ==
  /\ gap' = [k \in Keys |-> IF gap[k] > Threshold THEN gap[k] ELSE gap[k] + 1]
  /\ UNCHANGED << allstop, direct, ok_stale, stale_mode, des, conn, front, pass, heard >>

Next == Mail \/ SendCommands \/ Receive \/ Disconnect \/ Tick

Spec == Init /\ [][Next]_vars

\* MOOS runs Iterate at AppTick, time passes, and the front seat goes on talking.
FairSpec == Spec /\ WF_vars(SendCommands) /\ WF_vars(Receive) /\ WF_vars(Tick)

-------------------------------------------------------------------------------
(***************************************************************************)
(* Properties.                                                              *)
(***************************************************************************)

\* Every variable keeps to its type; motor values computed from thrust and rudder
\* keep within m_dMaxThrust.
TypeOK ==
  /\ allstop \in BOOLEAN
  /\ direct \in BOOLEAN
  /\ ok_stale \in BOOLEAN
  /\ stale_mode \in BOOLEAN
  /\ des \in [Keys -> Int]
  /\ des["thrust"] \in Commands["thrust"] \cup {0}
  /\ des["rudder"] \in Commands["rudder"] \cup {0}
  /\ des["L"] \in Motors
  /\ des["R"] \in Motors
  /\ gap \in [Keys -> -Grace..Threshold + 1]
  /\ conn \in {"open", "lost", "invalid"}
  /\ front \in [L : Motors, R : Motors]
  /\ pass \in {"idle", "receive"}
  /\ heard \in BOOLEAN

\* While the report says "STALE MODE ENGAGED. Motors stopped.", what the front seat
\* got last is a stop, in either mode, as long as the connection holds.
StaleModeStopsMotors == stale_mode /\ conn = "open" => front = Stopped

\* After a change of the thrust mode the first thing sent is a stop until a command
\* of the new mode has come: no value meant for the other mode reaches the motors.
SwitchStopsMotors ==
  [][pass = "idle" /\ pass' = "receive" /\ conn = "open" /\ ~heard
       => front' = Stopped]_vars

\* In rudder-thrust mode the turn has precedence over the speed: whatever is over
\* the range of the motors, their difference is the turn that was asked for, or
\* the sharpest one there is.
TurnIsKept ==
  [][pass = "idle" /\ pass' = "receive" /\ conn = "open" /\ ~direct
       => front'.L - front'.R
            = Clamp(2 * Clamp(des'["rudder"], MaxRudder) * MaxThrust, 2 * Cap)]_vars

\* When the helm falls silent the motors stop for good, if the stale check is armed
\* and on and the connection holds, also if they ran in rudder-thrust mode.
SilenceStopsMotors ==
  <>[][~Mail]_vars => <>[](ok_stale /\ ~allstop /\ conn = "open" => front = Stopped)
===============================================================================
