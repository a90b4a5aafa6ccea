------------------------------- MODULE TagRules -------------------------------
(***************************************************************************)
(* What the tag referee promises the players, whatever the way it works:    *)
(* who may lose the freedom to play, when, and at whose expense.            *)
(***************************************************************************)
EXTENDS Integers

CONSTANTS Vehicles, Group, Pos, Zone, Teams, TagMinInterval, Elapse, NoRecord

VARIABLES
  place,      \* where a vehicle was last known to be
  state,      \* "free", or what took its freedom: "enemy" or "boundary"
  rest        \* time since a vehicle tagged another, up to TagMinInterval

vars == << place, state, rest >>

In(team, p) == team \in Teams /\ p \in Zone[team]

Init ==
  /\ place = [v \in Vehicles |-> NoRecord]
  /\ state = [v \in Vehicles |-> "free"]
  /\ rest = [v \in Vehicles |-> TagMinInterval]

Move(v, p) ==
  /\ place' = [place EXCEPT ![v] = p]
  /\ UNCHANGED << state, rest >>

Wait(d) ==
  /\ rest' = [v \in Vehicles |->
                IF rest[v] + d < TagMinInterval THEN rest[v] + d ELSE TagMinInterval]
  /\ UNCHANGED << place, state >>

\* A free and rested vehicle takes a free one of another group, inside its own
\* zone, and has to rest.
Hit(v, t) ==
  /\ state[v] = "free"
  /\ rest[v] = TagMinInterval
  /\ state[t] = "free"
  /\ Group[t] # Group[v]
  /\ In(Group[v], place[t])
  /\ state' = [state EXCEPT ![t] = "enemy"]
  /\ rest' = [rest EXCEPT ![v] = 0]
  /\ UNCHANGED place

\* Free vehicles that are outside both zones lose their freedom.
Stray(vs) ==
  /\ \A v \in vs : /\ state[v] = "free"
                   /\ place[v] # NoRecord
                   /\ \A team \in Teams : ~In(team, place[v])
  /\ state' = [v \in Vehicles |-> IF v \in vs THEN "boundary" ELSE state[v]]
  /\ UNCHANGED << place, rest >>

Release(vs) ==
  /\ state' = [v \in Vehicles |-> IF v \in vs THEN "free" ELSE state[v]]
  /\ UNCHANGED << place, rest >>

Next ==
  \/ \E v \in Vehicles, p \in Pos : Move(v, p)
  \/ \E d \in Elapse : Wait(d)
  \/ \E v, t \in Vehicles : Hit(v, t)
  \/ \E vs \in SUBSET Vehicles : Stray(vs) \/ Release(vs)

Spec == Init /\ [][Next]_vars
===============================================================================
