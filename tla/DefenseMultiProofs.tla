--------------------------- MODULE DefenseMultiProofs ---------------------------
(***************************************************************************)
(* What is proved of BHV_Defense_Multi for any names, opponents and mail.   *)
(***************************************************************************)
EXTENDS DefenseMulti, WellFoundedInduction, TLAPS

-------------------------------------------------------------------------------
(***************************************************************************)
(* Loops.  What a loop computes is proved by induction over its rounds, for *)
(* which a set takes the place of the predicate.                            *)
(***************************************************************************)

\* A set that has 0 and is closed under successors up to n has all up to n.
LEMMA FiniteInduction ==
  ASSUME NEW n \in Nat, NEW T, 0 \in T,
         \A i \in 0..n : i # n /\ i \in T => i + 1 \in T
  PROVE  0..n \subseteq T
<1> SUFFICES ASSUME 0..n \ T # {} PROVE FALSE
  OBVIOUS
<1> DEFINE less == OpToRel(<, Nat)
           rest == 0..n \ T
<1>1. IsWellFoundedOn(less, Nat)
  BY NatLessThanWellFounded
<1>2. \A k, m \in Nat : k < m => << k, m >> \in less
  BY DEF OpToRel
<1> HIDE DEF less
<1>3. rest \subseteq Nat /\ rest # {}
  OBVIOUS
<1>4. PICK m \in rest : \A k \in rest : ~(<< k, m >> \in less)
  <2> HIDE DEF rest
  <2> QED BY <1>1, <1>3, WFMin
<1>5. m # 0 /\ m \in 0..n
  OBVIOUS
<1>6. m - 1 \in T
  <2>1. << m - 1, m >> \in less
    BY <1>2, <1>5
  <2>2. m - 1 \in 0..n
    BY <1>5
  <2> QED BY <2>1, <2>2, <1>4
<1>7. m - 1 \in 0..n /\ m - 1 # n /\ (m - 1) + 1 = m
  BY <1>5
<1> QED BY <1>6, <1>7

\* f holds what a loop of n rounds that starts from first has computed after each.
IsLoop(f, n, S, first, Round) ==
  /\ f \in [0..n -> S]
  /\ f[0] = first
  /\ \A i \in 1..n : f[i] = Round[i][f[i - 1]]

\* There is such an f for any number of rounds.
LEMMA LoopIsDefined ==
  ASSUME NEW n \in Nat, NEW S, NEW first \in S, NEW Round \in [1..n -> [S -> S]]
  PROVE  \E f : IsLoop(f, n, S, first, Round)
<1> DEFINE T == {m \in 0..n : \E f : IsLoop(f, m, S, first, Round)}
<1>1. 0 \in T
  <2>1. IsLoop([i \in 0..0 |-> first], 0, S, first, Round)
    BY DEF IsLoop
  <2> QED BY <2>1
<1>2. ASSUME NEW m \in 0..n, m # n, m \in T PROVE m + 1 \in T
  <2>1. PICK f : IsLoop(f, m, S, first, Round)
    BY <1>2
  <2> DEFINE next == Round[m + 1][f[m]]
             g == [i \in 0..(m + 1) |-> IF i = m + 1 THEN next ELSE f[i]]
  <2>2. /\ f \in [0..m -> S]
        /\ f[0] = first
        /\ \A i \in 1..m : f[i] = Round[i][f[i - 1]]
    BY <2>1 DEF IsLoop
  <2>3. next \in S
    BY <2>2, <1>2
  <2>4. g \in [0..(m + 1) -> S] /\ g[0] = first
    <3> HIDE DEF next
    <3> QED BY <2>2, <2>3
  <2>5. ASSUME NEW i \in 1..(m + 1) PROVE g[i] = Round[i][g[i - 1]]
    <3>1. CASE i = m + 1
      <4>1. g[i] = next /\ g[i - 1] = f[m]
        <5> HIDE DEF next
        <5> QED BY <3>1, <1>2
      <4> QED BY <4>1, <3>1
    <3>2. CASE i # m + 1
      <4>1. g[i] = f[i] /\ g[i - 1] = f[i - 1]
        BY <3>2, <1>2
      <4> QED BY <4>1, <3>2, <2>2, <1>2
    <3> QED BY <3>1, <3>2
  <2>6. IsLoop(g, m + 1, S, first, Round)
    <3> HIDE DEF g
    <3> QED BY <2>4, <2>5 DEF IsLoop
  <2> HIDE DEF g
  <2>7. m + 1 \in 0..n
    BY <1>2
  <2> QED BY <2>6, <2>7
<1>3. n \in T
  <2> HIDE DEF T
  <2>1. 0..n \subseteq T
    BY <1>1, <1>2, FiniteInduction
  <2> QED BY <2>1
<1> QED BY <1>3

-------------------------------------------------------------------------------
(***************************************************************************)
(* The list of opponents.                                                   *)
(***************************************************************************)

\* A list that names opponents, each once, and only those reported to d.
IsAMap(d, list) ==
  /\ list \in Seq(Opponents)
  /\ \A i, j \in 1..Len(list) : list[i] = list[j] => i = j
  /\ \A i \in 1..Len(list) : report[d][list[i]] # NoReport

\* One round of the loop over "players": the list stays a map, loses nobody, and
\* then has the player if it was reported.
LEMMA EnteredIsAMap ==
  ASSUME NEW d, NEW list, IsAMap(d, list), NEW o \in Opponents
  PROVE  /\ IsAMap(d, Entered(d, list, o))
         /\ ElementsOf(list) \subseteq ElementsOf(Entered(d, list, o))
         /\ report[d][o] # NoReport => o \in ElementsOf(Entered(d, list, o))
<1> DEFINE longer == Append(list, o)
<1>1. list \in Seq(Opponents) /\ Len(list) \in Nat
  BY DEF IsAMap
<1>2. /\ longer \in Seq(Opponents)
      /\ Len(longer) = Len(list) + 1
      /\ longer[Len(list) + 1] = o
      /\ \A i \in 1..Len(list) : longer[i] = list[i]
  BY <1>1
<1> HIDE DEF longer
<1>3. CASE report[d][o] # NoReport /\ o \notin ElementsOf(list)
  <2>1. Entered(d, list, o) = longer
    BY <1>3 DEF Entered, longer
  <2>2. \A i \in 1..Len(longer) : i = Len(list) + 1 \/ i \in 1..Len(list)
    BY <1>1, <1>2
  <2>3. \A i \in 1..Len(list) : list[i] # o
    BY <1>3 DEF ElementsOf
  <2>4. \A i \in 1..Len(longer) : report[d][longer[i]] # NoReport
    BY <1>2, <1>3, <2>2 DEF IsAMap
  <2>5. \A i, j \in 1..Len(longer) : longer[i] = longer[j] => i = j
    BY <1>2, <2>2, <2>3 DEF IsAMap
  <2>6. Len(list) + 1 \in 1..Len(longer) /\ 1..Len(list) \subseteq 1..Len(longer)
    BY <1>1, <1>2
  <2>7. o \in ElementsOf(longer) /\ ElementsOf(list) \subseteq ElementsOf(longer)
    BY <1>2, <2>6 DEF ElementsOf
  <2> QED BY <1>2, <2>1, <2>4, <2>5, <2>7 DEF IsAMap
<1>4. CASE ~(report[d][o] # NoReport /\ o \notin ElementsOf(list))
  BY <1>4 DEF Entered
<1> QED BY <1>3, <1>4

\* Met is the end of a sequence of rounds, each of which enters one player.
LEMMA MetIsEntered ==
  ASSUME NEW d, opp_list[d] \in Seq(Opponents)
  PROVE  \E met : /\ Met(d) = met[Len(Players)]
                  /\ met[0] = opp_list[d]
                  /\ \A i \in 1..Len(Players) : met[i] = Entered(d, met[i - 1], Players[i])
<1> DEFINE n == Len(Players)
           S == Seq(Opponents)
           first == opp_list[d]
           Round == [i \in 1..n |-> [list \in S |-> Entered(d, list, Players[i])]]
<1>1. n \in Nat /\ \A i \in 1..n : Players[i] \in Opponents
  BY OpponentsAssumption
<1>2. first \in S
  OBVIOUS
<1>3. Round \in [1..n -> [S -> S]]
  <2> SUFFICES ASSUME NEW i \in 1..n, NEW list \in S
               PROVE  Entered(d, list, Players[i]) \in S
    OBVIOUS
  <2> QED BY <1>1 DEF Entered
<1>4. PICK f : IsLoop(f, n, S, first, Round)
  <2>1. n \in Nat
    BY <1>1
  <2> HIDE DEF first, Round, n, S
  <2> QED BY <2>1, <1>2, <1>3, LoopIsDefined
<1>5. f = [i \in 0..n |-> IF i = 0 THEN first ELSE Entered(d, f[i - 1], Players[i])]
  <2>1. ASSUME NEW i \in 1..n PROVE f[i] = Entered(d, f[i - 1], Players[i])
    <3>1. f[i - 1] \in S
      <4> HIDE DEF Round, S
      <4> QED BY <1>1, <1>4 DEF IsLoop
    <3>2. f[i] = Round[i][f[i - 1]]
      BY <1>4 DEF IsLoop
    <3> QED BY <3>1, <3>2
  <2> HIDE DEF Round, first, n, S
  <2> QED BY <1>1, <1>4, <2>1 DEF IsLoop
<1> DEFINE met == CHOOSE g : g = [i \in 0..n |-> IF i = 0 THEN first
                                    ELSE Entered(d, g[i - 1], Players[i])]
<1>6. met = [i \in 0..n |-> IF i = 0 THEN first
                            ELSE Entered(d, met[i - 1], Players[i])]
  <2> HIDE DEF first
  <2> QED BY <1>5
<1>7. Met(d) = met[n]
  BY DEF Met
<1> HIDE DEF met
<1>8. met[0] = first /\ \A i \in 1..n : met[i] = Entered(d, met[i - 1], Players[i])
  <2> HIDE DEF first, n
  <2> QED BY <1>1, <1>6
<1> QED BY <1>7, <1>8

\* The loop over "players" leaves a map: of all that were on it, and of every
\* opponent that has been reported.
LEMMA MetIsAMap ==
  ASSUME NEW d, IsAMap(d, opp_list[d])
  PROVE  /\ IsAMap(d, Met(d))
         /\ ElementsOf(opp_list[d]) \subseteq ElementsOf(Met(d))
         /\ \A o \in Opponents : report[d][o] # NoReport => o \in ElementsOf(Met(d))
<1> DEFINE n == Len(Players)
<1>1. n \in Nat /\ \A i \in 1..n : Players[i] \in Opponents
  BY OpponentsAssumption
<1>2. PICK met : /\ Met(d) = met[n]
                 /\ met[0] = opp_list[d]
                 /\ \A i \in 1..n : met[i] = Entered(d, met[i - 1], Players[i])
  BY MetIsEntered DEF IsAMap
<1> HIDE DEF n
<1> DEFINE Good(i) ==
      /\ IsAMap(d, met[i])
      /\ ElementsOf(opp_list[d]) \subseteq ElementsOf(met[i])
      /\ \A j \in 1..i : report[d][Players[j]] # NoReport
                         => Players[j] \in ElementsOf(met[i])
           T == {i \in 0..n : Good(i)}
<1>3. 0 \in T
  BY <1>1, <1>2
<1>4. ASSUME NEW i \in 0..n, i # n, i \in T PROVE i + 1 \in T
  <2>1. i + 1 \in 1..n /\ i + 1 \in 0..n /\ (i + 1) - 1 = i
    BY <1>1, <1>4
  <2>2. met[i + 1] = Entered(d, met[i], Players[i + 1])
    BY <1>2, <2>1
  <2>3. IsAMap(d, met[i]) /\ Players[i + 1] \in Opponents
    BY <1>1, <1>4, <2>1
  <2>4. /\ IsAMap(d, met[i + 1])
        /\ ElementsOf(met[i]) \subseteq ElementsOf(met[i + 1])
        /\ report[d][Players[i + 1]] # NoReport
             => Players[i + 1] \in ElementsOf(met[i + 1])
    BY <2>2, <2>3, EnteredIsAMap
  <2>5. \A j \in 1..(i + 1) : j = i + 1 \/ j \in 1..i
    BY <1>1
  <2>6. Good(i + 1)
    BY <1>4, <2>4, <2>5
  <2> QED BY <2>1, <2>6
<1>5. Good(n)
  <2> HIDE DEF T
  <2>1. 0..n \subseteq T
    BY <1>1, <1>3, <1>4, FiniteInduction
  <2>2. n \in T
    BY <1>1, <2>1
  <2> USE DEF T
  <2> QED BY <2>2
<1>6. \A o \in Opponents : \E j \in 1..n : Players[j] = o
  BY OpponentsAssumption DEF n
<1> QED BY <1>2, <1>5, <1>6

-------------------------------------------------------------------------------
(***************************************************************************)
(* The attacker.  That it has been reported, so that its distance is a      *)
(* number, and that it is on the list are one invariant with the types.     *)
(***************************************************************************)
Marking == TypeOK /\ OppListIsAMap

\* There are two defenders.
LEMMA MateIsADefender ==
  ASSUME NEW d \in Defenders
  PROVE  Mate(d) \in Defenders /\ Mate(d) # d
<1>1. \E e \in Defenders : e # d
  BY DefendersAssumption
<1> QED BY <1>1 DEF Mate

\* The list of each defender is a map in the sense of the loop's lemmas.
LEMMA ListsAreMaps ==
  ASSUME Marking, NEW d \in Defenders
  PROVE  IsAMap(d, opp_list[d])
BY DEF Marking, TypeOK, OppListIsAMap, IsAMap, ElementsOf

\* What a run leaves d with: the attacker it had or chose is on the list, within
\* the range as last reported, and where (m_oppX, m_oppY) says.
LEMMA RunMarks ==
  ASSUME Marking, NEW d \in Defenders, OnRunState(d)
  PROVE  \E a \in Opponents \cup {NoOne}, x \in Ranges \cup {OriginDist} :
           /\ attacker' = [attacker EXCEPT ![d] = a]
           /\ opp_dist' = [opp_dist EXCEPT ![d] = x]
           /\ a # NoOne => /\ a \in ElementsOf(Met(d))
                           /\ report[d][a] \in Ranges
                           /\ report[d][a] <= CritDist
                           /\ x = report[d][a]
<1> DEFINE list == Met(d)
           keep == Kept(d)
           dist == IF keep # NoOne THEN report[d][keep] ELSE opp_dist[d]
<1>1. /\ IsAMap(d, list)
      /\ ElementsOf(opp_list[d]) \subseteq ElementsOf(list)
  BY ListsAreMaps, MetIsAMap
<1>2. /\ \A o \in Opponents : report[d][o] \in Ranges \cup {NoReport}
      /\ opp_dist[d] \in Ranges \cup {OriginDist}
      /\ attacker[d] \in Opponents \cup {NoOne}
  BY DEF Marking, TypeOK
<1>3. Ranges \subseteq Nat /\ CritDist \in Nat
  BY RangesAssumption
<1>4. keep # NoOne => /\ keep \in Opponents
                      /\ keep \in ElementsOf(list)
                      /\ report[d][keep] \in Ranges
                      /\ report[d][keep] <= CritDist
  <2> SUFFICES ASSUME keep # NoOne
               PROVE  /\ keep \in Opponents
                      /\ keep \in ElementsOf(list)
                      /\ report[d][keep] \in Ranges
                      /\ report[d][keep] <= CritDist
    OBVIOUS
  <2>1. keep = attacker[d] /\ ~Left(d)
    BY DEF Kept
  <2>2. keep \in Opponents /\ keep \in ElementsOf(opp_list[d])
    BY <1>2, <2>1 DEF Marking, OppListIsAMap
  <2>3. report[d][keep] \in Ranges
    BY <1>2, <2>2 DEF Marking, OppListIsAMap
  <2>4. ~(report[d][keep] > CritDist)
    BY <2>1 DEF Left
  <2>5. keep \in ElementsOf(list)
    BY <1>1, <2>2
  <2>6. report[d][keep] <= CritDist
    <3> DEFINE r == report[d][keep]
    <3>1. r \in Nat /\ CritDist \in Nat /\ ~(r > CritDist)
      BY <1>3, <2>3, <2>4
    <3> HIDE DEF r
    <3>2. r <= CritDist
      BY <3>1
    <3> QED BY <3>2 DEF r
  <2> QED BY <2>2, <2>3, <2>5, <2>6
<1>5. ASSUME NEW i \in Nearest(d, list, notify[d])
      PROVE  /\ list[i] \in Opponents
             /\ list[i] \in ElementsOf(list)
             /\ report[d][list[i]] \in Ranges
             /\ report[d][list[i]] <= CritDist
  <2>1. i \in 1..Len(list) /\ report[d][list[i]] < CritDist
    BY DEF Nearest, Candidates
  <2> HIDE DEF list
  <2>2. list[i] \in Opponents /\ list[i] \in ElementsOf(list)
    BY <1>1, <2>1 DEF IsAMap, ElementsOf
  <2>3. report[d][list[i]] \in Ranges
    BY <1>1, <1>2, <2>1, <2>2 DEF IsAMap
  <2>4. report[d][list[i]] <= CritDist
    <3> DEFINE r == report[d][list[i]]
    <3>1. r \in Nat /\ CritDist \in Nat /\ r < CritDist
      BY <1>3, <2>1, <2>3
    <3> HIDE DEF r
    <3>2. r <= CritDist
      BY <3>1
    <3> QED BY <3>2 DEF r
  <2> QED BY <2>2, <2>3, <2>4
<1>6. PICK hidden \in TaggedMatches(list, tagged[d]) :
        LET choice == IF keep # NoOne \/ hidden THEN {}
                      ELSE Nearest(d, list, notify[d])
        IN  \/ /\ choice = {}
               /\ attacker' = [attacker EXCEPT ![d] = keep]
               /\ opp_dist' = [opp_dist EXCEPT ![d] = dist]
            \/ \E i \in choice :
                 /\ attacker' = [attacker EXCEPT ![d] = list[i]]
                 /\ opp_dist' = [opp_dist EXCEPT ![d] = report[d][list[i]]]
  BY DEF OnRunState
<1> HIDE DEF list, keep
<1>7. CASE /\ attacker' = [attacker EXCEPT ![d] = keep]
           /\ opp_dist' = [opp_dist EXCEPT ![d] = dist]
  <2>1. keep \in Opponents \cup {NoOne}
    BY <1>4
  <2>2. dist \in Ranges \cup {OriginDist}
    BY <1>2, <1>4
  <2> QED BY <1>4, <1>7, <2>1, <2>2 DEF list
<1>8. ASSUME NEW i \in Nearest(d, list, notify[d]),
             attacker' = [attacker EXCEPT ![d] = list[i]],
             opp_dist' = [opp_dist EXCEPT ![d] = report[d][list[i]]]
      PROVE  \E a \in Opponents \cup {NoOne}, x \in Ranges \cup {OriginDist} :
               /\ attacker' = [attacker EXCEPT ![d] = a]
               /\ opp_dist' = [opp_dist EXCEPT ![d] = x]
               /\ a # NoOne => /\ a \in ElementsOf(Met(d))
                               /\ report[d][a] \in Ranges
                               /\ report[d][a] <= CritDist
                               /\ x = report[d][a]
  BY <1>5, <1>8 DEF list
<1> QED BY <1>6, <1>7, <1>8

\* Nothing is on the lists and nobody marked when the behaviors are spawned.
LEMMA MarkingStarts == Init => Marking
<1> SUFFICES ASSUME Init PROVE Marking
  OBVIOUS
<1>1. TypeOK
  BY RangesAssumption, TaggedAssumption DEF Init, TypeOK
<1>2. OppListIsAMap
  BY DEF Init, OppListIsAMap, ElementsOf
<1> QED BY <1>1, <1>2 DEF Marking

\* Mail is typed and takes no report away.
LEMMA MailKeepsMarking ==
  ASSUME Marking, NEW d \in Defenders,
         \/ \E o \in Opponents : \E r \in Waters[o] : Report(d, o, r)
         \/ \E list \in TaggedLists : TaggedVehicles(d, list)
         \/ Deliver(d) \/ Lose(d)
  PROVE  Marking'
<1> USE DEF Marking
<1>1. ASSUME NEW o \in Opponents, NEW r \in Waters[o], Report(d, o, r) PROVE Marking'
  <2>1. r \in Ranges /\ r # NoReport
    BY RangesAssumption
  <2>2. TypeOK'
    BY <1>1, <2>1 DEF Report, TypeOK
  <2>3. \A e \in Defenders : \A q : q \in Opponents /\ report[e][q] # NoReport
                                    => report'[e][q] # NoReport
    BY <1>1, <2>1 DEF Report, TypeOK
  <2>4. \A e \in Defenders : \A q \in ElementsOf(opp_list[e]) : q \in Opponents
    BY DEF TypeOK, ElementsOf
  <2>5. OppListIsAMap'
    BY <1>1, <2>3, <2>4 DEF Report, OppListIsAMap, ElementsOf
  <2> QED BY <2>2, <2>5
<1>2. ASSUME NEW list \in TaggedLists, TaggedVehicles(d, list) PROVE Marking'
  BY <1>2 DEF TaggedVehicles, TypeOK, OppListIsAMap, ElementsOf
<1>3. ASSUME mail[d] # << >>
      PROVE  /\ Head(mail[d]) \in Opponents \cup {NoOne}
             /\ Tail(mail[d]) \in Seq(Opponents \cup {NoOne})
  BY <1>3 DEF TypeOK
<1>4. CASE Deliver(d) \/ Lose(d)
  <2>1. /\ mail' \in [Defenders -> Seq(Opponents \cup {NoOne})]
        /\ notify' \in [Defenders -> Opponents \cup {NoOne, NoNews}]
    BY <1>3, <1>4 DEF Deliver, Lose, TypeOK
  <2>2. UNCHANGED << report, tagged, opp_list, attacker, opp_dist, covered, steer >>
    BY <1>4 DEF Deliver, Lose
  <2>3. TypeOK'
    BY <2>1, <2>2 DEF TypeOK
  <2>4. OppListIsAMap'
    BY <2>2 DEF OppListIsAMap, ElementsOf
  <2> QED BY <2>3, <2>4
<1> QED BY <1>1, <1>2, <1>4

\* A run extends the list by the loop's lemma and marks one that is on it.
LEMMA RunKeepsMarking ==
  ASSUME Marking, NEW d \in Defenders, OnRunState(d)
  PROVE  Marking'
<1>1. PICK a \in Opponents \cup {NoOne}, x \in Ranges \cup {OriginDist} :
        /\ attacker' = [attacker EXCEPT ![d] = a]
        /\ opp_dist' = [opp_dist EXCEPT ![d] = x]
        /\ a # NoOne => a \in ElementsOf(Met(d))
  BY RunMarks
<1>2. /\ IsAMap(d, Met(d)) /\ Met(d) \in Seq(Opponents)
      /\ opp_list' = [opp_list EXCEPT ![d] = Met(d)]
  BY ListsAreMaps, MetIsAMap DEF OnRunState, IsAMap
<1>3. TypeOK'
  <2>1. Kept(d) \in Opponents \cup {NoOne}
    BY DEF Kept, Marking, TypeOK
  <2>2. mail' \in [Defenders -> Seq(Opponents \cup {NoOne})]
    <3>1. \A s \in Seq(Opponents \cup {NoOne}) :
            Append(s, Kept(d)) \in Seq(Opponents \cup {NoOne})
      BY <2>1
    <3> QED BY <3>1, MateIsADefender DEF OnRunState, Marking, TypeOK
  <2>3. steer' \in [Defenders -> {"post", "opponent"}]
    BY DEF OnRunState, Steer, Marking, TypeOK
  <2>4. covered' \in [Defenders -> Opponents \cup {NoOne, NoNews}]
    BY DEF OnRunState, Marking, TypeOK
  <2>5. UNCHANGED << report, tagged, notify >>
    BY DEF OnRunState
  <2> QED BY <1>1, <1>2, <2>2, <2>3, <2>4, <2>5 DEF Marking, TypeOK
<1>4. OppListIsAMap'
  <2> SUFFICES ASSUME NEW e \in Defenders
               PROVE  /\ \A i, j \in 1..Len(opp_list'[e]) :
                           opp_list'[e][i] = opp_list'[e][j] => i = j
                      /\ \A o \in ElementsOf(opp_list'[e]) : report[e][o] # NoReport
                      /\ attacker'[e] # NoOne => attacker'[e] \in ElementsOf(opp_list'[e])
    BY DEF OnRunState, OppListIsAMap, ElementsOf
  <2>1. CASE e = d
    <3>1. opp_list'[e] = Met(d) /\ attacker'[e] = a
      BY <1>1, <1>2, <2>1 DEF Marking, TypeOK
    <3> QED BY <1>1, <1>2, <2>1, <3>1 DEF IsAMap, ElementsOf
  <2>2. CASE e # d
    <3>1. opp_list'[e] = opp_list[e] /\ attacker'[e] = attacker[e]
      BY <1>1, <1>2, <2>2 DEF Marking, TypeOK
    <3> QED BY <3>1 DEF Marking, OppListIsAMap
  <2> QED BY <2>1, <2>2
<1> QED BY <1>3, <1>4 DEF Marking

\* The invariant of both behaviors.
LEMMA MarkingIsKept == Spec => []Marking
<1>1. Marking /\ [Next]_vars => Marking'
  <2>1. Marking /\ UNCHANGED vars => Marking'
    BY DEF vars, Marking, TypeOK, OppListIsAMap, ElementsOf
  <2> QED BY <2>1, MailKeepsMarking, RunKeepsMarking DEF Next
<1> QED BY MarkingStarts, <1>1, PTL DEF Spec

\* The types of the two behaviors and of their mail.
THEOREM MarkingTypeCorrect == Spec => []TypeOK
<1>1. Marking => TypeOK
  BY DEF Marking
<1> QED BY <1>1, MarkingIsKept, PTL

\* However often it runs, m_opp_list names each opponent once, and only opponents
\* that have reported; the attacker is one of them.
THEOREM OppListStaysAMap == Spec => []OppListIsAMap
<1>1. Marking => OppListIsAMap
  BY DEF Marking
<1> QED BY <1>1, MarkingIsKept, PTL

\* After a run the list holds the opponents that have reported, all of them and
\* nobody else, however the reports came and how many runs there were before.
THEOREM ListIsComplete ==
  Spec => [][\A d \in Defenders :
               OnRunState(d) => ElementsOf(opp_list'[d])
                                = {o \in Opponents : report[d][o] # NoReport}]_vars
<1> DEFINE Complete ==
      \A d \in Defenders :
        OnRunState(d) => ElementsOf(opp_list'[d])
                         = {o \in Opponents : report[d][o] # NoReport}
<1>1. Marking => Complete
  <2> SUFFICES ASSUME Marking, NEW d \in Defenders, OnRunState(d)
               PROVE  ElementsOf(opp_list'[d]) = {o \in Opponents : report[d][o] # NoReport}
    OBVIOUS
  <2>1. opp_list'[d] = Met(d)
    BY DEF OnRunState, Marking, TypeOK
  <2>2. /\ IsAMap(d, Met(d))
        /\ \A o \in Opponents : report[d][o] # NoReport => o \in ElementsOf(Met(d))
    BY ListsAreMaps, MetIsAMap
  <2>3. \A i \in 1..Len(Met(d)) : Met(d)[i] \in Opponents
    BY <2>2 DEF IsAMap
  <2> QED BY <2>1, <2>2, <2>3 DEF IsAMap, ElementsOf
<1> QED BY <1>1, MarkingIsKept, PTL

\* Whatever became of the reports, the captives and the team mate's messages since
\* it was chosen, the attacker that a run ends with is in range as last reported,
\* and (m_oppX, m_oppY) is where it was last reported.
THEOREM AttackerStaysInView == Spec => AttackerIsInView
<1> DEFINE InView ==
      \A d \in Defenders :
        OnRunState(d) /\ attacker'[d] # NoOne
        => /\ report[d][attacker'[d]] <= CritDist
           /\ opp_dist'[d] = report[d][attacker'[d]]
<1>1. Marking => InView
  <2> SUFFICES ASSUME Marking, NEW d \in Defenders, OnRunState(d), attacker'[d] # NoOne
               PROVE  /\ report[d][attacker'[d]] <= CritDist
                      /\ opp_dist'[d] = report[d][attacker'[d]]
    OBVIOUS
  <2>1. PICK a \in Opponents \cup {NoOne}, x \in Ranges \cup {OriginDist} :
          /\ attacker' = [attacker EXCEPT ![d] = a]
          /\ opp_dist' = [opp_dist EXCEPT ![d] = x]
          /\ a # NoOne => report[d][a] <= CritDist /\ x = report[d][a]
    BY RunMarks
  <2>2. attacker'[d] = a /\ opp_dist'[d] = x
    BY <2>1 DEF Marking, TypeOK
  <2> QED BY <2>1, <2>2
<1> QED BY <1>1, MarkingIsKept, PTL DEF AttackerIsInView

-------------------------------------------------------------------------------
(***************************************************************************)
(* Who stays with whom.                                                     *)
(***************************************************************************)

\* The defender whose name has the greater sum is never talked out of its attacker:
\* no message, early, late or lost, is among the reasons for which it leaves.
THEOREM PriorityIsFirm == Spec => PriorityStandsFirm
<1> DEFINE Firm ==
      \A d \in Defenders :
        Priority(d) /\ attacker[d] # NoOne /\ attacker'[d] # attacker[d]
        => \/ report[d][attacker[d]] > CritDist
           \/ attacker[d] \in ElementsOf(tagged[d])
<1>1. Marking /\ [Next]_vars => Firm
  <2> SUFFICES ASSUME Marking, [Next]_vars,
                      NEW d \in Defenders,
                      Priority(d), attacker[d] # NoOne, attacker'[d] # attacker[d]
               PROVE  \/ report[d][attacker[d]] > CritDist
                      \/ attacker[d] \in ElementsOf(tagged[d])
    OBVIOUS
  <2>1. PICK e \in Defenders : OnRunState(e)
    <3>1. attacker' # attacker
      OBVIOUS
    <3>2. ~UNCHANGED vars
      BY <3>1 DEF vars
    <3>3. \A e \in Defenders :
            /\ \A o \in Opponents : \A r \in Waters[o] : ~Report(e, o, r)
            /\ \A list \in TaggedLists : ~TaggedVehicles(e, list)
            /\ ~Deliver(e) /\ ~Lose(e)
      BY <3>1 DEF Report, TaggedVehicles, Deliver, Lose
    <3> QED BY <3>2, <3>3 DEF Next
  <2>2. e = d
    <3>1. \E a : attacker' = [attacker EXCEPT ![e] = a]
      BY <2>1 DEF OnRunState
    <3> QED BY <3>1 DEF Marking, TypeOK
  <2>3. Left(d)
    <3> SUFFICES ASSUME ~Left(d) PROVE FALSE
      OBVIOUS
    <3>1. Kept(d) = attacker[d]
      BY DEF Kept
    <3>2. attacker' = [attacker EXCEPT ![d] = Kept(d)]
      BY <2>1, <2>2, <3>1 DEF OnRunState
    <3> QED BY <3>1, <3>2 DEF Marking, TypeOK
  <2> QED BY <2>3 DEF Left
<1> QED BY <1>1, MarkingIsKept, PTL DEF Spec, PriorityStandsFirm

\* Each defender has an attacker of its own, near and free as far as it knows, and
\* whoever may have to yield hears of its own attacker from nobody: not from what it
\* took for covered, nor from the message it has, nor from those under way.
Settled ==
  /\ Split
  /\ \A d \in Defenders :
       /\ attacker[d] \notin ElementsOf(tagged[d])
       /\ ~(report[d][attacker[d]] > CritDist)
       /\ ~Priority(d) =>
            attacker[d] \notin {covered[d], notify[d]} \cup ElementsOf(mail[d])

\* A step after which the attackers of before are still near and free.
Pressed ==
  \A d \in Defenders : /\ attacker[d] \notin ElementsOf(tagged'[d])
                       /\ ~(report'[d][attacker[d]] > CritDist)

\* A defender that is settled keeps its attacker when it runs, and says so.
LEMMA SettledKeeps ==
  ASSUME TypeOK, Settled, NEW d \in Defenders, OnRunState(d)
  PROVE  Kept(d) = attacker[d] /\ attacker' = attacker
<1>1. ~Left(d) /\ attacker[d] # NoOne
  BY DEF Settled, Split, Left
<1>2. Kept(d) = attacker[d]
  BY <1>1 DEF Kept
<1>3. attacker' = [attacker EXCEPT ![d] = Kept(d)]
  BY <1>1, <1>2 DEF OnRunState
<1> QED BY <1>2, <1>3 DEF TypeOK

\* No run of a settled defender tells the other one of the other's attacker.
LEMMA SettledIsNotTold ==
  ASSUME TypeOK, Settled, NEW d \in Defenders, OnRunState(d), NEW e \in Defenders, ~Priority(e)
  PROVE  attacker'[e] \notin {covered'[e], notify'[e]} \cup ElementsOf(mail'[e])
<1>1. Kept(d) = attacker[d] /\ attacker' = attacker
  BY SettledKeeps
<1>2. attacker[e] \notin {covered[e], notify[e]} \cup ElementsOf(mail[e])
  BY DEF Settled
<1>3. notify' = notify /\ covered'[e] \in {covered[e], notify[e]}
  BY DEF OnRunState, TypeOK
<1>4. CASE mail'[e] = mail[e]
  BY <1>1, <1>2, <1>3, <1>4
<1>5. CASE mail'[e] # mail[e]
  <2>1. e = Mate(d) /\ mail'[e] = Append(mail[e], attacker[d])
    BY <1>1, <1>5 DEF OnRunState, TypeOK
  <2>2. attacker[e] # attacker[d]
    BY <2>1, MateIsADefender DEF Settled, Split
  <2>3. ElementsOf(mail'[e]) \subseteq ElementsOf(mail[e]) \cup {attacker[d]}
    <3>1. mail[e] \in Seq(Opponents \cup {NoOne})
      BY DEF TypeOK
    <3> QED BY <2>1, <3>1 DEF ElementsOf
  <2> QED BY <1>1, <1>2, <1>3, <2>2, <2>3
<1> QED BY <1>4, <1>5

\* Two defenders that are settled stay so, each with the attacker it has, as long as
\* both attackers stay near and free, whatever else is reported and whichever of
\* their messages are late or lost: the safe half of DefendersSplit.
THEOREM SplitIsFirm ==
  Spec => [][Settled /\ Pressed => Settled' /\ UNCHANGED attacker]_vars
<1>1. Marking /\ [Next]_vars => (Settled /\ Pressed => Settled' /\ UNCHANGED attacker)
  <2> SUFFICES ASSUME Marking, [Next]_vars, Settled, Pressed
               PROVE  Settled' /\ attacker' = attacker
    OBVIOUS
  <2> USE DEF Marking
  <2>1. attacker' = attacker
    <3>1. CASE UNCHANGED vars
      BY <3>1 DEF vars
    <3>2. ASSUME NEW d \in Defenders, OnRunState(d) PROVE attacker' = attacker
      BY <3>2, SettledKeeps
    <3> QED BY <3>1, <3>2 DEF Next, Report, TaggedVehicles, Deliver, Lose
  <2>2. ASSUME NEW e \in Defenders, ~Priority(e)
        PROVE  attacker'[e] \notin {covered'[e], notify'[e]} \cup ElementsOf(mail'[e])
    <3>1. attacker[e] \notin {covered[e], notify[e]} \cup ElementsOf(mail[e])
      BY <2>2 DEF Settled
    <3>2. CASE UNCHANGED << covered, notify, mail >>
      BY <2>1, <3>1, <3>2
    <3>3. ASSUME NEW d \in Defenders, OnRunState(d)
          PROVE  attacker'[e] \notin {covered'[e], notify'[e]} \cup ElementsOf(mail'[e])
      BY <2>2, <3>3, SettledIsNotTold
    <3>4. ASSUME NEW d \in Defenders, Deliver(d) \/ Lose(d)
          PROVE  attacker'[e] \notin {covered'[e], notify'[e]} \cup ElementsOf(mail'[e])
      <4>1. mail[d] \in Seq(Opponents \cup {NoOne}) /\ mail[d] # << >>
        BY <3>4 DEF TypeOK, Deliver, Lose
      <4>2. /\ Head(mail[d]) \in ElementsOf(mail[d])
            /\ ElementsOf(Tail(mail[d])) \subseteq ElementsOf(mail[d])
        BY <4>1 DEF ElementsOf
      <4>3. covered' = covered
        BY <3>4 DEF Deliver, Lose
      <4>4. notify'[e] = notify[e] \/ (e = d /\ notify'[e] = Head(mail[d]))
        BY <3>4 DEF Deliver, Lose, TypeOK
      <4>5. mail'[e] = mail[e] \/ (e = d /\ mail'[e] = Tail(mail[d]))
        BY <3>4 DEF Deliver, Lose, TypeOK
      <4> QED BY <2>1, <3>1, <4>2, <4>3, <4>4, <4>5
    <3> QED BY <3>2, <3>3, <3>4 DEF Next, Report, TaggedVehicles, vars
  <2>3. Split'
    BY <2>1 DEF Settled, Split
  <2>4. Settled'
    BY <2>1, <2>2, <2>3 DEF Settled, Pressed, Priority, ElementsOf
  <2> QED BY <2>1, <2>4
<1> QED BY <1>1, MarkingIsKept, PTL DEF Spec
===============================================================================
