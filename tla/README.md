# moos-ivp-aquaticus in TLA+

Aquaticus is a game of capture the flag between two teams of robots and people
on the water.  This directory holds TLA+ models of the programs that referee
the game and of those on a robot that decide by it, the TLC runs that check
them on small instances, and theorems about them that TLAPS proves for
every instance.

Paths below are relative to `src/moos-ivp-aquaticus/src/` unless they start
with `src_` (then to `src/moos-ivp-aquaticus/`) or `missions/`.

## 1. The system

Every program is a MOOS application: a process connected to the MOOSDB of its
community (the shoreside computer, or one vehicle).  The MOOSDB is a publish
and subscribe server; `pShare` (or `uFldShoreBroker`) forwards chosen variables
between communities, without acknowledgement.  Within an application one
thread alternates between `OnNewMail`, which handles the messages that have
arrived in their order, and `Iterate`, called at `AppTick`.  So nothing runs
concurrently *within* an application (uFldZoneEvent is the exception); all
that is hard comes from

* several applications that each know, by mail, an older state of the others;
* messages that are posted only on a change, only once, or in the middle of a
  handler;
* long sequences of legal messages, and maps that are updated by one
  handler and trusted by another;
* time: intervals between tags, the duration of a tag, stale commands;
* on a vehicle, a driver that blocks, and a link that loses messages.

    vehicles --NODE_REPORT, TAG_REQUEST--> uFldTagManager --FLAG_RESET, TAGGED_VEHICLES--> uFldFlagManager
                                                 ^------------- UNTAG_REQUEST ---------------------'
    shoreside --TAGGED_VEHICLES, RED_SCORES, NODE_REPORT--> pAquaticusStateMgr, BHV_Defense_Multi --MULTI_NOTIFY--> team mate
    helm --DESIRED_THRUST, DESIRED_RUDDER, ..._L, ..._R--> iM200 --PYDIR over TCP--> motors
    pRangeEvent (robot) --TAG_REQUEST--> uFldTagManager <--UNTAG_REQUEST-- uFldZoneEvent
    player --speech--> uDialogManager --NODE_MESSAGE (radio)--> ACTION --> helm of the robot
                       pZoneTrackOpponents --AGGRESSIVE--> pAuthority --^   ^--> pReliable

### Inventory of what is modelled

**uFldTagManager** (`uFldTagManager/TagManager.cpp`), the referee of tags.
*State*: the last report of each vehicle, the queue of tag requests, for each
vehicle whether it is tagged, why, since when, when it last tagged, what it
was last told; the list of captives posted last.
*Operations*: node report, tag request, untag request, the switch
`UFTM_OZONE_TAGS`; `Iterate` runs `updateCanTagStates`, `processVTags`,
`checkForExpiredTags`, `checkForOutOfZoneVehicles`, `postTagSummary`, in this
order, each posting as it goes.
*Hard*: four places tag or untag a vehicle; a request keeps the position it was
made at and is judged later; a batch is judged one by one; CANTAG is computed
by a second copy of the rules.
*Correct when*: tag, reason, time and posts agree; captives tag nobody; tags
end on time and always end; nobody is at large outside the field; the list
misses no captive; and all steps obey the rules of the game.

**uFldFlagManager** (`uFldFlagManager/FlagManager.cpp`), the keeper of flags and score.
*State*: owners of flags, grabs and goals of a team, who is home or near a
flag, the captives it was told of, what it posted.
*Operations*: node report, grab request, FLAG_RESET (by vehicle, by label, all),
TAGGED_VEHICLES; `Iterate`: flag range, goals, untagging at home, score.
*Hard*: ownership changes at four places, with three kinds of posts each; the
posted score is invalidated at two and refreshed at a third; release is asked
for on an edge.
*Correct when*: HAS_FLAG and posted score show the state; the summary follows the
owners; a goal costs a grab; a carrier at home scores; the leader posted is ahead.

**The two together**, on the shoreside, as `missions/` wires them: a tag posts
`FLAG_RESET = vname=$TARGET` at once, TAGGED_VEHICLES follows at the end of the
Iterate, UNTAG_REQUEST goes back when a captive arrives home.
*Hard*: a grab request handled between two of these messages; a release that
is asked for while the tag changes.
*Correct when*: the list that uFldFlagManager has catches up with the one
posted; captives are on it; captives that return are released; captives hold
no flag.

**BHV_Defense_Multi** (`lib_behaviors-aq/BHV_Defense_Multi.cpp`), the helm behavior
of two defenders of one flag, fed by **pNodeReportParse**.
*State*: the opponents met, the attacker marked and its position, whom the team
mate covers.
*Operations*: `onRunState`, over what the info buffer holds.
*Hard*: two defenders choose by messages that are late or lost; the attacker
outlives the reports it was chosen by; lists of different length.
*Correct when*: the marked attacker is near as last reported; one of the two,
and only one, yields; under siege both end with attackers of their own; a
free attacker is not ignored; without an attacker the post is held.

**pAquaticusStateMgr** (`pAquaticusStateMgr/AquaticusStateMgr.cpp`), the watch over a
vehicle's own zone.
*State*: reports, captives, the maps of intruders, scores, what it posted.
*Operations*: mail of five kinds, `Iterate`.
*Hard*: entries of the maps survive events that the loop skips.
*Correct when*: only opponents are named; the nearest is intercepted; the alarm
follows the reports.

**iM200** (`src_vehicles/iM200/M200.cpp`), the driver of the motors.
*State*: commands and their times for two thrust modes, all-stop, staleness,
the connection.
*Operations*: six kinds of mail; `Iterate` checks staleness, computes the
motors, sends, and blocks in `recv()`.
*Hard*: the mode changes at any time; motor values are derived and commanded
state at once; corrections that feed into each other; a silent helm; a dead
socket.
*Correct when*: stale mode stops the motors; a change of mode carries nothing
over; a turn has precedence over speed; what is sent is capped.

**pRangeEvent** (`pRangeEvent/RangeEvent.cpp`) on a robot and **uFldZoneEvent**
(`uFldZoneEvent/ZoneEvent.cpp`) on the shoreside: a game without buttons, as in
`missions_devel/demo_competition`.  The first posts a tag request per Iterate for
every contact in range, the second an untag request for every report from a zone of
the vehicle's own group.
*State*: the host's position and the contacts in range; the zones.
*Operations*: reports of contacts and of the host, `Iterate`; reports.
*Hard*: each application, and the referee, knows the vehicles by reports of its
own; contacts are re-examined only by reports; requests are repeated without end.
*Correct when*: an enemy that stays in reach is tagged; a captive that stays at
home is freed for good; a chaser that keeps away falls silent; whatever is
requested, the rules are kept.

**uDialogManager** (`src_voice/uDialogManager/DialogManager_5_0.cpp`), by which a
player commands a robot; **pZoneTrackOpponents**
(`pZoneTrackOpponents/ZoneTrackOpponents.cpp`), **pAuthority** and **pReliable**
(`src_devel/`) on the robot, as in `missions_devel/aquaticus-USMA`.
*State*: the open question, its command and attempts; last reports of
opponents; the text of the last AGGRESSIVE and whether the robot may decide; whether
it is reliable and the last order.
*Operations*: a sentence; a report, `Iterate`; AGGRESSIVE, SELF_AUTHORIZE; RELIABLE, ACTION.
*Hard*: a question is open without limit and anything heard is an answer; one
variable is written by four programs, one of which reads what it wrote; an
intrusion is an edge of a text that others write too.
*Correct when*: a command is sent once and only if its own question was confirmed in
two answers; an unreliable robot does the opposite of the last order; every
intrusion is answered.

### Components not modelled

`PROJECT.json` lists each with its reason.  In short: BHV_Cover is planned (section 8).  lib_bhv_colregsV23, lib_avk and the polygon
code decide by real-valued geometry.  GPS, compass, serial, joystick, LED,
voice and microphone programs convert data or do pure I/O.  `src_attic` is not
built.  uSimM200 is the environment of iM200.

## 2. The modules

| module | models | state and actions |
|---|---|---|
| `TagRules` | what the referee promises (abstract) | where vehicles are, who is free, who may tag; `Move`, `Wait`, `Hit`, `Stray`, `Release` |
| `TagManager` | uFldTagManager | one action per kind of mail; one per pass of `Iterate`, in the order that `pass` keeps; one per request of `processVTags` |
| `FlagManager` | uFldFlagManager | one action per kind of mail; `FlagIterate` is the whole of `Iterate` |
| `TagFlagGame` | both in one shoreside | extends the first, instances the second, adds vehicles that move and the mail between the two |
| `DefenseMulti` | BHV_Defense_Multi twice, pNodeReportParse, MULTI_NOTIFY | `Report`, `TaggedVehicles`, `Deliver`, `Lose`, `OnRunState` |
| `AquaticusStateMgr` | pAquaticusStateMgr | one action per kind of mail, `Iterate` |
| `M200` | iM200 | one action per kind of mail; `SendCommands` and `Receive` are the two halves of `Iterate`; `Disconnect`, `Tick` |
| `RangeEvent` | pRangeEvent | `OnNodeReport`, `OnNodeReportLocal`, `PublishEvents`; `TakeEvent` is the reader of its posts |
| `ZoneEvent` | uFldZoneEvent | `OnNodeReport`; `TakePost` is the reader of its posts |
| `AutoTag` | a robot with the first, a shoreside with the second and uFldTagManager | extends TagManager, instances both, adds vehicles that sail and reports handed to each application on its own |
| `Confirmation` | what the dialog promises (abstract) | the command asked about, chances left, commands sent |
| `DialogManager` | uDialogManager | `Hear`, which is one of `TriggerCommandSequence`, `TriggerAckSequence` |
| `ZoneTrackOpponents`, `Authority`, `Reliable` | the programs of these names | an operator per handler, what an Iterate says or a message makes it post |
| `RobotCommand` | a commanded robot | extends DialogManager, instances the three, adds their mail, the radio, the shoreside and ACTION |
| `MC...` | the instances for TLC | positions, groups, commands |
| `...Proofs` | theorems and their proofs | |

Each variable names the member it stands for in the comment beside it, and
`PROJECT.json` (`map`) gives the lines of every definition.  A definition
marked `Bug` is a plausible mistake in the definition that follows it; each
property is shown to be violated when that mistake is made, so that no
property holds whatever the code does.

### Conventions and abstractions

* **Names** of vehicles in TagManager are numbers, their rank in the order of
  `std::map`, because the nearest target at equal distance is the first by
  name and posts of one pass come in that order.  Elsewhere they are model values.
* **Positions** are points of a small set with a distance function and zones as
  sets: any geometry is an instance.  In DefenseMulti a position is its
  distance from the flag, in AquaticusStateMgr it is known only to be inside
  or not and how far from the high value point.
* **Time stamps** are ages, saturated at (M200: one above) the interval they are
  compared with; "never" is the saturated age.  `Elapse` is the set of steps
  the clock may make between two Iterates; 0 stands for a fraction of a unit.
  In `M200` time is an action of its own because Iterate blocks.
* **Passes** of uFldTagManager are separate steps, because each posts and other
  applications see the posts before the next pass; mail is handled only between
  Iterates.  `FlagIterate` is one step, because within it nothing is read
  that another application can change.
* **M200**: motor values are integers in units of 1/MAX_THRUST of a percent, so
  that scaling is exact.  `heard` is a history variable; no action reads it
  except to set it.  `conn` is "invalid" if the first connection failed (Send
  returns early), "lost" when it broke (the code goes on without noticing).
* **What is uninitialised** in the code is arbitrary in the model: `direct`
  and `conn` in M200, both scores in AquaticusStateMgr, and the read past the
  end of `m_opp_list` in DefenseMulti, which may match or not.

## 3. The runs

"violation" runs show where the program does not do what its documentation or
comments say; the last column of the table says what the run shows.

| run | instance | shows |
|---|---|---|
| `tag_raid` | a raider of each team and a vehicle of no team near both, which leaves the field; interval 1, duration 2, two requests to an Iterate | every pass keeps tag, reason and posts in step; captives tag nobody, by a request of the batch that tagged them either; no tag is overdue; the field is policed; every captive is listed; every step is allowed by `TagRules`; CANTAG and processVTag agree |
| `auto_tag` | a chaser with pRangeEvent, a runner, a zone round the flag of each; interval and duration 2; fair | tags end; enemies that stay in reach are tagged; captives that stay at home are freed; distant chasers fall silent |
| `flag_rivals` | a vehicle of a team each, three flags of which two can be taken at once, every kind of mail; fair | the posted score is current, the summary but for a reset by vehicle and label; nobody believes in a flag it has not; goals cost grabs; the leader is ahead; a carrier that stays home scores |
| `game_raid` | both applications, a raider that moves and a defender that stays, two messages under way each way; fair | the list catches up; captives are listed; a listed captive that arrives home and stays is released |
| `game_captive_grab` | the same, violation | a grab between FLAG_RESET and TAGGED_VEHICLES gives a captive a flag |
| `defense_view` | one opponent that comes and goes, one at the limit, a list of captives longer than `m_opp_list` | the list of opponents is a map; the attacker is in view; priority stands firm |
| `defense_siege` | two attackers, messages late or lost; fair | the defenders split |
| `defense_hidden` | both opponents near, one perhaps captive; violation, fair | one captive hides a free attacker for ever |
| `watch_zone` | two opponents over all positions and captivities, a team mate in the zone; fair | only opponents are named; the nearest is intercepted; the alarm settles; released contacts that left are forgotten |
| `watch_captive` | one opponent perhaps captive; violation, fair | the stale entry of a captive is intercepted instead of a free intruder |
| `robot_command` | a command to confirm, one that needs no confirmation, any sentence at any time, a radio that loses, one opponent, a shoreside that switches both conditions | commands are confirmed; an unreliable robot inverts; intrusions are answered |
| `motor_modes` | thrust and rudder below and beyond their limits, both modes and their changes, all-stop, silence, broken connections; fair | stale mode stops the motors; nothing outlives a change of mode; the turn is kept; when the helm falls silent the motors stop for good |

A run under a fair specification checks its safety properties too: fairness excludes no finite behavior.

### Bounds, and why they are enough

* **Vehicles.**  The rules of tags and flags relate at most a tagger, its target
  and a nearer or equally near rival: two or three vehicles show all of it.
  For grabs of several flags at once a third, neutral flag is needed.
* **Positions.**  `Waters` lets a vehicle be home, in reach of its target, in
  the other zone and off the field, at range and one beyond.
* **Intervals** of 1 and 2 with steps of 1 separate "not yet", "exactly" and
  "over".  In `flag_rivals` steps of 1 and 3 fall short of the interval of 2 between
  scores and pass over it.  In the composition `Elapse = {0}` with tag_duration 1: no tag
  expires, so releases can only come from home, which is what `ReturnIsRewarded` is
  about (with expiry it would hold for the wrong reason).
* **MixedCase = {2}** in `game_raid`: the defender never leaves, so that its release is of no interest.
* **MaxPending = 2**: two requests of one batch are where one can tag the author of the other.
  One in the compositions.
* **MaxEvents = 1** in `auto_tag`: pRangeEvent posts the same request at every Iterate, and
  its reader may take it at any time; that one more is under way changes nothing that the
  properties speak of, as the referee judges what it takes by the reports it has.  Interval and
  duration of 2 let a request come too soon, and a tag run out, or not, on the way home.
* **MaxPosts, MaxTold, MaxOrders** in `robot_command` bound the commands that wait for the
  radio and the mail of pAuthority and of pReliable: an answer of pReliable and an order that came
  after it are two.  Writers wait for room, so that no message but those on the radio is lost.
* **MaxGrabs** bounds the grabs of a team and so goals; it is a guard of
  `FlagGrab` only.  Two let one vehicle take two flags at once, or score and
  take another; one in the composition, where the grab matters and not the score.
* **MaxInTransit, MaxMail** bound mail.  `TagIterate` and `FlagIterate` wait for
  room; two are a FLAG_RESET and the list of captives that follows it, and the two
  UNTAG_REQUESTs of one arrival.  In `DefenseMulti` what does not fit is lost, as mail there may be anyway.
* **Commands** of M200 are such that each motor overflows at either end, alone
  and with the other; Threshold and Grace of 1 separate a fresh, a just
  acceptable and a stale command, and a stamp that lies in the future.
* **Captivities, TaggedLists** contain every set, or the two lists that the case needs.
* **Scores, Garbage** (of the uninitialised scores): only WINNING depends on them, of which section 4 has a theorem; they do not vary in the runs.

### Fairness, and why the code justifies it

* `WF(Iterate)` everywhere: MOOS calls Iterate at AppTick, whatever mail arrives.
  In TagManager it includes the passes, which nothing can stop once begun.
* In `GameFairSpec` mail to uFldFlagManager is weakly fair: it can be handled at
  any time.  Mail to uFldTagManager is strongly fair: it can be handled only between
  Iterates, and OnNewMail runs before each of them with all that has arrived.
  Reports need not arrive.
* `AutoFairSpec` is the same for `auto_tag`, and there reports do go on arriving: pNodeReporter
  posts them at its AppTick.  That the release of a captive needs its report to reach uFldZoneEvent *and*
  uFldTagManager is why both are assumed.  Vehicles need not sail.
* `robot_command` has no fairness condition.  `IntrusionsAreAnswered` speaks of behaviors in which
  pZoneTrackOpponents goes on reporting both verdicts.  Its reports need room in the mail of
  pAuthority, which `MaxTold` bounds, so that in such behaviors pAuthority goes on reading: the
  liveness of the reader comes from the bound on its mail and stands for the MOOS loop, which
  reads all mail before each Iterate.  Nothing is said of a pAuthority that stops while reports go on.
* `DefenseMulti`: the helm runs for ever; `SF(Deliver)`: of infinitely many messages
  some arrive.  Any number may be lost.
* `M200`: time passes and the front seat goes on talking, which makes `recv()`
  return.  Without the latter the driver hangs in `recv()` (a hazard the project lists), and
  `SilenceStopsMotors` is false.
* Nothing is assumed of players: nobody has to move, request or grab.

All specifications but these can stop at any point.  No run disables deadlock checking.

## 4. What is proved

TLAPS proves the following for all values of the constants, from the
assumptions named `...Assumption` in the modules (well-typed constants and
distinct names; nothing about sizes, intervals or geometry) and from the hypotheses
given with a theorem.

* `TagManagerProofs`: `TypeCorrect`, `BookkeepingIsInvariant`, `CaptivesAreHarmless`,
  `NoTagIsOverdue`, `FieldStaysPoliced`, `TagsStayAnnounced`, `CanTagIsHonest`;
  `TagManagerFollowsRules`: uFldTagManager implements `TagRules`; and
  `TagsAreNotRenewed`, the safe half of `TagsAreReleased`.
* `FlagManagerProofs`: `FlagTypeCorrect`, `NoOwnerIsHidden`, `SummaryStaysCurrent`,
  `PostedScoreStaysCurrent`, `NoFlagIsImagined`, `GoalsArePaidFor`, `LeaderStaysAhead` (if there
  are two flags: with none or one AQLEADER starts as "tie" and the loop that decides it has
  nothing to compare), `HomeRunsCount` and, liveness, `HomeRunsScore`.
* `TagFlagGameProofs`: `GameRunsTagManager` and `GameRunsFlagManager`, that the
  composition implements either application; hence `GameObeysRules`, `GameKeepsScore` and
  `GameLeaderIsAhead`, their theorems carried over; `GameSummaryIsCurrent`; `ListAlwaysCatchesUp`, `CaptivesGetListed`,
  `CaptivesGrabInTransitOnly`.
* `DefenseMultiProofs`: `MarkingTypeCorrect`, `OppListStaysAMap`, `ListIsComplete`,
  `AttackerStaysInView`, `PriorityIsFirm`, `SplitIsFirm`.
* `AquaticusStateMgrProofs`: `WatchIsKept`, `WatchTypeCorrect`, `FriendsAreSafe`,
  `NearestIsChosen`, `WinningIsAboutTheOthers` and, liveness, `AlarmComesToRest`,
  `MemoryIsCleared`, `OnlyStaleEntriesMislead`.
* `M200Proofs`: `TypeCorrect`, `StaleMotorsStop`, `SwitchIsSafe`, `TurnHasPrecedence` and,
  liveness, `SilenceIsNoticed`.
* `AutoTagProofs`: `AutoRunsTagManager`, that the game without buttons runs uFldTagManager,
  hence `RobotsFollowTheRules`, that it implements `TagRules`, and `RobotsKeepInvariants`;
  `CaptivesEarnReleases` and, liveness, `HomeFreesCaptives` (for zones that do not overlap, as
  in all missions).
* `RobotCommandProofs`: `CommandsAreConfirmed`, that the commanded robot implements
  `Confirmation`, and `UnreliableInverts`.

Every invariant and every action property of a passing run is the statement of one of these
theorems, and both refinements are proved.

### The arguments

*TagManager.*  None of the invariants but the types is a matter of single steps.  That no
tag is overdue after the expiry pass needs to know that a tag made later in the
Iterate has age 0, which the boundary pass gives; that who tags stays
free and is no captive of an earlier request of its batch needs that only
processVTag gives a tag to an enemy, to one of another group, and that a reason is on
record for captives only (`TagBookkeeping`); that every captive is listed between Iterates
needs that only an untag request changes tags then.  Each invariant names the
passes at which it holds, and in that form is inductive given the types; each has
one step per action.  The refinement maps a pass that
handles one request to `Hit` or a stutter, expiry to `Release`, the boundary
pass to `Stray`; `Hit` needs that the nearest target is in the tagger's zone
*by its record*, which is where the code takes it from.

*FlagManager.*  `SummaryFollowsOwners` rests on `OwnersAreShown`, which a summary that fell behind
keeps, since resets make no owner and a grab posts all owners.  `GoalsCostGrabs` speaks of cardinalities of carriers; the proof
shows that a grab adds one carrier for at least one grab and that a goal turns a
carrier into a goal, using that owners are vehicles and a vehicle belongs to one team.
`HasFlagIsTold` is one half of an equivalence: a vehicle that was told it has a
flag has one.  The converse fails, see section 6.
`LeaderIsAhead` is about the loop over `m_flags` that compares the scores of teams.
Its function is defined by recursion over the flags compared so far; the proof is an induction
over the rounds, with the set of the rounds at which the claim holds in place of a
predicate (`FiniteInduction`), since the library's induction theorems take a predicate as
parameter.  The claim is `LeadersHaveTheMost`: the loop ends
with exactly the flags whose teams have the most goals, and with that number.

*TagFlagGame.*  `ListCatchesUp` is about the *last* list under way: a lemma on
sequences says what appending resets, and then perhaps a list, does to it.
`CaptivesAreListed` then follows from `TagsAreAnnounced`, inherited.
With it the finding of `game_captive_grab` is confined: by `CaptivesGrabInTransitOnly` a captive gets a flag
only while uFldTagManager's Iterate goes on or a list is under way; a list that was read
bars its captives.  The theorems of uFldFlagManager are taken over by an
instance of its proof module (`FP`), whose assumptions the proofs derive from those of the game.

*DefenseMulti.*  The inductive invariant `Marking` joins the types with `OppListIsAMap`: an
attacker's distance is a number only if the attacker was reported, and the list that the
attacker is taken from holds reported opponents only if each run adds exactly those
it does not hold, which is followed round by round as above.  `ListIsComplete` says what
a run makes of the list.  `SplitIsFirm` is the safe half of `DefendersSplit`: once two
defenders have attackers of their own, and both attackers press on, no message, early, late or
lost, makes either of them change.

*AquaticusStateMgr.*  The inductive invariant `Watch` says that memory, track and posts name
opponents only, that entries of the maps are positions in the zone, and
that a contact is tracked only while the alarm is raised.  `NearestIsChosen`
shows that with no captive in the maps, entries are exactly the free
intruders, and that the code's comparison of the first two then covers all.
`WinningIsAboutTheOthers` needs that the two scores hold what was told last.

*AutoTag.*  Each action of the composition is an action of TagManager or leaves it
alone: requests and releases arrive where it accepts them, and what a vehicle
that it does not know requests is dropped.  All that was proved of uFldTagManager
then holds whatever the robots ask for and however late.
`CaptivesEarnReleases` adds what its own specification cannot say, who requests
releases: uFldZoneEvent's posts are always for vehicles of the zone's group, and each is used once.

*RobotCommand.*  The dialog is mapped to `Confirmation` by hiding the command that
`m_commanded_string` still holds when no question is open; each sentence is
one abstract step or none, and needs that an open question has 0 or 1 wrong
answers.  `UnreliableRobotInverts` is no invariant of single steps: pReliable may have
orders to read, answers of its own on the way, and a switch of reliability between.
The strengthening says where the last order is: unread, or in
`m_action_state`; and what ACTION holds meanwhile.

*M200.*  `SwitchIsSafe` needs the invariant that before the first command of a
mode every command that this mode heeds is zero.  `TurnHasPrecedence` is
arithmetic: for all integers with `|a + b| <= 2m` the four corrections keep
`L - R` at the clamp of `a - b` to `2m`; that the sum is bounded is what clamping
thrust first is for.

*Liveness.*  TLAPS cannot reason about ENABLED, so the theorems do not assume `WF` and `SF`
but what these say once ENABLED is worked out: steps that change something are
taken again and again, or again and again there is nothing to change (strong
fairness: in the end there is nothing to change).  The hypotheses are definitions beside the theorems:

| theorem | hypotheses | why the code justifies them |
|---|---|---|
| `HomeRunsScore`, `AlarmComesToRest`, `MemoryIsCleared`, `OnlyStaleEntriesMislead` | `FlagIteratesGoOn`, `IteratesGoOn` | MOOS calls Iterate at AppTick, and Iterate has no guard |
| `SilenceIsNoticed` | `DriverGoesOn`, `CommandsGrowOld` | as in `FairSpec` of M200: Iterates, an answering front seat, passing time |
| `HomeFreesCaptives` | `ZonesHearOf`, `RefereeHearsOf`, `RefereeServes`, `IteratesEnd` | as in `AutoFairSpec`; an Iterate handles a finite batch |

`CommandsGrowOld` and `IteratesEnd` do count something, up to an interval or
down a batch, which is why they are hypotheses and not consequences of
fairness; in the instances of `auto_tag` and `motor_modes` TLC finds all of the last two rows to follow from the fair specifications.

The proofs then are of one kind: what a fair step brings about, what no step undoes, and
the temporal logic of the two.  `OnlyStaleEntriesMislead` bounds the finding of `watch_captive`: with
no entries of captives in the maps from some time on, the lone intruder is intercepted for good.

## 5. What is only model-checked

Liveness that counts all the way: `TagsAreReleased` (the age of a tag must grow to its duration;
`TagsAreNotRenewed` proves that it never falls, grows with the clock and is not spared at the end,
which is all but the counting), `ReachedEnemiesAreTagged` (an interval must pass
before a request is granted), `DistantChasersFallSilent` (any number of contacts and of requests),
`IntrusionsAreAnswered` and `ReturnIsRewarded` (a message gets to the head of a queue),
`DefendersSplit` (two defenders that each wait for the other's message, of which any number
may be lost).  A temporal induction over a number or a sequence takes a formula with a
parameter, which is outside what the installed provers instantiate.

The properties of the violation runs are false, of course; what holds in their
place is proved for two of them (`CaptivesGrabInTransitOnly`, `OnlyStaleEntriesMislead`).

## 6. Where the program and its documentation part

The first three are shown by a violation run each, with the quoted lines in
`PROJECT.json`, the fourth by a theorem.

1. `game_captive_grab`: a grab request between FLAG_RESET and TAGGED_VEHICLES is granted to a captive, and nothing takes the flag back.
2. `defense_hidden`: the inner loop of the choice of an attacker hides the outer index; one captive can hide every opponent.
3. `watch_captive`: the entry of an intruder tagged inside the zone stays, and the captive is intercepted in place of a free intruder.
4. `WinningIsAboutTheOthers`: `m_self_team` is the opposing force for contacts and the own team for scores; WINNING is inverted.

The models contain these too.  They are listed as hazards, and the properties are
stated so as to allow for them:

* A FLAG_RESET with a vname and a label posts FLAG_SUMMARY and the markers only if the label's flag
  was reset (`FlagManager.cpp:515` overwrites what line 511 has stored), although "visuals then need
  updating" (line 866 f.) for the flags of the vehicle too.  The summary then shows an owner where there is
  none until the next change.  `SummaryFollowsOwners` confines it to such resets, and
  `GameSummaryIsCurrent` shows that the resets of the missions, by vehicle, never do so.
* `resetFlagsByLabel` tells a vehicle HAS_FLAG=false although it has another flag
  (`FlagReset` with three flags), so that only `has_flag[v] => HasFlag(v)` holds.
* A vehicle that is home when it is tagged (home may reach over the boundary) is
  not released for being home: the release is asked for on arrival, and so is
  `ReturnIsRewarded` worded.  The same goes for captives whose names have capitals.
* `m_oppX`, `m_oppY` of an attacker that was given up are still steered by;
  `AttackerIsInView` speaks of them only while there is an attacker.
* Direct thrust is not capped by MAX_THRUST; the bound in `TypeOK` of M200 says so.
* Commands that were never positive do not arm the stale check; `SilenceStopsMotors`
  speaks of the armed check.
* A contact that falls silent stays in pRangeEvent's list; `DistantChasersFallSilent`
  assumes that contacts go on reporting.
* "false" is not "FALSE" to pAuthority: AGGRESSIVE as the helm and the shoreside set it
  swallows the edge of an intrusion; `IntrusionsAreAnswered` is about the others.
* An answer of pReliable that comes late replaces an order that has no opposite (PROTECT,
  SHIELD); `UnreliableRobotInverts` is about orders that have one.
* The robots of aquaticus-USMA give pZoneTrackOpponents a `zone`, which its Iterate does not
  look at: the corners it compares with stay uninitialised, and `Area` is any set.

## 7. What the models leave out

* uFldTagManager: the counters of a vehicle, the configured posts for refused
  requests, the CANTAG summary strings, markers and rings for the viewer, configuration.
* uFldFlagManager: FLAG_GRAB_REPORT and the posts of a denied grab with their
  counters, near and away posts, markers, the heartbeat, configuration.
* BHV_Defense_Multi: where the post is (geometry), the objective function,
  reports without name or position; a read past the end of a list may match or
  not, and is not taken to crash.
* pAquaticusStateMgr: the polygon, state that only the report shows, configuration.
* pRangeEvent, uFldZoneEvent: the text of the posts, further posts of the same events (for debugging, FLAG_RESET),
  and the list of vehicles in zones, shown on the screen only, that two threads share.
* uDialogManager: wording, conversation, nicknames and confidence.
* pZoneTrackOpponents: the contact to intercept, chosen only with a high value point, which
  the commanded robot does not configure; the code is that of pAquaticusStateMgr without captives.
* RobotCommand has one robot and one player; DEPLOY, RETURN and the other variables
  that commands post beside ACTION are left out.
* iM200: NMEA in and out, publishing, counters, configuration; there is
  nothing in the code that reconnects.

## 8. Plan

Done: TagRules, TagManager, FlagManager, TagFlagGame, DefenseMulti, AquaticusStateMgr, M200,
AutoTag with RangeEvent and ZoneEvent, RobotCommand with DialogManager, Confirmation,
ZoneTrackOpponents, Authority and Reliable, each with its proofs.

Next, in this order:

1. Theorems: the safe half of `ReturnIsRewarded` (the request to release a captive that arrived
   home is under way, or was taken, until it leaves) and of `IntrusionsAreAnswered` (an edge of
   AGGRESSIVE that is posted is read as an edge).
2. Orders without an opposite in RobotCommand: what a late answer replaces, and for how long.
3. `Cover`, with the pairing of DefenseMulti.

## 9. Running it

    tlc -workers 2 -config TagManagerRaid.cfg MCTagManager
    tlapm TagManagerProofs.tla

`PROJECT.json` (`runs`) names the module and configuration of every run; each ends within a few minutes.
