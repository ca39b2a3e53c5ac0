---------------------------- MODULE World_proofs ----------------------------
(***************************************************************************)
(* Proofs about what a TypeScript strategy knows: its own robots            *)
(* (OwnRobots), for any robots, delays and times, the rest of the world     *)
(* (WorldView), for any robots, places and number of objects, and the       *)
(* geometry of Field, for a field of any size.                              *)
(***************************************************************************)
EXTENDS OwnRobots, MCWorldView, TLAPS

(***************************************************************************)
(* OwnRobots.                                                               *)
(***************************************************************************)
USE OwnRobotsAssumption DEF None, Times, Inputs

\* What setStandby makes of a robot.
LEMMA AskedFacts ==
    ASSUME NEW x \in RobotStates, NEW now \in Times
    PROVE  /\ Asked(x, now) \in RobotStates /\ Asked(x, now).tick
           /\ Asked(x, now).timer = IF x.timer = -1 THEN now ELSE x.timer
           /\ Asked(x, now).input = x.input /\ Asked(x, now).move = x.move
<1>1. x.timer \in Times \cup {-1} /\ (x.timer < 0 <=> x.timer = -1)
  BY DEF RobotStates
<1>2. (IF x.timer < 0 THEN now ELSE x.timer) \in Times
  BY <1>1
<1> QED BY <1>1, <1>2 DEF RobotStates, Asked

LEMMA ClearedFacts ==
    ASSUME NEW x \in RobotStates
    PROVE  /\ Cleared(x) \in RobotStates /\ Cleared(x).tick = FALSE
           /\ Cleared(x).timer = IF x.tick THEN x.timer ELSE -1
           /\ Cleared(x).input = x.input /\ Cleared(x).move = x.move
  BY DEF RobotStates, Cleared

\* What a frame starts with.
LEMMA UpdateRobotsFacts ==
    ASSUME NEW x \in RobotStates, NEW now \in Times, NEW dragged \in BOOLEAN
    PROVE  LET u == UpdatedRobot(x, now, dragged)
           IN  /\ u \in RobotStates
               /\ u.tick = FALSE
               /\ u.timer = IF x.tick THEN x.timer ELSE -1
               /\ u.move # None => 0 <= now - u.move /\ now - u.move <= MoveCache
<1> DEFINE c == Cleared(x)
           m == IF dragged THEN now ELSE IF Expired(c.move, now) THEN None ELSE c.move
<1>1. /\ c \in RobotStates /\ c.tick = FALSE
      /\ c.timer = (IF x.tick THEN x.timer ELSE -1)
  BY ClearedFacts
<1>2. UpdatedRobot(x, now, dragged) =
        [c EXCEPT !.input = "halt", !.kick = FALSE, !.move = m]
  BY DEF UpdatedRobot
<1>3. m \in Times \cup {None} /\ (m # None => 0 <= now - m /\ now - m <= MoveCache)
  <2>1. c.move \in Times \cup {None}
    BY <1>1 DEF RobotStates
  <2> QED BY <2>1 DEF Expired
<1> HIDE DEF c, m
<1> QED BY <1>1, <1>2, <1>3 DEF RobotStates

-----------------------------------------------------------------------------
\* A frame has a time, and only while it lasts do robots count as halted.
Framed == script = "running" => Time \in Times

\* The tick is the strategy's last word, and a robot that is asked to stand by has
\* a timer.
TickIsAsked == \A r \in Robots :
    robot[r].tick = asked[r] /\ (robot[r].tick => robot[r].timer \in Times)

\* A timer was started in this frame, or not before the first of the frames in a
\* row that ended with the robot asked to stand by.
TimerInRun == \A r \in Robots : robot[r].timer # -1 =>
    /\ Time \in Times
    /\ robot[r].timer = Time \/ (run[r] # None /\ run[r] <= robot[r].timer)

\* In a frame, the move commands that are there are fresh.
MovesAreFresh == script = "running" => \A r \in Robots :
    robot[r].move # None =>
        0 <= Time - robot[r].move /\ Time - robot[r].move <= MoveCache

\* What is left of a halt is the halt, for robots that are not dragged.
HaltsAreKept == script = "running" => \A r \in halted :
    robot[r].move = None => robot[r].input = "halt" /\ robot[r].tick

IInv == RobotsTypeOK /\ Framed /\ TickIsAsked /\ TimerInRun /\ MovesAreFresh /\ HaltsAreKept

LEMMA RobotsInitInv == RobotsInit => IInv
<1>1. /\ NewRobot \in RobotStates
      /\ NewRobot.tick = FALSE /\ NewRobot.timer = -1
  BY DEF NewRobot, RobotStates
<1>2. ASSUME RobotsInit PROVE RobotsTypeOK
  BY <1>1, <1>2 DEF RobotsInit, RobotsTypeOK
<1>3. ASSUME RobotsInit
      PROVE  Framed /\ TickIsAsked /\ TimerInRun /\ MovesAreFresh /\ HaltsAreKept
  BY <1>1, <1>3 DEF RobotsInit, Framed, TickIsAsked, TimerInRun, MovesAreFresh,
                    HaltsAreKept
<1> QED BY <1>2, <1>3 DEF IInv

\* A new frame: the timers that go on belong to robots asked in the last one.
LEMMA UpdateInv ==
    ASSUME IInv, NEW now \in Times, NEW dragged \in SUBSET Robots,
           UpdateRobots(now, dragged)
    PROVE  IInv'
<1> DEFINE u(r) == UpdatedRobot(robot[r], now, r \in dragged)
<1>1. \A r \in Robots :
         /\ u(r) \in RobotStates
         /\ u(r).tick = FALSE
         /\ u(r).timer = IF robot[r].tick THEN robot[r].timer ELSE -1
         /\ u(r).move # None => 0 <= now - u(r).move /\ now - u(r).move <= MoveCache
  <2> TAKE r \in Robots
  <2>1. robot[r] \in RobotStates /\ (r \in dragged) \in BOOLEAN
    BY DEF IInv, RobotsTypeOK
  <2> QED BY <2>1, UpdateRobotsFacts, Zenon
<1>2. robot' = [r \in Robots |-> u(r)]
  BY DEF UpdateRobots
<1> HIDE DEF u
<1>3. RobotsTypeOK'
  BY <1>1, <1>2 DEF IInv, RobotsTypeOK, UpdateRobots
<1>4. Framed' /\ TickIsAsked' /\ MovesAreFresh' /\ HaltsAreKept'
  BY <1>1, <1>2 DEF UpdateRobots, Framed, TickIsAsked, MovesAreFresh, HaltsAreKept
<1>5. TimerInRun'
  <2> SUFFICES ASSUME NEW r \in Robots, robot'[r].timer # -1
               PROVE  run'[r] # None /\ run'[r] <= robot'[r].timer
    BY DEF TimerInRun, UpdateRobots
  <2>1. robot[r].tick /\ robot'[r].timer = robot[r].timer /\ robot[r].timer \in Times
    BY <1>1, <1>2 DEF IInv, TickIsAsked
  <2>2. asked[r] /\ (robot[r].timer = Time \/ (run[r] # None /\ run[r] <= robot[r].timer))
    BY <2>1 DEF IInv, TickIsAsked, TimerInRun
  <2>3. run'[r] = IF run[r] = None \/ Time < run[r] THEN Time ELSE run[r]
    BY <2>2 DEF UpdateRobots
  <2>4. Time \in Times \cup {None} /\ run[r] \in Times \cup {None}
    BY DEF IInv, RobotsTypeOK
  <2>5. Time \in Times
    BY <2>1 DEF IInv, TimerInRun
  <2> QED BY <2>1, <2>2, <2>3, <2>4, <2>5
<1> QED BY <1>3, <1>4, <1>5 DEF IInv

\* An order to one robot.  What the strategy throws changes nothing.
LEMMA ThrowInv == ASSUME IInv, Throws, script = "running" PROVE IInv'
  BY DEF IInv, Throws, RobotsTypeOK, Framed, TickIsAsked, TimerInRun, MovesAreFresh,
         HaltsAreKept

LEMMA SetStandbyInv ==
    ASSUME IInv, NEW r \in Robots, NEW on \in BOOLEAN, SetStandby(r, on)
    PROVE  IInv'
<1> DEFINE x == IF on THEN Asked(robot[r], Time) ELSE Cleared(robot[r])
<1>1. Time \in Times /\ robot[r] \in RobotStates /\ (robot[r].tick => robot[r].timer \in Times)
  BY DEF IInv, RobotsTypeOK, Framed, TickIsAsked, SetStandby
<1>2. /\ x \in RobotStates /\ x.tick = on
      /\ x.input = robot[r].input /\ x.move = robot[r].move
      /\ x.tick => x.timer \in Times
      /\ x.timer \in {-1, robot[r].timer, Time}
  <2>1. CASE on
    <3>1. robot[r].timer \in Times \cup {-1}
      BY <1>1 DEF RobotStates
    <3> QED BY <1>1, <2>1, <3>1, AskedFacts
  <2>2. CASE ~on
    BY <1>1, <2>2, ClearedFacts
  <2> QED BY <2>1, <2>2
<1>3. robot' = [robot EXCEPT ![r] = x] /\ asked' = [asked EXCEPT ![r] = on]
  BY DEF SetStandby
<1> HIDE DEF x
<1>4. /\ halted' \subseteq halted /\ (~on => r \notin halted')
      /\ UNCHANGED <<script, Time, run>>
  BY DEF SetStandby
<1>5. RobotsTypeOK' /\ Framed' /\ TickIsAsked'
  BY <1>2, <1>3, <1>4 DEF IInv, RobotsTypeOK, Framed, TickIsAsked
<1>6. TimerInRun'
  BY <1>1, <1>2, <1>3, <1>4 DEF IInv, RobotsTypeOK, TimerInRun
<1>7. MovesAreFresh' /\ HaltsAreKept'
  BY <1>2, <1>3, <1>4 DEF IInv, RobotsTypeOK, MovesAreFresh, HaltsAreKept
<1> QED BY <1>5, <1>6, <1>7 DEF IInv

LEMMA SetControllerInputInv ==
    ASSUME IInv, NEW r \in Robots, NEW input \in Inputs, SetControllerInput(r, input)
    PROVE  IInv'
<1>1. CASE Throws
  BY <1>1, ThrowInv DEF SetControllerInput
<1>2. CASE ~Throws
  <2> DEFINE x == [robot[r] EXCEPT !.input = input]
  <2>1. /\ robot' = [robot EXCEPT ![r] = x]
        /\ halted' \subseteq halted /\ (input # "halt" => r \notin halted')
        /\ UNCHANGED <<script, Time, asked, run>>
    BY <1>2 DEF SetControllerInput
  <2>2. /\ x \in RobotStates /\ x.tick = robot[r].tick /\ x.timer = robot[r].timer
        /\ x.move = robot[r].move /\ x.input = input
    BY DEF IInv, RobotsTypeOK, RobotStates
  <2> HIDE DEF x
  <2>3. RobotsTypeOK' /\ Framed' /\ TickIsAsked' /\ TimerInRun'
    BY <2>1, <2>2 DEF IInv, RobotsTypeOK, Framed, TickIsAsked, TimerInRun
  <2>4. MovesAreFresh' /\ HaltsAreKept'
    BY <2>1, <2>2 DEF IInv, RobotsTypeOK, MovesAreFresh, HaltsAreKept
  <2> QED BY <2>3, <2>4 DEF IInv
<1> QED BY <1>1, <1>2

LEMMA KickInv ==
    ASSUME IInv, NEW r \in Robots, NEW on \in BOOLEAN, Kick(r, on)
    PROVE  IInv'
<1> DEFINE x == [robot[r] EXCEPT !.kick = on]
<1>1. robot' = [robot EXCEPT ![r] = x] /\ UNCHANGED <<script, Time, asked, run, halted>>
  BY DEF Kick
<1>2. /\ x \in RobotStates /\ x.tick = robot[r].tick /\ x.timer = robot[r].timer
      /\ x.move = robot[r].move /\ x.input = robot[r].input
  BY DEF IInv, RobotsTypeOK, RobotStates
<1> HIDE DEF x
<1> QED
  BY <1>1, <1>2 DEF IInv, RobotsTypeOK, Framed, TickIsAsked, TimerInRun, MovesAreFresh,
                    HaltsAreKept

\* haltOwnRobots leaves the robots that are dragged.
LEMMA HaltInv == ASSUME IInv, HaltOwnRobots PROVE IInv'
<1> DEFINE h(r) == [Asked(robot[r], Time) EXCEPT !.input = "halt"]
           x(r) == IF robot[r].move = None THEN h(r) ELSE robot[r]
<1>1. Time \in Times
  BY DEF IInv, Framed, HaltOwnRobots
<1>2. ASSUME NEW r \in Robots
      PROVE  /\ h(r) \in RobotStates /\ h(r).tick /\ h(r).input = "halt"
             /\ h(r).move = robot[r].move
             /\ h(r).timer = IF robot[r].timer = -1 THEN Time ELSE robot[r].timer
  <2>1. robot[r] \in RobotStates
    BY DEF IInv, RobotsTypeOK
  <2> DEFINE a == Asked(robot[r], Time)
  <2>2. /\ a \in RobotStates /\ a.tick /\ a.move = robot[r].move
        /\ a.timer = IF robot[r].timer = -1 THEN Time ELSE robot[r].timer
    BY <1>1, <2>1, AskedFacts
  <2> HIDE DEF a
  <2>3. h(r) = [a EXCEPT !.input = "halt"]
    BY DEF a
  <2> HIDE DEF h
  <2> QED BY <2>2, <2>3 DEF RobotStates
<1>3. /\ robot' = [r \in Robots |-> x(r)] /\ halted' = Robots
      /\ asked' = [r \in Robots |-> robot[r].move = None \/ asked[r]]
      /\ UNCHANGED <<script, Time, run>>
  BY DEF HaltOwnRobots
<1> HIDE DEF h
<1>4. RobotsTypeOK' /\ Framed'
  BY <1>2, <1>3 DEF IInv, RobotsTypeOK, Framed
<1>5. TickIsAsked'
  <2> SUFFICES ASSUME NEW r \in Robots
               PROVE  /\ robot'[r].tick = asked'[r]
                      /\ robot'[r].tick => robot'[r].timer \in Times
    BY DEF TickIsAsked
  <2>1. CASE robot[r].move = None
    <3>1. robot[r].timer \in Times \cup {-1} /\ h(r).tick \in BOOLEAN
      BY <1>2 DEF IInv, RobotsTypeOK, RobotStates
    <3> QED BY <1>1, <1>2, <1>3, <2>1, <3>1
  <2>2. CASE robot[r].move # None
    BY <1>3, <2>2 DEF IInv, RobotsTypeOK, TickIsAsked
  <2> QED BY <2>1, <2>2
<1>6. TimerInRun'
  BY <1>1, <1>2, <1>3 DEF IInv, RobotsTypeOK, TimerInRun
<1>7. MovesAreFresh' /\ HaltsAreKept'
  BY <1>2, <1>3 DEF IInv, RobotsTypeOK, MovesAreFresh, HaltsAreKept
<1> QED BY <1>4, <1>5, <1>6, <1>7 DEF IInv

LEMMA NextInv == IInv /\ [RobotsNext]_robotVars => IInv'
<1> SUFFICES ASSUME IInv, [RobotsNext]_robotVars PROVE IInv'
  OBVIOUS
<1>1. ASSUME NEW now \in Times, NEW dragged \in SUBSET Robots, UpdateRobots(now, dragged)
      PROVE  IInv'
  BY <1>1, UpdateInv
<1>2. ASSUME NEW r \in Robots, NEW on \in BOOLEAN, SetStandby(r, on) \/ Kick(r, on)
      PROVE  IInv'
  BY <1>2, SetStandbyInv, KickInv
<1>3. ASSUME NEW r \in Robots, NEW input \in Inputs, SetControllerInput(r, input)
      PROVE  IInv'
  BY <1>3, SetControllerInputInv
<1>4. CASE HaltOwnRobots
  BY <1>4, HaltInv
<1>5. CASE SetRobotCommands
  BY <1>5, ThrowInv DEF SetRobotCommands, IInv, RobotsTypeOK, Framed, TickIsAsked,
         TimerInRun, MovesAreFresh, HaltsAreKept
<1>6. CASE Throw
  BY <1>6, ThrowInv DEF Throw
<1>7. CASE Reload
  <2>1. RobotsInit'
    BY <1>7 DEF Reload, RobotsInit
  <2> QED BY <2>1, RobotsInitInv, PTL
<1>8. CASE UNCHANGED robotVars
  BY <1>8 DEF robotVars, IInv, RobotsTypeOK, Framed, TickIsAsked, TimerInRun, MovesAreFresh,
              HaltsAreKept
<1> QED BY <1>1, <1>2, <1>3, <1>4, <1>5, <1>6, <1>7, <1>8 DEF RobotsNext

LEMMA RobotsInvariance == RobotsSpec => []IInv
<1>1. RobotsInit => IInv
  BY RobotsInitInv
<1>2. IInv /\ [RobotsNext]_robotVars => IInv'
  BY NextInv
<1> QED BY <1>1, <1>2, PTL DEF RobotsSpec
-----------------------------------------------------------------------------
\* The types are kept.
THEOREM RobotsTyped == RobotsSpec => []RobotsTypeOK
<1>1. IInv => RobotsTypeOK
  BY DEF IInv
<1> QED BY <1>1, RobotsInvariance, PTL

\* A timer that is old enough was started before this frame, so it is in the run.
THEOREM StandbyIsEarned == RobotsSpec => []StandbyEarned
<1>1. IInv => StandbyEarned
  <2> SUFFICES ASSUME IInv, script = "running", NEW r \in Robots,
                      robot[r].timer >= 0, Time - robot[r].timer > StandbyDelay
               PROVE  run[r] # None /\ Time - run[r] > StandbyDelay
    BY DEF StandbyEarned, Command
  <2>1. /\ robot[r].timer \in Times \cup {-1} /\ run[r] \in Times \cup {None}
        /\ Time \in Times \cup {None}
    BY DEF IInv, RobotsTypeOK, RobotStates
  <2>2. /\ Time \in Times
        /\ robot[r].timer = Time \/ (run[r] # None /\ run[r] <= robot[r].timer)
    BY <2>1 DEF IInv, TimerInRun
  <2> QED BY <2>1, <2>2
<1> QED BY <1>1, RobotsInvariance, PTL

\* A halted robot that has no move command keeps the halt, one that has it got it
\* a moment ago.
THEOREM HaltsStop == RobotsSpec => []HaltedRobotsStop
<1>1. IInv => HaltedRobotsStop
  <2> SUFFICES ASSUME IInv, script = "running", NEW r \in halted
               PROVE  \/ robot[r].input = "halt" /\ robot[r].tick /\ robot[r].timer \in Times
                      \/ 0 <= Time - robot[r].move /\ Time - robot[r].move <= MoveCache
    BY DEF HaltedRobotsStop, Command
  <2>1. r \in Robots
    BY DEF IInv, RobotsTypeOK
  <2>2. CASE robot[r].move = None
    BY <2>1, <2>2 DEF IInv, HaltsAreKept, TickIsAsked
  <2>3. CASE robot[r].move # None
    BY <2>1, <2>3 DEF IInv, MovesAreFresh
  <2> QED BY <2>2, <2>3
<1> QED BY <1>1, RobotsInvariance, PTL

HIDE OwnRobotsAssumption DEF None, Times, Inputs
-----------------------------------------------------------------------------
(***************************************************************************)
(* WorldView.                                                               *)
(***************************************************************************)
\* The numbers that an update gives to the opponents' objects.
Numbers(opponents) == [o \in Opponents |-> ObjectOf(o, DOMAIN opponents)]

\* An object in the data is the one of the last frame, or one that is newer than
\* all there were for its id.
LEMMA NumbersFacts ==
    ASSUME TypeOK, OneWorld, NEW opponents \in Sightings(Opponents),
           \A o \in Opponents : Numbers(opponents)[o] <= MaxObjects
    PROVE  /\ Numbers(opponents) \in [Opponents -> 0..MaxObjects]
           /\ \A o \in Opponents :
                 LET n == Numbers(opponents)[o]
                 IN  /\ n # 0 <=> o \in DOMAIN opponents
                     /\ n = 0 \/ n = made[o] + 1
                              \/ (n # 0 /\ n = OpponentRobotsById[o])
<1> USE WorldViewAssumption
<1>1. ASSUME NEW o \in Opponents
      PROVE  /\ Numbers(opponents)[o] \in 0..MaxObjects
             /\ Numbers(opponents)[o] # 0 <=> o \in DOMAIN opponents
             /\ \/ Numbers(opponents)[o] = 0
                \/ Numbers(opponents)[o] = made[o] + 1
                \/ /\ Numbers(opponents)[o] # 0
                   /\ Numbers(opponents)[o] = OpponentRobotsById[o]
  <2>1. OpponentRobotsById[o] \in 0..MaxObjects /\ made[o] \in 0..MaxObjects
    BY DEF TypeOK
  <2>2. Numbers(opponents)[o] = ObjectOf(o, DOMAIN opponents)
    BY DEF Numbers
  <2> QED BY <2>1, <2>2 DEF ObjectOf
<1>2. Numbers(opponents) \in [Opponents -> 0..MaxObjects]
  BY <1>1 DEF Numbers
<1> QED BY <1>1, <1>2

\* The objects listed under numbers of their range.
LEMMA ListedFacts ==
    ASSUME NEW byId \in [Opponents -> 0..MaxObjects]
    PROVE  /\ Listed(byId) \subseteq Objects
           /\ \A o \in Opponents, n \in 1..MaxObjects :
                 <<o, n>> \in Listed(byId) <=> byId[o] = n
<1>1. MaxObjects \in Nat
  BY WorldViewAssumption
<1> QED BY <1>1 DEF Listed, Objects

LEMMA InitInv == Init => TypeOK /\ OneWorld
<1> SUFFICES ASSUME Init PROVE TypeOK /\ OneWorld
  OBVIOUS
<1>1. MaxObjects \in Nat /\ 0 \in 0..MaxObjects
  BY WorldViewAssumption
<1>2. made = [o \in Opponents |-> 0] /\ OpponentRobotsById = made
  BY DEF Init
<1>3. PICK middle \in Places : pos = [r \in Own \cup Objects |-> middle]
                               /\ ball = [seen |-> FALSE, pos |-> middle]
  BY DEF Init
<1>4. /\ made \in [Opponents -> 0..MaxObjects]
      /\ pos \in [Own \cup Objects -> Somewhere]
      /\ ball \in [seen : BOOLEAN, pos : Somewhere]
  BY <1>1, <1>2, <1>3 DEF Somewhere
<1>5. TypeOK
  BY <1>2, <1>4 DEF Init, TypeOK
<1>6. Listed(OpponentRobotsById) = {}
  BY <1>2 DEF Listed
<1>7. \A o \in Opponents : OpponentRobotsById[o] <= made[o]
  BY <1>2
<1>8. OneWorld
  BY <1>6, <1>7 DEF Init, OneWorld
<1> QED BY <1>5, <1>8

\* What an update does to the objects.
LEMMA UpdateFacts ==
    ASSUME TypeOK, OneWorld, WorldUpdate
    PROVE  /\ TypeOK' /\ OneWorld'
           /\ Dropped \subseteq Dropped'
           /\ UNCHANGED <<lastTeam, lastRobot>>
<1> USE WorldViewAssumption
<1>1. PICK own \in Sightings(Own), opponents \in Sightings(Opponents),
           seen \in {{}} \cup {{p} : p \in Somewhere}, state \in {"NoTouch", "Play"},
           goalie \in OwnKeepers, theirGoalie \in OpponentKeepers :
              Update(own, opponents, seen, state, goalie, theirGoalie)
  BY DEF WorldUpdate
<1> DEFINE byId == Numbers(opponents)
<1>2. /\ \A o \in Opponents : byId[o] <= MaxObjects
      /\ OpponentRobotsById' = byId
      /\ made' = [o \in Opponents |-> IF byId[o] > made[o] THEN byId[o] ELSE made[o]]
      /\ isVisible' = VisibleAfter(byId)
      /\ FriendlyRobots' = DOMAIN own
      /\ pos' = [r \in Own \cup Objects |->
                     IF r \in DOMAIN own THEN own[r]
                     ELSE IF r \in Listed(byId) THEN opponents[r[1]]
                     ELSE pos[r]]
      /\ ball' = IF seen = {} THEN [ball EXCEPT !.seen = FALSE]
                 ELSE [seen |-> TRUE, pos |-> CHOOSE p \in seen : TRUE]
      /\ RefereeState' = state
      /\ FriendlyKeeper' = KeeperAmong(goalie, FriendlyRobots')
      /\ OpponentKeeper' = KeeperAmong(<<theirGoalie, byId[theirGoalie]>>, isVisible')
      /\ UNCHANGED <<lastTeam, lastRobot>>
  BY <1>1 DEF Update, Numbers
<1>3. byId \in [Opponents -> 0..MaxObjects]
  BY <1>2, NumbersFacts
<1>4. \A o \in Opponents : /\ byId[o] # 0 <=> o \in DOMAIN opponents
                           /\ \/ byId[o] = 0 \/ byId[o] = made[o] + 1
                              \/ (byId[o] # 0 /\ byId[o] = OpponentRobotsById[o])
  BY <1>2, NumbersFacts
<1> HIDE DEF byId
<1>5. /\ Listed(byId) \subseteq Objects
      /\ \A o \in Opponents, n \in 1..MaxObjects : <<o, n>> \in Listed(byId) <=> byId[o] = n
  BY <1>3, ListedFacts
<1>6. \A o \in Opponents, n \in 1..MaxObjects :
         <<o, n>> \in isVisible <=> OpponentRobotsById[o] = n
  BY ListedFacts DEF TypeOK, OneWorld
<1>7. isVisible' = Listed(byId)
  BY <1>2 DEF VisibleAfter, OneWorld
<1>8. made' \in [Opponents -> 0..MaxObjects] /\ \A o \in Opponents :
         made[o] <= made'[o] /\ byId[o] <= made'[o]
  <2>1. ASSUME NEW o \in Opponents
        PROVE  /\ made'[o] \in 0..MaxObjects
               /\ made[o] <= made'[o] /\ byId[o] <= made'[o]
    <3>1. made[o] \in 0..MaxObjects /\ byId[o] \in 0..MaxObjects
      BY <1>3 DEF TypeOK
    <3>2. made'[o] = IF byId[o] > made[o] THEN byId[o] ELSE made[o]
      BY <1>2
    <3> QED BY <3>1, <3>2
  <2> QED BY <1>2, <2>1
<1>9. pos' \in [Own \cup Objects -> Somewhere]
  <2>1. /\ DOMAIN own \subseteq Own /\ \A r \in DOMAIN own : own[r] \in Somewhere
        /\ \A o \in DOMAIN opponents : opponents[o] \in Somewhere
    BY DEF Sightings
  <2>2. \A r \in Listed(byId) : r[1] \in DOMAIN opponents
    BY <1>4 DEF Listed
  <2> QED BY <1>2, <2>1, <2>2 DEF TypeOK
<1>10. ball' \in [seen : BOOLEAN, pos : Somewhere]
  <2>1. CASE seen = {}
    BY <1>2, <2>1 DEF TypeOK
  <2>2. CASE seen # {}
    <3>1. PICK p \in Somewhere : seen = {p}
      BY <2>2
    <3>2. (CHOOSE q \in seen : TRUE) \in Somewhere
      BY <3>1
    <3> QED BY <1>2, <2>2, <3>2
  <2> QED BY <2>1, <2>2
<1>11. OneWorld'
  BY <1>2, <1>7, <1>8 DEF OneWorld, KeeperAmong
<1>12. TypeOK'
  <2>1. FriendlyRobots' \subseteq Own
    BY <1>2 DEF Sightings
  <2>2. isVisible' \subseteq Objects /\ OpponentKeeper' \subseteq Objects
        /\ FriendlyKeeper' \subseteq Own
    BY <1>5, <1>7, <1>11, <2>1 DEF OneWorld
  <2> QED BY <1>2, <1>3, <1>8, <1>9, <1>10, <2>1, <2>2 DEF TypeOK
<1>13. Dropped \subseteq Dropped'
  <2> SUFFICES ASSUME NEW o \in Opponents, NEW n \in 1..MaxObjects,
                      n <= made[o], <<o, n>> \notin isVisible
               PROVE  n <= made'[o] /\ <<o, n>> \notin isVisible'
    BY DEF Dropped, Objects
  <2>1. made[o] \in Nat /\ made'[o] \in Nat /\ n \in Nat
    <3>1. made[o] \in 0..MaxObjects /\ made'[o] \in 0..MaxObjects
      BY <1>8 DEF TypeOK
    <3> QED BY <3>1
  <2>2. byId[o] # n
    <3>1. OpponentRobotsById[o] # n
      BY <1>6
    <3>2. byId[o] = 0 \/ byId[o] = made[o] + 1 \/ byId[o] = OpponentRobotsById[o]
      BY <1>4
    <3> QED BY <2>1, <3>1, <3>2
  <2> QED BY <1>5, <1>7, <1>8, <2>1, <2>2
<1> QED BY <1>2, <1>11, <1>12, <1>13

\* What a touch does.
LEMMA TouchFacts ==
    ASSUME TypeOK, OneWorld, CheckTouching
    PROVE  /\ TypeOK' /\ OneWorld' /\ UNCHANGED worldVars
           /\ lastRobot' \subseteq FriendlyRobots \cup isVisible
           /\ lastTeam' = (lastRobot' \subseteq Own)
           /\ ~lastTeam' => \A r \in FriendlyRobots : pos[r] # ball.pos
<1> DEFINE friendly == AtBall(FriendlyRobots)
           opponent == AtBall(Listed(OpponentRobotsById))
           touching == Touching(friendly, opponent)
<1>1. /\ UNCHANGED worldVars /\ lastTeam' = (touching \subseteq Own)
      /\ \E r \in touching : lastRobot' = {r}
  BY DEF CheckTouching
<1>2. friendly \subseteq Own /\ friendly \subseteq FriendlyRobots
  BY DEF AtBall, TypeOK
<1>3. opponent \subseteq isVisible /\ opponent \cap Own = {}
  <2>1. opponent \subseteq isVisible
    BY DEF AtBall, OneWorld
  <2>2. isVisible \subseteq Opponents \X Nat
    <3>1. 1..MaxObjects \subseteq Nat
      BY WorldViewAssumption
    <3> QED BY <3>1 DEF TypeOK, Objects
  <2> HIDE DEF opponent
  <2> QED BY <2>1, <2>2, WorldViewAssumption
<1>4. \/ touching = friendly /\ friendly # {}
      \/ touching = opponent /\ friendly = {}
  BY DEF Touching
<1>5. friendly = {} => \A r \in FriendlyRobots : pos[r] # ball.pos
  BY DEF AtBall
<1> HIDE DEF friendly, opponent, touching
<1>6. /\ lastRobot' \subseteq FriendlyRobots \cup isVisible
      /\ lastTeam' = (lastRobot' \subseteq Own)
      /\ ~lastTeam' => friendly = {}
  BY <1>1, <1>2, <1>3, <1>4
<1>7. TypeOK'
  <2>1. lastTeam' \in BOOLEAN
    BY <1>1
  <2>2. lastRobot' \subseteq Own \cup Objects
    BY <1>6 DEF TypeOK
  <2> QED BY <1>1, <2>1, <2>2 DEF TypeOK, worldVars
<1>8. OneWorld'
  BY <1>1 DEF OneWorld, worldVars, Listed
<1> QED BY <1>1, <1>5, <1>6, <1>7, <1>8

LEMMA StutterFacts ==
    ASSUME TypeOK, OneWorld, UNCHANGED vars
    PROVE  TypeOK' /\ OneWorld' /\ Dropped' = Dropped
  BY DEF TypeOK, OneWorld, vars, worldVars, Listed, Dropped

LEMMA Invariance == Spec => [](TypeOK /\ OneWorld)
<1>1. TypeOK /\ OneWorld /\ [Next]_vars => (TypeOK /\ OneWorld)'
  BY UpdateFacts, TouchFacts, StutterFacts DEF Next
<1> QED BY InitInv, <1>1, PTL DEF Spec

\* The view of the world keeps its types.
THEOREM TypeCorrect == Spec => []TypeOK
  BY Invariance, PTL

\* The objects that call themselves visible are the listed ones, and the keepers are
\* among the visible robots of this frame.
THEOREM OneWorldHolds == Spec => []OneWorld
  BY Invariance, PTL

\* An opponent's object that was dropped stays invisible for good.
THEOREM DroppedStaysDropped == Spec => DroppedForGood
<1>1. TypeOK /\ OneWorld /\ [Next]_vars => [Dropped \subseteq Dropped']_vars
  BY UpdateFacts, TouchFacts, StutterFacts DEF Next, Dropped, worldVars
<1> QED BY <1>1, Invariance, PTL DEF Spec, DroppedForGood

\* Touches are laid to robots on the field, and to opponents only when no own robot
\* is at the ball.
THEOREM TouchesArePessimistic == Spec => PessimisticTouch
<1> DEFINE Touch == lastRobot' # lastRobot =>
         /\ lastRobot' \subseteq FriendlyRobots \cup isVisible
         /\ lastTeam' = (lastRobot' \subseteq Own)
         /\ ~lastTeam' => \A r \in FriendlyRobots : pos[r] # ball.pos
<1>1. TypeOK /\ OneWorld /\ [Next]_vars => [Touch]_vars
  BY UpdateFacts, TouchFacts DEF Next
<1> QED BY <1>1, Invariance, PTL DEF Spec, PessimisticTouch
-----------------------------------------------------------------------------
(***************************************************************************)
(* The field.  Three facts without variables; the lemmas that lead to them  *)
(* speak of all points with integer coordinates, not only of Positions.     *)
(***************************************************************************)
Points == [x : Int, y : Int]

\* Min and Max of FiniteSetsExt, on two numbers.
LEMMA LeastOfTwo ==
    ASSUME NEW a \in Int, NEW b \in Int
    PROVE  /\ Min({a, b}) = IF a <= b THEN a ELSE b
           /\ Max({a, b}) = IF a <= b THEN b ELSE a
<1> DEFINE least == IF a <= b THEN a ELSE b
           most == IF a <= b THEN b ELSE a
<1>1. /\ least \in {a, b} /\ \A y \in {a, b} : least <= y
      /\ \A x \in {a, b} : (\A y \in {a, b} : x <= y) => x = least
  OBVIOUS
<1>2. /\ most \in {a, b} /\ \A y \in {a, b} : most >= y
      /\ \A x \in {a, b} : (\A y \in {a, b} : x >= y) => x = most
  OBVIOUS
<1> HIDE DEF least, most
<1>3. Min({a, b}) = least
  BY <1>1 DEF Min
<1>4. Max({a, b}) = most
  BY <1>2 DEF Max
<1> QED BY <1>3, <1>4 DEF least, most

\* Abs is the absolute value.
LEMMA AbsIs ==
    ASSUME NEW n \in Int
    PROVE  Abs(n) = (IF n >= 0 THEN n ELSE -n) /\ Abs(-n) = Abs(n)
<1> DEFINE m == -n
<1>1. m \in Int /\ -m = n
  OBVIOUS
<1> HIDE DEF m
<1>2. Max({n, m}) = (IF n <= m THEN m ELSE n) /\ Max({m, n}) = (IF m <= n THEN n ELSE m)
  BY <1>1, LeastOfTwo
<1>3. Abs(n) = Max({n, m}) /\ Abs(m) = Max({m, n})
  BY <1>1 DEF Abs, m
<1> QED BY <1>1, <1>2, <1>3 DEF m

\* bound brings a number into an interval.
LEMMA BoundIs ==
    ASSUME NEW l \in Int, NEW n \in Int, NEW h \in Int, l <= h
    PROVE  bound(l, n, h) = IF n < l THEN l ELSE IF n > h THEN h ELSE n
<1> DEFINE m == Max({l, n})
<1>1. m = (IF l <= n THEN n ELSE l) /\ m \in Int
  BY LeastOfTwo
<1>2. bound(l, n, h) = Min({m, h})
  BY DEF bound
<1> HIDE DEF m
<1>3. Min({m, h}) = IF m <= h THEN m ELSE h
  BY <1>1, LeastOfTwo
<1> QED BY <1>1, <1>2, <1>3

\* The values of sign.
LEMMA SignIs ==
    ASSUME NEW n \in Int
    PROVE  /\ sign(n) \in {-1, 0, 1}
           /\ sign(n) = 1 <=> n > 0
           /\ sign(n) = -1 <=> n < 0
           /\ sign(n) = 0 <=> n = 0
BY DEF sign

\* Squares grow with the distance from 0.
Sq(n) == n * n

LEMMA Squares ==
    ASSUME NEW m \in Int, NEW n \in Int
    PROVE  /\ Sq(m) \in Int /\ Sq(m) >= 0
           /\ Sq(-m) = Sq(m)
           /\ -n <= m /\ m <= n => Sq(m) <= Sq(n)
           /\ n >= 0 /\ Sq(m) <= Sq(n) => -n <= m /\ m <= n
<1>1. Sq(m) \in Int /\ Sq(m) >= 0 /\ Sq(-m) = Sq(m)
  BY DEF Sq
<1>2. ASSUME NEW i \in Int, NEW j \in Int, 0 <= i, i <= j
      PROVE  Sq(i) <= Sq(j)
  <2>1. i * i <= i * j
    BY <1>2
  <2>2. i * j <= j * j
    BY <1>2
  <2> QED BY <2>1, <2>2 DEF Sq
<1>3. ASSUME NEW i \in Int, NEW j \in Int, 0 <= j, j < i
      PROVE  Sq(j) < Sq(i)
  <2>1. j * j <= i * j
    BY <1>3
  <2>2. i * j < i * i
    BY <1>3
  <2> QED BY <2>1, <2>2 DEF Sq
<1>4. ASSUME -n <= m, m <= n PROVE Sq(m) <= Sq(n)
  <2>1. CASE m >= 0
    BY <1>2, <1>4, <2>1
  <2>2. CASE m < 0
    <3>1. -m \in Int /\ 0 <= -m /\ -m <= n
      BY <1>4, <2>2
    <3>2. Sq(-m) <= Sq(n)
      BY <1>2, <3>1
    <3> QED BY <1>1, <3>2
  <2> QED BY <2>1, <2>2
<1>5. ASSUME n >= 0, Sq(m) <= Sq(n), m > n \/ m < -n PROVE FALSE
  <2>1. CASE m > n
    BY <1>1, <1>3, <1>5, <2>1 DEF Sq
  <2>2. CASE m < -n
    <3>1. -m \in Int /\ n < -m
      BY <2>2
    <3>2. Sq(n) < Sq(-m)
      BY <1>3, <1>5, <3>1
    <3>3. Sq(n) \in Int
      BY DEF Sq
    <3> QED BY <1>1, <1>5, <3>2, <3>3
  <2> QED BY <1>5, <2>1, <2>2
<1> QED BY <1>1, <1>4, <1>5

\* Vectors of integers and what is done with them.
LEMMA VectorFacts ==
    /\ \A x, y \in Int : Vector(x, y) \in Points
    /\ \A x, y : Vector(x, y).x = x /\ Vector(x, y).y = y
    /\ \A p \in Points : /\ p.x \in Int /\ p.y \in Int /\ p = Vector(p.x, p.y)
                         /\ Neg(p) \in Points /\ Neg(p).x = -p.x /\ Neg(p).y = -p.y
    /\ \A p, q \in Points :
          /\ Plus(p, q) \in Points /\ Plus(p, q).x = p.x + q.x /\ Plus(p, q).y = p.y + q.y
          /\ Minus(p, q) \in Points /\ Minus(p, q).x = p.x - q.x /\ Minus(p, q).y = p.y - q.y
          /\ DistanceToSq(p, q) = Sq(p.x - q.x) + Sq(p.y - q.y)
          /\ p.x = q.x /\ p.y = q.y => p = q
<1> USE DEF Points, Vector, Neg, Plus
<1>1. \A p \in Points : /\ p.x \in Int /\ p.y \in Int /\ p = Vector(p.x, p.y)
                        /\ Neg(p) \in Points /\ Neg(p).x = -p.x /\ Neg(p).y = -p.y
  OBVIOUS
<1>2. ASSUME NEW p \in Points, NEW q \in Points
      PROVE  /\ Plus(p, q) \in Points /\ Plus(p, q).x = p.x + q.x /\ Plus(p, q).y = p.y + q.y
             /\ p.x = q.x /\ p.y = q.y => p = q
  OBVIOUS
<1>3. ASSUME NEW p \in Points, NEW q \in Points
      PROVE  /\ Minus(p, q) \in Points /\ Minus(p, q).x = p.x - q.x
             /\ Minus(p, q).y = p.y - q.y
  BY DEF Minus
<1>4. ASSUME NEW p \in Points, NEW q \in Points
      PROVE  DistanceToSq(p, q) = Sq(p.x - q.x) + Sq(p.y - q.y)
  BY <1>3 DEF DistanceToSq, Dot, Sq
<1> QED BY <1>1, <1>2, <1>3, <1>4

\* Where a defense area ends along y.
Low(friendly) == IF friendly THEN -FieldHeightHalf ELSE FieldHeightHalf - DefenseHeight
High(friendly) == IF friendly THEN DefenseHeight - FieldHeightHalf ELSE FieldHeightHalf

\* What the assumption says of the sizes, one by one.
LEMMA Sizes ==
    /\ FieldWidthHalf \in Int /\ FieldHeightHalf \in Int /\ GoalWidthHalf \in Int
    /\ GoalDepth \in Int /\ DefenseWidthHalf \in Int /\ DefenseHeight \in Int
    /\ FreeKickDist \in Int /\ CornerDist \in Int /\ CornerRadius \in Int
    /\ MaxRadius \in Int
    /\ FieldWidthHalf > 0 /\ FieldHeightHalf > 0 /\ GoalWidthHalf > 0 /\ GoalDepth > 0
    /\ DefenseWidthHalf > 0 /\ DefenseHeight > 0 /\ FreeKickDist > 0 /\ MaxRadius > 0
    /\ GoalWidthHalf <= DefenseWidthHalf /\ DefenseHeight <= DefenseWidthHalf
    /\ DefenseWidthHalf + MaxRadius + FreeKickDist <= FieldWidthHalf - MaxRadius
    /\ DefenseHeight + MaxRadius + FreeKickDist <= FieldHeightHalf
BY FieldAssumption

\* The positions looked at are a rectangle in the middle of the field.
LEMMA PositionsAre ==
    /\ Positions \subseteq Points
    /\ \A p \in Points : p \in Positions <=>
          /\ -(FieldWidthHalf + 2) <= p.x /\ p.x <= FieldWidthHalf + 2
          /\ -(FieldHeightHalf + 3) <= p.y /\ p.y <= FieldHeightHalf + 3
    /\ \A p \in Positions : Neg(p) \in Positions
BY Sizes DEF Positions, Points, Neg, Vector

\* A defense area as bounds on the coordinates.
LEMMA AreaIs ==
    ASSUME NEW friendly \in BOOLEAN
    PROVE  /\ DefenseArea(friendly) \subseteq Points
           /\ \A p \in Points : p \in DefenseArea(friendly) <=>
                 /\ -DefenseWidthHalf <= p.x /\ p.x <= DefenseWidthHalf
                 /\ Low(friendly) <= p.y /\ p.y <= High(friendly)
BY Sizes DEF DefenseArea, Points, Vector, Low, High

\* The corners that the code computes are those of the area.
LEMMA CornersAre ==
    ASSUME NEW friendly \in BOOLEAN, NEW shrink \in Int
    PROVE  DefenseCorners(shrink, friendly) =
             [min |-> Vector(-DefenseWidthHalf + shrink, Low(friendly) + shrink),
              max |-> Vector(DefenseWidthHalf - shrink, High(friendly) - shrink)]
BY Sizes DEF DefenseCorners, Vector, Low, High, Neg

\* How far a number is from an interval.
Beyond(l, n, h) == IF n < l THEN l - n ELSE IF n > h THEN n - h ELSE 0

\* The distance to an area is that to its nearest point, axis by axis.
LEMMA AreaDistance ==
    ASSUME NEW friendly \in BOOLEAN, NEW p \in Points
    PROVE  distanceToDefenseAreaSq(p, friendly) =
             Sq(Beyond(-DefenseWidthHalf, p.x, DefenseWidthHalf))
               + Sq(Beyond(Low(friendly), p.y, High(friendly)))
<1>1. /\ DefenseWidthHalf \in Int /\ -DefenseWidthHalf <= DefenseWidthHalf
      /\ Low(friendly) \in Int /\ High(friendly) \in Int /\ Low(friendly) <= High(friendly)
  BY Sizes DEF Low, High
<1>2. p.x \in Int /\ p.y \in Int
  BY VectorFacts
<1> DEFINE bx == bound(-DefenseWidthHalf, p.x, DefenseWidthHalf)
           by == bound(Low(friendly), p.y, High(friendly))
           q == Vector(bx, by)
<1>3. q = boundRect(DefenseCorners(0, friendly).min, p, DefenseCorners(0, friendly).max)
  <2>1. DefenseCorners(0, friendly) =
             [min |-> Vector(-DefenseWidthHalf + 0, Low(friendly) + 0),
              max |-> Vector(DefenseWidthHalf - 0, High(friendly) - 0)]
    BY CornersAre
  <2>2. /\ -DefenseWidthHalf + 0 = -DefenseWidthHalf /\ Low(friendly) + 0 = Low(friendly)
        /\ DefenseWidthHalf - 0 = DefenseWidthHalf /\ High(friendly) - 0 = High(friendly)
    BY <1>1
  <2>3. DefenseCorners(0, friendly) =
             [min |-> Vector(-DefenseWidthHalf, Low(friendly)),
              max |-> Vector(DefenseWidthHalf, High(friendly))]
    BY <2>1, <2>2
  <2> QED BY <2>3 DEF boundRect, Vector
<1>4. /\ bx = IF p.x < -DefenseWidthHalf THEN -DefenseWidthHalf
              ELSE IF p.x > DefenseWidthHalf THEN DefenseWidthHalf ELSE p.x
      /\ by = IF p.y < Low(friendly) THEN Low(friendly)
              ELSE IF p.y > High(friendly) THEN High(friendly) ELSE p.y
  BY <1>1, <1>2, BoundIs
<1>5. distanceToDefenseAreaSq(p, friendly) = DistanceToSq(p, q)
  BY <1>3 DEF distanceToDefenseAreaSq
<1> HIDE DEF bx, by
<1>6. bx \in Int /\ by \in Int
  BY <1>1, <1>2, <1>4
<1>7. q \in Points /\ q.x = bx /\ q.y = by
  BY <1>6, VectorFacts
<1>8. DistanceToSq(p, q) = Sq(p.x - bx) + Sq(p.y - by)
  BY <1>7, VectorFacts
<1> DEFINE ox == Beyond(-DefenseWidthHalf, p.x, DefenseWidthHalf)
           oy == Beyond(Low(friendly), p.y, High(friendly))
<1>9. /\ ox \in Int /\ (p.x - bx = ox \/ p.x - bx = -ox)
      /\ oy \in Int /\ (p.y - by = oy \/ p.y - by = -oy)
  BY <1>1, <1>2, <1>4, <1>6 DEF Beyond
<1> HIDE DEF ox, oy
<1>10. Sq(p.x - bx) = Sq(ox) /\ Sq(p.y - by) = Sq(oy)
  BY <1>9, Squares
<1> QED BY <1>5, <1>8, <1>10 DEF ox, oy

\* The parts of TeamsAgree.
LEMMA GoalsAre ==
    ASSUME NEW p \in Points
    PROVE  /\ isInFriendlyGoal(p) <=>
                 /\ -GoalWidthHalf < p.x /\ p.x < GoalWidthHalf
                 /\ -FieldHeightHalf - GoalDepth < p.y /\ p.y < -FieldHeightHalf
           /\ isInOpponentGoal(p) <=>
                 /\ -GoalWidthHalf < p.x /\ p.x < GoalWidthHalf
                 /\ FieldHeightHalf < p.y /\ p.y < FieldHeightHalf + GoalDepth
<1> DEFINE l == -GoalWidthHalf
           d == -FieldHeightHalf - GoalDepth
           b == -FieldHeightHalf
           t == FieldHeightHalf + GoalDepth
<1>1. /\ l \in Int /\ GoalWidthHalf \in Int /\ l <= GoalWidthHalf
      /\ d \in Int /\ b \in Int /\ d <= b
      /\ t \in Int /\ FieldHeightHalf \in Int /\ FieldHeightHalf <= t
  BY Sizes
<1>2. /\ isInFriendlyGoal(p) <=> insideRect(Vector(l, d), Vector(GoalWidthHalf, b), p)
      /\ isInOpponentGoal(p) <=>
            insideRect(Vector(GoalWidthHalf, t), Vector(l, FieldHeightHalf), p)
  BY DEF isInFriendlyGoal, isInOpponentGoal
<1> HIDE DEF l, d, b, t
<1>3. /\ Min({l, GoalWidthHalf}) = l /\ Max({l, GoalWidthHalf}) = GoalWidthHalf
      /\ Min({GoalWidthHalf, l}) = l /\ Max({GoalWidthHalf, l}) = GoalWidthHalf
  BY <1>1, LeastOfTwo
<1>4. /\ Min({d, b}) = d /\ Max({d, b}) = b
      /\ Min({t, FieldHeightHalf}) = FieldHeightHalf /\ Max({t, FieldHeightHalf}) = t
  BY <1>1, LeastOfTwo
<1>5. /\ isInFriendlyGoal(p) <=> l < p.x /\ p.x < GoalWidthHalf /\ d < p.y /\ p.y < b
      /\ isInOpponentGoal(p) <=>
            l < p.x /\ p.x < GoalWidthHalf /\ FieldHeightHalf < p.y /\ p.y < t
  BY <1>2, <1>3, <1>4 DEF insideRect, Vector
<1> QED BY <1>5 DEF l, d, b, t

\* A point is in the area made smaller by s.
Within(p, s, friendly) ==
    /\ -DefenseWidthHalf + s < p.x /\ p.x < DefenseWidthHalf - s
    /\ Low(friendly) + s < p.y /\ p.y < High(friendly) - s

\* A negative radius asks for the inside of a smaller area.
LEMMA ShrunkIs ==
    ASSUME NEW friendly \in BOOLEAN, NEW p \in Points, NEW s \in Int, s > 0
    PROVE  isInDefenseArea(p, -s, friendly) <=> Within(p, s, friendly)
<1> DEFINE c == DefenseCorners(s, friendly)
           l == -DefenseWidthHalf + s   r == DefenseWidthHalf - s
           b == Low(friendly) + s       t == High(friendly) - s
<1>1. c.min.x = l /\ c.min.y = b /\ c.max.x = r /\ c.max.y = t
  BY CornersAre, VectorFacts
<1>2. l \in Int /\ r \in Int /\ b \in Int /\ t \in Int /\ p.x \in Int /\ p.y \in Int
  BY Sizes, VectorFacts DEF Low, High
<1>3. -s < 0 /\ -(-s) = s
  OBVIOUS
<1> HIDE DEF c, l, r, b, t
<1>4. isInDefenseArea(p, -s, friendly) <=>
        /\ l <= r /\ b <= t
        /\ Min({l, r}) < p.x /\ p.x < Max({l, r}) /\ Min({b, t}) < p.y /\ p.y < Max({b, t})
  BY <1>1, <1>3 DEF isInDefenseArea, insideRect, c
<1>5. Within(p, s, friendly) <=> l < p.x /\ p.x < r /\ b < p.y /\ p.y < t
  BY DEF Within, l, r, b, t
<1>6. CASE l <= r /\ b <= t
  <2>1. Min({l, r}) = l /\ Max({l, r}) = r /\ Min({b, t}) = b /\ Max({b, t}) = t
    BY <1>2, <1>6, LeastOfTwo
  <2> QED BY <1>4, <1>5, <1>6, <2>1
<1>7. CASE ~(l <= r /\ b <= t)
  BY <1>2, <1>4, <1>5, <1>7
<1> QED BY <1>6, <1>7

\* A radius asks for the distance.
LEMMA TouchesIs ==
    ASSUME NEW friendly \in BOOLEAN, NEW p \in Points, NEW r \in Nat
    PROVE  isInDefenseArea(p, r, friendly) <=>
             Sq(Beyond(-DefenseWidthHalf, p.x, DefenseWidthHalf))
               + Sq(Beyond(Low(friendly), p.y, High(friendly))) <= Sq(r)
<1>1. ~(r < 0)
  OBVIOUS
<1> QED BY <1>1, AreaDistance DEF isInDefenseArea, Sq

\* The areas of the teams are each other's, turned by half a circle ...
LEMMA AreasMirror ==
    ASSUME NEW p \in Points, NEW r \in Int
    PROVE  isInDefenseArea(p, r, TRUE) <=> isInDefenseArea(Neg(p), r, FALSE)
<1> DEFINE n == Neg(p)
<1>1. n \in Points /\ p.x \in Int /\ p.y \in Int /\ n.x = -p.x /\ n.y = -p.y
  BY VectorFacts
<1> HIDE DEF n
<1>2. CASE r < 0
  <2> DEFINE s == -r
  <2>1. s \in Int /\ s > 0 /\ -s = r
    BY <1>2
  <2> HIDE DEF s
  <2>2. Within(p, s, TRUE) <=> Within(n, s, FALSE)
    BY <1>1, <2>1, Sizes DEF Within, Low, High
  <2>3. /\ isInDefenseArea(p, -s, TRUE) <=> Within(p, s, TRUE)
        /\ isInDefenseArea(n, -s, FALSE) <=> Within(n, s, FALSE)
    BY <1>1, <2>1, ShrunkIs
  <2> QED BY <2>1, <2>2, <2>3 DEF n
<1>3. CASE r >= 0
  <2>1. r \in Nat
    BY <1>3
  <2>2. /\ Beyond(-DefenseWidthHalf, p.x, DefenseWidthHalf)
             = Beyond(-DefenseWidthHalf, n.x, DefenseWidthHalf)
        /\ Beyond(Low(TRUE), p.y, High(TRUE)) = Beyond(Low(FALSE), n.y, High(FALSE))
    BY <1>1, Sizes DEF Beyond, Low, High
  <2> QED BY <1>1, <2>1, <2>2, TouchesIs DEF n
<1>4. r < 0 \/ r >= 0
  OBVIOUS
<1> QED BY <1>2, <1>3, <1>4

\* ... and so are their corners.
LEMMA CornersMirror ==
    ASSUME NEW p \in Points
    PROVE  isInOwnCorner(p, FALSE) <=> isInOwnCorner(Neg(p), TRUE)
<1>1. p.x \in Int /\ p.y \in Int /\ Neg(p).x = -p.x /\ Neg(p).y = -p.y
  BY VectorFacts
<1>2. Abs(-p.x) = Abs(p.x)
  BY <1>1, AbsIs
<1> DEFINE m == -FieldHeightHalf - p.y
           n == FieldHeightHalf - (-p.y)
<1>3. n = -m /\ m \in Int
  BY <1>1, Sizes
<1>4. m * m = n * n
  <2> HIDE DEF m, n
  <2>1. Sq(-m) = Sq(m)
    BY <1>3, Squares
  <2> QED BY <1>3, <2>1 DEF Sq
<1> QED BY <1>1, <1>2, <1>4 DEF isInOwnCorner

\* TeamsAgree, for a field of any size.
LEMMA SidesAgree == TeamsAgree
<1> SUFFICES ASSUME NEW p \in Positions
             PROVE  /\ \A r \in Radii, m \in {-1, 1} :
                          isInDefenseArea(p, m * r, TRUE) <=> isInDefenseArea(Neg(p), m * r, FALSE)
                    /\ isInFriendlyGoal(p) <=> isInOpponentGoal(Neg(p))
                    /\ isInOwnCorner(p, FALSE) <=> isInOwnCorner(Neg(p), TRUE)
                    /\ isOffensiveCornerKick(p, "DirectOffensive")
                         <=> isDefensiveCornerKick(Neg(p), "DirectDefensive")
  BY DEF TeamsAgree
<1>1. p \in Points
  BY PositionsAre
<1>2. /\ Neg(p) \in Points /\ p.x \in Int /\ p.y \in Int
      /\ Neg(p).x = -p.x /\ Neg(p).y = -p.y
  BY <1>1, VectorFacts
<1>3. \A r \in Radii, m \in {-1, 1} :
        isInDefenseArea(p, m * r, TRUE) <=> isInDefenseArea(Neg(p), m * r, FALSE)
  <2> TAKE r \in Radii, m \in {-1, 1}
  <2>1. m * r \in Int
    BY Sizes DEF Radii
  <2> QED BY <1>1, <2>1, AreasMirror
<1>4. isInFriendlyGoal(p) <=> isInOpponentGoal(Neg(p))
  <2>1. isInFriendlyGoal(p) <=>
                 /\ -GoalWidthHalf < p.x /\ p.x < GoalWidthHalf
                 /\ -FieldHeightHalf - GoalDepth < p.y /\ p.y < -FieldHeightHalf
    BY <1>1, GoalsAre
  <2>2. isInOpponentGoal(Neg(p)) <=>
                 /\ -GoalWidthHalf < -p.x /\ -p.x < GoalWidthHalf
                 /\ FieldHeightHalf < -p.y /\ -p.y < FieldHeightHalf + GoalDepth
    BY <1>2, GoalsAre
  <2> QED BY <1>2, <2>1, <2>2, Sizes
<1>5. isOffensiveCornerKick(p, "DirectOffensive")
        <=> isDefensiveCornerKick(Neg(p), "DirectDefensive")
  <2>1. Abs(-p.x) = Abs(p.x)
    BY <1>2, AbsIs
  <2>2. NearSideLine(p) <=> NearSideLine(Neg(p))
    BY <1>2, <2>1 DEF NearSideLine
  <2>3. FieldHeightHalf - p.y < CornerDist <=> -FieldHeightHalf - (-p.y) > -CornerDist
    BY <1>2, Sizes
  <2> QED BY <1>2, <2>2, <2>3 DEF isOffensiveCornerKick, isDefensiveCornerKick
<1> QED BY <1>1, <1>3, <1>4, <1>5, CornersMirror

\* A disc touches an area exactly when some point of the area is in it.
LEMMA DiscsTouch ==
    ASSUME NEW friendly \in BOOLEAN, NEW p \in Points, NEW r \in Nat
    PROVE  isInDefenseArea(p, r, friendly)
             <=> \E q \in DefenseArea(friendly) : DistanceToSq(p, q) <= r * r
<1> DEFINE W == DefenseWidthHalf
           L == Low(friendly)
           H == High(friendly)
           dx == Beyond(-W, p.x, W)
           dy == Beyond(L, p.y, H)
<1>1. /\ p.x \in Int /\ p.y \in Int /\ W \in Int /\ W > 0
      /\ L \in Int /\ H \in Int /\ L <= H
  BY Sizes, VectorFacts DEF Low, High
<1>2. dx \in Int /\ dy \in Int
  BY <1>1 DEF Beyond
<1>3. isInDefenseArea(p, r, friendly) <=> Sq(dx) + Sq(dy) <= Sq(r)
  BY TouchesIs
<1>4. ASSUME isInDefenseArea(p, r, friendly)
      PROVE  \E q \in DefenseArea(friendly) : DistanceToSq(p, q) <= r * r
  <2> DEFINE x == IF p.x < -W THEN -W ELSE IF p.x > W THEN W ELSE p.x
             y == IF p.y < L THEN L ELSE IF p.y > H THEN H ELSE p.y
             q == Vector(x, y)
  <2>1. /\ x \in Int /\ y \in Int /\ -W <= x /\ x <= W /\ L <= y /\ y <= H
        /\ (p.x - x = dx \/ p.x - x = -dx) /\ (p.y - y = dy \/ p.y - y = -dy)
    BY <1>1 DEF Beyond
  <2> HIDE DEF x, y, dx, dy
  <2>2. q \in Points /\ q.x = x /\ q.y = y
    BY <2>1, VectorFacts
  <2>3. DistanceToSq(p, q) = Sq(p.x - x) + Sq(p.y - y)
    BY <2>2, VectorFacts
  <2>4. Sq(p.x - x) = Sq(dx) /\ Sq(p.y - y) = Sq(dy)
    BY <1>2, <2>1, Squares
  <2>5. q \in DefenseArea(friendly)
    BY <2>1, <2>2, AreaIs
  <2>6. DistanceToSq(p, q) <= r * r
    BY <1>3, <1>4, <2>3, <2>4 DEF Sq
  <2> QED BY <2>5, <2>6
<1>5. ASSUME NEW q \in DefenseArea(friendly), DistanceToSq(p, q) <= r * r
      PROVE  isInDefenseArea(p, r, friendly)
  <2>1. q \in Points /\ -W <= q.x /\ q.x <= W /\ L <= q.y /\ q.y <= H
    BY AreaIs
  <2>2. q.x \in Int /\ q.y \in Int
    BY <2>1, VectorFacts
  <2>3. Sq(p.x - q.x) + Sq(p.y - q.y) <= Sq(r)
    BY <1>5, <2>1, VectorFacts DEF Sq
  <2> DEFINE ex == p.x - q.x
             ey == p.y - q.y
  <2>4. /\ ex \in Int /\ ey \in Int
        /\ (dx <= ex /\ 0 <= dx) \/ (dx <= -ex /\ 0 <= dx)
        /\ (dy <= ey /\ 0 <= dy) \/ (dy <= -ey /\ 0 <= dy)
    BY <1>1, <2>1, <2>2 DEF Beyond
  <2> HIDE DEF ex, ey, dx, dy
  <2>5. Sq(dx) <= Sq(ex) /\ Sq(dy) <= Sq(ey)
    <3>1. /\ -ex <= -dx \/ ex <= -dx
          /\ -ey <= -dy \/ ey <= -dy
      BY <1>2, <2>4
    <3>2. -ex \in Int /\ -ey \in Int /\ -(-ex) = ex /\ -(-ey) = ey
      BY <2>4
    <3>3. /\ (-ex <= dx /\ dx <= ex) \/ (-(-ex) <= dx /\ dx <= -ex)
          /\ (-ey <= dy /\ dy <= ey) \/ (-(-ey) <= dy /\ dy <= -ey)
      BY <1>2, <2>4
    <3>4. Sq(dx) <= Sq(ex) \/ Sq(dx) <= Sq(-ex)
      BY <1>2, <2>4, <3>2, <3>3, Squares
    <3>5. Sq(dy) <= Sq(ey) \/ Sq(dy) <= Sq(-ey)
      BY <1>2, <2>4, <3>2, <3>3, Squares
    <3> QED BY <2>4, <3>4, <3>5, Squares
  <2>6. /\ Sq(dx) \in Int /\ Sq(dy) \in Int /\ Sq(ex) \in Int /\ Sq(ey) \in Int
        /\ Sq(r) \in Int
    BY <1>2, <2>4, Squares
  <2>7. Sq(ex) + Sq(ey) <= Sq(r)
    BY <2>3 DEF ex, ey
  <2> QED BY <1>3, <2>5, <2>6, <2>7
<1> QED BY <1>4, <1>5

\* A disc lies in an area, away from its border, exactly when the area has all
\* neighbours of the disc's points.
LEMMA DiscsInside ==
    ASSUME NEW friendly \in BOOLEAN, NEW p \in Positions, NEW r \in Nat, r > 0
    PROVE  isInDefenseArea(p, -r, friendly)
             <=> /\ p \in DefenseArea(friendly)
                 /\ \A q \in Positions : DistanceToSq(p, q) <= r * r =>
                      \A d \in [x : -1..1, y : -1..1] :
                         Plus(q, d) \in DefenseArea(friendly)
<1> DEFINE W == DefenseWidthHalf
           L == Low(friendly)
           H == High(friendly)
           In == Within(p, r, friendly)
           Room(q) == \A d \in [x : -1..1, y : -1..1] : Plus(q, d) \in DefenseArea(friendly)
<1>1. /\ p \in Points /\ p.x \in Int /\ p.y \in Int /\ W \in Int /\ W > 0
      /\ L \in Int /\ H \in Int /\ L <= H /\ r \in Int
  BY Sizes, PositionsAre, VectorFacts DEF Low, High
<1>2. isInDefenseArea(p, -r, friendly) <=> In
  BY <1>1, ShrunkIs
<1>3. In <=> /\ -W + r < p.x /\ p.x < W - r /\ L + r < p.y /\ p.y < H - r
  BY DEF Within
<1> HIDE DEF In
<1>4. ASSUME In, NEW q \in Positions, DistanceToSq(p, q) <= r * r PROVE Room(q)
  <2>1. q \in Points /\ q.x \in Int /\ q.y \in Int
    BY PositionsAre, VectorFacts
  <2> DEFINE ex == p.x - q.x
             ey == p.y - q.y
  <2>2. Sq(ex) + Sq(ey) <= Sq(r) /\ ex \in Int /\ ey \in Int
    <3>1. DistanceToSq(p, q) = Sq(p.x - q.x) + Sq(p.y - q.y)
      BY <1>1, <2>1, VectorFacts
    <3>2. Sq(r) = r * r
      BY DEF Sq
    <3> QED BY <1>1, <1>4, <2>1, <3>1, <3>2
  <2>3. Sq(ex) \in Int /\ Sq(ex) >= 0 /\ Sq(ey) \in Int /\ Sq(ey) >= 0 /\ Sq(r) \in Int
    <3> HIDE DEF ex, ey
    <3> QED BY <1>1, <2>2, Squares
  <2>4. -r <= ex /\ ex <= r /\ -r <= ey /\ ey <= r
    <3> HIDE DEF ex, ey
    <3>1. Sq(ex) <= Sq(r) /\ Sq(ey) <= Sq(r)
      BY <2>2, <2>3
    <3> QED BY <1>1, <2>2, <3>1, Squares
  <2>5. -W < q.x /\ q.x < W /\ L < q.y /\ q.y < H
    BY <1>1, <1>3, <1>4, <2>1, <2>4
  <2> TAKE d \in [x : -1..1, y : -1..1]
  <2>6. d \in Points /\ -1 <= d.x /\ d.x <= 1 /\ -1 <= d.y /\ d.y <= 1
        /\ d.x \in Int /\ d.y \in Int
    BY DEF Points
  <2>7. Plus(q, d) \in Points /\ Plus(q, d).x = q.x + d.x /\ Plus(q, d).y = q.y + d.y
    BY <2>1, <2>6, VectorFacts
  <2>8. /\ -W <= q.x + d.x /\ q.x + d.x <= W /\ L <= q.y + d.y /\ q.y + d.y <= H
    BY <1>1, <2>1, <2>5, <2>6
  <2> QED BY <2>7, <2>8, AreaIs
<1>5. ASSUME In PROVE p \in DefenseArea(friendly)
  BY <1>1, <1>3, <1>5, AreaIs
\* A point of the border that is near enough is one step from the outside.
<1>6. ASSUME p \in DefenseArea(friendly), NEW x \in Int, NEW y \in Int,
             -W <= x, x <= W, L <= y, y <= H,
             (x = p.x /\ -r <= p.y - y /\ p.y - y <= r)
               \/ (y = p.y /\ -r <= p.x - x /\ p.x - x <= r),
             x = -W \/ x = W \/ y = L \/ y = H
      PROVE  \E q \in Positions : DistanceToSq(p, q) <= r * r /\ ~Room(q)
  <2> DEFINE q == Vector(x, y)
  <2>1. q \in Points /\ q.x = x /\ q.y = y
    BY <1>6, VectorFacts
  <2>2. q \in Positions
    <3>1. /\ -(FieldWidthHalf + 2) <= x /\ x <= FieldWidthHalf + 2
          /\ -(FieldHeightHalf + 3) <= y /\ y <= FieldHeightHalf + 3
      BY <1>1, <1>6, Sizes DEF Low, High
    <3> QED BY <2>1, <3>1, PositionsAre
  <2>3. DistanceToSq(p, q) = Sq(p.x - x) + Sq(p.y - y)
    BY <1>1, <2>1, VectorFacts
  <2>4. Sq(p.x - x) + Sq(p.y - y) <= Sq(r)
    <3>1. CASE x = p.x /\ -r <= p.y - y /\ p.y - y <= r
      <4>1. p.x - x = 0 /\ p.y - y \in Int
        BY <1>1, <3>1
      <4>2. Sq(p.y - y) <= Sq(r) /\ Sq(p.y - y) \in Int /\ Sq(0) = 0
        BY <1>1, <3>1, <4>1, Squares DEF Sq
      <4> QED BY <4>1, <4>2
    <3>2. CASE y = p.y /\ -r <= p.x - x /\ p.x - x <= r
      <4>1. p.y - y = 0 /\ p.x - x \in Int
        BY <1>1, <3>2
      <4>2. Sq(p.x - x) <= Sq(r) /\ Sq(p.x - x) \in Int /\ Sq(0) = 0
        BY <1>1, <3>2, <4>1, Squares DEF Sq
      <4> QED BY <4>1, <4>2
    <3> QED BY <1>6, <3>1, <3>2
  <2>5. \E d \in [x : -1..1, y : -1..1] :
          \/ x + d.x < -W \/ x + d.x > W \/ y + d.y < L \/ y + d.y > H
    <3>1. CASE x = -W
      <4> WITNESS [x |-> -1, y |-> 0] \in [x : -1..1, y : -1..1]
      <4> QED BY <1>1, <3>1
    <3>2. CASE x = W
      <4> WITNESS [x |-> 1, y |-> 0] \in [x : -1..1, y : -1..1]
      <4> QED BY <1>1, <3>2
    <3>3. CASE y = L
      <4> WITNESS [x |-> 0, y |-> -1] \in [x : -1..1, y : -1..1]
      <4> QED BY <1>1, <3>3
    <3>4. CASE y = H
      <4> WITNESS [x |-> 0, y |-> 1] \in [x : -1..1, y : -1..1]
      <4> QED BY <1>1, <3>4
    <3> QED BY <1>6, <3>1, <3>2, <3>3, <3>4
  <2>6. PICK d \in [x : -1..1, y : -1..1] :
          \/ x + d.x < -W \/ x + d.x > W \/ y + d.y < L \/ y + d.y > H
    BY <2>5
  <2>7. d \in Points /\ d.x \in Int /\ d.y \in Int
    BY DEF Points
  <2>8. Plus(q, d) \in Points /\ Plus(q, d).x = x + d.x /\ Plus(q, d).y = y + d.y
    BY <2>1, <2>7, VectorFacts
  <2>9. Plus(q, d) \notin DefenseArea(friendly)
    BY <1>1, <1>6, <2>6, <2>7, <2>8, AreaIs
  <2> QED BY <2>2, <2>3, <2>4, <2>9 DEF Sq
<1>7. ASSUME p \in DefenseArea(friendly), ~In
      PROVE  \E q \in Positions : DistanceToSq(p, q) <= r * r /\ ~Room(q)
  <2>1. -W <= p.x /\ p.x <= W /\ L <= p.y /\ p.y <= H
    BY <1>1, <1>7, AreaIs
  <2>2. CASE p.x <= -W + r
    <3>1. /\ -W \in Int /\ -W <= -W /\ -W <= W /\ -r <= p.x - (-W) /\ p.x - (-W) <= r
      BY <1>1, <2>1, <2>2
    <3> HIDE DEF L, H, Room
    <3> QED BY <1>1, <1>6, <1>7, <2>1, <3>1
  <2>3. CASE p.x >= W - r
    <3>1. W <= W /\ -W <= W /\ -r <= p.x - W /\ p.x - W <= r
      BY <1>1, <2>1, <2>3
    <3> HIDE DEF L, H, Room
    <3> QED BY <1>1, <1>6, <1>7, <2>1, <3>1
  <2>4. CASE p.y <= L + r
    <3> HIDE DEF L, H, Room
    <3>1. L <= L /\ L <= H /\ -r <= p.y - L /\ p.y - L <= r
      BY <1>1, <2>1, <2>4
    <3> QED BY <1>1, <1>6, <1>7, <2>1, <3>1
  <2>5. CASE p.y >= H - r
    <3> HIDE DEF L, H, Room
    <3>1. H <= H /\ L <= H /\ -r <= p.y - H /\ p.y - H <= r
      BY <1>1, <2>1, <2>5
    <3> QED BY <1>1, <1>6, <1>7, <2>1, <3>1
  <2> HIDE DEF L, H, Room
  <2> QED BY <1>1, <1>3, <1>7, <2>2, <2>3, <2>4, <2>5
<1> HIDE DEF Room
<1>8. isInDefenseArea(p, -r, friendly)
        <=> /\ p \in DefenseArea(friendly)
            /\ \A q \in Positions : DistanceToSq(p, q) <= r * r => Room(q)
  BY <1>2, <1>4, <1>5, <1>7
<1> QED BY <1>8 DEF Room

\* The cross product, in terms of which both tests for triangles can be put.
Cross(p, q) == p.x * q.y - p.y * q.x

\* The orientation is the sign of a cross product.
LEMMA CrossFacts ==
    ASSUME NEW p \in Points, NEW q \in Points, NEW o \in Points
    PROVE  /\ Cross(p, q) \in Int
           /\ checkTriangleOrientation(o, p, q) = sign(Cross(Minus(p, o), Minus(q, o)))
  BY VectorFacts DEF checkTriangleOrientation, Cross

\* The lines of the barycentric coordinates are products of cross products.
LEMMA Products ==
    ASSUME NEW bx \in Int, NEW by \in Int, NEW cx \in Int, NEW cy \in Int,
           NEW px \in Int, NEW py \in Int
    PROVE  /\ (bx * bx + by * by) * (cx * px + cy * py)
                - (cx * bx + cy * by) * (bx * px + by * py)
                = (bx * cy - by * cx) * (bx * py - by * px)
           /\ (cx * cx + cy * cy) * (bx * px + by * py)
                - (cx * bx + cy * by) * (cx * px + cy * py)
                = (bx * cy - by * cx) * (px * cy - py * cx)
           /\ (cx * cx + cy * cy) * (bx * bx + by * by)
                - (cx * bx + cy * by) * (cx * bx + cy * by)
                = (bx * cy - by * cx) * (bx * cy - by * cx)
OBVIOUS

\* What both tests say in terms of the area k of the triangle and the areas m, n and
\* k - m - n of those that a point makes with its sides.
Turned(a, b, c, p, k, m, n) ==
    /\ k \in Int /\ m \in Int /\ n \in Int
    /\ isInTriangle(a, b, c, p) <=>
          k # 0 /\ k * m >= 0 /\ k * n >= 0 /\ k * m + k * n <= k * k
    /\ checkTriangleOrientation(a, b, c) = sign(k)
    /\ checkTriangleOrientation(a, b, p) = sign(m)
    /\ checkTriangleOrientation(c, a, p) = sign(n)
    /\ checkTriangleOrientation(b, c, p) = sign(k - m - n)

\* Both tests in these terms.
LEMMA TriangleTest ==
    ASSUME NEW a \in Points, NEW b \in Points, NEW c \in Points, NEW p \in Points
    PROVE  \E k, m, n : Turned(a, b, c, p, k, m, n)
<1> DEFINE v0 == Minus(c, a)   v1 == Minus(b, a)   v2 == Minus(p, a)
           k == Cross(v1, v0)  m == Cross(v1, v2)  n == Cross(v2, v0)
           cx == v0.x  cy == v0.y  bx == v1.x  by == v1.y  px == v2.x  py == v2.y
<1>1. /\ v0 \in Points /\ v1 \in Points /\ v2 \in Points
      /\ cx \in Int /\ cy \in Int /\ bx \in Int /\ by \in Int /\ px \in Int /\ py \in Int
  BY VectorFacts
<1>2. /\ Minus(a, c).x = -cx /\ Minus(a, c).y = -cy
      /\ Minus(p, c).x = px - cx /\ Minus(p, c).y = py - cy
      /\ Minus(c, b).x = cx - bx /\ Minus(c, b).y = cy - by
      /\ Minus(p, b).x = px - bx /\ Minus(p, b).y = py - by
  <2>1. /\ a.x \in Int /\ a.y \in Int /\ b.x \in Int /\ b.y \in Int
        /\ c.x \in Int /\ c.y \in Int /\ p.x \in Int /\ p.y \in Int
    BY VectorFacts
  <2>2. /\ cx = c.x - a.x /\ cy = c.y - a.y /\ bx = b.x - a.x /\ by = b.y - a.y
        /\ px = p.x - a.x /\ py = p.y - a.y
    BY VectorFacts
  <2>3. /\ Minus(a, c).x = a.x - c.x /\ Minus(a, c).y = a.y - c.y
        /\ Minus(p, c).x = p.x - c.x /\ Minus(p, c).y = p.y - c.y
        /\ Minus(c, b).x = c.x - b.x /\ Minus(c, b).y = c.y - b.y
        /\ Minus(p, b).x = p.x - b.x /\ Minus(p, b).y = p.y - b.y
    BY VectorFacts
  <2> HIDE DEF cx, cy, bx, by, px, py
  <2> QED BY <2>1, <2>2, <2>3
<1>3. /\ checkTriangleOrientation(a, b, c) = sign(k)
      /\ checkTriangleOrientation(a, b, p) = sign(m)
  BY CrossFacts
<1>4. /\ checkTriangleOrientation(c, a, p) = sign(Cross(Minus(a, c), Minus(p, c)))
      /\ checkTriangleOrientation(b, c, p) = sign(Cross(Minus(c, b), Minus(p, b)))
  BY CrossFacts
<1> HIDE DEF v0, v1, v2
<1>5. k \in Int /\ m \in Int /\ n \in Int
  BY <1>1, CrossFacts
<1>6. k = bx * cy - by * cx /\ m = bx * py - by * px /\ n = px * cy - py * cx
  BY DEF Cross
<1> HIDE DEF cx, cy, bx, by, px, py
<1>7. Cross(Minus(a, c), Minus(p, c)) = n
  <2>1. (-cx) * (py - cy) - (-cy) * (px - cx) = px * cy - py * cx
    BY <1>1
  <2> QED BY <1>2, <1>6, <2>1 DEF Cross
<1>8. Cross(Minus(c, b), Minus(p, b)) = k - m - n
  <2>1. (cx - bx) * (py - by) - (cy - by) * (px - bx)
          = (bx * cy - by * cx) - (bx * py - by * px) - (px * cy - py * cx)
    BY <1>1
  <2> QED BY <1>2, <1>6, <2>1 DEF Cross
<1>9. isInTriangle(a, b, c, p) <=>
        k # 0 /\ k * m >= 0 /\ k * n >= 0 /\ k * m + k * n <= k * k
  <2>1. /\ Dot(v0, v0) = cx * cx + cy * cy /\ Dot(v1, v1) = bx * bx + by * by
        /\ Dot(v0, v1) = cx * bx + cy * by /\ Dot(v0, v2) = cx * px + cy * py
        /\ Dot(v1, v2) = bx * px + by * py
    BY DEF Dot, cx, cy, bx, by, px, py
  <2> DEFINE denom == Dot(v0, v0) * Dot(v1, v1) - Dot(v0, v1) * Dot(v0, v1)
             u == Dot(v1, v1) * Dot(v0, v2) - Dot(v0, v1) * Dot(v1, v2)
             v == Dot(v0, v0) * Dot(v1, v2) - Dot(v0, v1) * Dot(v0, v2)
  <2>2. denom = k * k /\ u = k * m /\ v = k * n
    BY <1>1, <1>6, <2>1, Products
  <2>3. isInTriangle(a, b, c, p) <=> denom # 0 /\ u >= 0 /\ v >= 0 /\ u + v <= denom
    BY DEF isInTriangle, v0, v1, v2
  <2> HIDE DEF denom, u, v, k, m, n
  <2>4. k * k # 0 <=> k # 0
    BY <1>5
  <2> QED BY <2>2, <2>3, <2>4
<1> HIDE DEF k, m, n
<1>10. Turned(a, b, c, p, k, m, n)
  BY <1>3, <1>4, <1>5, <1>7, <1>8, <1>9 DEF Turned
<1> QED BY <1>10

\* The tests for triangles agree.
LEMMA TrianglesAgree ==
    ASSUME NEW a \in Points, NEW b \in Points, NEW c \in Points, NEW p \in Points
    PROVE  LET turns == {checkTriangleOrientation(a, b, p),
                         checkTriangleOrientation(b, c, p),
                         checkTriangleOrientation(c, a, p)}
           IN  isInTriangle(a, b, c, p) <=> /\ checkTriangleOrientation(a, b, c) # 0
                                            /\ ~({-1, 1} \subseteq turns)
<1>0. PICK k, m, n : Turned(a, b, c, p, k, m, n)
  BY TriangleTest
<1>1. /\ k \in Int /\ m \in Int /\ n \in Int
      /\ isInTriangle(a, b, c, p) <=>
            k # 0 /\ k * m >= 0 /\ k * n >= 0 /\ k * m + k * n <= k * k
      /\ checkTriangleOrientation(a, b, c) = sign(k)
      /\ checkTriangleOrientation(a, b, p) = sign(m)
      /\ checkTriangleOrientation(c, a, p) = sign(n)
      /\ checkTriangleOrientation(b, c, p) = sign(k - m - n)
  BY <1>0 DEF Turned
<1> DEFINE l == k - m - n
<1>2. l \in Int /\ k = l + m + n
  BY <1>1
<1>3. k * m + k * n <= k * k <=> k * l >= 0
  <2>1. k * l = k * k - (k * m + k * n)
    BY <1>1
  <2>2. k * k \in Int /\ k * m \in Int /\ k * n \in Int
    BY <1>1
  <2> QED BY <2>1, <2>2
<1> HIDE DEF l
<1>4. ASSUME NEW i \in Int
      PROVE  /\ k > 0 => (k * i >= 0 <=> i >= 0)
             /\ k < 0 => (k * i >= 0 <=> i <= 0)
  <2>1. /\ k > 0 /\ i >= 0 => k * i >= 0
        /\ k > 0 /\ i < 0 => k * i < 0
        /\ k < 0 /\ i > 0 => k * i < 0
        /\ k < 0 /\ i <= 0 => k * i >= 0
    BY <1>1
  <2>2. k * i \in Int
    BY <1>1
  <2> QED BY <2>1, <2>2
<1>5. isInTriangle(a, b, c, p) <=>
        \/ k > 0 /\ m >= 0 /\ n >= 0 /\ l >= 0
        \/ k < 0 /\ m <= 0 /\ n <= 0 /\ l <= 0
  <2>1. CASE k > 0
    BY <1>1, <1>2, <1>3, <1>4, <2>1
  <2>2. CASE k < 0
    BY <1>1, <1>2, <1>3, <1>4, <2>2
  <2>3. CASE k = 0
    BY <1>1, <2>3
  <2> QED BY <1>1, <2>1, <2>2, <2>3
<1> DEFINE turns == {sign(m), sign(l), sign(n)}
<1>6. /\ 1 \in turns <=> m > 0 \/ l > 0 \/ n > 0
      /\ -1 \in turns <=> m < 0 \/ l < 0 \/ n < 0
      /\ sign(k) = 0 <=> k = 0
  BY <1>1, <1>2, SignIs
<1> HIDE DEF turns
<1>7. (k # 0 /\ ~(-1 \in turns /\ 1 \in turns)) <=>
        \/ k > 0 /\ m >= 0 /\ n >= 0 /\ l >= 0
        \/ k < 0 /\ m <= 0 /\ n <= 0 /\ l <= 0
  BY <1>1, <1>2, <1>6
<1>8. {-1, 1} \subseteq turns <=> (-1 \in turns /\ 1 \in turns)
  OBVIOUS
<1>9. turns = {checkTriangleOrientation(a, b, p),
               checkTriangleOrientation(b, c, p),
               checkTriangleOrientation(c, a, p)}
  BY <1>1 DEF turns, l
<1> QED BY <1>1, <1>5, <1>6, <1>7, <1>8, <1>9

\* AreasMeanWhatTheySay, for a field of any size.
LEMMA AreasMean == AreasMeanWhatTheySay
<1>1. ASSUME NEW friendly \in BOOLEAN, NEW p \in Positions, NEW r \in Radii
      PROVE  /\ isInDefenseArea(p, r, friendly)
                   <=> \E q \in DefenseArea(friendly) : DistanceToSq(p, q) <= r * r
             /\ r > 0 => (isInDefenseArea(p, -r, friendly)
                   <=> /\ p \in DefenseArea(friendly)
                       /\ \A q \in Positions : DistanceToSq(p, q) <= r * r =>
                            \A d \in [x : -1..1, y : -1..1] :
                               Plus(q, d) \in DefenseArea(friendly))
  <2>1. r \in Nat /\ p \in Points
    BY Sizes, PositionsAre DEF Radii
  <2> QED BY <2>1, DiscsTouch, DiscsInside
<1>2. [x : 0..2, y : 0..2] \subseteq Points
  BY DEF Points
<1> QED BY <1>1, <1>2, TrianglesAgree DEF AreasMeanWhatTheySay

\* Inside the field, e away from its lines.
InRoom(p, e) ==
    /\ -(FieldWidthHalf - e) <= p.x /\ p.x <= FieldWidthHalf - e
    /\ -(FieldHeightHalf - e) <= p.y /\ p.y <= FieldHeightHalf - e

\* limitToField moves what is outside to the border and nothing else.
LEMMA LimitIs ==
    ASSUME NEW p \in Points, NEW e \in Radii
    PROVE  /\ limitToField(p, -e) \in Points /\ InRoom(limitToField(p, -e), e)
           /\ InRoom(p, e) => limitToField(p, -e) = p
<1> DEFINE w == FieldWidthHalf - e
           h == FieldHeightHalf - e
           x == bound(-w, p.x, w)
           y == bound(-h, p.y, h)
<1>1. /\ e \in Int /\ w \in Int /\ h \in Int /\ -w <= w /\ -h <= h
      /\ -w \in Int /\ -h \in Int
      /\ FieldWidthHalf + (-e) = w /\ FieldHeightHalf + (-e) = h
  BY Sizes DEF Radii
<1>2. p.x \in Int /\ p.y \in Int
  BY VectorFacts
<1>3. limitToField(p, -e) = Vector(x, y)
  BY <1>1 DEF limitToField
<1>4. InRoom(p, e) <=> -w <= p.x /\ p.x <= w /\ -h <= p.y /\ p.y <= h
  BY DEF InRoom
<1>5. \A q : InRoom(q, e) <=> -w <= q.x /\ q.x <= w /\ -h <= q.y /\ q.y <= h
  BY DEF InRoom
<1> HIDE DEF w, h
<1>6. /\ x = IF p.x < -w THEN -w ELSE IF p.x > w THEN w ELSE p.x
      /\ y = IF p.y < -h THEN -h ELSE IF p.y > h THEN h ELSE p.y
  BY <1>1, <1>2, BoundIs
<1> HIDE DEF x, y
<1>7. /\ x \in Int /\ y \in Int /\ -w <= x /\ x <= w /\ -h <= y /\ y <= h
      /\ InRoom(p, e) => x = p.x /\ y = p.y
  BY <1>1, <1>2, <1>4, <1>6
<1>8. Vector(x, y) \in Points /\ Vector(x, y).x = x /\ Vector(x, y).y = y
  BY <1>7, VectorFacts
<1>9. InRoom(Vector(x, y), e)
  BY <1>5, <1>7, <1>8
<1>10. InRoom(p, e) => Vector(x, y) = p
  BY <1>7, VectorFacts
<1> QED BY <1>3, <1>8, <1>9, <1>10

\* The goal line of an area is dir * FieldHeightHalf.
Dirs == {-1, 1}
IsDir(dir, friendly) == dir = IF friendly THEN -1 ELSE 1

\* The distance to an area, seen from the middle of the field.
LEMMA DistanceFrom ==
    ASSUME NEW p \in Points, NEW friendly \in BOOLEAN, NEW dir, IsDir(dir, friendly)
    PROVE  /\ dir \in Dirs
           /\ distanceToDefenseAreaSq(p, friendly) =
                 Sq(Beyond(-DefenseWidthHalf, p.x, DefenseWidthHalf))
                   + Sq(Beyond(FieldHeightHalf - DefenseHeight, dir * p.y, FieldHeightHalf))
           /\ distanceToDefenseAreaSq(p, friendly) \in Int
           /\ \A r \in Nat : isInDefenseArea(p, r, friendly)
                               <=> distanceToDefenseAreaSq(p, friendly) <= Sq(r)
<1>1. p.x \in Int /\ p.y \in Int
  BY VectorFacts
<1>2. Beyond(Low(friendly), p.y, High(friendly))
        = Beyond(FieldHeightHalf - DefenseHeight, dir * p.y, FieldHeightHalf)
  <2>1. CASE ~friendly
    BY <1>1, <2>1, Sizes DEF Beyond, Low, High, IsDir
  <2>2. CASE friendly
    BY <1>1, <2>2, Sizes DEF Beyond, Low, High, IsDir
  <2> QED BY <2>1, <2>2
<1>0. dir \in Dirs
  BY DEF Dirs, IsDir
<1> DEFINE dx == Beyond(-DefenseWidthHalf, p.x, DefenseWidthHalf)
           dy == Beyond(FieldHeightHalf - DefenseHeight, dir * p.y, FieldHeightHalf)
<1>3. distanceToDefenseAreaSq(p, friendly) = Sq(dx) + Sq(dy)
  BY <1>2, AreaDistance
<1>4. dx \in Int /\ dy \in Int
  <2>1. dir * p.y \in Int
    BY <1>0, <1>1 DEF Dirs
  <2> QED BY <1>1, <2>1, Sizes DEF Beyond
<1> HIDE DEF dx, dy
<1>5. distanceToDefenseAreaSq(p, friendly) \in Int
  BY <1>3, <1>4, Squares
<1>6. \A r \in Nat : isInDefenseArea(p, r, friendly)
                       <=> distanceToDefenseAreaSq(p, friendly) <= Sq(r)
  BY DEF isInDefenseArea, Sq
<1> QED BY <1>0, <1>3, <1>5, <1>6 DEF dx, dy

\* In front of a defense area or beside it, in the distance r.
AtEdge(p, r, dir) ==
    /\ -(DefenseWidthHalf + r) <= p.x /\ p.x <= DefenseWidthHalf + r
    /\ dir * p.y >= FieldHeightHalf - DefenseHeight - r
    /\ \/ dir * p.y = FieldHeightHalf - DefenseHeight - r
       \/ p.x = -(DefenseWidthHalf + r) \/ p.x = DefenseWidthHalf + r

\* The two ways out of an area.
LEMMA LeaveIs ==
    ASSUME NEW dir \in Dirs, NEW p \in Points, NEW r \in Nat
    PROVE  LET low == FieldHeightHalf - DefenseHeight - r
               out == DefenseWidthHalf + r
               dy == dir * p.y - low
               dx == out - Abs(p.x)
               l == LeaveDefenseArea(p, r, dir)
           IN  /\ l \in Points
               /\ dx > dy => l.x = p.x /\ dir * l.y = low
               /\ ~(dx > dy) => l.x = sign(p.x) * out /\ l.y = p.y
<1> DEFINE low == FieldHeightHalf - DefenseHeight - r
           out == DefenseWidthHalf + r
           dy == dir * p.y - low
           dx == out - Abs(p.x)
           l == LeaveDefenseArea(p, r, dir)
<1>1. /\ p.x \in Int /\ p.y \in Int /\ low \in Int /\ out \in Int
      /\ Abs(p.x) = (IF p.x >= 0 THEN p.x ELSE -p.x)
  BY Sizes, VectorFacts, AbsIs
<1>2. sign(p.x) \in {-1, 0, 1}
  BY <1>1, SignIs
<1>3. l = IF dx > dir * (p.y - dir * low) THEN Vector(p.x, dir * low)
          ELSE Vector(sign(p.x) * out, p.y)
  BY DEF LeaveDefenseArea
<1>4. dir * (p.y - dir * low) = dy /\ dir * low \in Int /\ dir * (dir * low) = low
  <2> HIDE DEF low
  <2>1. CASE dir = 1
    BY <1>1, <2>1
  <2>2. CASE dir = -1
    BY <1>1, <2>2
  <2> QED BY <2>1, <2>2 DEF Dirs
<1>5. sign(p.x) * out \in Int
  BY <1>1, <1>2
<1> HIDE DEF low, out, dx, dy, l
<1>6. dx > dy => l = Vector(p.x, dir * low)
  BY <1>3, <1>4
<1>7. ~(dx > dy) => l = Vector(sign(p.x) * out, p.y)
  BY <1>3, <1>4
<1>8. dx > dy => l \in Points /\ l.x = p.x /\ dir * l.y = low
  BY <1>1, <1>4, <1>6, VectorFacts
<1>9. ~(dx > dy) => l \in Points /\ l.x = sign(p.x) * out /\ l.y = p.y
  BY <1>1, <1>5, <1>7, VectorFacts
<1> QED BY <1>8, <1>9 DEF low, out, dx, dy, l

\* Who leaves an area ends at its edge and still in the field, and stays there.
LEMMA LeaveFacts ==
    ASSUME NEW friendly \in BOOLEAN, NEW dir \in Dirs, IsDir(dir, friendly),
           NEW p \in Points, NEW e \in Radii \ {0}, InRoom(p, e),
           NEW r \in Nat, e <= r, r <= e + FreeKickDist, isInDefenseArea(p, r, friendly)
    PROVE  LET l == LeaveDefenseArea(p, r, dir)
           IN  l \in Points /\ InRoom(l, e) /\ AtEdge(l, r, dir)
<1> DEFINE low == FieldHeightHalf - DefenseHeight - r
           out == DefenseWidthHalf + r
           y == dir * p.y
           dy == y - low
           dx == out - Abs(p.x)
           l == LeaveDefenseArea(p, r, dir)
           bx == Beyond(-DefenseWidthHalf, p.x, DefenseWidthHalf)
           by == Beyond(FieldHeightHalf - DefenseHeight, y, FieldHeightHalf)
<1>0. /\ p.x \in Int /\ p.y \in Int /\ low \in Int /\ out \in Int /\ y \in Int
      /\ e \in Int /\ e > 0 /\ e <= MaxRadius
      /\ y = p.y \/ y = -p.y
  BY Sizes, VectorFacts DEF Radii, Dirs
<1>1. Abs(p.x) = (IF p.x >= 0 THEN p.x ELSE -p.x)
  BY <1>0, AbsIs
<1>2. bx <= r /\ by <= r
  <2>1. bx \in Int /\ by \in Int
    BY <1>0, Sizes DEF Beyond
  <2>2. Sq(bx) + Sq(by) <= Sq(r)
    BY DistanceFrom
  <2> HIDE DEF bx, by
  <2>3. Sq(bx) \in Int /\ Sq(by) \in Int /\ Sq(r) \in Int /\ Sq(bx) >= 0 /\ Sq(by) >= 0
    BY <2>1, Squares
  <2>4. Sq(bx) <= Sq(r) /\ Sq(by) <= Sq(r)
    BY <2>2, <2>3
  <2> QED BY <2>1, <2>4, Squares
<1>3. -out <= p.x /\ p.x <= out /\ y >= low
  BY <1>0, <1>2, Sizes DEF Beyond
<1>4. y <= FieldHeightHalf - e /\ dx >= 0 /\ dy >= 0
  BY <1>0, <1>1, <1>3, Sizes DEF InRoom
<1>5. /\ l \in Points
      /\ dx > dy => l.x = p.x /\ dir * l.y = low
      /\ ~(dx > dy) => l.x = sign(p.x) * out /\ l.y = p.y
  BY LeaveIs
<1>6. low >= -(FieldHeightHalf - e) /\ low <= FieldHeightHalf - e /\ out <= FieldWidthHalf - e
  BY <1>0, Sizes
<1> HIDE DEF l
<1>7. CASE dx > dy
  <2>1. l.x = p.x /\ dir * l.y = low /\ l.y \in Int
    BY <1>5, <1>7, VectorFacts
  <2>2. l.y = low \/ l.y = -low
    <3> HIDE DEF low
    <3> QED BY <1>0, <2>1 DEF Dirs
  <2>3. InRoom(l, e)
    BY <1>0, <1>6, <2>1, <2>2, Sizes DEF InRoom
  <2>4. AtEdge(l, r, dir)
    BY <1>0, <1>3, <2>1 DEF AtEdge
  <2> QED BY <1>5, <2>3, <2>4 DEF l
<1>8. CASE ~(dx > dy)
  <2>1. l.x = sign(p.x) * out /\ l.y = p.y
    BY <1>5, <1>8
  <2>2. p.x # 0
    BY <1>0, <1>1, <1>4, <1>8, Sizes
  <2>3. l.x = out \/ l.x = -out
    <3>1. sign(p.x) = 1 \/ sign(p.x) = -1
      BY <1>0, <2>2, SignIs
    <3> QED BY <1>0, <2>1, <3>1
  <2>4. InRoom(l, e)
    BY <1>0, <1>6, <2>1, <2>3, Sizes DEF InRoom
  <2>5. AtEdge(l, r, dir)
    BY <1>0, <1>3, <2>1, <2>3, Sizes DEF AtEdge
  <2> QED BY <1>5, <2>4, <2>5 DEF l
<1> QED BY <1>0, <1>7, <1>8

\* At the edge of an area one is not in it, and to leave it again moves nothing.
LEMMA EdgeFacts ==
    ASSUME NEW friendly \in BOOLEAN, NEW dir \in Dirs, IsDir(dir, friendly),
           NEW p \in Points, NEW e \in Radii \ {0}, InRoom(p, e),
           NEW r \in Nat, e <= r, r <= e + FreeKickDist, AtEdge(p, r, dir)
    PROVE  /\ distanceToDefenseAreaSq(p, friendly) >= Sq(r)
           /\ LeaveDefenseArea(p, r, dir) = p
           /\ dir * p.y >= FieldHeightHalf - DefenseHeight - r
<1> DEFINE low == FieldHeightHalf - DefenseHeight - r
           out == DefenseWidthHalf + r
           y == dir * p.y
           dy == y - low
           dx == out - Abs(p.x)
           l == LeaveDefenseArea(p, r, dir)
           bx == Beyond(-DefenseWidthHalf, p.x, DefenseWidthHalf)
           by == Beyond(FieldHeightHalf - DefenseHeight, y, FieldHeightHalf)
<1>0. /\ p.x \in Int /\ p.y \in Int /\ low \in Int /\ out \in Int /\ y \in Int
      /\ e \in Int /\ e > 0 /\ e <= MaxRadius /\ out > 0
  BY Sizes, VectorFacts DEF Radii, Dirs
<1>1. Abs(p.x) = (IF p.x >= 0 THEN p.x ELSE -p.x)
  BY <1>0, AbsIs
<1>2. /\ -out <= p.x /\ p.x <= out /\ y >= low
      /\ y = low \/ p.x = -out \/ p.x = out
  BY <1>0 DEF AtEdge
<1>3. bx \in Int /\ by \in Int /\ bx >= 0 /\ by >= 0 /\ (bx >= r \/ by >= r)
  BY <1>0, <1>2, Sizes DEF Beyond
<1>4. distanceToDefenseAreaSq(p, friendly) = Sq(bx) + Sq(by)
  BY DistanceFrom
<1>5. Sq(bx) + Sq(by) >= Sq(r)
  <2> HIDE DEF bx, by
  <2>1. Sq(bx) \in Int /\ Sq(by) \in Int /\ Sq(r) \in Int /\ Sq(bx) >= 0 /\ Sq(by) >= 0
    BY <1>3, Squares
  <2>2. bx >= r => Sq(r) <= Sq(bx)
    BY <1>3, Squares
  <2>3. by >= r => Sq(r) <= Sq(by)
    BY <1>3, Squares
  <2> QED BY <1>3, <2>1, <2>2, <2>3
<1>6. /\ l \in Points
      /\ dx > dy => l.x = p.x /\ dir * l.y = low
      /\ ~(dx > dy) => l.x = sign(p.x) * out /\ l.y = p.y
  BY LeaveIs
<1> HIDE DEF l
<1>7. ASSUME dx > dy PROVE l = p
  <2>1. l.x = p.x /\ dir * l.y = low /\ l.y \in Int
    BY <1>6, <1>7, VectorFacts
  <2>2. y = low
    BY <1>0, <1>1, <1>2, <1>7
  <2>3. l.y = p.y
    <3> HIDE DEF low
    <3> QED BY <1>0, <2>1, <2>2 DEF Dirs
  <2> QED BY <1>6, <2>1, <2>3, VectorFacts
<1>8. ASSUME ~(dx > dy) PROVE l = p
  <2>1. l.x = sign(p.x) * out /\ l.y = p.y
    BY <1>6, <1>8
  <2>2. p.x = out \/ p.x = -out
    BY <1>0, <1>1, <1>2, <1>8
  <2>3. l.x = p.x
    <3>1. sign(p.x) = (IF p.x = out THEN 1 ELSE -1)
      BY <1>0, <2>2, SignIs
    <3> QED BY <1>0, <2>1, <2>2, <3>1
  <2> QED BY <1>6, <2>1, <2>3, VectorFacts
<1>9. l = p
  BY <1>7, <1>8
<1> QED BY <1>2, <1>4, <1>5, <1>9 DEF l

\* The other area is farther away than its distance.
LEMMA OtherArea ==
    ASSUME NEW friendly \in BOOLEAN, NEW dir \in Dirs, IsDir(dir, ~friendly),
           NEW p \in Points, NEW r \in Nat, NEW s \in Nat,
           r <= MaxRadius + FreeKickDist, s <= MaxRadius + FreeKickDist,
           r <= MaxRadius \/ s <= MaxRadius,
           dir * p.y >= FieldHeightHalf - DefenseHeight - r
    PROVE  distanceToDefenseAreaSq(p, friendly) > Sq(s)
<1> DEFINE o == -dir
           y == o * p.y
           bx == Beyond(-DefenseWidthHalf, p.x, DefenseWidthHalf)
           by == Beyond(FieldHeightHalf - DefenseHeight, y, FieldHeightHalf)
<1>1. /\ p.x \in Int /\ p.y \in Int /\ o \in Dirs /\ y \in Int /\ dir * p.y = -y
  BY VectorFacts DEF Dirs
<1>0. IsDir(o, friendly)
  BY DEF IsDir
<1>2. distanceToDefenseAreaSq(p, friendly) = Sq(bx) + Sq(by)
  BY <1>0, DistanceFrom
<1>3. bx \in Int /\ by \in Int /\ by >= s + 1
  BY <1>1, Sizes DEF Beyond
<1> HIDE DEF o, bx, by
<1>4. Sq(s + 1) <= Sq(by) /\ Sq(bx) >= 0 /\ Sq(bx) \in Int /\ Sq(by) \in Int
      /\ Sq(s + 1) \in Int /\ Sq(s) \in Int
  BY <1>3, Squares
<1>5. Sq(s) < Sq(s + 1)
  BY DEF Sq
<1> QED BY <1>2, <1>4, <1>5 DEF o

\* What is far enough from lines and areas is in the field and allowed.
LEMMA FarIsAllowed ==
    ASSUME NEW p \in Points, NEW e \in Radii \ {0}, InRoom(p, e),
           \A friendly \in BOOLEAN : distanceToDefenseAreaSq(p, friendly) >= Sq(e)
    PROVE  isInField(p, -e) /\ isInAllowedField(p, 1 - e)
<1>0. /\ p.x \in Int /\ p.y \in Int /\ e \in Int /\ e > 0 /\ e <= MaxRadius
  BY Sizes, VectorFacts DEF Radii
<1>1. /\ Abs(p.x) = (IF p.x >= 0 THEN p.x ELSE -p.x)
      /\ Abs(p.y) = (IF p.y >= 0 THEN p.y ELSE -p.y)
  BY <1>0, AbsIs
<1>2. /\ Abs(p.x) <= FieldWidthHalf - e /\ Abs(p.y) <= FieldHeightHalf - e
      /\ Abs(p.x) \in Int /\ Abs(p.y) \in Int
  BY <1>0, <1>1, Sizes DEF InRoom
<1>3. isInField(p, -e)
  BY <1>0, <1>2, Sizes DEF isInField
<1>4. isInField(p, 1 - e)
  BY <1>0, <1>2, Sizes DEF isInField
<1>5. ASSUME NEW friendly \in BOOLEAN PROVE ~isInDefenseArea(p, -(1 - e), friendly)
  <2> DEFINE s == -(1 - e)
  <2>1. s \in Nat /\ ~(s < 0) /\ e = s + 1
    BY <1>0
  <2> HIDE DEF s
  <2>2. distanceToDefenseAreaSq(p, friendly) \in Int
    <3>1. IsDir(-1, friendly) \/ IsDir(1, friendly)
      BY DEF IsDir
    <3> QED BY <3>1, DistanceFrom
  <2>3. s * s < Sq(e)
    BY <2>1 DEF Sq
  <2>4. ~(distanceToDefenseAreaSq(p, friendly) <= s * s)
    <3>1. s * s \in Int /\ Sq(e) \in Int
      BY <1>0, <2>1, Squares
    <3> QED BY <2>2, <2>3, <3>1
  <2>5. ~isInDefenseArea(p, s, friendly)
    BY <2>1, <2>4 DEF isInDefenseArea
  <2> QED BY <2>5 DEF s
<1>6. ~isInFriendlyGoal(p) /\ ~isInOpponentGoal(p)
  BY <1>0, GoalsAre, Sizes DEF InRoom
<1> QED BY <1>3, <1>4, <1>5, <1>6 DEF isInAllowedField

\* What the facts above say of the own area.
OwnSq(p) == distanceToDefenseAreaSq(p, TRUE)
InOwn(p, r) == isInDefenseArea(p, r, TRUE)
LeaveOwn(p, r) == LeaveDefenseArea(p, r, -1)
AtOwn(p, r) == AtEdge(p, r, -1)
TheirSq(p) == distanceToDefenseAreaSq(p, FALSE)
InTheirs(p, r) == isInDefenseArea(p, r, FALSE)
LeaveTheirs(p, r) == LeaveDefenseArea(p, r, 1)
AtTheirs(p, r) == AtEdge(p, r, 1)

LEMMA OwnArea ==
    ASSUME NEW p \in Points
    PROVE  /\ OwnSq(p) \in Int /\ TheirSq(p) \in Int
           /\ \A r \in Nat : InOwn(p, r) <=> OwnSq(p) <= Sq(r)
           /\ \A r \in Nat : InTheirs(p, r) <=> TheirSq(p) <= Sq(r)
<1> DEFINE own == TRUE
           theirs == FALSE
           back == -1
           ahead == 1
<1>1. own \in BOOLEAN /\ theirs \in BOOLEAN /\ IsDir(back, own) /\ IsDir(ahead, theirs)
  BY DEF IsDir
<1> HIDE DEF own, theirs, back, ahead
<1>2. /\ distanceToDefenseAreaSq(p, own) \in Int
      /\ \A r \in Nat : isInDefenseArea(p, r, own) <=> distanceToDefenseAreaSq(p, own) <= Sq(r)
  BY <1>1, DistanceFrom
<1>3. /\ distanceToDefenseAreaSq(p, theirs) \in Int
      /\ \A r \in Nat : isInDefenseArea(p, r, theirs) <=> distanceToDefenseAreaSq(p, theirs) <= Sq(r)
  BY <1>1, DistanceFrom
<1> QED BY <1>2, <1>3, Zenon DEF own, theirs, OwnSq, TheirSq, InOwn, InTheirs

\* LeaveFacts of both areas.
LEMMA LeaveArea ==
    ASSUME NEW p \in Points, NEW e \in Radii \ {0}, InRoom(p, e),
           NEW r \in Nat, e <= r, r <= e + FreeKickDist
    PROVE  /\ InOwn(p, r) => /\ LeaveOwn(p, r) \in Points /\ InRoom(LeaveOwn(p, r), e)
                             /\ AtOwn(LeaveOwn(p, r), r)
           /\ InTheirs(p, r) => /\ LeaveTheirs(p, r) \in Points /\ InRoom(LeaveTheirs(p, r), e)
                                /\ AtTheirs(LeaveTheirs(p, r), r)
<1> DEFINE own == TRUE
           theirs == FALSE
           back == -1
           ahead == 1
<1>1. /\ own \in BOOLEAN /\ theirs \in BOOLEAN /\ back \in Dirs /\ ahead \in Dirs
      /\ IsDir(back, own) /\ IsDir(ahead, theirs)
  BY DEF IsDir, Dirs
<1> HIDE DEF own, theirs, back, ahead
<1>2. ASSUME isInDefenseArea(p, r, own)
      PROVE  LET l == LeaveDefenseArea(p, r, back)
             IN  l \in Points /\ InRoom(l, e) /\ AtEdge(l, r, back)
  BY <1>1, <1>2, LeaveFacts
<1>3. ASSUME isInDefenseArea(p, r, theirs)
      PROVE  LET l == LeaveDefenseArea(p, r, ahead)
             IN  l \in Points /\ InRoom(l, e) /\ AtEdge(l, r, ahead)
  BY <1>1, <1>3, LeaveFacts
<1> QED BY <1>2, <1>3, Zenon DEF own, theirs, back, ahead, InOwn, InTheirs,
             LeaveOwn, LeaveTheirs, AtOwn, AtTheirs

\* EdgeFacts and OtherArea of both areas.
LEMMA StayOutside ==
    ASSUME NEW p \in Points, NEW e \in Radii \ {0}, InRoom(p, e),
           NEW r \in Nat, e <= r, r <= e + FreeKickDist,
           NEW s \in Nat, s <= MaxRadius + FreeKickDist, r <= MaxRadius \/ s <= MaxRadius
    PROVE  /\ AtOwn(p, r) => /\ OwnSq(p) >= Sq(r) /\ TheirSq(p) > Sq(s)
                             /\ LeaveOwn(p, r) = p
           /\ AtTheirs(p, r) => /\ TheirSq(p) >= Sq(r) /\ OwnSq(p) > Sq(s)
                                /\ LeaveTheirs(p, r) = p
<1> DEFINE own == TRUE
           theirs == FALSE
           back == -1
           ahead == 1
<1>1. /\ own \in BOOLEAN /\ theirs \in BOOLEAN /\ back \in Dirs /\ ahead \in Dirs
      /\ IsDir(back, own) /\ IsDir(ahead, theirs)
      /\ IsDir(back, ~theirs) /\ IsDir(ahead, ~own)
  BY DEF IsDir, Dirs
<1>2. r <= MaxRadius + FreeKickDist
  BY Sizes DEF Radii
<1> HIDE DEF own, theirs, back, ahead
<1>3. ASSUME AtEdge(p, r, back)
      PROVE  /\ distanceToDefenseAreaSq(p, own) >= Sq(r) /\ LeaveDefenseArea(p, r, back) = p
             /\ distanceToDefenseAreaSq(p, theirs) > Sq(s)
  <2>1. /\ distanceToDefenseAreaSq(p, own) >= Sq(r) /\ LeaveDefenseArea(p, r, back) = p
        /\ back * p.y >= FieldHeightHalf - DefenseHeight - r
    BY <1>1, <1>3, EdgeFacts
  <2>2. distanceToDefenseAreaSq(p, theirs) > Sq(s)
    BY <1>1, <1>2, <2>1, OtherArea
  <2> QED BY <2>1, <2>2
<1>4. ASSUME AtEdge(p, r, ahead)
      PROVE  /\ distanceToDefenseAreaSq(p, theirs) >= Sq(r) /\ LeaveDefenseArea(p, r, ahead) = p
             /\ distanceToDefenseAreaSq(p, own) > Sq(s)
  <2>1. /\ distanceToDefenseAreaSq(p, theirs) >= Sq(r) /\ LeaveDefenseArea(p, r, ahead) = p
        /\ ahead * p.y >= FieldHeightHalf - DefenseHeight - r
    BY <1>1, <1>4, EdgeFacts
  <2>2. distanceToDefenseAreaSq(p, own) > Sq(s)
    BY <1>1, <1>2, <2>1, OtherArea
  <2> QED BY <2>1, <2>2
<1> QED BY <1>3, <1>4, Zenon DEF own, theirs, back, ahead, OwnSq, TheirSq,
             LeaveOwn, LeaveTheirs, AtOwn, AtTheirs

\* The first half of LimitsAreKept.
LEMMA LimitKept ==
    ASSUME NEW p \in Points, NEW e \in Radii \ {0}, NEW keepAway \in BOOLEAN
    PROVE  LET l == limitToAllowedField(p, e, keepAway)
               opp == e + (IF keepAway THEN FreeKickDist ELSE 0)
           IN  /\ isInField(l, -e) /\ isInAllowedField(l, 1 - e)
               /\ distanceToDefenseAreaSq(l, TRUE) >= e * e
               /\ distanceToDefenseAreaSq(l, FALSE) >= opp * opp
               /\ limitToAllowedField(l, e, keepAway) = l
<1> DEFINE opp == e + (IF keepAway THEN FreeKickDist ELSE 0)
           Limit(v) == limitToAllowedField(v, e, keepAway)
           q == limitToField(p, -e)
           l == Limit(p)
<1>0. /\ e \in Nat /\ e > 0 /\ e <= MaxRadius /\ opp \in Nat /\ e <= opp
      /\ opp <= e + FreeKickDist /\ opp <= MaxRadius + FreeKickDist
      /\ e <= e + FreeKickDist /\ e <= MaxRadius + FreeKickDist
  BY Sizes DEF Radii
<1>1. q \in Points /\ InRoom(q, e)
  BY LimitIs
<1>2. l = IF InOwn(q, e) THEN LeaveOwn(q, e)
          ELSE IF InTheirs(q, opp) THEN LeaveTheirs(q, opp) ELSE q
  BY DEF limitToAllowedField, InOwn, InTheirs, LeaveOwn, LeaveTheirs
<1>3. ASSUME NEW v \in Points, InRoom(v, e)
      PROVE  Limit(v) = IF InOwn(v, e) THEN LeaveOwn(v, e)
                        ELSE IF InTheirs(v, opp) THEN LeaveTheirs(v, opp) ELSE v
  <2>1. limitToField(v, -e) = v
    BY <1>3, LimitIs
  <2> QED BY <2>1 DEF limitToAllowedField, InOwn, InTheirs, LeaveOwn, LeaveTheirs
<1> HIDE DEF opp, q, l, Limit
<1>4. Sq(e) \in Int /\ Sq(opp) \in Int /\ Sq(e) <= Sq(opp)
  BY <1>0, Squares
<1>5. ASSUME NEW v \in Points
      PROVE  /\ OwnSq(v) \in Int /\ TheirSq(v) \in Int
             /\ InOwn(v, e) <=> OwnSq(v) <= Sq(e)
             /\ InTheirs(v, opp) <=> TheirSq(v) <= Sq(opp)
  BY <1>0, OwnArea
<1> DEFINE Good == /\ l \in Points /\ InRoom(l, e) /\ OwnSq(l) >= Sq(e)
                   /\ TheirSq(l) >= Sq(opp) /\ Limit(l) = l
<1>6. ASSUME InOwn(q, e) PROVE Good
  <2>1. l = LeaveOwn(q, e)
    BY <1>2, <1>6
  <2>2. l \in Points /\ InRoom(l, e) /\ AtOwn(l, e)
    BY <1>0, <1>1, <1>6, <2>1, LeaveArea
  <2>3. OwnSq(l) >= Sq(e) /\ TheirSq(l) > Sq(opp) /\ LeaveOwn(l, e) = l
    BY <1>0, <2>2, StayOutside
  <2>4. ~InTheirs(l, opp) /\ TheirSq(l) >= Sq(opp)
    BY <1>4, <1>5, <2>2, <2>3
  <2>5. Limit(l) = l
    BY <1>3, <2>2, <2>3, <2>4
  <2> QED BY <2>2, <2>3, <2>4, <2>5
<1>7. ASSUME ~InOwn(q, e), InTheirs(q, opp) PROVE Good
  <2>1. l = LeaveTheirs(q, opp)
    BY <1>2, <1>7
  <2>2. l \in Points /\ InRoom(l, e) /\ AtTheirs(l, opp)
    BY <1>0, <1>1, <1>7, <2>1, LeaveArea
  <2>3. TheirSq(l) >= Sq(opp) /\ OwnSq(l) > Sq(e) /\ LeaveTheirs(l, opp) = l
    BY <1>0, <2>2, StayOutside
  <2>4. ~InOwn(l, e) /\ OwnSq(l) >= Sq(e)
    BY <1>4, <1>5, <2>2, <2>3
  <2>5. Limit(l) = l
    BY <1>3, <2>2, <2>3, <2>4
  <2> QED BY <2>2, <2>3, <2>4, <2>5
<1>8. ASSUME ~InOwn(q, e), ~InTheirs(q, opp) PROVE Good
  <2>1. l = q
    BY <1>2, <1>8
  <2>2. OwnSq(q) >= Sq(e) /\ TheirSq(q) >= Sq(opp)
    BY <1>1, <1>4, <1>5, <1>8
  <2>3. Limit(q) = q
    BY <1>1, <1>3, <1>8
  <2> QED BY <1>1, <2>1, <2>2, <2>3
<1>9. Good
  BY <1>6, <1>7, <1>8
<1>10. \A friendly \in BOOLEAN : distanceToDefenseAreaSq(l, friendly) >= Sq(e)
  <2>1. OwnSq(l) >= Sq(e) /\ TheirSq(l) >= Sq(e)
    BY <1>4, <1>5, <1>9
  <2> QED BY <2>1 DEF OwnSq, TheirSq
<1>11. isInField(l, -e) /\ isInAllowedField(l, 1 - e)
  BY <1>9, <1>10, FarIsAllowed
<1>12. distanceToDefenseAreaSq(l, TRUE) >= e * e /\ distanceToDefenseAreaSq(l, FALSE) >= opp * opp
  BY <1>9 DEF Sq, OwnSq, TheirSq
<1> QED BY <1>9, <1>11, <1>12 DEF l, opp, Limit

\* A positive factor keeps the sign.
LEMMA Scaled ==
    ASSUME NEW k \in Int, k > 0, NEW n \in Int
    PROVE  /\ k * n \in Int /\ k * n = 0 <=> n = 0
           /\ k * n > 0 <=> n > 0
           /\ k * n >= 0 <=> n >= 0
OBVIOUS

\* The direction of a ray along one axis.
Ahead(d) == IF d > 0 THEN 1 ELSE -1

\* Where a ray meets a line, in the coordinates in which it runs upwards.
LEMMA RatioIs ==
    ASSUME NEW u \in Dirs, NEW k \in Int, k > 0, NEW m \in Int, NEW x \in Int,
           NEW d \in Int, d # 0
    PROVE  Ratio((u * k) * (Ahead(d) * m - x), (u * k) * d)
             = [num |-> k * (m - Ahead(d) * x), den |-> k * (Ahead(d) * d)]
<1> DEFINE n == (u * k) * (Ahead(d) * m - x)
           e == (u * k) * d
<1>1. CASE d > 0
  <2>1. k * d > 0 /\ Ahead(d) = 1
    BY <1>1, Scaled DEF Ahead
  <2>2. CASE u = 1
    <3>1. n = k * (m - Ahead(d) * x) /\ e = k * (Ahead(d) * d) /\ e > 0
      BY <2>1, <2>2
    <3> QED BY <3>1 DEF Ratio
  <2>3. CASE u = -1
    <3>1. -n = k * (m - Ahead(d) * x) /\ -e = k * (Ahead(d) * d) /\ ~(e > 0)
      BY <2>1, <2>3
    <3> QED BY <3>1 DEF Ratio
  <2> QED BY <2>2, <2>3 DEF Dirs
<1>2. CASE d < 0
  <2>0. -d \in Int /\ -d > 0
    BY <1>2
  <2>1. k * (-d) > 0 /\ Ahead(d) = -1 /\ k * d < 0
    <3> DEFINE f == -d
    <3>1. f \in Int /\ f > 0 /\ d = -f
      BY <2>0
    <3> HIDE DEF f
    <3>2. k * f > 0 /\ k * f \in Int
      BY <3>1, Scaled
    <3>3. k * d = -(k * f)
      BY <3>1
    <3> QED BY <1>2, <3>2, <3>3 DEF Ahead, f
  <2>2. CASE u = -1
    <3>1. n = k * (m - Ahead(d) * x) /\ e = k * (Ahead(d) * d) /\ e > 0
      BY <2>1, <2>2
    <3> QED BY <3>1 DEF Ratio
  <2>3. CASE u = 1
    <3>1. -n = k * (m - Ahead(d) * x) /\ -e = k * (Ahead(d) * d) /\ ~(e > 0)
      BY <2>1, <2>3
    <3> QED BY <3>1 DEF Ratio
  <2> QED BY <2>2, <2>3 DEF Dirs
<1> QED BY <1>1, <1>2

\* A ray from (u, v), turned to run upwards, with the steps X and Y: it has to go a to
\* the line at w and does not leave at h before it.
Meeting(u, v, X, Y, w, h, a) ==
    /\ u \in Int /\ v \in Int /\ X \in Int /\ Y \in Int
    /\ w \in Int /\ h \in Int /\ a \in Int
    /\ a = w - u /\ a >= 0 /\ -h <= v /\ v <= h /\ X > 0 /\ Y >= 0
    /\ Y = 0 \/ a * Y <= (h - v) * X

Meets(u, v, X, Y, w, h, a) ==
    /\ u * X + X * a = w * X
    /\ v * X + Y * a <= h * X /\ -(h * X) <= v * X + Y * a

LEMMA RayMeets ==
    ASSUME NEW u, NEW v, NEW X, NEW Y, NEW w, NEW h, NEW a, Meeting(u, v, X, Y, w, h, a)
    PROVE  Meets(u, v, X, Y, w, h, a)
<1> USE DEF Meeting
<1>1. u * X + X * a = w * X
  OBVIOUS
<1>2. Y * a >= 0 /\ a * Y = Y * a
  OBVIOUS
<1>3. (h + v) * X >= 0 /\ (h - v) * X >= 0
  OBVIOUS
<1>4. (h + v) * X = h * X + v * X /\ (h - v) * X = h * X - v * X
  OBVIOUS
<1>5. h * X \in Int /\ v * X \in Int /\ Y * a \in Int
  OBVIOUS
<1>6. Y = 0 => Y * a = 0
  OBVIOUS
<1>7. Y * a <= (h - v) * X
  BY <1>2, <1>3, <1>6
<1> QED BY <1>1, <1>2, <1>3, <1>4, <1>5, <1>7 DEF Meets

\* The same in the coordinates of the field, with all lengths k times as long.
Hitting(s, t, k, px, py, dx, dy, w, h, a) ==
    /\ s \in Dirs /\ t \in Dirs /\ k \in Int /\ k > 0
    /\ px \in Int /\ py \in Int /\ dx \in Int /\ dy \in Int
    /\ w \in Int /\ h \in Int /\ a \in Int /\ w >= 0 /\ h >= 0
    /\ a = w - t * px /\ a >= 0 /\ -h <= s * py /\ s * py <= h
    /\ t * dx > 0 /\ s * dy >= 0
    /\ s * dy = 0 \/ a * (s * dy) <= (h - s * py) * (t * dx)
Hits(t, k, px, py, dx, dy, w, h, a) ==
    LET num == k * a
        den == k * (t * dx)
    IN  /\ num \in Int /\ num >= 0 /\ den \in Int /\ den > 0
        /\ Abs(px * den + dx * num) = w * den
        /\ Abs(py * den + dy * num) <= h * den

LEMMA HitsBorder ==
    ASSUME NEW s, NEW t, NEW k, NEW px, NEW py, NEW dx, NEW dy, NEW w, NEW h, NEW a,
           Hitting(s, t, k, px, py, dx, dy, w, h, a)
    PROVE  Hits(t, k, px, py, dx, dy, w, h, a)
<1> DEFINE u == t * px
           X == t * dx
           v == s * py
           Y == s * dy
           num == k * a
           den == k * X
           z == v * X + Y * a
<1>1. /\ s \in Dirs /\ t \in Dirs /\ k \in Int /\ k > 0
      /\ w \in Int /\ h \in Int /\ a \in Int /\ w >= 0 /\ h >= 0
      /\ px \in Int /\ py \in Int /\ dx \in Int /\ dy \in Int
  BY DEF Hitting
<1>2. /\ u \in Int /\ X \in Int /\ v \in Int /\ Y \in Int
      /\ px = t * u /\ dx = t * X /\ py = s * v /\ dy = s * Y
  BY <1>1 DEF Dirs
<1>3. /\ a = w - u /\ a >= 0 /\ -h <= v /\ v <= h /\ X > 0 /\ Y >= 0
      /\ Y = 0 \/ a * Y <= (h - v) * X
  BY DEF Hitting
<1>4. num = k * a /\ den = k * X /\ z = v * X + Y * a
  OBVIOUS
<1> HIDE DEF u, X, v, Y, num, den, z
<1>5. num \in Int /\ num >= 0 /\ den \in Int /\ den > 0
  BY <1>4, <1>1, <1>2, <1>3, Scaled
<1>6. u * X + X * a = w * X /\ z <= h * X /\ -(h * X) <= z
  <2>1. Meeting(u, v, X, Y, w, h, a)
    BY <1>1, <1>2, <1>3 DEF Meeting
  <2>2. Meets(u, v, X, Y, w, h, a)
    BY <2>1, RayMeets
  <2> QED BY <1>4, <1>1, <2>2 DEF Meets
<1>7. z \in Int
  BY <1>4, <1>1, <1>2
<1>8. ASSUME NEW c \in Dirs, NEW n \in Int PROVE Abs(c * n) = Abs(n)
  <2>1. c * n = n \/ c * n = -n
    BY DEF Dirs
  <2> QED BY <2>1, AbsIs
<1>9. Abs(px * den + dx * num) = w * den
  <2>1. px * den + dx * num = t * (k * (u * X + X * a))
    <3>1. px * den = t * (k * (u * X))
      BY <1>4, <1>1, <1>2 DEF Dirs
    <3>2. dx * num = t * (k * (X * a))
      BY <1>4, <1>1, <1>2 DEF Dirs
    <3> QED BY <1>1, <1>2, <3>1, <3>2 DEF Dirs
  <2>2. k * (u * X + X * a) = w * den
    BY <1>4, <1>1, <1>2, <1>6
  <2>3. w * den \in Int /\ w * den >= 0
    BY <1>5, <1>1
  <2> QED BY <1>1, <1>8, <2>1, <2>2, <2>3, AbsIs
<1>10. Abs(py * den + dy * num) <= h * den
  <2>1. py * den + dy * num = s * (k * z)
    <3>1. py * den = s * (k * (v * X))
      BY <1>4, <1>1, <1>2 DEF Dirs
    <3>2. dy * num = s * (k * (Y * a))
      BY <1>4, <1>1, <1>2 DEF Dirs
    <3> QED BY <1>4, <1>1, <1>2, <3>1, <3>2 DEF Dirs
  <2>2. k * z \in Int /\ k * z <= k * (h * X) /\ -(k * (h * X)) <= k * z
    <3> DEFINE b == h * X
    <3>1. b \in Int /\ z <= b /\ -b <= z
      BY <1>1, <1>2, <1>6
    <3> HIDE DEF b
    <3>2. k * (b - z) >= 0 /\ k * (b + z) >= 0
      BY <1>7, <1>1, <3>1
    <3>3. k * z \in Int /\ k * z <= k * b /\ -(k * b) <= k * z
      BY <1>7, <1>1, <3>1, <3>2
    <3> QED BY <3>3 DEF b
  <2>3. k * (h * X) = h * den /\ h * den \in Int
    BY <1>4, <1>1, <1>2, <1>5
  <2>4. Abs(k * z) <= h * den
    BY <2>2, <2>3, AbsIs
  <2> QED BY <1>1, <1>8, <2>1, <2>2, <2>4
<1> QED BY <1>1, <1>5, <1>9, <1>10 DEF num, den, X, Hits

\* The two lines that a ray can leave the field by, in the distances w and h.
Crossing(p, d, w, h) ==
    LET t == Ahead(d.x)
        s == Ahead(d.y)
        width == Vector(t * w, 0)
        height == Vector(0, s * h)
    IN  /\ intersectLineLine(p, d, width, height) =
             IF d.x = 0 THEN {}
             ELSE {[num |-> h * (w - t * p.x), den |-> h * (t * d.x)]}
        /\ intersectLineLine(p, d, height, width) =
             IF d.y = 0 THEN {}
             ELSE {[num |-> w * (h - s * p.y), den |-> w * (s * d.y)]}

LEMMA Crossings ==
    ASSUME NEW p \in Points, NEW d \in Points, NEW w \in Int, NEW h \in Int, w > 0, h > 0
    PROVE  Crossing(p, d, w, h)
<1> DEFINE t == Ahead(d.x)
           s == Ahead(d.y)
           zero == 0
           nt == -t
           tw == t * w
           sh == s * h
           width == Vector(tw, zero)
           height == Vector(zero, sh)
<1>0. /\ p.x \in Int /\ p.y \in Int /\ d.x \in Int /\ d.y \in Int
  BY VectorFacts
<1>1. /\ t \in Dirs /\ s \in Dirs /\ t \in Int /\ s \in Int
      /\ tw \in Int /\ sh \in Int /\ zero \in Int /\ nt \in Dirs /\ nt \in Int
  <2>1. t \in Dirs /\ s \in Dirs
    BY DEF Ahead, Dirs
  <2> HIDE DEF t, s
  <2> QED BY <2>1 DEF Dirs
<1> HIDE DEF tw, sh, zero
<1>2. /\ width \in Points /\ width.x = tw /\ width.y = zero
      /\ height \in Points /\ height.x = zero /\ height.y = sh
  BY <1>1, VectorFacts
<1> HIDE DEF width, height
<1>3. /\ Minus(width, p).x = tw - p.x /\ Minus(width, p).y = zero - p.y
      /\ Minus(height, p).x = zero - p.x /\ Minus(height, p).y = sh - p.y
  <2>1. \A q \in Points : Minus(q, p).x = q.x - p.x /\ Minus(q, p).y = q.y - p.y
    BY VectorFacts
  <2> QED BY <1>2, <2>1
<1> HIDE DEF t, s, nt
<1>4. intersectLineLine(p, d, width, height) =
         IF d.x = 0 THEN {} ELSE {[num |-> h * (w - t * p.x), den |-> h * (t * d.x)]}
  <2> DEFINE normal == Vector(height.y, -height.x)
             e == sh * d.x
             n == sh * (tw - p.x)
  <2>1. normal.x = sh /\ normal.y = 0
    BY <1>2, VectorFacts DEF zero
  <2>2. Dot(normal, d) = e /\ Dot(normal, Minus(width, p)) = n
    BY <1>0, <1>1, <1>3, <2>1 DEF Dot
  <2>3. e = 0 <=> d.x = 0
    <3>1. e = h * d.x \/ e = -(h * d.x)
      BY <1>0, <1>1 DEF Dirs, sh
    <3>2. h * d.x \in Int /\ (h * d.x = 0 <=> d.x = 0)
      BY <1>0, <1>1, Scaled
    <3> QED BY <3>1, <3>2
  <2>4. d.x # 0 => Ratio(n, e) = [num |-> h * (w - t * p.x), den |-> h * (t * d.x)]
    <3>1. (s * h) * (t * w - p.x) = n /\ (s * h) * d.x = e
      BY <1>0, <1>1 DEF tw, sh
    <3> QED BY <1>0, <1>1, <3>1, RatioIs DEF t
  <2>5. intersectLineLine(p, d, width, height) = IF e = 0 THEN {} ELSE {Ratio(n, e)}
    BY <2>2 DEF intersectLineLine
  <2> QED BY <2>3, <2>4, <2>5
<1>5. intersectLineLine(p, d, height, width) =
         IF d.y = 0 THEN {} ELSE {[num |-> w * (h - s * p.y), den |-> w * (s * d.y)]}
  <2> DEFINE normal == Vector(width.y, -width.x)
             e == -tw * d.y
             n == -tw * (sh - p.y)
  <2>1. normal.x = 0 /\ normal.y = -tw
    BY <1>1, <1>2, VectorFacts DEF zero
  <2>2. Dot(normal, d) = e /\ Dot(normal, Minus(height, p)) = n
    BY <1>0, <1>1, <1>3, <2>1 DEF Dot
  <2>3. e = 0 <=> d.y = 0
    <3>1. e = w * d.y \/ e = -(w * d.y)
      BY <1>0, <1>1 DEF Dirs, tw
    <3>2. w * d.y \in Int /\ (w * d.y = 0 <=> d.y = 0)
      BY <1>0, <1>1, Scaled
    <3> QED BY <3>1, <3>2
  <2>4. d.y # 0 => Ratio(n, e) = [num |-> w * (h - s * p.y), den |-> w * (s * d.y)]
    <3>1. (nt * w) * (s * h - p.y) = n /\ (nt * w) * d.y = e
      BY <1>0, <1>1 DEF tw, sh, nt
    <3> QED BY <1>0, <1>1, <3>1, RatioIs DEF s
  <2>5. intersectLineLine(p, d, height, width) = IF e = 0 THEN {} ELSE {Ratio(n, e)}
    BY <2>2 DEF intersectLineLine
  <2> QED BY <2>3, <2>4, <2>5
<1> QED BY <1>4, <1>5 DEF width, height, tw, sh, zero, t, s, Crossing

\* A positive factor can be cancelled.
LEMMA Cancel ==
    ASSUME NEW k \in Int, k > 0, NEW m \in Int, NEW n \in Int, k * m <= k * n
    PROVE  m <= n
<1> SUFFICES ASSUME m - n > 0 PROVE FALSE
  OBVIOUS
<1> DEFINE c == m - n
<1>1. c \in Int /\ c > 0 /\ m = n + c
  OBVIOUS
<1> HIDE DEF c
<1>2. k * m = k * n + k * c /\ k * n \in Int
  BY <1>1
<1>3. k * c > 0 /\ k * c \in Int
  BY <1>1, Scaled
<1> QED BY <1>2, <1>3

\* Which of the two ratios is the smaller one.
LEMMA Compared ==
    ASSUME NEW w \in Int, w > 0, NEW h \in Int, h > 0,
           NEW a \in Int, NEW b \in Int, NEW X \in Int, NEW Y \in Int
    PROVE  LET side == [num |-> h * a, den |-> h * X]
               front == [num |-> w * b, den |-> w * Y]
           IN  /\ LessRatio(side, front) => a * Y <= b * X
               /\ ~LessRatio(side, front) => b * X <= a * Y
<1> DEFINE k == h * w
           m == a * Y
           n == b * X
           side == [num |-> h * a, den |-> h * X]
           front == [num |-> w * b, den |-> w * Y]
<1>1. k \in Int /\ k > 0 /\ m \in Int /\ n \in Int
  BY Scaled
<1>2. (h * a) * (w * Y) = k * m /\ (w * b) * (h * X) = k * n
  OBVIOUS
<1>3. LessRatio(side, front) <=> k * m < k * n
  BY <1>2 DEF LessRatio
<1> HIDE DEF k, m, n, side, front
<1>4. k * m \in Int /\ k * n \in Int
  BY <1>1
<1>5. LessRatio(side, front) => m <= n
  BY <1>1, <1>3, <1>4, Cancel
<1>6. ~LessRatio(side, front) => n <= m
  BY <1>1, <1>3, <1>4, Cancel
<1> QED BY <1>5, <1>6 DEF m, n, side, front

\* What the ray's end is, in w and h.
EndsAt(p, d, w, h, r) ==
    LET cutx == Abs(p.x * r.den + d.x * r.num)
        cuty == Abs(p.y * r.den + d.y * r.num)
    IN  /\ r.num >= 0 /\ cutx <= w * r.den /\ cuty <= h * r.den
        /\ cutx = w * r.den \/ cuty = h * r.den

\* The second half of LimitsAreKept.
LEMMA RayEnds ==
    ASSUME NEW p \in Points, NEW d \in Points, NEW o \in Radii,
           Abs(p.x) <= FieldWidthHalf - o, Abs(p.y) <= FieldHeightHalf - o,
           d # Vector(0, 0)
    PROVE  \E r \in nextLineCut(p, d, -o) :
              LET cutx == Abs(p.x * r.den + d.x * r.num)
                  cuty == Abs(p.y * r.den + d.y * r.num)
                  w == (FieldWidthHalf - o) * r.den
                  h == (FieldHeightHalf - o) * r.den
              IN  r.num >= 0 /\ cutx <= w /\ cuty <= h /\ (cutx = w \/ cuty = h)
<1> DEFINE w == FieldWidthHalf + -o
           h == FieldHeightHalf + -o
           px == p.x
           py == p.y
           dx == d.x
           dy == d.y
           t == Ahead(dx)
           s == Ahead(dy)
           X == t * dx
           Y == s * dy
           a == w - t * px
           b == h - s * py
           side == [num |-> h * a, den |-> h * X]
           front == [num |-> w * b, den |-> w * Y]
           width == Vector(t * w, 0)
           height == Vector(0, s * h)
           sides == intersectLineLine(p, d, width, height)
           fronts == intersectLineLine(p, d, height, width)
<1>1. /\ px \in Int /\ py \in Int /\ dx \in Int /\ dy \in Int
      /\ dx # 0 \/ dy # 0
  BY VectorFacts
<1>2. /\ w \in Int /\ w > 0 /\ h \in Int /\ h > 0
      /\ w = FieldWidthHalf - o /\ h = FieldHeightHalf - o
  BY Sizes DEF Radii
<1>3. /\ Abs(px) = (IF px >= 0 THEN px ELSE -px)
      /\ Abs(py) = (IF py >= 0 THEN py ELSE -py)
  <2> HIDE DEF px, py
  <2> QED BY <1>1, AbsIs
<1>4. -w <= px /\ px <= w /\ -h <= py /\ py <= h
  BY <1>1, <1>2, <1>3
<1>5. /\ sides = IF dx = 0 THEN {} ELSE {side}
      /\ fronts = IF dy = 0 THEN {} ELSE {front}
  <2> HIDE DEF w, h
  <2>1. Crossing(p, d, w, h)
    BY <1>2, Crossings
  <2> QED BY <2>1 DEF Crossing
<1>6. nextLineCut(p, d, -o) =
         IF sides = {} \/ (fronts # {} /\ \E x \in sides, y \in fronts : ~LessRatio(x, y))
         THEN fronts ELSE sides
  BY <1>1 DEF nextLineCut, Ahead
<1> HIDE DEF w, h, sides, fronts, px, py, dx, dy
<1>7. /\ t \in Dirs /\ s \in Dirs /\ X \in Int /\ Y \in Int /\ X >= 0 /\ Y >= 0
      /\ X = 0 <=> dx = 0
      /\ Y = 0 <=> dy = 0
  BY <1>1 DEF Ahead, Dirs
<1> HIDE DEF t, s
<1>8. /\ a \in Int /\ b \in Int /\ a >= 0 /\ b >= 0
      /\ -w <= t * px /\ t * px <= w /\ -h <= s * py /\ s * py <= h
  <2>1. (t * px = px \/ t * px = -px) /\ (s * py = py \/ s * py = -py)
    BY <1>1, <1>7 DEF Dirs
  <2> QED BY <1>1, <1>2, <1>4, <2>1
<1> HIDE DEF a, b, X, Y
<1>9. /\ LessRatio(side, front) => a * Y <= b * X
      /\ ~LessRatio(side, front) => b * X <= a * Y
  BY <1>2, <1>7, <1>8, Compared
<1> HIDE DEF side, front
<1>10. ASSUME dx # 0, dy = 0 \/ LessRatio(side, front)
       PROVE  EndsAt(p, d, w, h, side)
  <2>1. X > 0 /\ (Y = 0 \/ a * Y <= b * X)
    BY <1>7, <1>9, <1>10
  <2>2. Hitting(s, t, h, px, py, dx, dy, w, h, a)
    BY <1>1, <1>2, <1>7, <1>8, <2>1 DEF Hitting, a, b, X, Y
  <2>3. Hits(t, h, px, py, dx, dy, w, h, a)
    BY <2>2, HitsBorder
  <2> DEFINE num == h * a
             den == h * X
  <2>4. /\ num \in Int /\ num >= 0 /\ den \in Int /\ den > 0
        /\ Abs(px * den + dx * num) = w * den
        /\ Abs(py * den + dy * num) <= h * den
    BY <2>3 DEF Hits, X
  <2>5. side.num = num /\ side.den = den
    BY DEF side
  <2> HIDE DEF num, den
  <2>6. w * den \in Int
    BY <1>2, <2>4
  <2> QED BY <2>4, <2>5, <2>6 DEF EndsAt, px, py, dx, dy
<1>11. ASSUME dy # 0, dx = 0 \/ ~LessRatio(side, front)
       PROVE  EndsAt(p, d, w, h, front)
  <2>1. Y > 0 /\ (X = 0 \/ b * X <= a * Y)
    BY <1>7, <1>9, <1>11
  <2>2. Hitting(t, s, w, py, px, dy, dx, h, w, b)
    BY <1>1, <1>2, <1>7, <1>8, <2>1 DEF Hitting, a, b, X, Y
  <2>3. Hits(s, w, py, px, dy, dx, h, w, b)
    BY <2>2, HitsBorder
  <2> DEFINE num == w * b
             den == w * Y
  <2>4. /\ num \in Int /\ num >= 0 /\ den \in Int /\ den > 0
        /\ Abs(py * den + dy * num) = h * den
        /\ Abs(px * den + dx * num) <= w * den
    BY <2>3 DEF Hits, Y
  <2>5. front.num = num /\ front.den = den
    BY DEF front
  <2> HIDE DEF num, den
  <2>6. h * den \in Int
    BY <1>2, <2>4
  <2> QED BY <2>4, <2>5, <2>6 DEF EndsAt, px, py, dx, dy
<1>12. \E r \in nextLineCut(p, d, -o) : EndsAt(p, d, w, h, r)
  <2>1. CASE dx = 0
    BY <1>1, <1>5, <1>6, <1>11, <2>1
  <2>2. CASE dx # 0 /\ dy = 0
    BY <1>5, <1>6, <1>10, <2>2
  <2>3. CASE dx # 0 /\ dy # 0
    BY <1>5, <1>6, <1>10, <1>11, <2>3
  <2> QED BY <2>1, <2>2, <2>3
<1> QED BY <1>2, <1>12 DEF EndsAt

\* LimitsAreKept, for a field of any size.
LEMMA LimitsKept == LimitsAreKept
<1>1. ASSUME NEW p \in Positions, NEW e \in Radii \ {0}, NEW keepAway \in BOOLEAN
      PROVE  LET l == limitToAllowedField(p, e, keepAway)
                 opp == e + (IF keepAway THEN FreeKickDist ELSE 0)
             IN  /\ isInField(l, -e) /\ isInAllowedField(l, 1 - e)
                 /\ distanceToDefenseAreaSq(l, TRUE) >= e * e
                 /\ distanceToDefenseAreaSq(l, FALSE) >= opp * opp
                 /\ limitToAllowedField(l, e, keepAway) = l
  <2>1. p \in Points
    BY PositionsAre
  <2> QED BY <2>1, LimitKept
<1>2. ASSUME NEW p \in Positions, NEW d \in [x : -2..2, y : -2..2], NEW o \in Radii,
             Abs(p.x) <= FieldWidthHalf - o, Abs(p.y) <= FieldHeightHalf - o,
             d # Vector(0, 0)
      PROVE  \E r \in nextLineCut(p, d, -o) :
                LET cutx == Abs(p.x * r.den + d.x * r.num)
                    cuty == Abs(p.y * r.den + d.y * r.num)
                    w == (FieldWidthHalf - o) * r.den
                    h == (FieldHeightHalf - o) * r.den
                IN  r.num >= 0 /\ cutx <= w /\ cuty <= h /\ (cutx = w \/ cuty = h)
  <2>1. p \in Points /\ d \in Points
    BY PositionsAre DEF Points
  <2> QED BY <1>2, <2>1, RayEnds
<1> QED BY <1>1, <1>2 DEF LimitsAreKept

\* isInDefenseArea means what it says of every disc at a place on the field or close
\* around it, and the two tests for triangles agree on the points of a small grid.
THEOREM AreasHold == Spec => []FieldAreas
<1>1. FieldAreas
  BY AreasMean DEF FieldAreas
<1> QED BY <1>1, PTL

\* limitToAllowedField ends in an allowed place and keeps the distance asked for, and
\* rays in the directions of a small grid end where they first meet the border.
THEOREM LimitsHold == Spec => []FieldLimits
<1>1. FieldLimits
  BY LimitsKept DEF FieldLimits
<1> QED BY <1>1, PTL

\* The teams agree on whose area, goal and corner a place belongs to.
THEOREM SidesHold == Spec => []FieldSides
<1>1. FieldSides
  BY SidesAgree DEF FieldSides
<1> QED BY <1>1, PTL
=============================================================================
