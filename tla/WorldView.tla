----------------------------- MODULE WorldView -----------------------------
(***************************************************************************)
(* What a TypeScript strategy knows of the world besides its own orders:    *)
(* the lists of robots, the ball, the keepers and the referee's state that  *)
(* World.update takes over (world.ts, robot.ts, ball.ts), and the last      *)
(* touch that Referee.check reads off them (referee.ts).  A strategy keeps  *)
(* references to robots across frames; an opponent's robot gets a new       *)
(* object whenever it comes back, so the objects are part of the state.     *)
(* Of a position the model has which of a few places it is, and two things  *)
(* touch when they are at the same place.                                   *)
(***************************************************************************)
EXTENDS Integers

CONSTANTS Own,          \* FriendlyRobotsAll
          Opponents,    \* ids of robots of the other team
          Places,       \* places on the field
          Outside,      \* beyond the field's lines
          OwnKeepers, OpponentKeepers,  \* ids the referee may name as goalie
          MaxObjects    \* bound on the objects made for one opponent's id

ASSUME WorldViewAssumption ==
    /\ Outside \notin Places
    /\ MaxObjects \in Nat
    /\ Own \cap (Opponents \X Nat) = {}

VARIABLES
    FriendlyRobots,      \* the visible own robots
    made,                \* how many objects were made for an opponent's id
    OpponentRobotsById,  \* the number of an id's object, 0: no entry
    isVisible,           \* the objects of opponents that say they are visible
    pos,                 \* where own robots and objects were seen last
    ball,                \* Ball.pos, and whether it is visible
    RefereeState,        \* "" before the first frame, "NoTouch" or "Play"
    FriendlyKeeper, OpponentKeeper,   \* a set of at most one
    lastTeam,            \* the friendly team touched the ball last
    lastRobot            \* with this one, a set of at most one

worldVars == <<FriendlyRobots, made, OpponentRobotsById, isVisible, pos, ball,
               RefereeState, FriendlyKeeper, OpponentKeeper>>
vars == <<worldVars, lastTeam, lastRobot>>

Somewhere == Places \cup {Outside}
Objects == Opponents \X (1..MaxObjects)
\* The objects in a map from ids to numbers, as OpponentRobots lists them.
Listed(byId) == {<<id, byId[id]>> : id \in {o \in Opponents : byId[o] # 0}}

TypeOK ==
    /\ FriendlyRobots \subseteq Own
    /\ made \in [Opponents -> 0..MaxObjects]
    /\ OpponentRobotsById \in [Opponents -> 0..MaxObjects]
    /\ isVisible \subseteq Objects
    /\ pos \in [Own \cup Objects -> Somewhere]
    /\ ball \in [seen : BOOLEAN, pos : Somewhere]
    /\ RefereeState \in {"", "NoTouch", "Play"}
    /\ FriendlyKeeper \subseteq Own
    /\ OpponentKeeper \subseteq Objects
    /\ lastTeam \in BOOLEAN
    /\ lastRobot \subseteq Own \cup Objects

\* Own robots and the ball start in the middle of the field.
Init ==
    \E middle \in Places :
       /\ FriendlyRobots = {}
       /\ made = [o \in Opponents |-> 0] /\ OpponentRobotsById = made
       /\ isVisible = {}
       /\ pos = [r \in Own \cup Objects |-> middle]
       /\ ball = [seen |-> FALSE, pos |-> middle]
       /\ RefereeState = ""
       /\ FriendlyKeeper = {} /\ OpponentKeeper = {}
       /\ lastTeam = TRUE /\ lastRobot = {}
-----------------------------------------------------------------------------
\* What the world state reports: where each robot is that is tracked, and the
\* ball.  A ball that is too far away, too fast or not a number counts as lost.
Sightings(ids) == UNION {[seen -> Somewhere] : seen \in SUBSET ids}

\* A robot that is in the data keeps its object, and one that was not in the
\* last frame's data gets a new one.  Mutant: one that comes back gets its old one.
SameObject(o, tracked) ==
    IF o \notin tracked THEN 0 ELSE IF made[o] # 0 THEN made[o] ELSE 1
ObjectOf(o, tracked) ==
    IF o \notin tracked THEN 0
    ELSE IF OpponentRobotsById[o] # 0 THEN OpponentRobotsById[o]
    ELSE made[o] + 1

\* Every opponent in the data is updated, and the dropped ones become invisible.
\* Mutant: the objects that were dropped are not told.
NobodyDropped(byId) == isVisible \cup Listed(byId)
VisibleAfter(byId) == (isVisible \ Listed(OpponentRobotsById)) \cup Listed(byId)

\* The goalie's robot, if it is visible.
KeeperAmong(goalie, robots) == {goalie} \cap robots

Update(own, opponents, seen, state, goalie, theirGoalie) ==
    LET byId == [o \in Opponents |-> ObjectOf(o, DOMAIN opponents)]
    IN  /\ \A o \in Opponents : byId[o] <= MaxObjects
        /\ OpponentRobotsById' = byId
        /\ made' = [o \in Opponents |-> IF byId[o] > made[o] THEN byId[o] ELSE made[o]]
        /\ isVisible' = VisibleAfter(byId)
        /\ FriendlyRobots' = DOMAIN own
        /\ pos' = [r \in Own \cup Objects |->
                     IF r \in DOMAIN own THEN own[r]
                     ELSE IF r \in Listed(byId) THEN opponents[r[1]]
                     ELSE pos[r]]
        /\ ball' = IF seen = {} THEN [ball EXCEPT !.seen = FALSE]
                   ELSE [seen |-> TRUE, pos |-> CHOOSE p \in seen : TRUE]
        /\ RefereeState' = state
        /\ FriendlyKeeper' = KeeperAmong(goalie, FriendlyRobots')
        /\ OpponentKeeper' = KeeperAmong(<<theirGoalie, byId[theirGoalie]>>, isVisible')
        /\ UNCHANGED <<lastTeam, lastRobot>>

WorldUpdate ==
    \E own \in Sightings(Own), opponents \in Sightings(Opponents),
       seen \in {{}} \cup {{p} : p \in Somewhere}, state \in {"NoTouch", "Play"},
       goalie \in OwnKeepers, theirGoalie \in OpponentKeepers :
          Update(own, opponents, seen, state, goalie, theirGoalie)

AtBall(robots) == {r \in robots : pos[r] = ball.pos}

\* Whose touch it is: when an own robot is at the ball, the own team's.
\* Mutant: the own team's only when no opponent is at the ball.
OpponentsFirst(friendly, opponent) == IF opponent # {} THEN opponent ELSE friendly
Touching(friendly, opponent) == IF friendly # {} THEN friendly ELSE opponent

\* Referee.checkTouching: the first one in the list, which the tracking orders.
CheckTouching ==
    LET touching == Touching(AtBall(FriendlyRobots), AtBall(Listed(OpponentRobotsById)))
    IN  /\ RefereeState = "Play" /\ ball.pos \in Places
        /\ \E r \in touching : lastRobot' = {r}
        /\ lastTeam' = (touching \subseteq Own)
        /\ UNCHANGED worldVars

Next == WorldUpdate \/ CheckTouching

Spec == Init /\ [][Next]_vars
-----------------------------------------------------------------------------
\* The strategy has one world: the objects that say they are visible are those in
\* OpponentRobotsById, so a reference that a strategy kept to a robot that was
\* dropped says so, for good; a keeper is a robot that is on the field, in this
\* frame and not in the last one.
OneWorld ==
    /\ isVisible = Listed(OpponentRobotsById)
    /\ \A o \in Opponents : OpponentRobotsById[o] <= made[o]
    /\ FriendlyKeeper \subseteq FriendlyRobots
    /\ OpponentKeeper \subseteq isVisible

\* An object that was dropped never comes back.
Dropped == {r \in Objects : r[2] <= made[r[1]]} \ isVisible
DroppedForGood == [][Dropped \subseteq Dropped']_vars

\* A touch is laid to a robot that is on the field in the frame of the touch, and
\* to an opponent only when no own robot on the field is at the ball
\* ("pessimistic approach", referee.ts:262).
PessimisticTouch ==
    [][lastRobot' # lastRobot =>
         /\ lastRobot' \subseteq FriendlyRobots \cup isVisible
         /\ lastTeam' = (lastRobot' \subseteq Own)
         /\ ~lastTeam' => \A r \in FriendlyRobots : pos[r] # ball.pos]_vars
=============================================================================
