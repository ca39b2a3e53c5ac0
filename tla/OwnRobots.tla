----------------------------- MODULE OwnRobots -----------------------------
(***************************************************************************)
(* The own robots of a TypeScript strategy (robot.ts and the part of        *)
(* world.ts that updates, halts and commands them).  In every frame the     *)
(* entrypoint wrapper calls World.update, the strategy gives its orders,    *)
(* robot by robot and in any order, and setRobotCommands hands a command    *)
(* for every robot to amun.  An exception that nobody catches ends the      *)
(* script.  The time of a frame is that of the world state, which goes back *)
(* when a log is replayed.  Of a command the model has standby, the kick    *)
(* and the kind of input of the controller; what a robot does not keep for  *)
(* later frames or calls (positions, radio responses, user control) is left *)
(* out.                                                                     *)
(***************************************************************************)
EXTENDS Integers

CONSTANTS Robots,        \* FriendlyRobotsAll
          MaxTime,       \* bound on the time
          StandbyDelay,  \* STANDBY_DELAY, 30 s
          MoveCache      \* how long a move command is kept, 0.3 s

ASSUME OwnRobotsAssumption ==
    StandbyDelay \in Nat /\ MoveCache \in Nat /\ MaxTime \in Nat

VARIABLES
    script,    \* "waiting" for a frame, "running" or "failed"
    Time,      \* World.Time, 0 before the first frame
    robot,     \* what every own robot keeps
    asked,     \* history: the strategy's last word on standby in this frame
    run,       \* history: the least time of the frames in a row, up to the last
               \*   one, that ended with the robot asked to stand by; or None
    halted     \* history: robots halted in this frame, with no order since

robotVars == <<script, Time, robot, asked, run, halted>>

None == 0
Times == 1..MaxTime
\* {}, points to follow, a speed, and undefined.
Inputs == {"halt", "spline", "velocity", "undefined"}
RobotStates == [timer : Times \cup {-1},   \* _standbyTimer
                tick : BOOLEAN,            \* _standbyTick
                input : Inputs,            \* _controllerInput
                kick : BOOLEAN,            \* _kickStyle
                move : Times \cup {None}]  \* moveCommand.time

RobotsTypeOK ==
    /\ script \in {"waiting", "running", "failed"}
    /\ Time \in Times \cup {None}
    /\ robot \in [Robots -> RobotStates]
    /\ asked \in [Robots -> BOOLEAN]
    /\ run \in [Robots -> Times \cup {None}]
    /\ halted \in SUBSET Robots

NewRobot == [timer |-> -1, tick |-> FALSE, input |-> "halt", kick |-> FALSE,
             move |-> None]

RobotsInit ==
    /\ script = "waiting" /\ Time = None
    /\ robot = [r \in Robots |-> NewRobot]
    /\ asked = [r \in Robots |-> FALSE] /\ run = [r \in Robots |-> None]
    /\ halted = {}
-----------------------------------------------------------------------------
\* setStandby(true) starts the timer when it does not run.
Asked(x, now) ==
    [x EXCEPT !.timer = IF @ < 0 THEN now ELSE @, !.tick = TRUE]

\* setStandby(false): the second call in a row stops the timer.
\* Mutants: it never stops; it is set to the start of time.
NeverCleared(x) == [x EXCEPT !.tick = FALSE]
ZeroTimer(x) == [x EXCEPT !.timer = IF x.tick THEN @ ELSE 0, !.tick = FALSE]
Cleared(x) == [x EXCEPT !.timer = IF x.tick THEN @ ELSE -1, !.tick = FALSE]

\* A move command counts for MoveCache, and not when the time went back.
\* Mutant: when the time goes back it is kept.
TooOldOnly(move, now) == move # None /\ now - move > MoveCache
Expired(move, now) == move # None /\ (now - move > MoveCache \/ now - move < 0)

\* What _update and _updateUserInput leave of a robot.
UpdatedRobot(x, now, dragged) ==
    [Cleared(x) EXCEPT !.input = "halt", !.kick = FALSE,
                       !.move = IF dragged THEN now
                                ELSE IF Expired(@, now) THEN None ELSE @]

\* World.update, with move commands for the robots in dragged.
UpdateRobots(now, dragged) ==
    /\ script = "waiting"
    /\ script' = "running" /\ Time' = now
    /\ robot' = [r \in Robots |-> UpdatedRobot(robot[r], now, r \in dragged)]
    /\ run' = [r \in Robots |->
                 IF ~asked[r] THEN None
                 ELSE IF run[r] = None \/ Time < run[r] THEN Time ELSE run[r]]
    /\ asked' = [r \in Robots |-> FALSE] /\ halted' = {}

\* What the strategy throws, something above it may catch.
Throws ==
    /\ script' \in {"running", "failed"}
    /\ UNCHANGED <<Time, robot, asked, run, halted>>

SetStandby(r, standby) ==
    /\ script = "running"
    /\ robot' = [robot EXCEPT ![r] = IF standby THEN Asked(@, Time) ELSE Cleared(@)]
    /\ asked' = [asked EXCEPT ![r] = standby]
    /\ halted' = IF standby THEN halted ELSE halted \ {r}
    /\ UNCHANGED <<script, Time, run>>

\* A second spline is refused ("=== {}" is never true); after an undefined input
\* the check itself fails.
SetControllerInput(r, input) ==
    /\ script = "running"
    /\ IF input = "spline" /\ robot[r].input \in {"spline", "undefined"}
       THEN Throws
       ELSE /\ robot' = [robot EXCEPT ![r].input = input]
            /\ halted' = IF input = "halt" THEN halted ELSE halted \ {r}
            /\ UNCHANGED <<script, Time, asked, run>>

\* shoot, chip and forceShoot; shootDisable.
Kick(r, on) ==
    /\ script = "running"
    /\ robot' = [robot EXCEPT ![r].kick = on]
    /\ UNCHANGED <<script, Time, asked, run, halted>>

\* Robots that are dragged with the mouse are left alone.
HaltOwnRobots ==
    LET stopped == {r \in Robots : robot[r].move = None}
    IN  /\ script = "running"
        /\ robot' = [r \in Robots |->
                       IF r \in stopped
                       THEN [Asked(robot[r], Time) EXCEPT !.input = "halt"]
                       ELSE robot[r]]
        /\ asked' = [r \in Robots |-> r \in stopped \/ asked[r]]
        /\ halted' = Robots
        /\ UNCHANGED <<script, Time, run>>

\* _command; an undefined input makes it fail.
Command(r) ==
    [standby |-> robot[r].timer >= 0 /\ Time - robot[r].timer > StandbyDelay,
     kick |-> robot[r].kick, input |-> robot[r].input]

\* The wrapper's call ends the frame; the one of the debugger does not.
SetRobotCommands ==
    /\ script = "running"
    /\ IF \E r \in Robots : Command(r).input = "undefined"
       THEN Throws
       ELSE /\ script' \in {"running", "waiting"}
            /\ UNCHANGED <<Time, robot, asked, run, halted>>

\* Strategy::process ends a script that throws; later it is loaded anew.
Throw == script = "running" /\ Throws
Reload ==
    /\ script \in {"waiting", "failed"}
    /\ script' = "waiting" /\ Time' = None
    /\ robot' = [r \in Robots |-> NewRobot]
    /\ asked' = [r \in Robots |-> FALSE] /\ run' = [r \in Robots |-> None]
    /\ halted' = {}

RobotsNext ==
    \/ \E now \in Times, dragged \in SUBSET Robots : UpdateRobots(now, dragged)
    \/ \E r \in Robots, on \in BOOLEAN : SetStandby(r, on) \/ Kick(r, on)
    \/ \E r \in Robots, input \in Inputs : SetControllerInput(r, input)
    \/ HaltOwnRobots
    \/ SetRobotCommands
    \/ Throw
    \/ Reload

RobotsSpec == RobotsInit /\ [][RobotsNext]_robotVars
-----------------------------------------------------------------------------
\* A command for standby is earned: the robot was asked to stand by in a row of
\* frames that reaches back more than the delay and up to the frame before this
\* one, however the time of the frames jumps.  Standby switches off the robot;
\* setStandby is called at least twice a frame, in both senses, by the update, by
\* haltOwnRobots and by the strategy.
StandbyEarned ==
    script = "running" => \A r \in Robots :
        Command(r).standby => run[r] # None /\ Time - run[r] > StandbyDelay

\* "Stops own robots and enables standby" (world.ts:530): after haltOwnRobots, and
\* until the strategy gives another order, a robot is sent no motion, and it is on
\* its way to standby; unless it was dragged with the mouse a moment ago, not
\* longer and not in what is now the future.
HaltedRobotsStop ==
    script = "running" => \A r \in halted :
        \/ /\ Command(r).input = "halt"
           /\ robot[r].tick /\ robot[r].timer \in Times
        \/ 0 <= Time - robot[r].move /\ Time - robot[r].move <= MoveCache
=============================================================================
