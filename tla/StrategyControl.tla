--------------------------- MODULE StrategyControl ---------------------------
(***************************************************************************)
(* One strategy (src/src/amun/strategy/strategy.cpp), blue or yellow, and  *)
(* the robots of its team in the processor (processor.cpp).                *)
(*                                                                         *)
(* The strategy's thread handles its events (mail) one at a time and posts  *)
(* robot commands and halts to the processor's thread (inbox).  The script  *)
(* itself is modelled by what it reports: a load may end at once or, with   *)
(* a compiler, later and repeatedly.                                       *)
(***************************************************************************)
EXTENDS Naturals, Sequences

CONSTANTS Robots,    \* the robots that may be in the team
          MaxBatch,  \* bound on the commands of one batch
          MaxMail,   \* bound on the strategy's waiting events
          MaxInbox   \* bound on the processor's waiting events

ASSUME StrategyAssumption == MaxBatch \in Nat /\ MaxMail \in Nat /\ MaxInbox \in Nat

VARIABLES
    strategy,  \* the state of Strategy
    wanted,    \* history: the last load or close command it has handled
    mail,      \* events waiting for the strategy's thread
    inbox,     \* events waiting for the processor's thread
    team,      \* robots of the team in the processor
    command,   \* robots that have a strategy_command
    input      \* robots whose controller has an input

vars == <<strategy, wanted, mail, inbox, team, command, input>>
robotVars == <<team, command, input>>

Shown == {"CLOSED", "COMPILING", "RUNNING", "FAILED"}
Letters == {"load", "loadOther", "close", "reload", "auto", "noAuto", "debug",
            "team", "geometry", "request", "status"}

\* A command of the strategy moves a robot (it has an input for the controller),
\* does not (a kick, standby), or is incomplete.
Orders == [robot : Robots, kind : {"move", "stand", "incomplete"}]
Halt == [type |-> "halt"]
Messages == [type : {"commands"}, orders : Seq(Orders)] \cup {Halt}
               \cup [type : {"team"}, robots : SUBSET Robots]

Strategies == [script : BOOLEAN,      \* m_strategy is not null
               file : {"none", "script", "other"},     \* m_filename
               failed : BOOLEAN,      \* m_strategyFailed
               autoReload : BOOLEAN,
               timer : BOOLEAN,       \* m_reloadTimer is active
               idle : BOOLEAN,        \* m_idleTimer is active
               pending : BOOLEAN,     \* a load has not been answered yet
               shown : Shown]         \* the last state sent to the user

TypeOK ==
    /\ strategy \in Strategies
    /\ wanted \in BOOLEAN
    /\ mail \in Seq(Letters)
    /\ inbox \in Seq(Messages)
    /\ team \subseteq Robots /\ command \subseteq Robots
    /\ input \subseteq Robots

Init ==
    /\ strategy = [script |-> FALSE, file |-> "none", failed |-> TRUE,
                   autoReload |-> FALSE, timer |-> FALSE, idle |-> FALSE,
                   pending |-> FALSE, shown |-> "CLOSED"]
    /\ wanted = FALSE
    /\ mail = <<>> /\ inbox = <<>>
    /\ team = {} /\ command = {} /\ input = {}

Running(s) == s.script /\ ~s.failed

-----------------------------------------------------------------------------
(* The strategy's thread.  A handler takes the strategy to s; halts sent in  *)
(* a row are one.                                                           *)

Becomes(s) == strategy' = s

CanPost(n) == Len(inbox) + n <= MaxInbox
SendHalt == CanPost(1) /\ inbox' = Append(inbox, Halt)

\* fail: the script is kept, for a reload.
NotArmed(s) == s.timer               \* variant: no automatic reload
Armed(s) == s.timer \/ s.autoReload
Failed(s) == [s EXCEPT !.failed = TRUE, !.pending = FALSE, !.shown = "FAILED",
                       !.timer = Armed(s)]

Fail(s) == SendHalt /\ Becomes(Failed(s))

\* loadStateChanged(RUNNING)
Loaded(s) == [s EXCEPT !.failed = FALSE, !.pending = FALSE, !.shown = "RUNNING"]

\* loadScript: halt, then a script that runs, fails, or reports later; or no
\* handler for this kind of file.
LoadScript(s, file) ==
    /\ SendHalt
    /\ LET fresh == [s EXCEPT !.timer = FALSE, !.file = file,
                              !.script = file = "script", !.failed = TRUE]
       IN  \/ file = "other"  /\ Becomes(Failed(fresh))
           \/ file = "script" /\ Becomes(Loaded(fresh))
           \/ file = "script" /\ Becomes(Failed(fresh))
           \/ file = "script" /\ Becomes([fresh EXCEPT !.pending = TRUE])

Nothing(s) == Becomes(s) /\ UNCHANGED inbox

Reload(s) == IF s.file # "none" THEN LoadScript(s, s.file) ELSE Nothing(s)
ReloadScript(s) == IF s.script THEN Reload(s) ELSE Nothing(s)

ForgetClose(s) == [s EXCEPT !.script = FALSE, !.timer = FALSE, !.pending = FALSE]
                                     \* variant: no status is sent
Closed(s) == [s EXCEPT !.script = FALSE, !.timer = FALSE, !.pending = FALSE,
                       !.shown = "CLOSED"]

\* handleCommand and handleStatus.
OnLoad == /\ \/ Head(mail) = "load" /\ LoadScript(strategy, "script")
             \/ Head(mail) = "loadOther" /\ LoadScript(strategy, "other")
          /\ wanted' = TRUE

OnClose == /\ Head(mail) = "close"
           /\ SendHalt
           /\ Becomes(Closed(strategy))
           /\ wanted' = FALSE

\* A changed team or option of the command reloads a strategy that is open.
OnReload == /\ Head(mail) \in {"reload", "team"}
            /\ ReloadScript(strategy)
            /\ UNCHANGED wanted

OnAutoReload ==
    /\ \/ /\ Head(mail) = "auto"
          /\ LET s == [strategy EXCEPT !.autoReload = TRUE]
             IN  IF s.failed THEN ReloadScript(s) ELSE Nothing(s)
       \/ /\ Head(mail) = "noAuto"
          /\ Nothing([strategy EXCEPT !.autoReload = FALSE])
    /\ UNCHANGED wanted

\* triggerDebugger, which a script without a debugger refuses.
OnDebug == /\ Head(mail) = "debug"
           /\ strategy.script
           /\ Nothing(strategy) \/ Fail(strategy)
           /\ UNCHANGED wanted

\* A changed geometry, and the script's own request, reload whatever was open.
OnReloadAny == /\ Head(mail) \in {"geometry", "request"}
               /\ Reload(strategy)
               /\ UNCHANGED wanted

OnStatus == /\ Head(mail) = "status"
            /\ Nothing([strategy EXCEPT !.idle = TRUE])
            /\ UNCHANGED wanted

HandleMail ==
    /\ mail # <<>>
    /\ OnLoad \/ OnClose \/ OnReload \/ OnAutoReload \/ OnDebug
         \/ OnReloadAny \/ OnStatus
    /\ mail' = Tail(mail)
    /\ UNCHANGED robotVars

ReloadTimeout ==
    /\ strategy.timer
    /\ Reload([strategy EXCEPT !.timer = FALSE])
    /\ UNCHANGED <<wanted, mail, robotVars>>

\* process: the script sends commands while it runs, and may then fail.
Unguarded(s) == s.script             \* variant: failed scripts go on
Guarded(s) == Running(s)

\* A batch has at most one command for a robot.
BatchesOf(n) == {orders \in [1..n -> Orders] :
                    \A i, k \in 1..n : orders[i].robot = orders[k].robot => i = k}

Process ==
    /\ strategy.idle
    /\ LET s == [strategy EXCEPT !.idle = FALSE]
       IN  \/ ~Guarded(s) /\ Nothing(s)
           \/ Guarded(s) /\ (Nothing(s) \/ Fail(s))
           \/ /\ Guarded(s)
              /\ \E n \in 1..MaxBatch : \E orders \in BatchesOf(n) :
                    LET b == [type |-> "commands", orders |-> orders]
                    IN  \/ /\ CanPost(1) /\ inbox' = Append(inbox, b)
                           /\ Becomes(s)
                        \/ /\ CanPost(2) /\ inbox' = inbox \o <<b, Halt>>
                           /\ Becomes(Failed(s))
    /\ UNCHANGED <<wanted, mail, robotVars>>

\* The compiler behind an open script reports: a compilation starts, its result
\* is loaded (or that fails), it fails; in tournament mode errors are only
\* logged.
ScriptReports ==
    /\ strategy.script
    /\ \/ Nothing([strategy EXCEPT !.shown = "COMPILING"])
       \/ Nothing(Loaded(strategy))
       \/ Fail(strategy)
       \/ strategy.shown = "COMPILING" /\ Nothing([strategy EXCEPT !.pending = FALSE])
    /\ UNCHANGED <<wanted, mail, robotVars>>

-----------------------------------------------------------------------------
(* Others that send to the strategy and to the processor.                    *)

Deliver(e) == Len(mail) < MaxMail /\ mail' = Append(mail, e)

User ==
    /\ \E e \in {"load", "loadOther", "close", "reload", "auto", "noAuto"} : Deliver(e)
    /\ UNCHANGED <<strategy, wanted, inbox, robotVars>>

\* The debugger is asked for only when the user sees an open strategy.
UserDebug ==
    /\ strategy.script /\ mail = <<>>
    /\ Deliver("debug")
    /\ UNCHANGED <<strategy, wanted, inbox, robotVars>>

System ==
    /\ \E e \in {"geometry", "status"} : Deliver(e)
    /\ UNCHANGED <<strategy, wanted, inbox, robotVars>>

\* requestReload: the connection is queued, the script may be gone by then.
RequestReload ==
    /\ strategy.script
    /\ Deliver("request")
    /\ UNCHANGED <<strategy, wanted, inbox, robotVars>>

\* set_team goes to both threads.
SetTeam ==
    /\ Deliver("team") /\ CanPost(1)
    /\ \E t \in SUBSET Robots : inbox' = Append(inbox, [type |-> "team", robots |-> t])
    /\ UNCHANGED <<strategy, wanted, robotVars>>

-----------------------------------------------------------------------------
(* The processor.                                                            *)

\* handleStrategyCommands: the first robot that is unknown, or whose command is
\* incomplete, ends the batch; an incomplete command halts its robot.
Taken(orders) ==
    {i \in DOMAIN orders :
        /\ orders[i].robot \in team
        /\ \A k \in 1..(i - 1) : /\ orders[k].robot \in team
                                /\ orders[k].kind # "incomplete"}
To(orders, kinds) ==
    {orders[i].robot : i \in {j \in Taken(orders) : orders[j].kind \in kinds}}

OnCommands ==
    /\ Head(inbox).type = "commands"
    /\ LET orders == Head(inbox).orders
           stopped == To(orders, {"incomplete"})
       IN  /\ command' = (command \cup To(orders, {"move", "stand"})) \ stopped
           /\ input' = (input \cup To(orders, {"move"})) \ stopped
    /\ UNCHANGED team

\* handleStrategyHalt
KeepInput == input                   \* variant: only the commands are cleared
NoInput == {}

OnHalt ==
    /\ Head(inbox).type = "halt"
    /\ command' = {}
    /\ input' = NoInput
    /\ UNCHANGED team

\* setTeam creates the robots anew.
OnTeam ==
    /\ Head(inbox).type = "team"
    /\ team' = Head(inbox).robots
    /\ command' = {} /\ input' = {}

HandleInbox ==
    /\ inbox # <<>>
    /\ OnCommands \/ OnHalt \/ OnTeam
    /\ inbox' = Tail(inbox)
    /\ UNCHANGED <<strategy, wanted, mail>>

-----------------------------------------------------------------------------
Next ==
    \/ HandleMail \/ ReloadTimeout \/ Process \/ ScriptReports
    \/ User \/ UserDebug \/ System \/ RequestReload \/ SetTeam
    \/ HandleInbox

Spec == Init /\ [][Next]_vars

\* The event loops of the two threads run.
FairSpec == Spec /\ WF_vars(HandleMail) /\ WF_vars(HandleInbox)

-----------------------------------------------------------------------------
(* Properties.                                                               *)

\* Robots that act by the strategy's will: they carry out a command, or their
\* controller follows an input.
Driven == command \cup input

\* A strategy that is closed, failed or loading no longer drives a robot, or its
\* halt is on the way behind all its commands.
NoCommandAfter(q, i) == \A j \in (i + 1)..Len(q) : q[j].type # "commands"
HaltedBy(q, driven) ==
    \/ NoCommandAfter(q, 0) /\ driven = {}
    \/ \E i \in 1..Len(q) : q[i] = Halt /\ NoCommandAfter(q, i)
HaltReachesRobots == ~Running(strategy) => HaltedBy(inbox, Driven)

\* A failed script waits for its timer or for the answer to a load, if reloads
\* are automatic.
RetryArmed ==
    strategy.shown = "FAILED" /\ strategy.autoReload /\ strategy.script
        => strategy.timer \/ strategy.pending

\* What the user was shown last, unless a load is pending: a running strategy as
\* running (or compiled anew), a failed one as failed.
ShownMatches ==
    ~strategy.pending =>
        /\ Running(strategy) => strategy.shown \in {"RUNNING", "COMPILING"}
        /\ strategy.shown = "RUNNING" => Running(strategy)
        /\ strategy.script => strategy.shown # "CLOSED"

\* "no strategy to reload": after a close only a load opens a strategy.
ClosedStaysClosed == strategy.script => wanted

\* The robots of a strategy that is not running stop.
RobotsStop == ~Running(strategy) ~> Running(strategy) \/ Driven = {}
==============================================================================
