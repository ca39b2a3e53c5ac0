-------------------------- MODULE SimulationControl --------------------------
(***************************************************************************)
(* The simulator mode of Amun: Amun (src/src/amun/amun.cpp) switches the    *)
(* vision and the clock between the field and the simulator, pauses and     *)
(* scales time; the simulator (simulator.cpp) and the processor             *)
(* (processor.cpp) follow in threads of their own, by queued events.        *)
(*                                                                         *)
(* A speed is a positive number, 1 is real time and 0 stands for "stopped". *)
(***************************************************************************)
EXTENDS Naturals, Sequences

CONSTANTS Speeds,     \* simulation speeds the user may ask for
          Reasons,    \* reasons for a pause
          UiReasons,  \* those the user interface gives, the others are debuggers
          MaxQueue    \* bound on the events waiting for a thread

ASSUME ControlAssumption ==
    /\ Speeds \subseteq Nat \ {0} /\ 1 \in Speeds
    /\ UiReasons \subseteq Reasons
    /\ MaxQueue \in Nat

VARIABLES
    amun,     \* the state of Amun
    timer,    \* the scaling of m_timer
    sim,      \* the current simulator
    toSim,    \* events waiting for it
    proc,     \* the processor
    toProc,   \* events waiting for it
    wish,     \* history: the last speed asked for
    renewed   \* the user interface has sent a setup, its resend is to follow

vars == <<amun, timer, sim, toSim, proc, toProc, wish, renewed>>

Rates == Speeds \cup {0}
Sources == {"field", "simulator"}

Scale(s) == [type |-> "scale", to |-> s]
Enable(b) == [type |-> "enable", on |-> b]
Flip(b) == [type |-> "flip", on |-> b]
Frame(src) == [type |-> "frame", source |-> src]

SimEvents == {Scale(s) : s \in Rates} \cup {Enable(b) : b \in BOOLEAN}
               \cup {Flip(b) : b \in BOOLEAN}
ProcEvents == {Scale(s) : s \in Rates} \cup {Enable(b) : b \in BOOLEAN}
               \cup {Frame(src) : src \in Sources}

TypeOK ==
    /\ amun \in [enabled : BOOLEAN, scaling : Rates, previous : Rates,
                 reasons : SUBSET Reasons,
                 switching : BOOLEAN,      \* a switch is not yet announced
                 linked : BOOLEAN]         \* flips reach the simulator
    /\ timer \in Rates
    /\ sim \in [enabled : BOOLEAN, scaling : Rates, rate : Rates, flip : BOOLEAN]
    /\ proc \in [rate : Rates, simulated : BOOLEAN, flip : BOOLEAN,
                 tracked : SUBSET Sources]
    /\ toSim \in Seq(SimEvents)
    /\ toProc \in Seq(ProcEvents)
    /\ wish \in Speeds
    /\ renewed \in BOOLEAN

\* A simulator is created without robots, disabled and at real time.
NewSimulator == [enabled |-> FALSE, scaling |-> 1, rate |-> 0, flip |-> FALSE]

Init ==
    /\ amun = [enabled |-> FALSE, scaling |-> 1, previous |-> 1, reasons |-> {},
               switching |-> FALSE, linked |-> TRUE]
    /\ timer = 1
    /\ sim = NewSimulator
    /\ proc = [rate |-> 1, simulated |-> FALSE, flip |-> FALSE, tracked |-> {}]
    /\ toSim = <<>> /\ toProc = <<>>
    /\ wish = 1
    /\ renewed = FALSE

-----------------------------------------------------------------------------
(* Amun, in the main thread.                                                 *)

Room(q) == Len(q) < MaxQueue

\* updateScaling: the timer tells both threads.
UpdateScaling(s) ==
    /\ Room(toSim) /\ Room(toProc)
    /\ timer' = s
    /\ toSim' = Append(toSim, Scale(s))
    /\ toProc' = Append(toProc, Scale(s))

\* A speed of the simulation applies in the simulator only.
UpdateInSimulator(s) ==
    IF amun.enabled THEN UpdateScaling(s) ELSE UNCHANGED <<timer, toSim, toProc>>

FieldKeepsScaling(b) == amun.scaling  \* variant: the field is scaled
ClockOf(b) == IF b THEN amun.scaling ELSE 1

\* handleCommandLocally for a switch: the vision is reconnected and the clock
\* set; the command is passed on afterwards.
SwitchMode(b) ==
    /\ ~amun.switching
    /\ UpdateScaling(ClockOf(b))
    /\ amun' = [amun EXCEPT !.enabled = b, !.switching = TRUE]
    /\ renewed' = FALSE
    /\ UNCHANGED <<sim, proc, wish>>

AnnounceMode ==
    /\ amun.switching
    /\ Room(toSim) /\ Room(toProc)
    /\ toSim' = Append(toSim, Enable(amun.enabled))
    /\ toProc' = Append(toProc, Enable(amun.enabled))
    /\ amun' = [amun EXCEPT !.switching = FALSE]
    /\ UNCHANGED <<timer, sim, proc, wish, renewed>>

\* A simulator_setup replaces the simulator, with the events it has not seen,
\* and resets the timer without a word to the threads.
SetUp ==
    /\ ~amun.switching /\ ~renewed
    /\ amun' = [amun EXCEPT !.linked = FALSE]
    /\ timer' = 1
    /\ sim' = NewSimulator
    /\ toSim' = <<>>
    /\ renewed' = TRUE
    /\ UNCHANGED <<proc, toProc, wish>>

\* ssl_control.simulation_speed
SpeedIgnoresPause(s) == [amun EXCEPT !.scaling = s]       \* variant: ends a pause
WithSpeed(s) == IF amun.scaling = 0 THEN [amun EXCEPT !.previous = s]
                ELSE [amun EXCEPT !.scaling = s]

SetSpeed ==
    /\ ~amun.switching /\ ~renewed
    /\ \E s \in Speeds :
        /\ amun' = WithSpeed(s)
        /\ wish' = s
        /\ IF amun'.scaling # amun.scaling THEN UpdateInSimulator(s)
           ELSE UNCHANGED <<timer, toSim, toProc>>
    /\ UNCHANGED <<sim, proc, renewed>>

\* pauseSimulator: the first reason stops time, the end of the last one resumes.
PauseFor(reasons) ==
    /\ ~amun.switching
    /\ \/ /\ amun.reasons # {} /\ reasons = {}
          /\ amun' = [amun EXCEPT !.reasons = {}, !.scaling = amun.previous]
          /\ UpdateInSimulator(amun.previous)
       \/ /\ amun.reasons = {} /\ reasons # {}
          /\ amun' = [amun EXCEPT !.reasons = reasons, !.previous = amun.scaling,
                                  !.scaling = 0]
          /\ UpdateInSimulator(0)
       \/ /\ amun.reasons = {} <=> reasons = {}
          /\ amun' = [amun EXCEPT !.reasons = reasons]
          /\ UNCHANGED <<timer, toSim, toProc>>
    /\ UNCHANGED <<sim, proc, wish, renewed>>

\* The user interface sends nothing between a setup and its resend; a strategy
\* may stop in a debugger at any time.
Pause ==
    \E r \in Reasons :
        /\ r \in UiReasons => ~renewed
        /\ PauseFor(amun.reasons \cup {r}) \/ PauseFor(amun.reasons \ {r})

-----------------------------------------------------------------------------
(* The simulator's thread.                                                   *)

\* setScaling
RunsDisabled(enabled, s) == s            \* variant: no check of m_enabled
NeverStops(enabled, s) ==                \* variant: the trigger is not stopped
    IF enabled /\ s # 0 THEN s ELSE sim.rate
RateOf(enabled, s) == IF enabled THEN s ELSE 0

Rescaled(s) == [sim EXCEPT !.scaling = s, !.rate = RateOf(sim.enabled, s)]
Enabled(b) == [sim EXCEPT !.enabled = b, !.rate = RateOf(b, sim.scaling)]

HandleSim ==
    /\ toSim # <<>>
    /\ LET e == Head(toSim)
       IN  sim' = CASE e.type = "scale" -> Rescaled(e.to)
                    [] e.type = "enable" -> Enabled(e.on)
                    [] e.type = "flip" -> [sim EXCEPT !.flip = e.on]
    /\ toSim' = Tail(toSim)
    /\ UNCHANGED <<amun, timer, proc, toProc, wish, renewed>>

\* A vision packet, of the simulator or of the cameras, goes to the processor
\* while its sender is connected.
BothConnected(src) == TRUE               \* variant: the old vision stays connected
Connected(src) == amun.enabled <=> src = "simulator"

SendFrame ==
    /\ Room(toProc)
    /\ \E src \in Sources :
        /\ Connected(src)
        /\ src = "simulator" => sim.rate # 0
        /\ toProc' = Append(toProc, Frame(src))
    /\ UNCHANGED <<amun, timer, sim, toSim, proc, wish, renewed>>

-----------------------------------------------------------------------------
(* The processor's thread.                                                   *)

HandleProc ==
    /\ toProc # <<>>
    /\ LET e == Head(toProc)
       IN  proc' = CASE e.type = "scale" -> [proc EXCEPT !.rate = e.to]
                     [] e.type = "enable" -> [proc EXCEPT !.simulated = e.on,
                                                          !.tracked = {}]
                     [] e.type = "frame" -> [proc EXCEPT !.tracked = @ \cup {e.source}]
    /\ toProc' = Tail(toProc)
    /\ UNCHANGED <<amun, timer, sim, toSim, wish, renewed>>

\* The referee changes the sides of the teams.
ChangeSides ==
    /\ proc.rate # 0
    /\ proc' = [proc EXCEPT !.flip = ~@]
    /\ \/ amun.linked /\ Room(toSim) /\ toSim' = Append(toSim, Flip(proc'.flip))
       \/ ~amun.linked /\ UNCHANGED toSim
    /\ UNCHANGED <<amun, timer, sim, toProc, wish, renewed>>

-----------------------------------------------------------------------------
Next ==
    \/ \E b \in BOOLEAN : SwitchMode(b)
    \/ AnnounceMode \/ SetUp \/ SetSpeed \/ Pause
    \/ HandleSim \/ SendFrame \/ HandleProc \/ ChangeSides

Spec == Init /\ [][Next]_vars

\* The event loops of the three threads run.
FairSpec ==
    /\ Spec
    /\ WF_vars(AnnounceMode)
    /\ WF_vars(HandleSim) /\ WF_vars(HandleProc)

-----------------------------------------------------------------------------
(* Properties.                                                               *)

\* Time stands still for the simulation exactly while there is a reason for a
\* pause, and the speed last asked for is the one that is used or comes back.
PauseRemembersSpeed ==
    /\ amun.scaling = 0 <=> amun.reasons # {}
    /\ wish = IF amun.reasons = {} THEN amun.scaling ELSE amun.previous

\* "time scaling can only be used with the simulator"; there the clock has the
\* scaling of the simulation, but for the time between a setup and its resend.
ClockFollowsMode ==
    /\ ~amun.enabled => timer = 1
    /\ amun.enabled /\ ~renewed => timer = amun.scaling

\* When no event is on the way the threads run as fast as the clock, and the
\* simulator runs only when it is in use.
ThreadsAgree ==
    toSim = <<>> /\ toProc = <<>> /\ ~amun.switching /\ ~renewed =>
        /\ sim.rate = IF amun.enabled THEN timer ELSE 0
        /\ proc.rate = timer
        /\ proc.simulated = amun.enabled

\* Once it knows of a switch the processor tracks no packet of the other side.
Announced == ~amun.switching /\ \A i \in DOMAIN toProc : toProc[i].type # "enable"
VisionFromOneSource ==
    Announced => proc.tracked \subseteq {IF proc.simulated THEN "simulator" ELSE "field"}

\* A pause reaches the simulator.
PauseArrives ==
    amun.enabled /\ amun.scaling = 0 ~> sim.rate = 0 \/ amun.scaling # 0

==============================================================================
