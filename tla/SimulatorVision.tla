--------------------------- MODULE SimulatorVision ---------------------------
(***************************************************************************)
(* The vision packets of the simulator (src/src/amun/simulator/             *)
(* simulator.cpp), from the picture of the field to the socket or signal    *)
(* that takes them, with changes of the team, the delay and the scaling.    *)
(*                                                                         *)
(* A packet waits in m_visionPackets until it is sent.  With m_isPartial    *)
(* the simulator is stepped by its user (fastsimulator.cpp) and sends       *)
(* packets while it processes a step; otherwise each packet has a timer.    *)
(* One unit of time is one call of process().                               *)
(***************************************************************************)
EXTENDS Naturals, Sequences

CONSTANTS Delays,     \* values of vision_delay, in steps
          FirstDelay, \* the one of a new simulator
          Teams,      \* versions of the team
          FirstTeam,
          MaxPackets, \* bound on the waiting packets
          MaxQueue,   \* bound on the events waiting for the simulator
          MaxAge      \* packets are not told apart when they are older

ASSUME VisionAssumption ==
    /\ Delays \subseteq Nat /\ FirstDelay \in Delays
    /\ FirstTeam \in Teams
    /\ MaxPackets \in Nat /\ MaxQueue \in Nat /\ MaxAge \in Nat
    /\ \A d \in Delays : d < MaxAge

VARIABLES
    m_isPartial, \* useManualTrigger
    sim,         \* team, delay, waiting packets and timers of the simulator
    toSim,       \* events waiting for the simulator
    lastSent,    \* history: the packets sent last, in one go, since a reset
    overtaken    \* history: since a reset a packet was taken that was due
                 \* before one in front of it

history == <<lastSent, overtaken>>
vars == <<m_isPartial, sim, toSim, history>>

Packets == [team : Teams, age : 0..MaxAge, delay : Delays]
Timers == [left : Nat, running : BOOLEAN]

SetTeam(t) == [type |-> "team", team |-> t]
SetDelay(d) == [type |-> "delay", delay |-> d]
SetScaling == [type |-> "scaling"]

TypeOK ==
    /\ sim \in [team : Teams, delay : Delays, packets : Seq(Packets),
                timers : Seq(Timers)]
    /\ m_isPartial \in BOOLEAN /\ overtaken \in BOOLEAN
    /\ lastSent \in Seq(Packets)
    /\ toSim \in Seq({SetTeam(t) : t \in Teams} \cup {SetDelay(d) : d \in Delays}
                       \cup {SetScaling})

Init ==
    /\ m_isPartial \in BOOLEAN
    /\ sim = [team |-> FirstTeam, delay |-> FirstDelay, packets |-> <<>>,
              timers |-> <<>>]
    /\ toSim = <<>>
    /\ lastSent = <<>> /\ overtaken = FALSE

-----------------------------------------------------------------------------
(* The simulator's thread.                                                   *)

Due == {i \in DOMAIN sim.timers : sim.timers[i].running /\ sim.timers[i].left = 0}

Sends(sent) == lastSent' = IF sent = <<>> THEN lastSent ELSE sent

Older(p) == [p EXCEPT !.age = IF @ < MaxAge THEN @ + 1 ELSE @]
Sooner(t) == [t EXCEPT !.left = IF @ > 0 THEN @ - 1 ELSE 0]
Each(Op(_), s) == [i \in DOMAIN s |-> Op(s[i])]

\* The packets a step sends before it takes a new picture: those at the head of
\* the queue whose time, compared as the code does, has come.
WhenPassed(p) == p.age >= p.delay          \* variant: the other way round
WhileOpen(p) == p.age <= p.delay
Outgoing(packets) ==
    {n \in 0..Len(packets) : \A i \in 1..n : WhileOpen(packets[i])}
Longest(N) == CHOOSE n \in N : \A k \in N : k <= n

\* process: every few steps a picture of the field becomes a packet.
Picture == [team |-> sim.team, age |-> 0, delay |-> sim.delay]

\* History: it is due before a packet in front of it, whose timer has longer to run.
Overtakes(timers) ==
    \E i \in DOMAIN timers : timers[i].running /\ timers[i].left > sim.delay

Process ==
    /\ Due = {}
    /\ LET aged == Each(Older, sim.packets)
           n == IF m_isPartial THEN Longest(Outgoing(aged)) ELSE 0
           kept == SubSeq(aged, n + 1, Len(aged))
           left == Each(Sooner, sim.timers)
       IN  /\ Sends(SubSeq(aged, 1, n))
           /\ \/ /\ sim' = [sim EXCEPT !.packets = kept, !.timers = left]
                 /\ UNCHANGED overtaken
              \/ /\ Len(kept) < MaxPackets
                 /\ sim' = [sim EXCEPT
                      !.packets = Append(kept, Picture),
                      !.timers = IF m_isPartial THEN left
                                 ELSE Append(left, [left |-> sim.delay,
                                                    running |-> TRUE])]
                 /\ overtaken' = (overtaken \/ Overtakes(left))
    /\ UNCHANGED <<m_isPartial, toSim>>

\* sendVisionPacket, for the first timer that is due: the first packet is sent
\* and the first timer deleted, whichever timer it was.
DeleteLast(timers) == SubSeq(timers, 1, Len(timers) - 1)   \* variant: the newest one
DeleteTimer(timers) == Tail(timers)

SendVisionPacket ==
    /\ \E i \in Due :
        /\ \A k \in Due : i <= k
        /\ Sends(<<Head(sim.packets)>>)
        /\ sim' = [sim EXCEPT !.packets = Tail(@),
                              !.timers = DeleteTimer([@ EXCEPT ![i].running = FALSE])]
    /\ UNCHANGED <<m_isPartial, toSim, overtaken>>

\* resetVisionPackets
KeepPackets(s) == s                                        \* variant: no reset
Emptied(s) == [s EXCEPT !.packets = <<>>, !.timers = <<>>]

\* setTeam, a realism_config and setScaling
HandleSim ==
    /\ toSim # <<>>
    /\ LET e == Head(toSim)
       IN  \/ /\ e.type = "team"
              /\ sim' = [Emptied(sim) EXCEPT !.team = e.team]
              /\ lastSent' = <<>> /\ overtaken' = FALSE
           \/ /\ e.type = "delay"
              /\ sim' = [sim EXCEPT !.delay = e.delay]
              /\ UNCHANGED history
           \/ /\ e.type = "scaling"
              /\ sim' = Emptied(sim)
              /\ lastSent' = <<>> /\ overtaken' = FALSE
    /\ toSim' = Tail(toSim)
    /\ UNCHANGED m_isPartial

-----------------------------------------------------------------------------
(* The user.                                                                 *)

ChangeTeam ==
    /\ Len(toSim) < MaxQueue
    /\ \E t \in Teams : toSim' = Append(toSim, SetTeam(t))
    /\ UNCHANGED <<m_isPartial, sim, history>>

ChangeRealism ==
    /\ Len(toSim) < MaxQueue
    /\ \E d \in Delays : toSim' = Append(toSim, SetDelay(d))
    /\ UNCHANGED <<m_isPartial, sim, history>>

ChangeScaling ==
    /\ Len(toSim) < MaxQueue
    /\ toSim' = Append(toSim, SetScaling)
    /\ UNCHANGED <<m_isPartial, sim, history>>

-----------------------------------------------------------------------------
Next ==
    \/ Process \/ SendVisionPacket \/ HandleSim
    \/ ChangeTeam \/ ChangeRealism \/ ChangeScaling

Spec == Init /\ [][Next]_vars

-----------------------------------------------------------------------------
(* Properties.                                                               *)

\* "Sending out the vision data is delayed by this time after capturing the
\* positions".  With timers a packet leaves exactly when it is as old as the delay
\* it was taken with, although packets and timers are paired by their order only
\* and the delay changes: until a shorter delay makes one timer overtake
\* another.  From then on, until a reset, packets leave with the timers of others,
\* but none before the shortest delay has passed.  Stepped by hand a packet leaves
\* with the next step, if ever: the comparison does not delay it.
SentInTime ==
    \A i \in DOMAIN lastSent :
        LET p == lastSent[i]
        IN  IF m_isPartial THEN p.age = 1
            ELSE p.age = p.delay \/ (overtaken /\ \E d \in Delays : d <= p.age)

\* No packet with the robots of an earlier team waits in the simulator: "to
\* prevent this remove outdated vision packets".
NoOutdatedPackets == \A i \in DOMAIN sim.packets : sim.packets[i].team = sim.team
==============================================================================
