---------------------------- MODULE Transceiver ----------------------------
(***************************************************************************)
(* The USB radio link (src/src/amun/processor/transceiver.cpp): the         *)
(* transceiver thread with its device, handshake and timers, the queue of   *)
(* events posted to it, and the part of Amun (amun.cpp) that decides where  *)
(* the radio commands of the processor go.                                  *)
(*                                                                          *)
(* The thread runs one event handler at a time.  receive() handles several  *)
(* packets in a loop; rx holds those still to be handled, and while there   *)
(* are any no other handler runs.                                           *)
(***************************************************************************)
EXTENDS Naturals, Sequences

CONSTANTS MaxQueue,     \* bound on the events posted and not yet handled
          MaxPackets,   \* bound on the packets in one USB transfer
          MaxOwed,      \* bound on the replies of one kind the device owes
          KeepsReplies  \* replies survive closing and reopening the device

ASSUME TransceiverAssumption ==
    /\ MaxQueue \in Nat /\ MaxPackets \in Nat /\ MaxOwed \in Nat
    /\ KeepsReplies \in BOOLEAN

VARIABLES
    amun,        \* Amun: m_simulatorEnabled and m_useNetworkTransceiver
    inbox,       \* events posted to the transceiver thread
    simulatorEnabled,   \* Transceiver::m_simulatorEnabled
    link,        \* the device, m_connectionState and m_timeoutTimer
    backoff,     \* m_onlyRestartAfterTimestamp is in the future
    processTimer,\* m_processTimer is active
    rx,          \* packets receive() has read and not handled
    owed,        \* replies the device still has to send
    unanswered   \* history: commands were sent, and no ping reply came since

vars == <<amun, inbox, simulatorEnabled, link, backoff, processTimer, rx,
          owed, unanswered>>

Events  == {"radio", "simOn", "simOff", "enable", "disable", "config"}
Packets == {"initOk", "initBad", "ping", "other"}
States  == {"DISCONNECTED", "HANDSHAKE", "CONNECTED"}
Links   == [device : BOOLEAN, state : States, timer : BOOLEAN]

TypeOK ==
    /\ amun \in [simulator : BOOLEAN, network : BOOLEAN]
    /\ inbox \in Seq(Events)
    /\ simulatorEnabled \in BOOLEAN
    /\ link \in Links
    /\ backoff \in BOOLEAN
    /\ processTimer \in BOOLEAN
    /\ rx \in Seq(Packets)
    /\ owed \in [{"init", "ping"} -> Nat]
    /\ unanswered \in BOOLEAN

Closed == [device |-> FALSE, state |-> "DISCONNECTED", timer |-> FALSE]

Init ==
    /\ amun = [simulator |-> FALSE, network |-> FALSE]
    /\ inbox = <<>>
    /\ simulatorEnabled = FALSE
    /\ link = Closed
    /\ backoff = FALSE
    /\ processTimer = FALSE
    /\ rx = <<>>
    /\ owed = [r \in {"init", "ping"} |-> 0]
    /\ unanswered = FALSE

-----------------------------------------------------------------------------
(* Helpers of the handlers.                                                 *)

\* sendCommand starts m_timeoutTimer unless it is running.
NoTimeout(l) == l                           \* variant: no timeout for pings
StartTimer(l) == [l EXCEPT !.timer = TRUE]

\* The device was sent a request and owes a reply.
Owe(r) == owed' = [owed EXCEPT ![r] = IF @ < MaxOwed THEN @ + 1 ELSE @]

\* What is left of the replies when the device is closed.
OwedWhenClosed ==
    IF KeepsReplies THEN owed ELSE [r \in {"init", "ping"} |-> 0]

\* close(): the timer is stopped only with an open device.
KeepState(l) == [Closed EXCEPT !.state = l.state]   \* variant: state not reset
Drop(l) == IF l.device THEN Closed ELSE [l EXCEPT !.state = "DISCONNECTED"]

Close(delay) ==
    /\ link' = Drop(link)
    /\ backoff' = delay
    /\ unanswered' = FALSE
    /\ owed' = OwedWhenClosed

\* write() to an open device may fail, which closes it; without a device
\* nothing happens.
WriteFails == link.device /\ Close(FALSE)

\* open(): closes, then looks for a device, opens it and starts the handshake;
\* each of the three may fail.
NoTimer     == [device |-> TRUE, state |-> "HANDSHAKE", timer |-> FALSE] \* variant: not started
Handshaking == [device |-> TRUE, state |-> "HANDSHAKE", timer |-> TRUE]

Open ==
    /\ backoff' = FALSE
    /\ unanswered' = FALSE
    /\ \/ /\ link' = Drop(link)                            \* no device found
          /\ owed' = OwedWhenClosed
       \/ /\ link' = Closed                                \* it cannot be used
          /\ owed' = OwedWhenClosed
       \/ /\ link' = Handshaking
          /\ owed' = [OwedWhenClosed EXCEPT !["init"] =
                        IF @ < MaxOwed THEN @ + 1 ELSE @]

-----------------------------------------------------------------------------
(* Amun and the processor, which post to the transceiver thread.            *)

Post(e) ==
    /\ Len(inbox) < MaxQueue
    /\ inbox' = Append(inbox, e)

\* setSimulatorEnabled: where Processor::sendRadioCommands is connected to.
BothSinks == ~amun.network                  \* variant: not disconnected
RoutedHere == ~amun.simulator /\ ~amun.network

\* The processor sends radio commands.
PostRadio ==
    /\ RoutedHere
    /\ Post("radio")
    /\ UNCHANGED <<amun, simulatorEnabled, link, backoff, processTimer, rx,
                   owed, unanswered>>

\* Amun::handleCommand: reconnect, then forward the command to the thread.
SwitchSimulator(on) ==
    /\ amun' = [amun EXCEPT !.simulator = on]
    /\ Post(IF on THEN "simOn" ELSE "simOff")
    /\ UNCHANGED <<simulatorEnabled, link, backoff, processTimer, rx, owed,
                   unanswered>>

\* use_network is of no concern to the transceiver itself.
UseNetwork(on) ==
    /\ amun' = [amun EXCEPT !.network = on]
    /\ UNCHANGED <<inbox, simulatorEnabled, link, backoff, processTimer, rx,
                   owed, unanswered>>

\* The user enables, disables or configures the transceiver.
PostCommand ==
    /\ \E e \in {"enable", "disable", "config"} : Post(e)
    /\ UNCHANGED <<amun, simulatorEnabled, link, backoff, processTimer, rx,
                   owed, unanswered>>

-----------------------------------------------------------------------------
(* The transceiver thread.                                                  *)

\* handleRadioCommands: remember the commands, process them later.
OnRadio ==
    /\ Head(inbox) = "radio"
    /\ processTimer' = TRUE
    /\ UNCHANGED <<simulatorEnabled, link, backoff, owed, unanswered>>

\* handleCommand with simulator.enable: simulation closes the radio link.
OnSimulator ==
    \/ /\ Head(inbox) = "simOn"
       /\ simulatorEnabled' = TRUE
       /\ Close(FALSE)
       /\ UNCHANGED processTimer
    \/ /\ Head(inbox) = "simOff"
       /\ simulatorEnabled' = FALSE
       /\ UNCHANGED <<link, backoff, processTimer, owed, unanswered>>

\* handleCommand with transceiver.enable: ignored in simulation.
OnEnable ==
    /\ Head(inbox) \in {"enable", "disable"}
    /\ \/ /\ simulatorEnabled
          /\ UNCHANGED <<link, backoff, owed, unanswered>>
       \/ /\ ~simulatorEnabled /\ Head(inbox) = "enable"
          /\ Open
       \/ /\ ~simulatorEnabled /\ Head(inbox) = "disable"
          /\ Close(FALSE)
    /\ UNCHANGED <<simulatorEnabled, processTimer>>

\* handleCommand with a configuration: sendTransceiverConfiguration.
OnConfiguration ==
    /\ Head(inbox) = "config"
    /\ \/ UNCHANGED <<link, backoff, owed, unanswered>>
       \/ WriteFails
    /\ UNCHANGED <<simulatorEnabled, processTimer>>

HandleEvent ==
    /\ rx = <<>> /\ inbox # <<>>
    /\ OnRadio \/ OnSimulator \/ OnEnable \/ OnConfiguration
    /\ inbox' = Tail(inbox)
    /\ UNCHANGED <<amun, rx>>

\* process and sendCommand: open the device if there is none (ensureOpen), or
\* write commands and a ping.  The timeout is started even if the write failed.
Process ==
    /\ rx = <<>> /\ processTimer
    /\ processTimer' = FALSE
    /\ \/ /\ ~link.device /\ ~backoff
          /\ Open
       \/ /\ link.device \/ backoff
          /\ link.state # "CONNECTED"
          /\ UNCHANGED <<link, backoff, owed, unanswered>>
       \/ /\ link.state = "CONNECTED"
          /\ link' = StartTimer(link)
          /\ unanswered' = TRUE
          /\ Owe("ping")
          /\ UNCHANGED backoff
       \/ /\ link.state = "CONNECTED"
          /\ link' = StartTimer(Drop(link))
          /\ backoff' = FALSE
          /\ unanswered' = FALSE
          /\ owed' = OwedWhenClosed
    /\ UNCHANGED <<amun, inbox, simulatorEnabled, rx>>

\* timeout of m_timeoutTimer
Timeout ==
    /\ rx = <<>> /\ link.timer
    /\ link' = [Drop(link) EXCEPT !.timer = FALSE]
    /\ backoff' = TRUE
    /\ unanswered' = FALSE
    /\ owed' = OwedWhenClosed
    /\ UNCHANGED <<amun, inbox, simulatorEnabled, processTimer, rx>>

\* The restart delay has passed.
BackoffOver ==
    /\ backoff
    /\ backoff' = FALSE
    /\ UNCHANGED <<amun, inbox, simulatorEnabled, link, processTimer, rx, owed,
                   unanswered>>

\* receive: a transfer of the device has some of the packets it owes; or the
\* read fails.
PacketsOf(r) == IF r = "init" THEN {"initOk", "initBad"} ELSE {"ping"}

Receive ==
    /\ rx = <<>> /\ link.device
    /\ \/ /\ Close(FALSE)
          /\ UNCHANGED rx
       \/ /\ \E n \in 1..MaxPackets : \E packets \in [1..n -> Packets] :
               \E left \in [{"init", "ping"} -> 0..MaxOwed] :
                  /\ \A r \in {"init", "ping"} :
                       left[r] + Len(SelectSeq(packets,
                           LAMBDA p : p \in PacketsOf(r))) = owed[r]
                  /\ rx' = packets
                  /\ owed' = left
          /\ UNCHANGED <<link, backoff, unanswered>>
    /\ UNCHANGED <<amun, inbox, simulatorEnabled, processTimer>>

\* handleInitPacket: the reply is valid only in the handshake and only with the
\* version of the protocol; then the radio channel is configured.
InitAllowedIn == {"HANDSHAKE"}

OnInitReply ==
    /\ Head(rx) \in {"initOk", "initBad"}
    /\ \/ /\ link.state \notin InitAllowedIn \/ Head(rx) = "initBad"
          /\ Close(TRUE)
       \/ /\ link.state \in InitAllowedIn /\ Head(rx) = "initOk"
          /\ link' = [link EXCEPT !.state = "CONNECTED", !.timer = FALSE]
          /\ UNCHANGED <<backoff, owed, unanswered>>
       \/ /\ link.state \in InitAllowedIn /\ Head(rx) = "initOk"
          /\ Close(FALSE)                       \* the configuration write fails

\* handlePingPacket stops the timeout, in whatever state the connection is.
StopTimer(l) == [l EXCEPT !.timer = FALSE]

OnPingReply ==
    /\ Head(rx) = "ping"
    /\ link' = StopTimer(link)
    /\ unanswered' = FALSE
    /\ UNCHANGED <<backoff, owed>>

\* Status, robot response and datagram packets do not touch the connection.
OnOtherPacket ==
    /\ Head(rx) = "other"
    /\ UNCHANGED <<link, backoff, owed, unanswered>>

\* The loop of receive() goes on after a handler has closed the device.
HandlePacket ==
    /\ rx # <<>>
    /\ OnInitReply \/ OnPingReply \/ OnOtherPacket
    /\ rx' = Tail(rx)
    /\ UNCHANGED <<amun, inbox, simulatorEnabled, processTimer>>

-----------------------------------------------------------------------------
Next ==
    \/ PostRadio \/ PostCommand
    \/ \E on \in BOOLEAN : SwitchSimulator(on) \/ UseNetwork(on)
    \/ HandleEvent \/ Process \/ Timeout \/ BackoffOver
    \/ Receive \/ HandlePacket

Spec == Init /\ [][Next]_vars

\* The event loop runs every handler that is due: events and packets in order,
\* the timers also while packets keep arriving.
Fairness ==
    /\ WF_vars(HandlePacket)
    /\ SF_vars(HandleEvent)
    /\ SF_vars(Process)
    /\ SF_vars(Timeout)
    /\ WF_vars(BackoffOver)

FairSpec == Spec /\ Fairness

-----------------------------------------------------------------------------
(* Properties.                                                              *)

\* The state of the connection and the device agree, whatever handler closed
\* the device and whatever the loop of receive() still handles afterwards.
StateMatchesDevice == link.device <=> link.state # "DISCONNECTED"

\* Once the thread knows of the simulation, no radio command goes over the air,
\* although commands may be waiting for the process timer or in the queue when
\* the simulator is switched on.
NoRadioInSimulation == simulatorEnabled => ~unanswered

\* Commands without an answer are always under a timeout, so that a device
\* that went silent is noticed.
SilenceIsTimed == unanswered => link.state = "CONNECTED" /\ link.timer

\* ... and it is: it answers, or the link is closed.
SilenceIsNoticed == unanswered ~> ~unanswered

\* "don't get stuck if the transceiver doesn't answer / has too old firmware":
\* a handshake ends, with or without a reply.
HandshakeEnds == link.state = "HANDSHAKE" ~> link.state # "HANDSHAKE"
=============================================================================
