------------------------- MODULE Transceiver_proofs -------------------------
(***************************************************************************)
(* Proofs about Transceiver, for every bound of the queue and of the       *)
(* packets, and for a device that keeps its replies or forgets them.       *)
(***************************************************************************)
EXTENDS Transceiver, TLAPS

USE TransceiverAssumption
USE DEF StartTimer, StopTimer, InitAllowedIn, Handshaking, Closed, RoutedHere

\* What the thread knows of the simulator after the first i events of queue, if
\* it knew now before: the last switch among them, or what it knew.
Switches == {"simOn", "simOff"}
Switch(on) == IF on THEN "simOn" ELSE "simOff"

Believed(queue, now, i, on) ==
    \E j \in 0..i :
        /\ (IF j = 0 THEN now ELSE queue[j]) = on
        /\ \A k \in (j+1)..i : queue[k] \notin Switches

\* Radio commands are queued behind a switch to the field only, and Amun's
\* setting is the one the thread arrives at.
Ordered(queue, now, setting) ==
    /\ Believed(queue, now, Len(queue), setting)
    /\ \A i \in 1..Len(queue) :
           queue[i] = "radio" => Believed(queue, now, i, "simOff")

QueueInv == Ordered(inbox, Switch(simulatorEnabled), Switch(amun.simulator))

\* In simulation a command that still waits for the process timer finds the
\* device closed.
PendingInv == simulatorEnabled /\ processTimer => ~link.device

IInv ==
    /\ StateMatchesDevice
    /\ NoRadioInSimulation
    /\ SilenceIsTimed
    /\ PendingInv

-----------------------------------------------------------------------------
\* close() leaves a well formed link without a device.
LEMMA CloseFacts ==
    ASSUME TypeOK, StateMatchesDevice
    PROVE  /\ Drop(link) \in Links
           /\ ~Drop(link).device /\ Drop(link).state = "DISCONNECTED"
           /\ OwedWhenClosed \in [{"init", "ping"} -> Nat]
  BY DEF TypeOK, StateMatchesDevice, Drop, Links, States, OwedWhenClosed

\* Closing keeps the types and leaves no answer to wait for.
LEMMA CloseStep ==
    ASSUME TypeOK, StateMatchesDevice, NEW delay \in BOOLEAN, Close(delay)
    PROVE  /\ link' \in Links /\ ~link'.device /\ link'.state = "DISCONNECTED"
           /\ backoff' \in BOOLEAN /\ unanswered' = FALSE
           /\ owed' \in [{"init", "ping"} -> Nat]
  BY CloseFacts DEF Close

\* open() leaves no device, or one in the handshake.
LEMMA OpenStep ==
    ASSUME TypeOK, StateMatchesDevice, Open
    PROVE  /\ link' \in Links
           /\ link'.device <=> link'.state # "DISCONNECTED"
           /\ backoff' \in BOOLEAN /\ unanswered' = FALSE
           /\ owed' \in [{"init", "ping"} -> Nat]
<1> HIDE DEF Closed
<1>1. Closed \in Links /\ ~Closed.device /\ Closed.state = "DISCONNECTED"
  BY DEF Links, Closed, States
<1>2. Handshaking \in Links /\ Handshaking.device /\ Handshaking.state = "HANDSHAKE"
  BY DEF Links, States
<1> HIDE DEF Handshaking
<1>3. owed' \in [{"init", "ping"} -> Nat]
  BY CloseFacts DEF Open
<1> QED BY <1>1, <1>2, <1>3, CloseFacts DEF Open

-----------------------------------------------------------------------------
\* Posting appends one of the events.
LEMMA PostStep ==
    ASSUME inbox \in Seq(Events), NEW e \in Events, Post(e)
    PROVE  inbox' \in Seq(Events)
  BY DEF Post

\* The variables have their types, and the state of the connection agrees with
\* the device, in every reachable state.
LEMMA TypingStep ==
    ASSUME TypeOK, StateMatchesDevice, [Next]_vars
    PROVE  TypeOK' /\ StateMatchesDevice'
<1> USE DEF TypeOK, StateMatchesDevice, Events, Packets
<1>1. CASE PostRadio \/ PostCommand
  <2>1. inbox' \in Seq(Events)
    <3>1. \E e \in Events : Post(e)
      BY <1>1 DEF PostRadio, PostCommand
    <3> QED BY <3>1, PostStep
  <2>2. UNCHANGED <<amun, simulatorEnabled, link, backoff, processTimer, rx,
                    owed, unanswered>>
    BY <1>1 DEF PostRadio, PostCommand
  <2> QED BY <2>1, <2>2
<1>2. ASSUME NEW on \in BOOLEAN, SwitchSimulator(on) \/ UseNetwork(on)
      PROVE  TypeOK' /\ StateMatchesDevice'
  <2>1. inbox' \in Seq(Events)
    <3>1. inbox' = inbox \/ \E e \in Events : Post(e)
      BY <1>2 DEF SwitchSimulator, UseNetwork
    <3> QED BY <3>1, PostStep
  <2>2. amun' \in [simulator : BOOLEAN, network : BOOLEAN]
    BY <1>2 DEF SwitchSimulator, UseNetwork
  <2>3. UNCHANGED <<simulatorEnabled, link, backoff, processTimer, rx, owed,
                    unanswered>>
    BY <1>2 DEF SwitchSimulator, UseNetwork
  <2> QED BY <2>1, <2>2, <2>3
<1>3. CASE HandleEvent
  <2>1. /\ inbox' \in Seq(Events) /\ UNCHANGED <<amun, rx>>
    BY <1>3 DEF HandleEvent
  <2>2. CASE OnRadio
    BY <2>1, <2>2 DEF OnRadio
  <2>3. CASE OnSimulator
    BY <2>1, <2>3, CloseStep DEF OnSimulator
  <2>4. CASE OnEnable
    BY <2>1, <2>4, CloseStep, OpenStep DEF OnEnable
  <2>5. CASE OnConfiguration
    BY <2>1, <2>5, CloseStep DEF OnConfiguration, WriteFails
  <2> QED BY <1>3, <2>2, <2>3, <2>4, <2>5 DEF HandleEvent
<1>4. CASE Process
  <2>1. CASE Open
    BY <1>4, <2>1, OpenStep DEF Process
  <2>2. CASE UNCHANGED <<link, backoff, owed, unanswered>>
    BY <1>4, <2>2 DEF Process
  <2>3. CASE link.state = "CONNECTED" /\ link' = StartTimer(link) /\ Owe("ping")
             /\ unanswered' = TRUE /\ UNCHANGED backoff
    <3>1. link' \in Links /\ link'.device = link.device /\ link'.state = link.state
      BY <2>3 DEF Links
    <3>2. owed' \in [{"init", "ping"} -> Nat]
      BY <2>3 DEF Owe
    <3>3. UNCHANGED <<amun, inbox, simulatorEnabled, rx>> /\ processTimer' = FALSE
      BY <1>4 DEF Process
    <3> QED BY <2>3, <3>1, <3>2, <3>3
  <2>4. CASE link' = StartTimer(Drop(link)) /\ backoff' = FALSE
             /\ unanswered' = FALSE /\ owed' = OwedWhenClosed
    <3>1. link' \in Links /\ ~link'.device /\ link'.state = "DISCONNECTED"
      BY <2>4, CloseFacts DEF Links
    <3> QED BY <1>4, <2>4, <3>1, CloseFacts DEF Process
  <2> QED BY <1>4, <2>1, <2>2, <2>3, <2>4 DEF Process
<1>5. CASE Timeout
  <2>1. link' \in Links /\ ~link'.device /\ link'.state = "DISCONNECTED"
    BY <1>5, CloseFacts DEF Timeout, Links
  <2> QED BY <1>5, <2>1, CloseFacts DEF Timeout
<1>6. CASE BackoffOver
  BY <1>6 DEF BackoffOver
<1>7. CASE Receive
  <2>1. CASE Close(FALSE) /\ UNCHANGED rx
    BY <1>7, <2>1, CloseStep DEF Receive
  <2>2. CASE rx' \in Seq(Packets) /\ owed' \in [{"init", "ping"} -> 0..MaxOwed]
             /\ UNCHANGED <<link, backoff, unanswered>>
    BY <1>7, <2>2 DEF Receive
  <2>3. \A n \in 1..MaxPackets : \A packets \in [1..n -> Packets] :
            packets \in Seq(Packets)
    OBVIOUS
  <2> QED BY <1>7, <2>1, <2>2, <2>3 DEF Receive
<1>8. CASE HandlePacket
  <2>1. rx' \in Seq(Packets) /\ UNCHANGED <<amun, inbox, simulatorEnabled, processTimer>>
    BY <1>8 DEF HandlePacket
  <2>2. CASE OnInitReply
    <3>1. CASE \E delay \in BOOLEAN : Close(delay)
      BY <2>1, <3>1, CloseStep
    <3>2. CASE /\ link.state = "HANDSHAKE"
               /\ link' = [link EXCEPT !.state = "CONNECTED", !.timer = FALSE]
               /\ UNCHANGED <<backoff, owed, unanswered>>
      BY <2>1, <3>2 DEF Links, States
    <3> QED BY <2>2, <3>1, <3>2 DEF OnInitReply
  <2>3. CASE OnPingReply
    BY <2>1, <2>3 DEF OnPingReply, Links
  <2>4. CASE OnOtherPacket
    BY <2>1, <2>4 DEF OnOtherPacket
  <2> QED BY <1>8, <2>2, <2>3, <2>4 DEF HandlePacket
<1>9. CASE UNCHANGED vars
  BY <1>9 DEF vars
<1> QED BY <1>1, <1>2, <1>3, <1>4, <1>5, <1>6, <1>7, <1>8, <1>9 DEF Next

\* The types, and a closed device, initially.
LEMMA InitType == Init => TypeOK /\ StateMatchesDevice
<1> SUFFICES ASSUME Init PROVE TypeOK /\ StateMatchesDevice
  OBVIOUS
<1>1. link \in Links /\ ~link.device /\ link.state = "DISCONNECTED"
  BY DEF Init, Links, States
<1>2. amun \in [simulator : BOOLEAN, network : BOOLEAN]
  BY DEF Init
<1>3. inbox \in Seq(Events) /\ rx \in Seq(Packets)
  BY DEF Init
<1>4. owed \in [{"init", "ping"} -> Nat]
  BY DEF Init
<1> QED BY <1>1, <1>2, <1>3, <1>4 DEF Init, TypeOK, StateMatchesDevice

\* The transceiver is DISCONNECTED exactly when it has no device.
THEOREM DeviceMatchesState == Spec => [](TypeOK /\ StateMatchesDevice)
  BY InitType, TypingStep, PTL DEF Spec
-----------------------------------------------------------------------------
\* An event added at the end leaves the events before it alone.
LEMMA AppendFacts ==
    ASSUME NEW q \in Seq(Events), NEW e \in Events
    PROVE  /\ Len(q) \in Nat /\ Len(Append(q, e)) = Len(q) + 1
           /\ Append(q, e)[Len(q) + 1] = e
           /\ \A i \in 1..Len(q) : Append(q, e)[i] = q[i]
  OBVIOUS

\* What is believed in front of the last event does not depend on it.
LEMMA BelievedBefore ==
    ASSUME NEW q \in Seq(Events), NEW e \in Events, NEW now \in Switches,
           NEW on \in Switches, NEW i \in 0..Len(q), Believed(q, now, i, on)
    PROVE  Believed(Append(q, e), now, i, on)
<1> DEFINE p == Append(q, e)
<1>1. \A k \in 1..i : p[k] = q[k]
  BY AppendFacts
<1>2. PICK j \in 0..i :
        /\ (IF j = 0 THEN now ELSE q[j]) = on
        /\ \A k \in (j + 1)..i : q[k] \notin Switches
  BY DEF Believed
<1>3. i \in Nat /\ j \in 0..i
  BY AppendFacts
<1> HIDE DEF p
<1>4. (IF j = 0 THEN now ELSE p[j]) = on
  BY <1>1, <1>2, <1>3
<1>5. \A k \in (j + 1)..i : p[k] \notin Switches
  BY <1>1, <1>2, <1>3
<1>6. Believed(p, now, i, on)
  BY <1>3, <1>4, <1>5 DEF Believed
<1> QED BY <1>6 DEF p

\* A switch is what is known after it ...
LEMMA BelievedSwitch ==
    ASSUME NEW q \in Seq(Events), NEW now \in Switches, NEW on \in Switches,
           on \in Events
    PROVE  Believed(Append(q, on), now, Len(q) + 1, on)
<1> DEFINE p == Append(q, on)
<1>1. p[Len(q) + 1] = on /\ Len(q) \in Nat
  BY AppendFacts
<1> HIDE DEF p
<1>2. Len(q) + 1 \in 0..(Len(q) + 1) /\ Len(q) + 1 # 0
  BY <1>1
<1>3. \A k \in (Len(q) + 2)..(Len(q) + 1) : FALSE
  BY <1>1
<1>4. Believed(p, now, Len(q) + 1, on)
  BY <1>1, <1>2, <1>3 DEF Believed
<1> QED BY <1>4 DEF p

\* ... and another event changes nothing.
LEMMA BelievedOther ==
    ASSUME NEW q \in Seq(Events), NEW e \in Events, e \notin Switches,
           NEW now \in Switches, NEW on \in Switches, Believed(q, now, Len(q), on)
    PROVE  Believed(Append(q, e), now, Len(q) + 1, on)
<1> DEFINE p == Append(q, e)
<1>1. /\ p[Len(q) + 1] = e /\ Len(q) \in Nat
      /\ \A k \in 1..Len(q) : p[k] = q[k]
  BY AppendFacts
<1> HIDE DEF p
<1>2. PICK j \in 0..Len(q) :
          /\ (IF j = 0 THEN now ELSE q[j]) = on
          /\ \A k \in (j+1)..Len(q) : q[k] \notin Switches
  BY DEF Believed
<1>3. (IF j = 0 THEN now ELSE p[j]) = on
  BY <1>1, <1>2
<1>4. \A k \in (j+1)..(Len(q) + 1) : p[k] \notin Switches
  BY <1>1, <1>2
<1>5. j \in 0..(Len(q) + 1)
  BY <1>1
<1>6. Believed(p, now, Len(q) + 1, on)
  BY <1>3, <1>4, <1>5 DEF Believed
<1> QED BY <1>6 DEF p

\* Handling the first event moves the knowledge it brings into the thread.
LEMMA BelievedTail ==
    ASSUME NEW q \in Seq(Events), q # <<>>, NEW now \in Switches,
           NEW next \in Switches, NEW on \in Switches, NEW i \in 1..Len(q),
           next = (IF q[1] \in Switches THEN q[1] ELSE now),
           Believed(q, now, i, on)
    PROVE  Believed(Tail(q), next, i - 1, on)
<1> DEFINE p == Tail(q)
<1>1. Len(q) \in Nat /\ \A k \in 1..(Len(q) - 1) : p[k] = q[k + 1]
  OBVIOUS
<1> HIDE DEF p
<1>2. PICK j \in 0..i :
          /\ (IF j = 0 THEN now ELSE q[j]) = on
          /\ \A k \in (j+1)..i : q[k] \notin Switches
  BY DEF Believed
<1>3. CASE j >= 2
  <2>1. j - 1 \in 0..(i - 1) /\ j - 1 # 0 /\ p[j - 1] = on
    BY <1>1, <1>2, <1>3
  <2>2. \A k \in ((j - 1) + 1)..(i - 1) : p[k] \notin Switches
    <3> TAKE k \in ((j - 1) + 1)..(i - 1)
    <3>1. k + 1 \in (j + 1)..i /\ k \in 1..(Len(q) - 1)
      BY <1>1, <1>3
    <3> QED BY <1>1, <1>2, <3>1
  <2> QED BY <2>1, <2>2 DEF Believed, p
<1>4. CASE j \in {0, 1}
  <2>1. next = on
    BY <1>2, <1>4
  <2>2. \A k \in 1..(i - 1) : p[k] \notin Switches
    <3> TAKE k \in 1..(i - 1)
    <3>1. k + 1 \in (j + 1)..i /\ k \in 1..(Len(q) - 1)
      BY <1>1, <1>4
    <3> QED BY <1>1, <1>2, <3>1
  <2>3. 0 \in 0..(i - 1)
    BY <1>1
  <2> QED BY <2>1, <2>2, <2>3 DEF Believed, p
<1>5. j \in Nat
  BY <1>1
<1> QED BY <1>3, <1>4, <1>5

-----------------------------------------------------------------------------
\* The queue: posting and handling keep commands behind a switch to the field.
LEMMA PostSwitch ==
    ASSUME NEW q \in Seq(Events), NEW now \in Switches, NEW setting \in Switches,
           Ordered(q, now, setting), NEW on \in Switches
    PROVE  Ordered(Append(q, on), now, on)
<1>1. on \in Events /\ on # "radio"
  BY DEF Switches, Events
<1>2. Believed(Append(q, on), now, Len(q) + 1, on)
  BY <1>1, BelievedSwitch
<1>3. ASSUME NEW i \in 1..(Len(q) + 1), Append(q, on)[i] = "radio"
      PROVE  Believed(Append(q, on), now, i, "simOff")
  <2>1. i \in 0..Len(q) /\ i \in 1..Len(q) /\ q[i] = "radio"
    BY <1>1, <1>3, AppendFacts
  <2>2. Believed(q, now, i, "simOff")
    BY <2>1 DEF Ordered
  <2> QED BY <1>1, <2>1, <2>2, BelievedBefore DEF Switches
<1> QED BY <1>1, <1>2, <1>3, AppendFacts DEF Ordered

\* Posting another event keeps the order; a radio command only outside simulation.
LEMMA PostOther ==
    ASSUME NEW q \in Seq(Events), NEW now \in Switches, NEW setting \in Switches,
           Ordered(q, now, setting), NEW e \in Events, e \notin Switches,
           e = "radio" => setting = "simOff"
    PROVE  Ordered(Append(q, e), now, setting)
<1>1. Believed(Append(q, e), now, Len(q) + 1, setting)
  BY BelievedOther DEF Ordered
<1>2. ASSUME NEW i \in 1..(Len(q) + 1), Append(q, e)[i] = "radio"
      PROVE  Believed(Append(q, e), now, i, "simOff")
  <2>1. CASE i \in 1..Len(q)
    <3>1. q[i] = "radio" /\ i \in 0..Len(q)
      BY <1>2, <2>1, AppendFacts
    <3>2. Believed(q, now, i, "simOff")
      BY <2>1, <3>1 DEF Ordered
    <3> QED BY <3>1, <3>2, BelievedBefore DEF Switches
  <2>2. CASE i = Len(q) + 1
    <3>1. setting = "simOff"
      BY <1>2, <2>2, AppendFacts
    <3>2. Believed(Append(q, e), now, i, setting)
      BY <1>1, <2>2
    <3> QED BY <3>1, <3>2
  <2>3. Len(q) \in Nat
    BY AppendFacts
  <2> QED BY <2>1, <2>2, <2>3
<1> QED BY <1>1, <1>2, AppendFacts DEF Ordered

\* Taking the first event keeps the order of the rest.
LEMMA TakeFirst ==
    ASSUME NEW q \in Seq(Events), q # <<>>, NEW now \in Switches,
           NEW next \in Switches, NEW setting \in Switches,
           next = (IF q[1] \in Switches THEN q[1] ELSE now),
           Ordered(q, now, setting)
    PROVE  Ordered(Tail(q), next, setting)
<1> DEFINE p == Tail(q)
<1>1. /\ Len(q) \in Nat /\ Len(q) >= 1 /\ Len(p) = Len(q) - 1
      /\ \A k \in 1..(Len(q) - 1) : p[k] = q[k + 1]
  OBVIOUS
<1>2. Believed(p, next, Len(q) - 1, setting)
  <2>1. Len(q) \in 1..Len(q)
    BY <1>1
  <2> QED BY <2>1, BelievedTail DEF Ordered
<1>3. ASSUME NEW i \in 1..(Len(q) - 1), p[i] = "radio"
      PROVE  Believed(p, next, i, "simOff")
  <2>1. i + 1 \in 1..Len(q) /\ q[i + 1] = "radio" /\ (i + 1) - 1 = i
    BY <1>1, <1>3
  <2>2. Believed(q, now, i + 1, "simOff")
    BY <2>1 DEF Ordered
  <2>3. Believed(p, next, (i + 1) - 1, "simOff")
    BY <2>1, <2>2, BelievedTail DEF Switches
  <2> QED BY <2>1, <2>3
<1> QED BY <1>1, <1>2, <1>3 DEF Ordered

\* Every step keeps the order of switches and radio commands in the queue.
LEMMA QueueStep ==
    ASSUME TypeOK, QueueInv, [Next]_vars
    PROVE  QueueInv'
<1> USE DEF TypeOK, QueueInv
<1>0. \A on \in BOOLEAN : Switch(on) \in Switches
  BY DEF Switch, Switches
<1>1. ASSUME NEW on \in BOOLEAN, SwitchSimulator(on)
      PROVE  QueueInv'
  <2>1. inbox' = Append(inbox, Switch(on)) /\ UNCHANGED simulatorEnabled
        /\ amun'.simulator = on
    BY <1>1 DEF SwitchSimulator, Switch, Post
  <2> QED BY <1>0, <2>1, PostSwitch
<1>2. CASE PostRadio
  <2>1. inbox' = Append(inbox, "radio") /\ UNCHANGED <<simulatorEnabled, amun>>
        /\ Switch(amun.simulator) = "simOff"
    BY <1>2 DEF PostRadio, Post, Switch
  <2>2. "radio" \in Events /\ "radio" \notin Switches
    BY DEF Events, Switches
  <2> QED BY <1>0, <2>1, <2>2, PostOther
<1>3. CASE PostCommand
  <2>1. PICK e \in {"enable", "disable", "config"} : Post(e)
    BY <1>3 DEF PostCommand
  <2>2. inbox' = Append(inbox, e) /\ UNCHANGED <<simulatorEnabled, amun>>
    BY <1>3, <2>1 DEF PostCommand, Post
  <2>3. e \in Events /\ e \notin Switches /\ e # "radio"
    BY DEF Events, Switches
  <2> QED BY <1>0, <2>2, <2>3, PostOther
<1>4. CASE HandleEvent
  <2>1. inbox # <<>> /\ inbox' = Tail(inbox) /\ UNCHANGED amun
        /\ Head(inbox) = inbox[1]
    BY <1>4 DEF HandleEvent
  <2>2. CASE inbox[1] \in Switches
    <3>1. OnSimulator
      BY <1>4, <2>1, <2>2 DEF HandleEvent, OnRadio, OnEnable, OnConfiguration, Switches
    <3>2. Switch(simulatorEnabled') = inbox[1]
      BY <2>1, <3>1 DEF OnSimulator, Switch
    <3> QED BY <1>0, <2>1, <2>2, <3>2, TakeFirst
  <2>3. CASE inbox[1] \notin Switches
    <3>1. OnRadio \/ OnEnable \/ OnConfiguration
      BY <1>4, <2>1, <2>3 DEF HandleEvent, OnSimulator, Switches
    <3>2. UNCHANGED simulatorEnabled
      BY <3>1 DEF OnRadio, OnEnable, OnConfiguration
    <3> QED BY <1>0, <2>1, <2>3, <3>2, TakeFirst
  <2> QED BY <2>2, <2>3
<1>5. CASE UNCHANGED <<inbox, simulatorEnabled, amun.simulator>>
  BY <1>5
<1>6. ASSUME NEW on \in BOOLEAN, UseNetwork(on)
      PROVE  UNCHANGED <<inbox, simulatorEnabled, amun.simulator>>
  BY <1>6 DEF UseNetwork
<1>7. CASE Process \/ Timeout \/ BackoffOver \/ Receive \/ HandlePacket
            \/ UNCHANGED vars
  <2>1. UNCHANGED <<inbox, simulatorEnabled, amun>>
    BY <1>7 DEF Process, Timeout, BackoffOver, Receive, HandlePacket, vars
  <2> QED BY <1>5, <2>1
<1> QED BY <1>1, <1>2, <1>3, <1>4, <1>5, <1>6, <1>7 DEF Next

-----------------------------------------------------------------------------
\* In simulation the first event is not a radio command.
LEMMA NoRadioFirst ==
    ASSUME TypeOK, QueueInv, inbox # <<>>, Head(inbox) = "radio"
    PROVE  ~simulatorEnabled
<1>1. inbox[1] = "radio" /\ 1 \in 1..Len(inbox)
  BY DEF TypeOK
<1>2. Believed(inbox, Switch(simulatorEnabled), 1, "simOff")
  BY <1>1 DEF QueueInv, Ordered
<1>3. PICK j \in 0..1 : (IF j = 0 THEN Switch(simulatorEnabled) ELSE inbox[j]) = "simOff"
  BY <1>2 DEF Believed
<1> QED BY <1>1, <1>3 DEF Switch

\* Every handler keeps commands without an answer under a timeout, and in
\* simulation away from the device.
LEMMA LinkStep ==
    ASSUME TypeOK, QueueInv, IInv, [Next]_vars
    PROVE  IInv'
<1> USE DEF IInv, NoRadioInSimulation, SilenceIsTimed, PendingInv
<1>1. StateMatchesDevice'
  BY TypingStep
<1>2. ASSUME UNCHANGED simulatorEnabled, processTimer' => processTimer,
             ~unanswered', ~link'.device
      PROVE  IInv'
  BY <1>1, <1>2
<1>3. ASSUME UNCHANGED <<simulatorEnabled, link, unanswered>>,
             processTimer' => processTimer
      PROVE  IInv'
  BY <1>1, <1>3
<1>4. CASE PostRadio \/ PostCommand
           \/ (\E on \in BOOLEAN : SwitchSimulator(on) \/ UseNetwork(on))
           \/ BackoffOver \/ UNCHANGED vars
  BY <1>3, <1>4 DEF PostRadio, PostCommand, SwitchSimulator, UseNetwork,
       BackoffOver, vars
<1>5. CASE HandleEvent
  <2>1. CASE OnRadio
    <3>1. ~simulatorEnabled /\ UNCHANGED <<simulatorEnabled, link, unanswered>>
      BY <1>5, <2>1, NoRadioFirst DEF HandleEvent, OnRadio
    <3> QED BY <1>1, <3>1
  <2>2. CASE OnSimulator
    <3>1. CASE Close(FALSE)
      <4>1. ~unanswered' /\ ~link'.device
        BY <3>1, CloseStep
      <4> QED BY <1>1, <4>1
    <3>2. CASE simulatorEnabled' = FALSE /\ UNCHANGED <<link, unanswered>>
      BY <1>1, <3>2
    <3> QED BY <2>2, <3>1, <3>2 DEF OnSimulator
  <2>3. CASE OnEnable
    <3>1. CASE UNCHANGED <<link, unanswered>>
      BY <1>3, <2>3, <3>1 DEF OnEnable
    <3>2. CASE ~simulatorEnabled /\ Open
      <4>1. ~unanswered' /\ ~simulatorEnabled'
        BY <2>3, <3>2, OpenStep DEF OnEnable
      <4> QED BY <1>1, <4>1
    <3>3. CASE Close(FALSE)
      BY <1>2, <2>3, <3>3, CloseStep DEF OnEnable
    <3> QED BY <2>3, <3>1, <3>2, <3>3 DEF OnEnable
  <2>4. CASE OnConfiguration
    <3>1. CASE Close(FALSE)
      BY <1>2, <2>4, <3>1, CloseStep DEF OnConfiguration
    <3>2. CASE UNCHANGED <<link, unanswered>>
      BY <1>3, <2>4, <3>2 DEF OnConfiguration
    <3> QED BY <2>4, <3>1, <3>2 DEF OnConfiguration, WriteFails
  <2> QED BY <1>5, <2>1, <2>2, <2>3, <2>4 DEF HandleEvent
<1>6. CASE Process
  <2>1. processTimer /\ processTimer' = FALSE /\ UNCHANGED simulatorEnabled
    BY <1>6 DEF Process
  <2>2. CASE Open
    BY <1>1, <2>1, <2>2, OpenStep
  <2>3. CASE UNCHANGED <<link, unanswered>>
    BY <1>1, <2>1, <2>3
  <2>4. CASE link.state = "CONNECTED" /\ link' = StartTimer(link)
    <3>1. ~simulatorEnabled
      BY <2>1, <2>4 DEF StateMatchesDevice
    <3>2. link'.state = "CONNECTED" /\ link'.timer
      BY <2>4 DEF TypeOK, Links
    <3> QED BY <1>1, <2>1, <3>1, <3>2
  <2>5. CASE unanswered' = FALSE
    BY <1>1, <2>1, <2>5
  <2> QED BY <1>6, <2>2, <2>3, <2>4, <2>5 DEF Process
<1>7. CASE Timeout
  <2>1. ~link'.device
    BY <1>7, CloseFacts DEF Timeout, Links
  <2> QED BY <1>2, <1>7, <2>1 DEF Timeout
<1>8. CASE Receive
  <2>1. CASE Close(FALSE)
    BY <1>2, <1>8, <2>1, CloseStep DEF Receive
  <2>2. CASE UNCHANGED <<link, unanswered>>
    BY <1>3, <1>8, <2>2 DEF Receive
  <2> QED BY <1>8, <2>1, <2>2 DEF Receive
<1>9. CASE HandlePacket
  <2>1. UNCHANGED <<simulatorEnabled, processTimer>>
    BY <1>9 DEF HandlePacket
  <2>2. CASE OnInitReply
    <3>1. CASE \E delay \in BOOLEAN : Close(delay)
      BY <1>2, <2>1, <3>1, CloseStep
    <3>2. CASE /\ link.state = "HANDSHAKE" /\ UNCHANGED unanswered
               /\ link' = [link EXCEPT !.state = "CONNECTED", !.timer = FALSE]
      <4>1. ~unanswered' /\ link'.device = link.device
        BY <3>2 DEF TypeOK, Links
      <4> QED BY <1>1, <2>1, <4>1
    <3> QED BY <2>2, <3>1, <3>2 DEF OnInitReply
  <2>3. CASE OnPingReply
    <3>1. ~unanswered' /\ link'.device = link.device
      BY <2>3 DEF OnPingReply, TypeOK, Links
    <3> QED BY <1>1, <2>1, <3>1
  <2>4. CASE OnOtherPacket
    BY <1>3, <2>1, <2>4 DEF OnOtherPacket
  <2> QED BY <1>9, <2>2, <2>3, <2>4 DEF HandlePacket
<1> QED BY <1>4, <1>5, <1>6, <1>7, <1>8, <1>9 DEF Next

LEMMA InitInv == Init => QueueInv /\ IInv
<1> SUFFICES ASSUME Init PROVE QueueInv /\ IInv
  OBVIOUS
<1>1. IInv
  BY InitType DEF Init, IInv, NoRadioInSimulation, SilenceIsTimed, PendingInv
<1>2. Len(inbox) = 0 /\ Switch(simulatorEnabled) = Switch(amun.simulator)
  BY DEF Init
<1>3. Believed(inbox, Switch(simulatorEnabled), 0, Switch(amun.simulator))
  BY <1>2 DEF Believed
<1> QED BY <1>1, <1>2, <1>3 DEF QueueInv, Ordered

\* The typing, the queue and the link are invariant together.
LEMMA Inductive == Spec => [](TypeOK /\ QueueInv /\ IInv)
<1>1. Init => TypeOK /\ QueueInv /\ IInv
  BY InitType, InitInv
<1>2. TypeOK /\ QueueInv /\ IInv /\ [Next]_vars => (TypeOK /\ QueueInv /\ IInv)'
  BY TypingStep, QueueStep, LinkStep DEF IInv
<1> QED BY <1>1, <1>2, PTL DEF Spec

\* Once the thread knows of the simulation no command is sent by radio, however
\* the switch and the commands were queued.
THEOREM NoRadio == Spec => []NoRadioInSimulation
<1>1. TypeOK /\ QueueInv /\ IInv => NoRadioInSimulation
  BY DEF IInv
<1> QED BY <1>1, Inductive, PTL

\* Commands that were sent are under the timeout until an answer comes.
THEOREM SilenceTimed == Spec => []SilenceIsTimed
<1>1. TypeOK /\ QueueInv /\ IInv => SilenceIsTimed
  BY DEF IInv
<1> QED BY <1>1, Inductive, PTL
=============================================================================
