----------------------- MODULE SimulatorVision_proofs -----------------------
(***************************************************************************)
(* Proofs about SimulatorVision, for any teams, delays and bounds.          *)
(***************************************************************************)
EXTENDS SimulatorVision, NaturalsInduction, WellFoundedInduction,
        SequenceTheorems, TLAPS

\* A bounded set of numbers that is not empty has a greatest element.
LEMMA LongestIsOne ==
    ASSUME NEW top \in Nat, NEW N, N \subseteq 0..top, N # {}
    PROVE  Longest(N) \in N /\ \A k \in N : k <= Longest(N)
<1> DEFINE R == OpToRel(<, Nat)
           T == {top - n : n \in N}
<1>1. T \subseteq Nat /\ T # {}
  OBVIOUS
<1>2. PICK x \in T : \A y \in T : <<y, x>> \notin R
  BY <1>1, WFMin, NatLessThanWellFounded
<1>3. PICK n \in N : x = top - n
  OBVIOUS
<1>4. ASSUME NEW k \in N PROVE k <= n
  <2>1. top - k \in T /\ top - k \in Nat /\ x \in Nat
    BY <1>1, <1>3
  <2>2. ~(top - k < x)
    BY <1>2, <2>1 DEF OpToRel
  <2> QED BY <1>3, <2>2
<1>5. \E m \in N : \A k \in N : k <= m
  BY <1>4
<1> QED BY <1>5 DEF Longest

\* With timers there is one for each packet; without, there are none.
Paired ==
    IF m_isPartial THEN sim.timers = <<>> ELSE Len(sim.timers) = Len(sim.packets)

IInv == TypeOK /\ Paired /\ NoOutdatedPackets

LEMMA InitInv == Init => IInv
<1> SUFFICES ASSUME Init PROVE IInv
  OBVIOUS
<1>1. TypeOK
  <2>1. <<>> \in Seq(Packets) /\ <<>> \in Seq(Timers)
    OBVIOUS
  <2>2. toSim \in Seq({SetTeam(t) : t \in Teams} \cup {SetDelay(d) : d \in Delays}
                       \cup {SetScaling})
    BY DEF Init
  <2> QED BY <2>1, <2>2, VisionAssumption DEF Init, TypeOK
<1>2. Paired /\ NoOutdatedPackets
  BY DEF Init, Paired, NoOutdatedPackets
<1> QED BY <1>1, <1>2 DEF IInv

\* A step that only waits: packets get older, timers come closer, and some packets
\* at the head are taken away.
LEMMA AgedFacts ==
    ASSUME NEW packets \in Seq(Packets), NEW n \in 0..Len(packets)
    PROVE  LET aged == Each(Older, packets)
               kept == SubSeq(aged, n + 1, Len(aged))
           IN  /\ aged \in Seq(Packets) /\ Len(aged) = Len(packets)
               /\ SubSeq(aged, 1, n) \in Seq(Packets)
               /\ kept \in Seq(Packets) /\ Len(kept) = Len(packets) - n
               /\ \A i \in DOMAIN aged : aged[i] = Older(packets[i])
               /\ \A i \in DOMAIN kept : kept[i] = Older(packets[i + n])
<1> DEFINE aged == Each(Older, packets)
           kept == SubSeq(aged, n + 1, Len(aged))
<1>1. \A p \in Packets : Older(p) \in Packets /\ Older(p).team = p.team
  <2>1. MaxAge \in Nat
    BY VisionAssumption
  <2> QED BY <2>1 DEF Older, Packets
<1>2. aged = [i \in 1..Len(packets) |-> Older(packets[i])]
  BY DEF Each
<1>3. \A i \in 1..Len(packets) : Older(packets[i]) \in Packets
  BY <1>1
<1>4. aged \in Seq(Packets) /\ Len(aged) = Len(packets) /\ DOMAIN aged = 1..Len(packets)
  BY <1>2, <1>3
<1>5. \A i \in 1..Len(packets) : aged[i] = Older(packets[i])
  BY <1>2
<1> HIDE DEF aged
<1>6. SubSeq(aged, 1, n) \in Seq(Packets)
  <2>1. \A i \in 1..n : aged[i] \in Packets
    BY <1>3, <1>5
  <2> QED BY <2>1, SubSeqProperties
<1>7. /\ kept \in Seq(Packets) /\ Len(kept) = Len(packets) - n
      /\ \A i \in 1..(Len(packets) - n) : kept[i] = aged[n + 1 + i - 1]
  <2>1. \A i \in (n + 1)..Len(aged) : aged[i] \in Packets
    BY <1>3, <1>4, <1>5
  <2>2. /\ kept \in Seq(Packets)
        /\ Len(kept) = IF n + 1 <= Len(aged) THEN Len(aged) - (n + 1) + 1 ELSE 0
        /\ \A i \in 1..(Len(aged) - (n + 1) + 1) : kept[i] = aged[n + 1 + i - 1]
    BY <2>1, <1>4, SubSeqProperties
  <2> HIDE DEF kept
  <2>3. Len(packets) \in Nat /\ Len(aged) - (n + 1) + 1 = Len(packets) - n
    BY <1>4
  <2> DEFINE k == Len(kept)
             l == Len(packets)
  <2> HIDE DEF k, l
  <2>4. Len(kept) = Len(packets) - n
    <3>1. l \in Nat /\ n \in 0..l
      BY <2>3 DEF l
    <3>2. k = IF n + 1 <= l THEN l - n ELSE 0
      BY <1>4, <2>2, <2>3, Zenon DEF k, l
    <3>3. k = l - n
      BY <3>1, <3>2
    <3> QED BY <3>3 DEF k, l
  <2>5. \A i \in 1..(Len(packets) - n) : kept[i] = aged[n + 1 + i - 1]
    BY <2>2, <2>3, Zenon
  <2> QED BY <2>2, <2>4, <2>5
<1> HIDE DEF kept
<1>8. \A i \in DOMAIN kept : kept[i] = Older(packets[i + n])
  <2> SUFFICES ASSUME NEW i \in 1..(Len(packets) - n)
               PROVE  kept[i] = Older(packets[i + n])
    BY <1>7
  <2>1. n + 1 + i - 1 = i + n /\ i + n \in 1..Len(packets)
    OBVIOUS
  <2> QED BY <1>5, <1>7, <2>1
<1> QED BY <1>4, <1>5, <1>6, <1>7, <1>8 DEF aged, kept

\* How many packets a step sends.
LEMMA OutgoingFacts ==
    ASSUME NEW packets \in Seq(Packets)
    PROVE  (IF m_isPartial THEN Longest(Outgoing(packets)) ELSE 0) \in 0..Len(packets)
<1>1. Len(packets) \in Nat /\ Outgoing(packets) \subseteq 0..Len(packets)
  BY DEF Outgoing
<1>2. 0 \in Outgoing(packets)
  BY DEF Outgoing
<1> QED BY <1>1, <1>2, LongestIsOne

LEMMA SoonerType == \A t \in Timers : Sooner(t) \in Timers
<1> SUFFICES ASSUME NEW t \in Timers PROVE Sooner(t) \in Timers
  OBVIOUS
<1>1. t.left \in Nat /\ (IF t.left > 0 THEN t.left - 1 ELSE 0) \in Nat
  BY DEF Timers
<1> QED BY <1>1 DEF Sooner, Timers

\* A step keeps packets and timers paired, and what waits is of the same team.
LEMMA ProcessInv == ASSUME IInv, Process PROVE IInv'
<1> DEFINE aged == Each(Older, sim.packets)
           n == IF m_isPartial THEN Longest(Outgoing(aged)) ELSE 0
           kept == SubSeq(aged, n + 1, Len(aged))
           left == Each(Sooner, sim.timers)
           next == [left |-> sim.delay, running |-> TRUE]
<1>1. /\ sim \in [team : Teams, delay : Delays, packets : Seq(Packets),
                  timers : Seq(Timers)]
      /\ sim.packets \in Seq(Packets) /\ sim.timers \in Seq(Timers)
  BY DEF IInv, TypeOK
<1>2. aged \in Seq(Packets) /\ Len(aged) = Len(sim.packets)
  <2>1. 0 \in 0..Len(sim.packets)
    BY <1>1
  <2> QED BY <1>1, <2>1, AgedFacts
<1>3. n \in 0..Len(sim.packets)
  BY <1>2, OutgoingFacts
<1>4. /\ SubSeq(aged, 1, n) \in Seq(Packets)
      /\ kept \in Seq(Packets) /\ Len(kept) = Len(sim.packets) - n
      /\ \A i \in DOMAIN kept : kept[i] = Older(sim.packets[i + n])
  BY <1>1, <1>3, AgedFacts
<1>5. left \in Seq(Timers) /\ Len(left) = Len(sim.timers)
  <2>1. left = [i \in 1..Len(sim.timers) |-> Sooner(sim.timers[i])]
    BY <1>1 DEF Each
  <2>2. \A i \in 1..Len(sim.timers) : Sooner(sim.timers[i]) \in Timers
    BY <1>1, SoonerType
  <2> QED BY <2>1, <2>2
<1>6. /\ Sends(SubSeq(aged, 1, n)) /\ UNCHANGED <<m_isPartial, toSim>>
      /\ overtaken' \in BOOLEAN
      /\ \/ sim' = [sim EXCEPT !.packets = kept, !.timers = left]
         \/ sim' = [sim EXCEPT !.packets = Append(kept, Picture),
                      !.timers = IF m_isPartial THEN left ELSE Append(left, next)]
  <2>1. overtaken \in BOOLEAN
    BY DEF IInv, TypeOK
  <2>2. Overtakes(left) \in BOOLEAN
    BY DEF Overtakes
  <2> QED BY <2>1, <2>2 DEF Process
<1>7. \A i \in DOMAIN kept : kept[i].team = sim.team
  <2> SUFFICES ASSUME NEW i \in DOMAIN kept PROVE kept[i].team = sim.team
    OBVIOUS
  <2>1. i + n \in DOMAIN sim.packets
    BY <1>1, <1>3, <1>4
  <2>2. sim.packets[i + n] \in Packets /\ sim.packets[i + n].team = sim.team
    BY <1>1, <2>1 DEF IInv, NoOutdatedPackets
  <2>3. \A p \in Packets : Older(p).team = p.team
    BY DEF Older, Packets
  <2>4. kept[i] = Older(sim.packets[i + n])
    BY <1>4
  <2> HIDE DEF kept, n
  <2> QED BY <2>2, <2>3, <2>4
<1>8. Picture \in Packets /\ Picture.team = sim.team
  BY <1>1, VisionAssumption DEF Picture, Packets
<1>9. next \in Timers
  BY <1>1, VisionAssumption DEF Timers
<1>10. (m_isPartial => n \in Nat /\ sim.timers = <<>>)
       /\ (~m_isPartial => n = 0 /\ Len(sim.timers) = Len(sim.packets))
  BY <1>3 DEF IInv, Paired
<1> HIDE DEF aged, n, kept, left, next
<1>11. /\ lastSent' \in Seq(Packets) /\ toSim' = toSim /\ overtaken' \in BOOLEAN
       /\ m_isPartial' = m_isPartial
  BY <1>4, <1>6 DEF Sends, IInv, TypeOK
<1>12. CASE sim' = [sim EXCEPT !.packets = kept, !.timers = left]
  <2>1. /\ sim'.packets = kept /\ sim'.timers = left /\ sim'.team = sim.team
        /\ sim' \in [team : Teams, delay : Delays, packets : Seq(Packets),
                     timers : Seq(Timers)]
    BY <1>1, <1>4, <1>5, <1>12
  <2>2. TypeOK'
    BY <1>11, <2>1 DEF IInv, TypeOK
  <2>3. m_isPartial => left = <<>>
    BY <1>5, <1>10
  <2>4. Paired'
    BY <1>4, <1>5, <1>10, <1>11, <2>1, <2>3 DEF Paired
  <2> QED BY <1>7, <2>1, <2>2, <2>4 DEF IInv, NoOutdatedPackets
<1>13. CASE sim' = [sim EXCEPT !.packets = Append(kept, Picture),
                      !.timers = IF m_isPartial THEN left ELSE Append(left, next)]
  <2> DEFINE timers == IF m_isPartial THEN left ELSE Append(left, next)
  <2>1. timers \in Seq(Timers) /\ Append(kept, Picture) \in Seq(Packets)
    BY <1>4, <1>5, <1>8, <1>9
  <2>2. /\ sim'.packets = Append(kept, Picture) /\ sim'.timers = timers
        /\ sim'.team = sim.team
        /\ sim' \in [team : Teams, delay : Delays, packets : Seq(Packets),
                     timers : Seq(Timers)]
    BY <1>1, <1>13, <2>1
  <2>3. TypeOK'
    BY <1>11, <2>2 DEF IInv, TypeOK
  <2>4. m_isPartial => left = <<>>
    BY <1>5, <1>10
  <2>5. Paired'
    BY <1>4, <1>5, <1>10, <1>11, <2>2, <2>4 DEF Paired
  <2>6. \A i \in DOMAIN Append(kept, Picture) :
           \/ Append(kept, Picture)[i] = Picture
           \/ i \in DOMAIN kept /\ Append(kept, Picture)[i] = kept[i]
    BY <1>4, <1>8
  <2> QED BY <1>7, <1>8, <2>2, <2>3, <2>5, <2>6 DEF IInv, NoOutdatedPackets
<1> QED BY <1>6, <1>12, <1>13

\* Sending takes one of each, a reset all of both.
LEMMA SendInv == ASSUME IInv, SendVisionPacket PROVE IInv'
<1>1. /\ sim \in [team : Teams, delay : Delays, packets : Seq(Packets),
                  timers : Seq(Timers)]
      /\ sim.packets \in Seq(Packets) /\ sim.timers \in Seq(Timers)
  BY DEF IInv, TypeOK
<1>2. PICK i \in DOMAIN sim.timers :
        /\ Sends(<<Head(sim.packets)>>)
        /\ UNCHANGED <<m_isPartial, toSim, overtaken>>
        /\ sim' = [sim EXCEPT !.packets = Tail(@),
                              !.timers = Tail([@ EXCEPT ![i].running = FALSE])]
  BY DEF SendVisionPacket, Due, DeleteTimer
<1>3. ~m_isPartial /\ Len(sim.timers) = Len(sim.packets) /\ sim.packets # <<>>
  <2>1. sim.timers # <<>> /\ i \in 1..Len(sim.timers)
    BY <1>1, <1>2
  <2> QED BY <1>1, <2>1 DEF IInv, Paired
<1> DEFINE stopped == [sim.timers EXCEPT ![i].running = FALSE]
<1>4. stopped \in Seq(Timers) /\ Len(stopped) = Len(sim.timers) /\ stopped # <<>>
  <2>0. sim.timers[i] \in Timers
    BY <1>1, <1>2
  <2>1. [sim.timers[i] EXCEPT !.running = FALSE] \in Timers
    BY <2>0 DEF Timers
  <2> QED BY <1>1, <1>2, <1>3, <2>1
<1> HIDE DEF stopped
<1>5. /\ Tail(stopped) \in Seq(Timers) /\ Len(Tail(stopped)) = Len(sim.timers) - 1
      /\ Tail(sim.packets) \in Seq(Packets)
      /\ Len(Tail(sim.packets)) = Len(sim.packets) - 1
      /\ \A k \in DOMAIN Tail(sim.packets) :
           k + 1 \in DOMAIN sim.packets /\ Tail(sim.packets)[k] = sim.packets[k + 1]
      /\ <<Head(sim.packets)>> \in Seq(Packets)
  BY <1>1, <1>3, <1>4
<1>6. /\ sim'.packets = Tail(sim.packets) /\ sim'.timers = Tail(stopped)
      /\ sim'.team = sim.team
      /\ sim' \in [team : Teams, delay : Delays, packets : Seq(Packets),
                   timers : Seq(Timers)]
  BY <1>1, <1>2, <1>5 DEF stopped
<1>7. TypeOK'
  BY <1>2, <1>5, <1>6 DEF Sends, IInv, TypeOK
<1>8. Paired'
  BY <1>2, <1>3, <1>5, <1>6 DEF Paired
<1>9. NoOutdatedPackets'
  BY <1>5, <1>6 DEF IInv, NoOutdatedPackets
<1> QED BY <1>7, <1>8, <1>9 DEF IInv

Events ==
    {SetTeam(t) : t \in Teams} \cup {SetDelay(d) : d \in Delays} \cup {SetScaling}
Simulators ==
    [team : Teams, delay : Delays, packets : Seq(Packets), timers : Seq(Timers)]

LEMMA HandleSimInv == ASSUME IInv, HandleSim PROVE IInv'
<1> DEFINE e == Head(toSim)
<1>1. sim \in Simulators /\ toSim \in Seq(Events) /\ toSim # <<>>
      /\ lastSent \in Seq(Packets) /\ overtaken \in BOOLEAN
      /\ m_isPartial \in BOOLEAN
  BY DEF IInv, TypeOK, HandleSim, Events, Simulators
<1>2. e \in Events /\ Tail(toSim) \in Seq(Events)
  BY <1>1
<1>3. ASSUME sim' \in Simulators PROVE TypeOK'
  <2>1. toSim' = Tail(toSim) /\ m_isPartial' = m_isPartial
    BY DEF HandleSim
  <2>2. lastSent' \in Seq(Packets) /\ overtaken' \in BOOLEAN
    <3>1. \/ lastSent' = <<>> /\ overtaken' = FALSE
          \/ lastSent' = lastSent /\ overtaken' = overtaken
      BY DEF HandleSim, history
    <3>2. <<>> \in Seq(Packets)
      OBVIOUS
    <3> QED BY <1>1, <3>1, <3>2, Zenon
  <2> QED BY <1>1, <1>2, <1>3, <2>1, <2>2 DEF TypeOK, Events, Simulators
<1>4. CASE e.type = "team"
  <2>1. e.team \in Teams
    BY <1>2, <1>4 DEF Events, SetTeam, SetDelay, SetScaling
  <2>2. sim' = [sim EXCEPT !.packets = <<>>, !.timers = <<>>, !.team = e.team]
    BY <1>1, <1>4 DEF HandleSim, Emptied, Simulators
  <2>3. sim' = [team |-> e.team, delay |-> sim.delay, packets |-> <<>>,
                timers |-> <<>>]
    BY <1>1, <2>2 DEF Simulators
  <2>4. <<>> \in Seq(Packets) /\ <<>> \in Seq(Timers) /\ sim.delay \in Delays
    BY <1>1 DEF Simulators
  <2>5. sim' \in Simulators /\ sim'.packets = <<>> /\ sim'.timers = <<>>
    BY <2>1, <2>3, <2>4 DEF Simulators
  <2> QED BY <1>3, <2>5 DEF IInv, Paired, NoOutdatedPackets
<1>5. CASE e.type = "delay"
  <2>1. e.delay \in Delays
    BY <1>2, <1>5 DEF Events, SetTeam, SetDelay, SetScaling
  <2>2. sim' = [sim EXCEPT !.delay = e.delay]
    BY <1>1, <1>5 DEF HandleSim
  <2>3. /\ sim' \in Simulators /\ sim'.packets = sim.packets
        /\ sim'.timers = sim.timers /\ sim'.team = sim.team
    BY <1>1, <2>1, <2>2 DEF Simulators
  <2>4. m_isPartial' = m_isPartial
    BY DEF HandleSim
  <2> QED BY <1>3, <2>3, <2>4 DEF IInv, Paired, NoOutdatedPackets
<1>6. CASE e.type = "scaling"
  <2>1. sim' = [sim EXCEPT !.packets = <<>>, !.timers = <<>>]
    BY <1>1, <1>6 DEF HandleSim, Emptied
  <2>2. sim' = [team |-> sim.team, delay |-> sim.delay, packets |-> <<>>,
                timers |-> <<>>]
    BY <1>1, <2>1 DEF Simulators
  <2>3. /\ <<>> \in Seq(Packets) /\ <<>> \in Seq(Timers)
        /\ sim.team \in Teams /\ sim.delay \in Delays
    BY <1>1 DEF Simulators
  <2>4. sim' \in Simulators /\ sim'.packets = <<>> /\ sim'.timers = <<>>
    BY <2>2, <2>3 DEF Simulators
  <2> QED BY <1>3, <2>4 DEF IInv, Paired, NoOutdatedPackets
<1>7. e.type \in {"team", "delay", "scaling"}
  BY <1>2 DEF Events, SetTeam, SetDelay, SetScaling
<1> QED BY <1>4, <1>5, <1>6, <1>7

LEMMA NextInv == IInv /\ [Next]_vars => IInv'
<1> SUFFICES ASSUME IInv, [Next]_vars PROVE IInv'
  OBVIOUS
<1>1. CASE ChangeTeam \/ ChangeRealism \/ ChangeScaling
  <2>1. toSim' \in Seq(Events)
    <3>1. toSim \in Seq(Events)
      BY DEF IInv, TypeOK, Events
    <3>2. PICK e \in Events : toSim' = Append(toSim, e)
      BY <1>1 DEF ChangeTeam, ChangeRealism, ChangeScaling, Events
    <3> QED BY <3>1, <3>2
  <2>2. UNCHANGED <<m_isPartial, sim, history>>
    BY <1>1 DEF ChangeTeam, ChangeRealism, ChangeScaling
  <2> QED BY <2>1, <2>2 DEF history, IInv, TypeOK, Paired, NoOutdatedPackets, Events
<1>2. CASE UNCHANGED vars
  BY <1>2 DEF vars, history, IInv, TypeOK, Paired, NoOutdatedPackets
<1> QED BY <1>1, <1>2, ProcessInv, SendInv, HandleSimInv DEF Next

\* The simulator, its timers and the queue keep their types.
THEOREM Typing == Spec => []TypeOK
<1>1. IInv => TypeOK
  BY DEF IInv
<1> QED BY <1>1, InitInv, NextInv, PTL DEF Spec

\* No packet of an earlier team waits in the simulator, stepped by hand or not and
\* whatever the delays are.
THEOREM NoneOutdated == Spec => []NoOutdatedPackets
<1>1. IInv => NoOutdatedPackets
  BY DEF IInv
<1> QED BY <1>1, InitInv, NextInv, PTL DEF Spec

-----------------------------------------------------------------------------
(* When packets leave.                                                       *)

\* With timers: while a timer runs, what its packet has waited and what the timer
\* has left make up the delay, and no packet is younger than one behind it.  While
\* no packet has overtaken another every timer runs, and none ends before one in
\* front of it.
InStep ==
    /\ \A i \in DOMAIN sim.packets :
         sim.timers[i].running =>
            sim.packets[i].age + sim.timers[i].left = sim.packets[i].delay
    /\ \A i, k \in DOMAIN sim.packets :
         i < k => sim.packets[k].age <= sim.packets[i].age
    /\ ~overtaken =>
         /\ \A i \in DOMAIN sim.packets : sim.timers[i].running
         /\ \A i, k \in DOMAIN sim.packets :
              i < k => sim.timers[i].left <= sim.timers[k].left

\* Stepped by hand: a packet that has waited for a step is stuck behind, or is itself,
\* a first packet that is too old.
Stuck ==
    \A i \in DOMAIN sim.packets :
        sim.packets[i].age = 0 \/ sim.packets[1].age > sim.packets[1].delay

TInv == IInv /\ SentInTime /\ (IF m_isPartial THEN Stuck ELSE InStep)

\* The types of packets and timers, and the bound on ages.
LEMMA PairTypes ==
    ASSUME IInv
    PROVE  /\ sim \in Simulators /\ sim.delay \in Delays /\ sim.delay \in Nat
           /\ sim.packets \in Seq(Packets) /\ sim.timers \in Seq(Timers)
           /\ Len(sim.packets) \in Nat /\ DOMAIN sim.packets = 1..Len(sim.packets)
           /\ MaxAge \in Nat /\ MaxAge # 0
           /\ ~m_isPartial => /\ Len(sim.timers) = Len(sim.packets)
                              /\ DOMAIN sim.timers = 1..Len(sim.packets)
           /\ \A i \in 1..Len(sim.packets) :
                /\ sim.packets[i] \in Packets
                /\ sim.packets[i].age \in 0..MaxAge
                /\ sim.packets[i].delay \in Delays
                /\ sim.packets[i].delay \in Nat /\ sim.packets[i].delay < MaxAge
                /\ ~m_isPartial => /\ sim.timers[i] \in Timers
                                   /\ sim.timers[i].left \in Nat
<1>1. sim \in Simulators /\ sim.delay \in Delays
      /\ sim.packets \in Seq(Packets) /\ sim.timers \in Seq(Timers)
  BY DEF IInv, TypeOK, Simulators
<1>2. Delays \subseteq Nat /\ FirstDelay \in Delays /\ MaxAge \in Nat
  BY VisionAssumption
<1>3. \A d \in Delays : d \in Nat /\ d < MaxAge
  BY <1>2, VisionAssumption
<1>4. MaxAge # 0
  BY <1>2, <1>3
<1>5. Len(sim.packets) \in Nat /\ DOMAIN sim.packets = 1..Len(sim.packets)
  BY <1>1
<1>6. ~m_isPartial => /\ Len(sim.timers) = Len(sim.packets)
                      /\ DOMAIN sim.timers = 1..Len(sim.packets)
  BY <1>1 DEF IInv, Paired
<1>7. ASSUME NEW i \in 1..Len(sim.packets)
      PROVE  /\ sim.packets[i] \in Packets
             /\ sim.packets[i].age \in 0..MaxAge /\ sim.packets[i].delay \in Delays
             /\ ~m_isPartial => /\ sim.timers[i] \in Timers
                                /\ sim.timers[i].left \in Nat
  <2>1. sim.packets[i] \in Packets
    BY <1>1
  <2>2. ~m_isPartial => sim.timers[i] \in Timers
    BY <1>1, <1>6
  <2> QED BY <2>1, <2>2 DEF Packets, Timers
<1> QED BY <1>1, <1>2, <1>3, <1>4, <1>5, <1>6, <1>7

\* What a step with timers makes of a packet and its timer: no timer is due.
LEMMA WaitFacts ==
    ASSUME TInv, ~m_isPartial, Due = {}, NEW i \in 1..Len(sim.packets)
    PROVE  LET p == Older(sim.packets[i])
               t == Sooner(sim.timers[i])
           IN  /\ p.age \in Nat /\ p.delay = sim.packets[i].delay
               /\ p.age = IF sim.packets[i].age < MaxAge
                          THEN sim.packets[i].age + 1 ELSE sim.packets[i].age
               /\ t.left \in Nat /\ t.running = sim.timers[i].running
               /\ t.left = IF sim.timers[i].left > 0
                           THEN sim.timers[i].left - 1 ELSE 0
               /\ t.running => p.age + t.left = p.delay /\ sim.timers[i].left > 0
<1> DEFINE p == sim.packets[i]
           t == sim.timers[i]
<1>1. /\ p \in Packets /\ p.age \in 0..MaxAge /\ p.delay \in Nat /\ p.delay < MaxAge
      /\ t \in Timers /\ t.left \in Nat /\ MaxAge \in Nat
      /\ i \in DOMAIN sim.timers /\ i \in DOMAIN sim.packets
  BY PairTypes DEF TInv
<1>2. t.running => p.age + t.left = p.delay /\ t.left # 0
  BY <1>1 DEF TInv, InStep, Due
<1> HIDE DEF p, t
<1>3. /\ Older(p).age = IF p.age < MaxAge THEN p.age + 1 ELSE p.age
      /\ Older(p).delay = p.delay
  BY <1>1 DEF Older, Packets
<1>4. /\ Sooner(t).left = IF t.left > 0 THEN t.left - 1 ELSE 0
      /\ Sooner(t).running = t.running
  BY <1>1 DEF Sooner, Timers
<1>5. Older(p).age \in Nat /\ Sooner(t).left \in Nat
  BY <1>1, <1>3, <1>4
<1>6. t.running => Older(p).age + Sooner(t).left = p.delay /\ t.left > 0
  BY <1>1, <1>2, <1>3, <1>4
<1> QED BY <1>3, <1>4, <1>5, <1>6 DEF p, t

\* With timers a step sends nothing; what it adds at the end is due last, or
\* overtakes.
LEMMA TimersWait ==
    ASSUME TInv, ~m_isPartial, Process PROVE SentInTime' /\ InStep'
<1> DEFINE L == Len(sim.packets)
           aged == Each(Older, sim.packets)
           kept == SubSeq(aged, 1, Len(aged))
           left == Each(Sooner, sim.timers)
           next == [left |-> sim.delay, running |-> TRUE]
<1>1. /\ L \in Nat /\ DOMAIN sim.packets = 1..L /\ DOMAIN sim.timers = 1..L
      /\ sim \in Simulators /\ sim.delay \in Nat
      /\ sim.packets \in Seq(Packets) /\ sim.timers \in Seq(Timers)
      /\ \A i \in 1..L : sim.packets[i].age \in Nat /\ sim.timers[i].left \in Nat
                         /\ sim.timers[i] \in Timers /\ sim.packets[i].age \in 0..MaxAge
      /\ MaxAge \in Nat /\ Due = {}
  BY PairTypes DEF TInv, Process
<1>2. kept \in Seq(Packets) /\ Len(kept) = L /\ DOMAIN kept = 1..L
      /\ SubSeq(aged, 1, 0) = <<>>
      /\ \A i \in 1..L : kept[i] = Older(sim.packets[i])
  <2>1. 0 \in 0..L /\ sim.packets \in Seq(Packets)
    BY <1>1
  <2>2. /\ aged \in Seq(Packets)
        /\ SubSeq(aged, 0 + 1, Len(aged)) \in Seq(Packets)
        /\ Len(SubSeq(aged, 0 + 1, Len(aged))) = L - 0
        /\ \A i \in DOMAIN SubSeq(aged, 0 + 1, Len(aged)) :
             SubSeq(aged, 0 + 1, Len(aged))[i] = Older(sim.packets[i + 0])
    BY <2>1, AgedFacts
  <2>3. 0 + 1 = 1 /\ L - 0 = L /\ \A i \in 1..L : i + 0 = i
    BY <1>1
  <2>4. SubSeq(aged, 1, 0) = <<>>
    BY <2>2
  <2>5. kept \in Seq(Packets) /\ Len(kept) = L
    BY <2>2, <2>3
  <2>6. DOMAIN kept = 1..L
    BY <2>5
  <2> QED BY <2>2, <2>3, <2>4, <2>5, <2>6
<1>3. left \in Seq(Timers) /\ Len(left) = L /\ DOMAIN left = 1..L
      /\ \A i \in 1..L : left[i] = Sooner(sim.timers[i])
  <2>1. left = [i \in 1..L |-> Sooner(sim.timers[i])]
    BY <1>1 DEF Each
  <2>2. \A i \in 1..L : Sooner(sim.timers[i]) \in Timers
    BY <1>1, SoonerType
  <2> QED BY <1>1, <2>1, <2>2
<1>4. /\ Sends(SubSeq(aged, 1, 0)) /\ m_isPartial' = m_isPartial
      /\ \/ /\ sim' = [sim EXCEPT !.packets = kept, !.timers = left]
            /\ overtaken' = overtaken
         \/ /\ sim' = [sim EXCEPT !.packets = Append(kept, Picture),
                                  !.timers = Append(left, next)]
            /\ overtaken' = (overtaken \/ Overtakes(left))
  <2>1. (IF m_isPartial THEN Longest(Outgoing(aged)) ELSE 0) = 0 /\ 0 + 1 = 1
    OBVIOUS
  <2> QED BY <2>1 DEF Process
<1>5. ASSUME NEW i \in 1..L
      PROVE  /\ kept[i].age \in Nat /\ left[i].left \in Nat
             /\ kept[i].age = IF sim.packets[i].age < MaxAge
                              THEN sim.packets[i].age + 1 ELSE sim.packets[i].age
             /\ left[i].left = IF sim.timers[i].left > 0
                               THEN sim.timers[i].left - 1 ELSE 0
             /\ left[i].running = sim.timers[i].running
             /\ left[i].running => kept[i].age + left[i].left = kept[i].delay
  <2>1. kept[i] = Older(sim.packets[i]) /\ left[i] = Sooner(sim.timers[i])
    BY <1>2, <1>3
  <2> HIDE DEF kept, left
  <2> QED BY <1>1, <2>1, WaitFacts
<1> HIDE DEF aged, kept, left, L
<1>6. \A i, k \in 1..L : i < k => kept[k].age <= kept[i].age
  <2> SUFFICES ASSUME NEW i \in 1..L, NEW k \in 1..L, i < k
               PROVE  kept[k].age <= kept[i].age
    OBVIOUS
  <2>1. sim.packets[k].age <= sim.packets[i].age
    BY <1>1 DEF TInv, InStep
  <2> QED BY <1>1, <1>5, <2>1
<1>7. ~overtaken => /\ \A i \in 1..L : left[i].running
                    /\ \A i, k \in 1..L : i < k => left[i].left <= left[k].left
  <2> SUFFICES ASSUME ~overtaken
               PROVE  /\ \A i \in 1..L : left[i].running
                      /\ \A i, k \in 1..L : i < k => left[i].left <= left[k].left
    OBVIOUS
  <2>1. /\ \A i \in 1..L : sim.timers[i].running
        /\ \A i, k \in 1..L : i < k => sim.timers[i].left <= sim.timers[k].left
    BY <1>1 DEF TInv, InStep
  <2>2. ASSUME NEW i \in 1..L, NEW k \in 1..L, i < k
        PROVE  left[i].left <= left[k].left
    <3>1. sim.timers[i].left <= sim.timers[k].left
      BY <2>1, <2>2
    <3> QED BY <1>1, <1>5, <3>1
  <2> QED BY <1>5, <2>1, <2>2
<1>8. SentInTime'
  <2>1. lastSent' = lastSent /\ (overtaken => overtaken')
    <3>1. lastSent' = lastSent
      BY <1>2, <1>4 DEF Sends
    <3>2. overtaken => overtaken'
      BY <1>4, Zenon
    <3> QED BY <3>1, <3>2
  <2>2. \A i \in DOMAIN lastSent :
          \/ lastSent[i].age = lastSent[i].delay
          \/ overtaken /\ \E d \in Delays : d <= lastSent[i].age
    BY DEF TInv, SentInTime
  <2>3. ~m_isPartial'
    BY <1>4
  <2> QED BY <2>1, <2>2, <2>3 DEF SentInTime
<1>9. CASE /\ sim' = [sim EXCEPT !.packets = kept, !.timers = left]
           /\ overtaken' = overtaken
  <2>1. sim'.packets = kept /\ sim'.timers = left
    BY <1>1, <1>9 DEF Simulators
  <2> QED BY <1>2, <1>5, <1>6, <1>7, <1>8, <1>9, <2>1 DEF InStep
<1>10. CASE /\ sim' = [sim EXCEPT !.packets = Append(kept, Picture),
                                  !.timers = Append(left, next)]
            /\ overtaken' = (overtaken \/ Overtakes(left))
  <2> DEFINE packets == Append(kept, Picture)
             timers == Append(left, next)
  <2>1. sim'.packets = packets /\ sim'.timers = timers
    BY <1>1, <1>10 DEF Simulators
  <2>2. DOMAIN packets = 1..(L + 1) /\ packets[L + 1] = Picture
        /\ \A i \in 1..L : packets[i] = kept[i]
    BY <1>1, <1>2
  <2>3. timers[L + 1] = next /\ \A i \in 1..L : timers[i] = left[i]
    BY <1>1, <1>3
  <2>4. /\ Picture.age = 0 /\ Picture.delay = sim.delay /\ next.left = sim.delay
        /\ next.running /\ 0 + sim.delay = sim.delay
    BY <1>1 DEF Picture
  <2> HIDE DEF packets, timers, next
  <2>5. \A i \in 1..(L + 1) : i \in 1..L \/ i = L + 1
    BY <1>1
  <2>6. ASSUME NEW i \in 1..(L + 1), timers[i].running
        PROVE  packets[i].age + timers[i].left = packets[i].delay
    <3>1. CASE i \in 1..L
      BY <1>5, <2>2, <2>3, <2>6, <3>1
    <3>2. CASE i = L + 1
      BY <2>2, <2>3, <2>4, <3>2
    <3> QED BY <2>5, <3>1, <3>2
  <2>7. ASSUME NEW i \in 1..(L + 1), NEW k \in 1..(L + 1), i < k
        PROVE  packets[k].age <= packets[i].age
    <3>1. i \in 1..L
      BY <1>1, <2>7
    <3>2. packets[i].age \in Nat
      BY <1>5, <2>2, <3>1
    <3>3. CASE k = L + 1
      BY <2>2, <2>4, <3>2, <3>3
    <3>4. CASE k \in 1..L
      BY <1>6, <2>2, <2>7, <3>1, <3>4
    <3> QED BY <2>5, <3>3, <3>4
  <2>8. ASSUME ~overtaken'
        PROVE  /\ \A i \in 1..(L + 1) : timers[i].running
               /\ \A i, k \in 1..(L + 1) : i < k => timers[i].left <= timers[k].left
    <3>1. ~overtaken /\ ~Overtakes(left)
      BY <1>10, <2>8
    <3>2. \A i \in 1..L : left[i].running /\ left[i].left <= sim.delay
      <4>1. \A i \in 1..L : left[i].running /\ ~(left[i].left > sim.delay)
        BY <1>3, <1>7, <3>1 DEF Overtakes
      <4> QED BY <1>1, <1>5, <4>1
    <3>3. \A i \in 1..(L + 1) : timers[i].running
      BY <2>3, <2>4, <2>5, <3>2
    <3>4. ASSUME NEW i \in 1..(L + 1), NEW k \in 1..(L + 1), i < k
          PROVE  timers[i].left <= timers[k].left
      <4>1. i \in 1..L
        BY <1>1, <3>4
      <4>2. CASE k = L + 1
        BY <2>3, <2>4, <3>2, <4>1, <4>2
      <4>3. CASE k \in 1..L
        BY <1>7, <2>3, <3>1, <3>4, <4>1, <4>3
      <4> QED BY <2>5, <4>2, <4>3
    <3> QED BY <3>3, <3>4
  <2> QED BY <1>8, <2>1, <2>2, <2>6, <2>7, <2>8 DEF InStep
<1> QED BY <1>4, <1>9, <1>10

\* The packet in front is at least as old as the one whose timer ended; if none has
\* overtaken it is that packet.
LEMMA TimersSend ==
    ASSUME TInv, SendVisionPacket PROVE ~m_isPartial /\ SentInTime' /\ InStep'
<1> DEFINE L == Len(sim.packets)
<1>1. PICK i \in Due :
        /\ \A k \in Due : i <= k
        /\ Sends(<<Head(sim.packets)>>)
        /\ sim' = [sim EXCEPT !.packets = Tail(@),
                              !.timers = Tail([@ EXCEPT ![i].running = FALSE])]
        /\ UNCHANGED <<m_isPartial, overtaken>>
  BY DEF SendVisionPacket, DeleteTimer
<1>2. ~m_isPartial /\ InStep
  <2>1. i \in DOMAIN sim.timers /\ sim.timers \in Seq(Timers)
    BY <1>1, PairTypes DEF Due, TInv
  <2>2. sim.timers # <<>>
    BY <2>1
  <2> QED BY <2>2 DEF TInv, IInv, Paired
<1>3. /\ L \in Nat /\ DOMAIN sim.packets = 1..L /\ DOMAIN sim.timers = 1..L
      /\ sim \in Simulators
      /\ sim.packets \in Seq(Packets) /\ sim.timers \in Seq(Timers)
      /\ Len(sim.timers) = L
      /\ \A k \in 1..L : /\ sim.packets[k].age \in Nat /\ sim.timers[k].left \in Nat
                         /\ sim.timers[k] \in Timers
                         /\ sim.packets[k].delay \in Delays /\ sim.packets[k].delay \in Nat
  BY <1>2, PairTypes DEF TInv
<1>4. i \in 1..L /\ sim.timers[i].left = 0 /\ sim.timers[i].running /\ 1 \in 1..L
      /\ (i = 1 \/ 1 < i)
  BY <1>1, <1>3 DEF Due
<1>5. sim.packets[i].age = sim.packets[i].delay
  <2>1. sim.packets[i].age + sim.timers[i].left = sim.packets[i].delay
    BY <1>2, <1>3, <1>4 DEF InStep
  <2> QED BY <1>3, <1>4, <2>1
<1>6. sim.packets[i].delay <= sim.packets[1].age /\ sim.packets[i].delay \in Delays
  <2>1. i = 1 \/ sim.packets[i].age <= sim.packets[1].age
    BY <1>2, <1>3, <1>4 DEF InStep
  <2> QED BY <1>3, <1>4, <1>5, <2>1
<1>7. ~overtaken => i = 1
  <2> SUFFICES ASSUME ~overtaken PROVE i = 1
    OBVIOUS
  <2>1. i = 1 \/ sim.timers[1].left <= sim.timers[i].left
    BY <1>2, <1>3, <1>4 DEF InStep
  <2>2. sim.timers[1].left = 0 /\ sim.timers[1].running
    BY <1>2, <1>3, <1>4, <2>1 DEF InStep
  <2>3. 1 \in Due
    BY <1>3, <1>4, <2>2 DEF Due
  <2> QED BY <1>1, <1>4, <2>3
<1>8. SentInTime'
  <2>1. lastSent' = <<sim.packets[1]>>
    BY <1>1, <1>3, <1>4 DEF Sends
  <2>2. sim.packets[1].age = sim.packets[1].delay
        \/ (overtaken /\ \E d \in Delays : d <= sim.packets[1].age)
    BY <1>5, <1>6, <1>7
  <2> QED BY <1>1, <1>2, <2>1, <2>2 DEF SentInTime
<1>9. InStep'
  <2> DEFINE stopped == [sim.timers EXCEPT ![i].running = FALSE]
  <2>1. sim'.packets = Tail(sim.packets) /\ sim'.timers = Tail(stopped)
    BY <1>1, <1>3 DEF Simulators
  <2>2. /\ DOMAIN Tail(sim.packets) = 1..(L - 1)
        /\ \A k \in 1..(L - 1) : Tail(sim.packets)[k] = sim.packets[k + 1]
    BY <1>3, <1>4
  <2>3. ASSUME NEW k \in 1..(L - 1)
        PROVE  /\ Tail(stopped)[k].left = sim.timers[k + 1].left
               /\ Tail(stopped)[k].running = (sim.timers[k + 1].running /\ k + 1 # i)
    <3>1. [sim.timers[i] EXCEPT !.running = FALSE] \in Timers
      BY <1>3, <1>4 DEF Timers
    <3>2. stopped \in Seq(Timers) /\ Len(stopped) = L
      BY <1>3, <1>4, <3>1
    <3>3. \A j \in 1..L : /\ stopped[j].left = sim.timers[j].left
                          /\ stopped[j].running = (sim.timers[j].running /\ j # i)
      BY <1>3, <1>4 DEF Timers
    <3> HIDE DEF stopped
    <3>4. Tail(stopped)[k] = stopped[k + 1]
      BY <1>3, <1>4, <3>2
    <3>5. k + 1 \in 1..L
      BY <1>3
    <3> HIDE DEF L
    <3> QED BY <3>3, <3>4, <3>5
  <2>4. \A k \in 1..(L - 1) : k + 1 \in 1..L /\ k + 1 # 1
    BY <1>3
  <2>5. \A k, j \in 1..(L - 1) : k < j => k + 1 < j + 1
    BY <1>3
  <2> HIDE DEF stopped, L
  <2>6. ASSUME NEW k \in 1..(L - 1), sim'.timers[k].running
        PROVE  sim'.packets[k].age + sim'.timers[k].left = sim'.packets[k].delay
    <3>1. k + 1 \in 1..L /\ sim.timers[k + 1].running
      BY <2>1, <2>3, <2>4, <2>6
    <3>2. sim.packets[k + 1].age + sim.timers[k + 1].left = sim.packets[k + 1].delay
      BY <1>2, <1>3, <3>1 DEF InStep
    <3> QED BY <2>1, <2>2, <2>3, <3>2
  <2>7. ASSUME NEW k \in 1..(L - 1), NEW j \in 1..(L - 1), k < j
        PROVE  sim'.packets[j].age <= sim'.packets[k].age
    <3>1. k + 1 \in 1..L /\ j + 1 \in 1..L /\ k + 1 < j + 1
      BY <2>4, <2>5, <2>7
    <3>2. sim.packets[j + 1].age <= sim.packets[k + 1].age
      BY <1>2, <1>3, <3>1 DEF InStep
    <3> QED BY <2>1, <2>2, <3>2
  <2>8. ASSUME ~overtaken'
        PROVE  /\ \A k \in 1..(L - 1) : sim'.timers[k].running
               /\ \A k, j \in 1..(L - 1) :
                    k < j => sim'.timers[k].left <= sim'.timers[j].left
    <3>1. ~overtaken /\ i = 1
      BY <1>1, <1>7, <2>8
    <3>2. /\ \A k \in 1..L : sim.timers[k].running
          /\ \A k, j \in 1..L : k < j => sim.timers[k].left <= sim.timers[j].left
      BY <1>2, <1>3, <3>1 DEF InStep
    <3>3. \A k \in 1..(L - 1) : sim'.timers[k].running
      BY <2>1, <2>3, <2>4, <3>1, <3>2
    <3>4. ASSUME NEW k \in 1..(L - 1), NEW j \in 1..(L - 1), k < j
          PROVE  sim'.timers[k].left <= sim'.timers[j].left
      <4>1. k + 1 \in 1..L /\ j + 1 \in 1..L /\ k + 1 < j + 1
        BY <2>4, <2>5, <3>4
      <4>2. sim.timers[k + 1].left <= sim.timers[j + 1].left
        BY <3>2, <4>1
      <4> QED BY <2>1, <2>3, <4>2
    <3> QED BY <3>3, <3>4
  <2> QED BY <2>1, <2>2, <2>6, <2>7, <2>8 DEF InStep
<1> QED BY <1>2, <1>8, <1>9

\* Stepped by hand a step sends the packets taken in the last one, or none if the
\* first packet has become too old; what it leaves is stuck.
LEMMA StepSends ==
    ASSUME TInv, m_isPartial, Process PROVE SentInTime' /\ Stuck'
<1> DEFINE L == Len(sim.packets)
           aged == Each(Older, sim.packets)
           n == Longest(Outgoing(aged))
           kept == SubSeq(aged, n + 1, Len(aged))
<1>1. /\ L \in Nat /\ DOMAIN sim.packets = 1..L /\ sim.packets \in Seq(Packets)
      /\ sim \in Simulators /\ MaxAge \in Nat /\ MaxAge # 0
      /\ \A i \in 1..L : /\ sim.packets[i] \in Packets
                         /\ sim.packets[i].age \in 0..MaxAge
                         /\ sim.packets[i].delay \in Nat
                         /\ sim.packets[i].delay < MaxAge
  BY PairTypes DEF TInv
<1>2. /\ aged \in Seq(Packets) /\ Len(aged) = L
      /\ \A i \in 1..L : aged[i] = Older(sim.packets[i])
  <2>1. 0 \in 0..L
    BY <1>1
  <2>2. aged \in Seq(Packets) /\ Len(aged) = L
        /\ \A i \in DOMAIN aged : aged[i] = Older(sim.packets[i])
    BY <1>1, <2>1, AgedFacts
  <2> HIDE DEF aged, L
  <2>3. DOMAIN aged = 1..L
    BY <2>2
  <2> QED BY <2>2, <2>3, Zenon
<1>3. Outgoing(aged) \subseteq 0..L /\ 0 \in Outgoing(aged)
  BY <1>1, <1>2 DEF Outgoing
<1>4. n \in Outgoing(aged) /\ \A k \in Outgoing(aged) : k <= n
  BY <1>1, <1>3, LongestIsOne
<1>5. n \in 0..L
  BY <1>3, <1>4
<1>6. /\ kept \in Seq(Packets) /\ Len(kept) = L - n /\ DOMAIN kept = 1..(L - n)
      /\ \A i \in 1..(L - n) : kept[i] = Older(sim.packets[i + n])
      /\ SubSeq(aged, 1, n) \in Seq(Packets)
  <2>1. /\ kept \in Seq(Packets) /\ Len(kept) = L - n
        /\ \A i \in DOMAIN kept : kept[i] = Older(sim.packets[i + n])
        /\ SubSeq(aged, 1, n) \in Seq(Packets)
    BY <1>1, <1>5, AgedFacts
  <2>2. DOMAIN kept = 1..(L - n)
    BY <2>1
  <2> QED BY <2>1, <2>2
<1>7. /\ Sends(SubSeq(aged, 1, n)) /\ m_isPartial' = m_isPartial
      /\ sim'.packets \in {kept, Append(kept, Picture)}
  <2>1. (IF m_isPartial THEN Longest(Outgoing(aged)) ELSE 0) = n
    OBVIOUS
  <2>2. \/ sim' = [sim EXCEPT !.packets = kept, !.timers = Each(Sooner, sim.timers)]
        \/ sim' = [sim EXCEPT !.packets = Append(kept, Picture),
                              !.timers = Each(Sooner, sim.timers)]
    BY <2>1 DEF Process
  <2>3. sim'.packets \in {kept, Append(kept, Picture)}
    BY <1>1, <2>2 DEF Simulators
  <2> QED BY <2>1, <2>3 DEF Process
<1>8. \A i \in 1..L :
        /\ aged[i].delay = sim.packets[i].delay
        /\ aged[i].age = IF sim.packets[i].age < MaxAge
                         THEN sim.packets[i].age + 1 ELSE sim.packets[i].age
  <2> SUFFICES ASSUME NEW i \in 1..L
               PROVE  /\ aged[i].delay = sim.packets[i].delay
                      /\ aged[i].age = IF sim.packets[i].age < MaxAge
                                       THEN sim.packets[i].age + 1
                                       ELSE sim.packets[i].age
    OBVIOUS
  <2>1. aged[i] = Older(sim.packets[i]) /\ sim.packets[i] \in Packets
    BY <1>1, <1>2
  <2> QED BY <2>1 DEF Older, Packets
<1>9. ASSUME NEW i \in 1..n PROVE aged[i].age = 1
  <2>1. i \in 1..L /\ 1 \in 1..n /\ 1 \in 1..L
    <3> HIDE DEF n, L
    <3> QED BY <1>1, <1>5
  <2>2. aged[1].age <= aged[1].delay
    BY <1>4, <2>1 DEF Outgoing, WhileOpen
  <2>3. ~(sim.packets[1].age > sim.packets[1].delay)
    <3> HIDE DEF aged, n, L
    <3>1. /\ sim.packets[1].age \in 0..MaxAge /\ sim.packets[1].delay \in Nat
          /\ sim.packets[1].delay < MaxAge /\ MaxAge \in Nat
          /\ aged[1].delay = sim.packets[1].delay
          /\ aged[1].age = IF sim.packets[1].age < MaxAge
                           THEN sim.packets[1].age + 1 ELSE sim.packets[1].age
      BY <1>1, <1>8, <2>1, Zenon
    <3> QED BY <2>2, <3>1
  <2>4. sim.packets[i].age = 0
    BY <1>1, <2>1, <2>3 DEF TInv, Stuck
  <2> HIDE DEF aged, n, L
  <2> QED BY <1>1, <1>8, <2>1, <2>4
<1>10. ASSUME kept # <<>> PROVE kept[1].age > kept[1].delay
  <2>1. n + 1 \in 1..L /\ n < L /\ 1 \in 1..(L - n) /\ n + 1 \in 0..Len(aged)
        /\ 1 + n = n + 1
    <3>1. L - n # 0
      BY <1>6, <1>10
    <3> HIDE DEF n, L
    <3> QED BY <1>1, <1>2, <1>5, <3>1
  <2>2. n + 1 \notin Outgoing(aged)
    <3>1. ~(n + 1 <= n)
      BY <1>5
    <3> QED BY <1>4, <3>1
  <2>3. PICK j \in 1..(n + 1) : ~WhileOpen(aged[j])
    BY <2>1, <2>2 DEF Outgoing
  <2>4. j \notin 1..n
    BY <1>4, <2>3 DEF Outgoing
  <2>5. j = n + 1
    <3> HIDE DEF n
    <3> QED BY <1>5, <2>3, <2>4
  <2>6. ~(aged[n + 1].age <= aged[n + 1].delay)
    BY <2>3, <2>5 DEF WhileOpen
  <2>7. kept[1] = aged[n + 1]
    <3> HIDE DEF aged, kept, n, L
    <3> QED BY <1>2, <1>6, <2>1, Zenon
  <2>8. aged[n + 1].age \in Nat /\ aged[n + 1].delay \in Nat
    <3> HIDE DEF aged, n, L
    <3> QED BY <1>1, <1>8, <2>1
  <2> HIDE DEF aged, kept, n, L
  <2> QED BY <2>6, <2>7, <2>8
<1>11. SentInTime'
  <2>1. \A i \in DOMAIN SubSeq(aged, 1, n) : SubSeq(aged, 1, n)[i].age = 1
    <3>1. \A i \in 1..n : aged[i] \in Packets
      BY <1>2, <1>5
    <3>2. DOMAIN SubSeq(aged, 1, n) = 1..n
          /\ \A i \in 1..n : SubSeq(aged, 1, n)[i] = aged[i]
      <4> HIDE DEF aged, n
      <4> QED BY <1>5, <3>1
    <3> QED BY <1>9, <3>2
  <2>2. lastSent' = SubSeq(aged, 1, n) \/ lastSent' = lastSent
    BY <1>7 DEF Sends
  <2>3. \A i \in DOMAIN lastSent : lastSent[i].age = 1
    BY DEF TInv, SentInTime
  <2> DEFINE sent == SubSeq(aged, 1, n)
  <2> HIDE DEF sent
  <2>4. \A i \in DOMAIN lastSent' : lastSent'[i].age = 1
    <3>1. \A i \in DOMAIN sent : sent[i].age = 1
      BY <2>1, Zenon DEF sent
    <3>2. lastSent' = sent \/ lastSent' = lastSent
      BY <2>2, Zenon DEF sent
    <3>3. CASE lastSent' = sent
      BY <3>1, <3>3
    <3>4. CASE lastSent' = lastSent
      BY <2>3, <3>4
    <3> QED BY <3>2, <3>3, <3>4
  <2>5. m_isPartial'
    BY <1>7
  <2> QED BY <2>4, <2>5 DEF SentInTime
<1>12. Stuck'
  <2>1. CASE sim'.packets = kept
    <3> HIDE DEF kept, n, L
    <3>1. \A i \in DOMAIN kept : kept # <<>>
      BY <1>6
    <3> QED BY <1>10, <2>1, <3>1 DEF Stuck
  <2>2. CASE sim'.packets = Append(kept, Picture)
    <3>1. \A i \in DOMAIN Append(kept, Picture) :
            \/ Append(kept, Picture)[i] = Picture
            \/ kept # <<>> /\ Append(kept, Picture)[1] = kept[1]
      <4> HIDE DEF kept, n, L
      <4>1. Len(kept) \in Nat /\ DOMAIN Append(kept, Picture) = 1..(Len(kept) + 1)
        BY <1>6
      <4>2. ASSUME NEW i \in 1..(Len(kept) + 1), i # Len(kept) + 1
            PROVE  kept # <<>> /\ Append(kept, Picture)[1] = kept[1]
        BY <1>6, <4>1, <4>2
      <4>3. Append(kept, Picture)[Len(kept) + 1] = Picture
        BY <1>6, <4>1
      <4> QED BY <4>1, <4>2, <4>3
    <3>2. Picture.age = 0
      BY DEF Picture
    <3> QED BY <1>10, <2>2, <3>1, <3>2 DEF Stuck
  <2> QED BY <1>7, <2>1, <2>2
<1> QED BY <1>11, <1>12

\* A reset leaves nothing behind; the delay is that of the packets to come.
LEMMA HandleSimInTime ==
    ASSUME TInv, HandleSim
    PROVE  SentInTime' /\ (IF m_isPartial' THEN Stuck' ELSE InStep')
<1> DEFINE e == Head(toSim)
<1>1. m_isPartial' = m_isPartial /\ sim \in Simulators
  BY PairTypes DEF HandleSim, TInv
<1>2. \/ /\ sim'.packets = <<>> /\ sim'.timers = <<>> /\ lastSent' = <<>>
      \/ /\ sim'.packets = sim.packets /\ sim'.timers = sim.timers
         /\ lastSent' = lastSent /\ overtaken' = overtaken
  <2>1. CASE e.type = "team" /\ sim' = [Emptied(sim) EXCEPT !.team = e.team]
             /\ lastSent' = <<>>
    BY <1>1, <2>1 DEF Emptied, Simulators
  <2>2. CASE sim' = [sim EXCEPT !.delay = e.delay] /\ UNCHANGED history
    BY <1>1, <2>2 DEF Simulators, history
  <2>3. CASE sim' = Emptied(sim) /\ lastSent' = <<>>
    BY <1>1, <2>3 DEF Emptied, Simulators
  <2> QED BY <2>1, <2>2, <2>3 DEF HandleSim
<1>3. CASE sim'.packets = <<>> /\ sim'.timers = <<>> /\ lastSent' = <<>>
  <2>1. DOMAIN lastSent' = {} /\ DOMAIN sim'.packets = {}
    BY <1>3
  <2> QED BY <2>1, Zenon DEF SentInTime, Stuck, InStep
<1>4. CASE /\ sim'.packets = sim.packets /\ sim'.timers = sim.timers
           /\ lastSent' = lastSent /\ overtaken' = overtaken
  <2>1. /\ DOMAIN sim'.packets = DOMAIN sim.packets
        /\ SentInTime /\ IF m_isPartial THEN Stuck ELSE InStep
    BY <1>4 DEF TInv
  <2>2. SentInTime'
    BY <1>1, <1>4, <2>1, Zenon DEF SentInTime
  <2>3. Stuck => Stuck'
    BY <1>4, Zenon DEF Stuck
  <2>4. InStep => InStep'
    BY <1>4, Zenon DEF InStep
  <2> QED BY <1>1, <2>1, <2>2, <2>3, <2>4
<1> QED BY <1>2, <1>3, <1>4

LEMMA NextInTime == TInv /\ [Next]_vars => TInv'
<1> SUFFICES ASSUME TInv, [Next]_vars PROVE TInv'
  OBVIOUS
<1>1. IInv'
  BY NextInv DEF TInv
<1>2. SentInTime' /\ (IF m_isPartial' THEN Stuck' ELSE InStep')
  <2>1. CASE ChangeTeam \/ ChangeRealism \/ ChangeScaling \/ UNCHANGED vars
    <3>1. UNCHANGED <<m_isPartial, sim, lastSent, overtaken>>
      BY <2>1 DEF ChangeTeam, ChangeRealism, ChangeScaling, vars, history
    <3> QED BY <3>1 DEF TInv, SentInTime, InStep, Stuck
  <2>2. CASE Process
    <3>1. m_isPartial' = m_isPartial
      BY <2>2 DEF Process
    <3> QED BY <2>2, <3>1, TimersWait, StepSends
  <2>3. CASE SendVisionPacket
    <3>1. m_isPartial' = m_isPartial
      BY <2>3 DEF SendVisionPacket
    <3> QED BY <2>3, <3>1, TimersSend
  <2> QED BY <2>1, <2>2, <2>3, HandleSimInTime DEF Next
<1> QED BY <1>1, <1>2 DEF TInv

\* Whatever the delays are and however they change: with timers a packet leaves
\* exactly when it has waited for the delay it was taken with, until a packet
\* overtakes another, and then not before the shortest delay; stepped by hand it
\* leaves with the next step or never.
THEOREM OnTime == Spec => []SentInTime
<1>1. Init => TInv
  BY InitInv DEF Init, TInv, SentInTime, InStep, Stuck
<1>2. TInv => SentInTime
  BY DEF TInv
<1> QED BY <1>1, <1>2, NextInTime, PTL DEF Spec
=============================================================================
