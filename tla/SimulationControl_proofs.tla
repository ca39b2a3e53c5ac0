----------------------- MODULE SimulationControl_proofs -----------------------
(***************************************************************************)
(* Theorems about SimulationControl, for any speeds, any reasons for a      *)
(* pause and any bound on the queues.                                       *)
(***************************************************************************)
EXTENDS SimulationControl, TLAPS

\* The records of the state.
AmunStates == [enabled : BOOLEAN, scaling : Rates, previous : Rates,
               reasons : SUBSET Reasons, switching : BOOLEAN, linked : BOOLEAN]
SimStates == [enabled : BOOLEAN, scaling : Rates, rate : Rates, flip : BOOLEAN]
ProcStates == [rate : Rates, simulated : BOOLEAN, flip : BOOLEAN,
               tracked : SUBSET Sources]

\* The type invariant, record by record.
LEMMA StateTypes ==
    TypeOK <=> /\ amun \in AmunStates /\ timer \in Rates
               /\ sim \in SimStates /\ proc \in ProcStates
               /\ toSim \in Seq(SimEvents) /\ toProc \in Seq(ProcEvents)
               /\ wish \in Speeds /\ renewed \in BOOLEAN
BY DEF TypeOK, AmunStates, SimStates, ProcStates

-----------------------------------------------------------------------------
(* Types.                                                                    *)

\* updateScaling keeps the types of what it changes.
LEMMA ScalingTypes ==
    ASSUME TypeOK, NEW s \in Rates, UpdateScaling(s)
    PROVE  timer' \in Rates /\ toSim' \in Seq(SimEvents) /\ toProc' \in Seq(ProcEvents)
BY DEF TypeOK, UpdateScaling, SimEvents, ProcEvents, Scale

\* So does an update that concerns the simulator only.
LEMMA SimulatorScalingTypes ==
    ASSUME TypeOK, NEW s \in Rates, UpdateInSimulator(s)
    PROVE  timer' \in Rates /\ toSim' \in Seq(SimEvents) /\ toProc' \in Seq(ProcEvents)
<1>1. CASE amun.enabled
    BY <1>1, ScalingTypes DEF UpdateInSimulator
<1>2. CASE ~amun.enabled
    BY <1>2 DEF UpdateInSimulator, TypeOK
<1> QED BY <1>1, <1>2

\* Real time is a rate.
LEMMA RateOne == 1 \in Speeds /\ 1 \in Rates /\ 0 \in Rates /\ Speeds \subseteq Rates
BY ControlAssumption DEF Rates

\* createSimulator makes a simulator of the right type.
LEMMA NewSimulatorType == NewSimulator \in SimStates
BY RateOne DEF NewSimulator, SimStates

\* The initial states have the types.
LEMMA InitTypes == Init => TypeOK
<1> SUFFICES ASSUME Init PROVE TypeOK
    OBVIOUS
<1>1. amun \in AmunStates
    BY RateOne DEF Init, AmunStates
<1>2. proc \in ProcStates
    BY RateOne DEF Init, ProcStates
<1>3. sim \in SimStates /\ timer \in Rates /\ wish \in Speeds /\ renewed \in BOOLEAN
    BY RateOne, NewSimulatorType DEF Init
<1>4. toSim \in Seq(SimEvents) /\ toProc \in Seq(ProcEvents)
    BY DEF Init
<1> QED BY <1>1, <1>2, <1>3, <1>4, StateTypes

\* Every step keeps the types.
LEMMA NextTypes == TypeOK /\ [Next]_vars => TypeOK'
<1> SUFFICES ASSUME TypeOK, [Next]_vars PROVE TypeOK'
    OBVIOUS
<1> DEFINE Clock == timer \in Rates /\ toSim \in Seq(SimEvents) /\ toProc \in Seq(ProcEvents)
<1> DEFINE Others == /\ amun \in AmunStates /\ sim \in SimStates /\ proc \in ProcStates
                     /\ wish \in Speeds /\ renewed \in BOOLEAN
<1>0. Clock /\ Others
    BY StateTypes
<1>00. Clock' /\ Others' => TypeOK'
    BY StateTypes DEF TypeOK, AmunStates, SimStates, ProcStates
<1>1. ASSUME NEW b \in BOOLEAN, SwitchMode(b) PROVE Clock' /\ Others'
    <2>1. ClockOf(b) \in Rates
        BY <1>0, RateOne DEF ClockOf, AmunStates
    <2>2. Clock'
        BY <1>1, <2>1, ScalingTypes DEF SwitchMode
    <2>3. amun' \in AmunStates
        BY <1>0, <1>1 DEF SwitchMode, AmunStates
    <2> QED BY <1>0, <1>1, <2>2, <2>3 DEF SwitchMode
<1>2. ASSUME AnnounceMode PROVE Clock' /\ Others'
    <2>1. Enable(amun.enabled) \in SimEvents /\ Enable(amun.enabled) \in ProcEvents
        BY <1>0 DEF AmunStates, SimEvents, ProcEvents
    <2>2. toSim' \in Seq(SimEvents) /\ toProc' \in Seq(ProcEvents)
        BY <1>0, <1>2, <2>1 DEF AnnounceMode
    <2>3. amun' \in AmunStates
        BY <1>0, <1>2 DEF AnnounceMode, AmunStates
    <2> QED BY <1>0, <1>2, <2>2, <2>3 DEF AnnounceMode
<1>3. ASSUME SetUp PROVE Clock' /\ Others'
    <2>1. amun' \in AmunStates
        BY <1>0, <1>3 DEF SetUp, AmunStates
    <2>2. toSim' \in Seq(SimEvents)
        BY <1>3 DEF SetUp
    <2> QED BY <1>0, <1>3, <2>1, <2>2, RateOne, NewSimulatorType DEF SetUp
<1>4. ASSUME SetSpeed PROVE Clock' /\ Others'
    <2>1. PICK s \in Speeds :
            /\ amun' = WithSpeed(s) /\ wish' = s
            /\ IF amun'.scaling # amun.scaling THEN UpdateInSimulator(s)
               ELSE UNCHANGED <<timer, toSim, toProc>>
        BY <1>4 DEF SetSpeed
    <2>2. Clock'
        BY <1>0, <2>1, RateOne, SimulatorScalingTypes
    <2>3. amun' \in AmunStates
        BY <1>0, <2>1, RateOne DEF WithSpeed, AmunStates
    <2> QED BY <1>0, <1>4, <2>1, <2>2, <2>3 DEF SetSpeed
<1>5. ASSUME Pause PROVE Clock' /\ Others'
    <2>1. PICK reasons \in SUBSET Reasons : PauseFor(reasons)
        BY <1>0, <1>5 DEF Pause, AmunStates
    <2>2. amun.previous \in Rates /\ 0 \in Rates
        BY <1>0, RateOne DEF AmunStates
    <2>3. Clock'
        <3>1. CASE UpdateInSimulator(amun.previous)
            BY <3>1, <2>2, SimulatorScalingTypes
        <3>2. CASE UpdateInSimulator(0)
            BY <3>2, <2>2, SimulatorScalingTypes
        <3>3. CASE UNCHANGED <<timer, toSim, toProc>>
            BY <1>0, <3>3
        <3> QED BY <2>1, <3>1, <3>2, <3>3 DEF PauseFor
    <2>4. amun' \in AmunStates
        BY <1>0, <2>1, <2>2 DEF PauseFor, AmunStates
    <2> QED BY <1>0, <2>1, <2>3, <2>4 DEF PauseFor
<1>6. ASSUME HandleSim PROVE Clock' /\ Others'
    <2>1. Head(toSim) \in SimEvents /\ toSim' \in Seq(SimEvents)
        BY <1>0, <1>6 DEF HandleSim
    <2>2. sim' \in SimStates
        <3>1. ASSUME NEW s \in Rates, Head(toSim) = Scale(s) PROVE sim' \in SimStates
            <4>1. sim' = Rescaled(s)
                BY <1>6, <3>1 DEF HandleSim, Scale
            <4> QED BY <1>0, <4>1, RateOne DEF Rescaled, RateOf, SimStates
        <3>2. ASSUME NEW b \in BOOLEAN, Head(toSim) = Enable(b) PROVE sim' \in SimStates
            <4>1. sim' = Enabled(b)
                BY <1>6, <3>2 DEF HandleSim, Enable
            <4> QED BY <1>0, <4>1, RateOne DEF Enabled, RateOf, SimStates
        <3>3. ASSUME NEW b \in BOOLEAN, Head(toSim) = Flip(b) PROVE sim' \in SimStates
            <4>1. sim' = [sim EXCEPT !.flip = b]
                BY <1>6, <3>3 DEF HandleSim, Flip
            <4> QED BY <1>0, <4>1 DEF SimStates
        <3> QED BY <2>1, <3>1, <3>2, <3>3 DEF SimEvents
    <2> QED BY <1>0, <1>6, <2>1, <2>2 DEF HandleSim
<1>7. ASSUME SendFrame PROVE Clock' /\ Others'
    <2>1. PICK src \in Sources : toProc' = Append(toProc, Frame(src))
        BY <1>7 DEF SendFrame
    <2>2. Frame(src) \in ProcEvents
        BY DEF ProcEvents
    <2> QED BY <1>0, <1>7, <2>1, <2>2 DEF SendFrame
<1>8. ASSUME HandleProc PROVE Clock' /\ Others'
    <2>1. Head(toProc) \in ProcEvents /\ toProc' \in Seq(ProcEvents)
        BY <1>0, <1>8 DEF HandleProc
    <2>2. proc' \in ProcStates
        <3>1. ASSUME NEW s \in Rates, Head(toProc) = Scale(s) PROVE proc' \in ProcStates
            <4>1. proc' = [proc EXCEPT !.rate = s]
                BY <1>8, <3>1 DEF HandleProc, Scale
            <4> QED BY <1>0, <4>1 DEF ProcStates
        <3>2. ASSUME NEW b \in BOOLEAN, Head(toProc) = Enable(b) PROVE proc' \in ProcStates
            <4>0. Head(toProc).type = "enable" /\ Head(toProc).on = b
                BY <3>2 DEF Enable
            <4>1. proc' = [proc EXCEPT !.simulated = Head(toProc).on, !.tracked = {}]
                BY <1>8, <4>0 DEF HandleProc
            <4>2. proc' = [proc EXCEPT !.simulated = b, !.tracked = {}]
                BY <4>0, <4>1
            <4> QED BY <1>0, <4>2 DEF ProcStates
        <3>3. ASSUME NEW src \in Sources, Head(toProc) = Frame(src) PROVE proc' \in ProcStates
            <4>0. Head(toProc).type = "frame" /\ Head(toProc).source = src
                BY <3>3 DEF Frame
            <4>1. proc' = [proc EXCEPT !.tracked = @ \cup {Head(toProc).source}]
                BY <1>8, <4>0 DEF HandleProc
            <4> QED BY <1>0, <4>0, <4>1 DEF ProcStates
        <3> QED BY <2>1, <3>1, <3>2, <3>3 DEF ProcEvents
    <2> QED BY <1>0, <1>8, <2>1, <2>2 DEF HandleProc
<1>9. ASSUME ChangeSides PROVE Clock' /\ Others'
    <2>1. proc' \in ProcStates /\ proc'.flip \in BOOLEAN
        BY <1>0, <1>9 DEF ChangeSides, ProcStates
    <2>2. Flip(proc'.flip) \in SimEvents
        BY <2>1 DEF SimEvents
    <2>3. toSim' \in Seq(SimEvents)
        BY <1>0, <1>9, <2>2 DEF ChangeSides
    <2> QED BY <1>0, <1>9, <2>1, <2>3 DEF ChangeSides
<1>10. ASSUME UNCHANGED vars PROVE Clock' /\ Others'
    BY <1>0, <1>10 DEF vars
<1> QED BY <1>00, <1>1, <1>2, <1>3, <1>4, <1>5, <1>6, <1>7, <1>8, <1>9, <1>10 DEF Next

\* Amun, the clock, simulator and processor and the queues between them keep
\* their types.
THEOREM Typing == Spec => []TypeOK
BY InitTypes, NextTypes, PTL DEF Spec

-----------------------------------------------------------------------------
(* Speed, pauses and the clock.                                              *)

\* A pause stops time and keeps the speed: the invariant is inductive by itself,
\* since the speeds that come back are the ones asked for and none is 0.
THEOREM PausesKeepSpeed == Spec => []PauseRemembersSpeed
<1>1. Init => PauseRemembersSpeed
    BY DEF Init, PauseRemembersSpeed
<1>2. TypeOK /\ PauseRemembersSpeed /\ [Next]_vars => PauseRemembersSpeed'
    <2> SUFFICES ASSUME TypeOK, PauseRemembersSpeed, [Next]_vars
                 PROVE  PauseRemembersSpeed'
        OBVIOUS
    <2>0. amun \in AmunStates /\ wish \in Speeds /\ 0 \notin Speeds
        BY StateTypes, ControlAssumption
    <2>1. ASSUME SetSpeed PROVE PauseRemembersSpeed'
        <3>1. PICK s \in Speeds : amun' = WithSpeed(s) /\ wish' = s
            BY <2>1 DEF SetSpeed
        <3> QED BY <2>0, <3>1 DEF WithSpeed, PauseRemembersSpeed, AmunStates
    <2>2. ASSUME Pause PROVE PauseRemembersSpeed'
        <3>1. PICK reasons \in SUBSET Reasons : PauseFor(reasons)
            BY <2>0, <2>2 DEF Pause, AmunStates
        <3> QED BY <2>0, <3>1 DEF PauseFor, PauseRemembersSpeed, AmunStates
    <2>3. ASSUME NEW b \in BOOLEAN, SwitchMode(b) PROVE PauseRemembersSpeed'
        BY <2>0, <2>3 DEF SwitchMode, PauseRemembersSpeed, AmunStates
    <2>4. CASE AnnounceMode \/ SetUp
        BY <2>0, <2>4 DEF AnnounceMode, SetUp, PauseRemembersSpeed, AmunStates
    <2>5. CASE HandleSim \/ SendFrame \/ HandleProc \/ ChangeSides \/ UNCHANGED vars
        BY <2>5 DEF HandleSim, SendFrame, HandleProc, ChangeSides, vars, PauseRemembersSpeed
    <2> QED BY <2>1, <2>2, <2>3, <2>4, <2>5 DEF Next
<1> QED BY <1>1, <1>2, Typing, PTL DEF Spec

\* The clock runs in real time outside the simulator and with the scaling of the
\* simulation in it, whatever pauses and speeds come while it is not in use.
THEOREM ClockIsRight == Spec => []ClockFollowsMode
<1>1. Init => ClockFollowsMode
    BY DEF Init, ClockFollowsMode
<1>2. TypeOK /\ ClockFollowsMode /\ [Next]_vars => ClockFollowsMode'
    <2> SUFFICES ASSUME TypeOK, ClockFollowsMode, [Next]_vars PROVE ClockFollowsMode'
        OBVIOUS
    <2>0. amun \in AmunStates
        BY StateTypes
    <2>1. ASSUME SetSpeed PROVE ClockFollowsMode'
        <3>1. PICK s \in Speeds :
                /\ amun' = WithSpeed(s)
                /\ IF amun'.scaling # amun.scaling THEN UpdateInSimulator(s)
                   ELSE UNCHANGED <<timer, toSim, toProc>>
            BY <2>1 DEF SetSpeed
        <3> QED BY <2>0, <2>1, <3>1
                DEF SetSpeed, WithSpeed, UpdateInSimulator, UpdateScaling,
                    ClockFollowsMode, AmunStates
    <2>2. ASSUME Pause PROVE ClockFollowsMode'
        <3>1. PICK reasons \in SUBSET Reasons : PauseFor(reasons)
            BY <2>0, <2>2 DEF Pause, AmunStates
        <3> QED BY <2>0, <3>1 DEF PauseFor, UpdateInSimulator, UpdateScaling,
                                  ClockFollowsMode, AmunStates
    <2>3. ASSUME NEW b \in BOOLEAN, SwitchMode(b) PROVE ClockFollowsMode'
        BY <2>0, <2>3 DEF SwitchMode, UpdateScaling, ClockOf, ClockFollowsMode, AmunStates
    <2>4. CASE AnnounceMode \/ SetUp
        BY <2>0, <2>4 DEF AnnounceMode, SetUp, ClockFollowsMode, AmunStates
    <2>5. CASE HandleSim \/ SendFrame \/ HandleProc \/ ChangeSides \/ UNCHANGED vars
        BY <2>5 DEF HandleSim, SendFrame, HandleProc, ChangeSides, vars, ClockFollowsMode
    <2> QED BY <2>1, <2>2, <2>3, <2>4, <2>5 DEF Next
<1> QED BY <1>1, <1>2, Typing, PTL DEF Spec

-----------------------------------------------------------------------------
(* The vision.                                                               *)

\* No switch is announced behind place i of a queue.
Quiet(q, i) == \A j \in (i + 1)..Len(q) : q[j].type # "enable"

\* Where the frames come from when the simulator is enabled, or not.
SourceOf(b) == IF b THEN "simulator" ELSE "field"

\* The last switch in a queue is to b, and the frames behind it are of its source.
LeadsTo(q, b) ==
    /\ \A i \in 1..Len(q) : q[i].type = "enable" /\ Quiet(q, i) => q[i].on = b
    /\ \A i \in 1..Len(q) : q[i].type = "frame" /\ Quiet(q, i) => q[i].source = SourceOf(b)

\* When Amun has announced its mode, the queue leads the processor to it, or the
\* processor is there.  Frames of the other source are all in front of the switch
\* that makes the processor forget them.
VisionInv ==
    ~amun.switching =>
        /\ LeadsTo(toProc, amun.enabled)
        /\ Quiet(toProc, 0) =>
            /\ proc.simulated = amun.enabled
            /\ proc.tracked \subseteq {SourceOf(amun.enabled)}

\* A scaling, or a frame of the right source, leaves the way of the queue.
LEMMA AppendOther ==
    ASSUME NEW q \in Seq(ProcEvents), NEW b \in BOOLEAN, NEW e,
           e.type # "enable", e.type = "frame" => e.source = SourceOf(b),
           LeadsTo(q, b)
    PROVE  LeadsTo(Append(q, e), b) /\ (Quiet(Append(q, e), 0) => Quiet(q, 0))
<1> DEFINE r == Append(q, e)
<1>1. /\ Len(q) \in Nat /\ Len(r) = Len(q) + 1 /\ r[Len(q) + 1] = e
      /\ \A i \in 1..Len(q) : r[i] = q[i]
    OBVIOUS
<1> HIDE DEF r
<1>2. \A i \in 0..Len(q) : Quiet(r, i) => Quiet(q, i)
    BY <1>1 DEF Quiet
<1>3. LeadsTo(r, b)
    BY <1>1, <1>2 DEF LeadsTo
<1> QED BY <1>1, <1>2, <1>3 DEF r

\* A switch at the end sets the way of the queue.
LEMMA AppendSwitch ==
    ASSUME NEW q \in Seq(ProcEvents), NEW b \in BOOLEAN
    PROVE  LeadsTo(Append(q, Enable(b)), b) /\ ~Quiet(Append(q, Enable(b)), 0)
<1> DEFINE r == Append(q, Enable(b))
<1>1. /\ Len(q) \in Nat /\ Len(r) = Len(q) + 1
      /\ r[Len(r)].type = "enable" /\ r[Len(r)].on = b
    BY DEF Enable
<1> HIDE DEF r
<1>2. \A i \in 0..Len(q) : ~Quiet(r, i)
    BY <1>1 DEF Quiet
<1>3. LeadsTo(r, b)
    BY <1>1, <1>2 DEF LeadsTo
<1> QED BY <1>1, <1>2, <1>3 DEF r

\* Handling the first event keeps the way of the rest.
LEMMA HandleHead ==
    ASSUME NEW q \in Seq(ProcEvents), q # <<>>, NEW b \in BOOLEAN, LeadsTo(q, b)
    PROVE  /\ LeadsTo(Tail(q), b)
           /\ Quiet(Tail(q), 0) => Quiet(q, 1)
           /\ Quiet(Tail(q), 0) /\ Head(q).type # "enable" => Quiet(q, 0)
<1> DEFINE r == Tail(q)
<1>1. /\ Len(q) \in Nat \ {0} /\ Len(r) = Len(q) - 1 /\ Head(q) = q[1]
      /\ \A i \in 1..Len(r) : r[i] = q[i + 1]
    OBVIOUS
<1> HIDE DEF r
<1>2. \A i \in 0..Len(r) : Quiet(r, i) => Quiet(q, i + 1)
    <2> SUFFICES ASSUME NEW i \in 0..Len(r), Quiet(r, i),
                        NEW j \in (i + 2)..Len(q)
                 PROVE  q[j].type # "enable"
        BY DEF Quiet
    <2>1. j - 1 \in (i + 1)..Len(r) /\ r[j - 1] = q[j]
        BY <1>1
    <2> QED BY <2>1 DEF Quiet
<1>3. LeadsTo(r, b)
    <2>1. \A i \in 1..Len(r) : i + 1 \in 1..Len(q)
        BY <1>1
    <2> QED BY <1>1, <1>2, <2>1 DEF LeadsTo
<1>4. Quiet(q, 1) /\ Head(q).type # "enable" => Quiet(q, 0)
    BY <1>1 DEF Quiet
<1>5. Quiet(r, 0) => Quiet(q, 1)
    BY <1>1, <1>2
<1> QED BY <1>3, <1>4, <1>5 DEF r

\* A new scaling behind the others announces no switch.
LEMMA VisionScaling ==
    ASSUME TypeOK, VisionInv, NEW s, UpdateScaling(s), ~amun.switching
    PROVE  /\ LeadsTo(toProc', amun.enabled)
           /\ Quiet(toProc', 0) => Quiet(toProc, 0)
<1>1. toProc \in Seq(ProcEvents) /\ amun.enabled \in BOOLEAN
    BY StateTypes DEF AmunStates
<1>2. toProc' = Append(toProc, Scale(s)) /\ Scale(s).type = "scale"
    BY DEF UpdateScaling, Scale
<1> QED BY <1>1, <1>2, AppendOther DEF VisionInv

\* Every step keeps the invariant of the vision.
LEMMA VisionStep == TypeOK /\ VisionInv /\ [Next]_vars => VisionInv'
<1> SUFFICES ASSUME TypeOK, VisionInv, [Next]_vars PROVE VisionInv'
    OBVIOUS
<1>0. /\ amun \in AmunStates /\ amun.enabled \in BOOLEAN /\ proc \in ProcStates
      /\ toProc \in Seq(ProcEvents)
    BY StateTypes DEF AmunStates
<1>1. ASSUME NEW b \in BOOLEAN, SwitchMode(b) PROVE VisionInv'
    BY <1>0, <1>1 DEF SwitchMode, VisionInv, AmunStates
<1>2. ASSUME AnnounceMode PROVE VisionInv'
    <2>1. toProc' = Append(toProc, Enable(amun.enabled)) /\ amun'.enabled = amun.enabled
        BY <1>0, <1>2 DEF AnnounceMode, AmunStates
    <2> QED BY <1>0, <2>1, AppendSwitch DEF VisionInv
<1>3. ASSUME SetUp PROVE VisionInv'
    BY <1>0, <1>3 DEF SetUp, VisionInv, AmunStates
<1>4. ASSUME amun'.enabled = amun.enabled, amun'.switching = amun.switching,
             UNCHANGED proc, NEW s, UpdateInSimulator(s) \/ UNCHANGED toProc
      PROVE  VisionInv'
    <2>1. CASE UNCHANGED toProc
        BY <1>4, <2>1 DEF VisionInv, LeadsTo, Quiet
    <2>2. CASE UpdateScaling(s)
        BY <1>4, <2>2, VisionScaling DEF VisionInv
    <2> QED BY <1>4, <2>1, <2>2 DEF UpdateInSimulator
<1>5. ASSUME SetSpeed PROVE VisionInv'
    <2>1. PICK s \in Speeds : /\ amun' = WithSpeed(s)
                              /\ UpdateInSimulator(s) \/ UNCHANGED toProc
        BY <1>5 DEF SetSpeed
    <2>2. amun'.enabled = amun.enabled /\ amun'.switching = amun.switching
        BY <1>0, <2>1 DEF WithSpeed, AmunStates
    <2> QED BY <1>4, <1>5, <2>1, <2>2 DEF SetSpeed
<1>6. ASSUME Pause PROVE VisionInv'
    <2>1. PICK reasons \in SUBSET Reasons : PauseFor(reasons)
        BY <1>0, <1>6 DEF Pause, AmunStates
    <2>2. amun'.enabled = amun.enabled /\ amun'.switching = amun.switching /\ UNCHANGED proc
        BY <1>0, <2>1 DEF PauseFor, AmunStates
    <2>3. \E s : UpdateInSimulator(s) \/ UNCHANGED toProc
        BY <2>1 DEF PauseFor
    <2> QED BY <1>4, <2>2, <2>3
<1>7. ASSUME SendFrame PROVE VisionInv'
    <2>1. PICK src \in Sources : Connected(src) /\ toProc' = Append(toProc, Frame(src))
        BY <1>7 DEF SendFrame
    <2>2. Frame(src).type = "frame" /\ Frame(src).source = SourceOf(amun.enabled)
        BY <1>0, <2>1 DEF Frame, Connected, Sources, SourceOf
    <2> QED BY <1>0, <1>7, <2>1, <2>2, AppendOther DEF SendFrame, VisionInv
<1>8. ASSUME HandleProc PROVE VisionInv'
    <2> SUFFICES ASSUME ~amun.switching
                 PROVE  /\ LeadsTo(toProc', amun.enabled)
                        /\ Quiet(toProc', 0) =>
                             /\ proc'.simulated = amun.enabled
                             /\ proc'.tracked \subseteq {SourceOf(amun.enabled)}
        BY <1>8 DEF HandleProc, VisionInv
    <2>1. /\ toProc # <<>> /\ toProc' = Tail(toProc) /\ LeadsTo(toProc, amun.enabled)
          /\ Head(toProc) \in ProcEvents
        BY <1>0, <1>8 DEF HandleProc, VisionInv
    <2>2. LeadsTo(toProc', amun.enabled) /\ (Quiet(toProc', 0) => Quiet(toProc, 1))
        BY <1>0, <2>1, HandleHead
    <2>3. 1 \in 1..Len(toProc) /\ Head(toProc) = toProc[1]
        BY <1>0, <2>1
    <2>4. ASSUME Head(toProc).type # "enable", Quiet(toProc', 0)
          PROVE  /\ proc.simulated = amun.enabled
                 /\ proc.tracked \subseteq {SourceOf(amun.enabled)}
        BY <1>0, <2>1, <2>4, HandleHead DEF VisionInv
    <2>5. ASSUME NEW s \in Rates, Head(toProc) = Scale(s), Quiet(toProc', 0)
          PROVE  /\ proc'.simulated = amun.enabled
                 /\ proc'.tracked \subseteq {SourceOf(amun.enabled)}
        <3>1. Head(toProc).type = "scale"
            BY <2>5 DEF Scale
        <3> QED BY <1>0, <1>8, <2>4, <2>5, <3>1 DEF HandleProc, ProcStates
    <2>6. ASSUME NEW b \in BOOLEAN, Head(toProc) = Enable(b), Quiet(toProc', 0)
          PROVE  /\ proc'.simulated = amun.enabled
                 /\ proc'.tracked \subseteq {SourceOf(amun.enabled)}
        <3>1. Head(toProc).type = "enable" /\ Head(toProc).on = amun.enabled
            BY <2>1, <2>2, <2>3, <2>6 DEF Enable, LeadsTo
        <3> QED BY <1>0, <1>8, <3>1 DEF HandleProc, ProcStates
    <2>7. ASSUME NEW src \in Sources, Head(toProc) = Frame(src), Quiet(toProc', 0)
          PROVE  /\ proc'.simulated = amun.enabled
                 /\ proc'.tracked \subseteq {SourceOf(amun.enabled)}
        <3>1. Head(toProc).type = "frame" /\ Head(toProc).source = SourceOf(amun.enabled)
            BY <2>1, <2>2, <2>3, <2>7 DEF Frame, LeadsTo
        <3>2. proc' = [proc EXCEPT !.tracked = @ \cup {Head(toProc).source}]
            BY <1>8, <3>1 DEF HandleProc
        <3> QED BY <1>0, <2>4, <2>7, <3>1, <3>2 DEF ProcStates
    <2> QED BY <2>1, <2>2, <2>5, <2>6, <2>7 DEF ProcEvents
<1>9. ASSUME HandleSim \/ UNCHANGED vars PROVE VisionInv'
    BY <1>9 DEF HandleSim, vars, VisionInv, LeadsTo, Quiet
<1>10. ASSUME ChangeSides PROVE VisionInv'
    <2>1. proc'.simulated = proc.simulated /\ proc'.tracked = proc.tracked
        BY <1>0, <1>10 DEF ChangeSides, ProcStates
    <2> QED BY <1>10, <2>1 DEF ChangeSides, VisionInv, LeadsTo, Quiet
<1> QED BY <1>1, <1>2, <1>3, <1>5, <1>6, <1>7, <1>8, <1>9, <1>10 DEF Next

\* Frames that were queued when the vision was switched never stay in the
\* tracker: it only holds frames of the source Amun has announced.
THEOREM OneSource == Spec => []VisionFromOneSource
<1>1. Init => VisionInv
    BY DEF Init, VisionInv, LeadsTo, SourceOf
<1>2. TypeOK /\ VisionInv => VisionFromOneSource
    <2> SUFFICES ASSUME TypeOK, VisionInv, Announced
                 PROVE  proc.tracked \subseteq
                            {IF proc.simulated THEN "simulator" ELSE "field"}
        BY DEF VisionFromOneSource
    <2>1. toProc \in Seq(ProcEvents)
        BY StateTypes
    <2>2. Quiet(toProc, 0)
        BY <2>1 DEF Announced, Quiet
    <2> QED BY <2>2 DEF Announced, VisionInv, SourceOf
<1> QED BY <1>1, <1>2, VisionStep, Typing, PTL DEF Spec

-----------------------------------------------------------------------------
(* The threads.                                                              *)

\* What an event of the clock or of the mode carries.
Value(e) == IF e.type = "scale" THEN e.to ELSE e.on

\* No event of type t is behind place i of a queue.
Lacks(q, t, i) == \A j \in (i + 1)..Len(q) : q[j].type # t

\* A thread with the value now has the value v when it has handled the queue q:
\* the last event of type t carries v, or there is none and v is there already.
Leaves(q, t, v, now) ==
    /\ \A i \in 1..Len(q) : q[i].type = t /\ Lacks(q, t, i) => Value(q[i]) = v
    /\ Lacks(q, t, 0) => now = v

\* A thread that has handled its events has the scaling of the clock, whatever
\* Amun and the threads have done in between, and knows of the mode.  Only from
\* a setup to its resend the processor does not follow the clock.
ThreadsInv ==
    /\ sim.rate = RateOf(sim.enabled, sim.scaling)
    /\ Leaves(toSim, "scale", timer, sim.scaling)
    /\ ~amun.switching /\ ~renewed => Leaves(toSim, "enable", amun.enabled, sim.enabled)
    /\ ~renewed => Leaves(toProc, "scale", timer, proc.rate)

\* An event of another type changes nothing.
LEMMA LeavesOther ==
    ASSUME NEW S, NEW q \in Seq(S), NEW t, NEW v, NEW now, NEW e,
           e.type # t, Leaves(q, t, v, now)
    PROVE  Leaves(Append(q, e), t, v, now)
<1> DEFINE r == Append(q, e)
<1>1. /\ Len(q) \in Nat /\ Len(r) = Len(q) + 1 /\ r[Len(q) + 1] = e
      /\ \A i \in 1..Len(q) : r[i] = q[i]
    OBVIOUS
<1> HIDE DEF r
<1>2. \A i \in 0..Len(q) : Lacks(r, t, i) => Lacks(q, t, i)
    BY <1>1 DEF Lacks
<1>3. Leaves(r, t, v, now)
    BY <1>1, <1>2 DEF Leaves
<1> QED BY <1>3 DEF r

\* An event of the type, put behind the others, decides.
LEMMA LeavesLast ==
    ASSUME NEW S, NEW q \in Seq(S), NEW now, NEW e
    PROVE  Leaves(Append(q, e), e.type, Value(e), now)
<1> DEFINE r == Append(q, e)
<1>1. Len(q) \in Nat /\ Len(r) = Len(q) + 1 /\ r[Len(q) + 1] = e
    OBVIOUS
<1> HIDE DEF r
<1>2. \A i \in 0..Len(q) : ~Lacks(r, e.type, i)
    BY <1>1 DEF Lacks
<1>3. \A i \in 1..Len(r) : i = Len(r) \/ i \in 0..Len(q)
    BY <1>1
<1>4. Leaves(r, e.type, Value(e), now)
    BY <1>1, <1>2, <1>3 DEF Leaves
<1> QED BY <1>4 DEF r

\* A thread that takes over the first event leaves the same with the rest.
LEMMA LeavesRest ==
    ASSUME NEW S, NEW q \in Seq(S), q # <<>>, NEW t, NEW v, NEW now, Leaves(q, t, v, now)
    PROVE  Leaves(Tail(q), t, v, IF Head(q).type = t THEN Value(Head(q)) ELSE now)
<1> DEFINE r == Tail(q)
<1>1. /\ Len(q) \in Nat \ {0} /\ Len(r) = Len(q) - 1 /\ Head(q) = q[1]
      /\ \A i \in 1..Len(r) : r[i] = q[i + 1]
    OBVIOUS
<1> HIDE DEF r
<1>2. \A i \in 0..Len(r) : Lacks(r, t, i) => Lacks(q, t, i + 1)
    <2> SUFFICES ASSUME NEW i \in 0..Len(r), Lacks(r, t, i),
                        NEW j \in (i + 2)..Len(q)
                 PROVE  q[j].type # t
        BY DEF Lacks
    <2>1. j - 1 \in (i + 1)..Len(r) /\ r[j - 1] = q[j]
        BY <1>1
    <2> QED BY <2>1 DEF Lacks
<1>3. \A i \in 1..Len(r) : i + 1 \in 1..Len(q)
    BY <1>1
<1>4. ASSUME NEW i \in 1..Len(r), r[i].type = t, Lacks(r, t, i) PROVE Value(r[i]) = v
    BY <1>1, <1>2, <1>3, <1>4 DEF Leaves
<1>5. ASSUME Lacks(r, t, 0)
      PROVE  (IF Head(q).type = t THEN Value(Head(q)) ELSE now) = v
    <2>1. Lacks(q, t, 1) /\ 1 \in 1..Len(q)
        BY <1>1, <1>2, <1>5
    <2>2. Head(q).type # t => Lacks(q, t, 0)
        BY <1>1, <2>1 DEF Lacks
    <2> QED BY <1>1, <2>1, <2>2 DEF Leaves
<1> QED BY <1>4, <1>5 DEF Leaves, r

\* updateScaling tells both threads of the new clock, and of nothing else.
LEMMA ScalingTold ==
    ASSUME TypeOK, NEW s \in Rates, UpdateScaling(s)
    PROVE  /\ timer' = s
           /\ Leaves(toSim', "scale", s, sim.scaling)
           /\ Leaves(toProc', "scale", s, proc.rate)
           /\ Leaves(toSim, "enable", amun.enabled, sim.enabled) =>
                  Leaves(toSim', "enable", amun.enabled, sim.enabled)
<1>1. toSim \in Seq(SimEvents) /\ toProc \in Seq(ProcEvents)
    BY StateTypes
<1>2. /\ toSim' = Append(toSim, Scale(s)) /\ toProc' = Append(toProc, Scale(s))
      /\ timer' = s
    BY DEF UpdateScaling
<1>3. Scale(s).type = "scale" /\ Value(Scale(s)) = s
    BY DEF Scale, Value
<1>4. Leaves(toSim', Scale(s).type, Value(Scale(s)), sim.scaling)
    BY <1>1, <1>2, LeavesLast
<1>5. Leaves(toProc', Scale(s).type, Value(Scale(s)), proc.rate)
    BY <1>1, <1>2, LeavesLast
<1>6. Scale(s).type # "enable"
    BY <1>3
<1>7. Leaves(toSim, "enable", amun.enabled, sim.enabled) =>
          Leaves(toSim', "enable", amun.enabled, sim.enabled)
    BY <1>1, <1>2, <1>6, LeavesOther
<1> QED BY <1>2, <1>3, <1>4, <1>5, <1>7

\* A step that changes the scaling alone, or not even that.
LEMMA ScalingAgrees ==
    ASSUME TypeOK, ThreadsInv, UNCHANGED <<sim, proc, renewed>>,
           amun'.enabled = amun.enabled, amun'.switching = amun.switching,
           NEW s \in Rates, UpdateInSimulator(s) \/ UNCHANGED <<timer, toSim, toProc>>
    PROVE  ThreadsInv'
<1>1. CASE UNCHANGED <<timer, toSim, toProc>>
    BY <1>1 DEF ThreadsInv, Leaves, Lacks
<1>2. CASE UpdateScaling(s)
    BY <1>2, ScalingTold DEF ThreadsInv
<1> QED BY <1>1, <1>2 DEF UpdateInSimulator

\* The simulator's handlers.
LEMMA SimulatorAgrees == ASSUME TypeOK, ThreadsInv, HandleSim PROVE ThreadsInv'
<1> DEFINE e == Head(toSim)
<1>0. /\ sim \in SimStates /\ toSim \in Seq(SimEvents) /\ toSim # <<>>
      /\ toSim' = Tail(toSim) /\ e \in SimEvents
    BY StateTypes DEF HandleSim
<1>1. Leaves(toSim', "scale", timer, IF e.type = "scale" THEN Value(e) ELSE sim.scaling)
    BY <1>0, LeavesRest DEF ThreadsInv
<1>2. ~amun.switching /\ ~renewed =>
          Leaves(toSim', "enable", amun.enabled,
                 IF e.type = "enable" THEN Value(e) ELSE sim.enabled)
    BY <1>0, LeavesRest DEF ThreadsInv
<1>3. /\ sim'.rate = RateOf(sim'.enabled, sim'.scaling)
      /\ sim'.scaling = IF e.type = "scale" THEN Value(e) ELSE sim.scaling
      /\ sim'.enabled = IF e.type = "enable" THEN Value(e) ELSE sim.enabled
    <2>1. ASSUME NEW s \in Rates, e = Scale(s) PROVE <1>3!:
        <3>1. e.type = "scale" /\ e.to = s
            BY <2>1 DEF Scale
        <3>2. sim' = [sim EXCEPT !.scaling = s, !.rate = RateOf(sim.enabled, s)]
            BY <3>1 DEF HandleSim, Rescaled
        <3> QED BY <1>0, <3>1, <3>2 DEF SimStates, Value
    <2>2. ASSUME NEW b \in BOOLEAN, e = Enable(b) PROVE <1>3!:
        <3>1. e.type = "enable" /\ e.on = b
            BY <2>2 DEF Enable
        <3>2. sim' = Enabled(e.on)
            BY <3>1 DEF HandleSim
        <3>3. sim' = [sim EXCEPT !.enabled = b, !.rate = RateOf(b, sim.scaling)]
            BY <3>1, <3>2 DEF Enabled
        <3> QED BY <1>0, <3>1, <3>3 DEF SimStates, Value
    <2>3. ASSUME NEW b \in BOOLEAN, e = Flip(b) PROVE <1>3!:
        <3>1. e.type = "flip" /\ e.on = b
            BY <2>3 DEF Flip
        <3>2. sim' = [sim EXCEPT !.flip = e.on]
            BY <3>1 DEF HandleSim
        <3> QED BY <1>0, <3>1, <3>2 DEF SimStates, ThreadsInv
    <2> QED BY <1>0, <2>1, <2>2, <2>3 DEF SimEvents
<1> QED BY <1>1, <1>2, <1>3 DEF HandleSim, ThreadsInv

\* The processor's handlers.
LEMMA ProcessorAgrees == ASSUME TypeOK, ThreadsInv, HandleProc PROVE ThreadsInv'
<1> DEFINE e == Head(toProc)
<1>0. /\ proc \in ProcStates /\ toProc \in Seq(ProcEvents) /\ toProc # <<>>
      /\ toProc' = Tail(toProc) /\ e \in ProcEvents
    BY StateTypes DEF HandleProc
<1>1. ~renewed => Leaves(toProc', "scale", timer,
                         IF e.type = "scale" THEN Value(e) ELSE proc.rate)
    BY <1>0, LeavesRest DEF ThreadsInv
<1>2. proc'.rate = IF e.type = "scale" THEN Value(e) ELSE proc.rate
    <2>1. ASSUME NEW s \in Rates, e = Scale(s) PROVE <1>2!:
        <3>1. e.type = "scale" /\ e.to = s
            BY <2>1 DEF Scale
        <3> QED BY <1>0, <3>1 DEF HandleProc, ProcStates, Value
    <2>2. ASSUME NEW b \in BOOLEAN, e = Enable(b) PROVE <1>2!:
        <3>1. e.type = "enable"
            BY <2>2 DEF Enable
        <3>2. proc' = [proc EXCEPT !.simulated = e.on, !.tracked = {}]
            BY <3>1 DEF HandleProc
        <3> QED BY <1>0, <3>1, <3>2 DEF ProcStates
    <2>3. ASSUME NEW src \in Sources, e = Frame(src) PROVE <1>2!:
        <3>1. e.type = "frame"
            BY <2>3 DEF Frame
        <3>2. proc' = [proc EXCEPT !.tracked = @ \cup {e.source}]
            BY <3>1 DEF HandleProc
        <3> QED BY <1>0, <3>1, <3>2 DEF ProcStates
    <2> QED BY <1>0, <2>1, <2>2, <2>3 DEF ProcEvents
<1> QED BY <1>1, <1>2 DEF HandleProc, ThreadsInv

\* Every step keeps the threads on the way to the clock.
LEMMA ThreadsStep == TypeOK /\ ThreadsInv /\ [Next]_vars => ThreadsInv'
<1> SUFFICES ASSUME TypeOK, ThreadsInv, [Next]_vars PROVE ThreadsInv'
    OBVIOUS
<1>0. /\ amun \in AmunStates /\ amun.enabled \in BOOLEAN /\ proc \in ProcStates
      /\ toSim \in Seq(SimEvents) /\ toProc \in Seq(ProcEvents)
    BY StateTypes DEF AmunStates
<1>1. ASSUME NEW b \in BOOLEAN, SwitchMode(b) PROVE ThreadsInv'
    <2>1. ClockOf(b) \in Rates
        BY <1>0, RateOne DEF ClockOf, AmunStates
    <2>2. amun'.switching /\ UpdateScaling(ClockOf(b))
        BY <1>0, <1>1 DEF SwitchMode, AmunStates
    <2> QED BY <1>1, <2>1, <2>2, ScalingTold DEF SwitchMode, ThreadsInv
<1>2. ASSUME AnnounceMode PROVE ThreadsInv'
    <2> DEFINE e == Enable(amun.enabled)
    <2>1. /\ toSim' = Append(toSim, e) /\ toProc' = Append(toProc, e)
          /\ amun'.enabled = amun.enabled
        BY <1>0, <1>2 DEF AnnounceMode, AmunStates
    <2>2. e.type = "enable" /\ e.type # "scale" /\ Value(e) = amun.enabled
        BY DEF Enable, Value
    <2> HIDE DEF e
    <2>3. Leaves(toSim', "scale", timer, sim.scaling)
        BY <1>0, <2>1, <2>2, LeavesOther DEF ThreadsInv
    <2>4. ~renewed => Leaves(toProc', "scale", timer, proc.rate)
        BY <1>0, <2>1, <2>2, LeavesOther DEF ThreadsInv
    <2>5. Leaves(toSim', e.type, Value(e), sim.enabled)
        BY <1>0, <2>1, LeavesLast
    <2> QED BY <1>2, <2>1, <2>2, <2>3, <2>4, <2>5 DEF AnnounceMode, ThreadsInv
<1>3. ASSUME SetUp PROVE ThreadsInv'
    BY <1>3 DEF SetUp, ThreadsInv, NewSimulator, RateOf, Leaves
<1>4. ASSUME SetSpeed PROVE ThreadsInv'
    <2>1. PICK s \in Speeds : /\ amun' = WithSpeed(s)
                              /\ UpdateInSimulator(s) \/ UNCHANGED <<timer, toSim, toProc>>
        BY <1>4 DEF SetSpeed
    <2>2. /\ amun'.enabled = amun.enabled /\ amun'.switching = amun.switching
          /\ s \in Rates
        BY <1>0, <2>1, RateOne DEF WithSpeed, AmunStates
    <2> QED BY <1>4, <2>1, <2>2, ScalingAgrees DEF SetSpeed
<1>5. ASSUME Pause PROVE ThreadsInv'
    <2>1. PICK reasons \in SUBSET Reasons : PauseFor(reasons)
        BY <1>0, <1>5 DEF Pause, AmunStates
    <2>2. /\ amun'.enabled = amun.enabled /\ amun'.switching = amun.switching
          /\ UNCHANGED <<sim, proc, renewed>>
        BY <1>0, <2>1 DEF PauseFor, AmunStates
    <2>3. \E s \in Rates : UpdateInSimulator(s) \/ UNCHANGED <<timer, toSim, toProc>>
        BY <1>0, <2>1, RateOne DEF PauseFor, AmunStates
    <2> QED BY <2>2, <2>3, ScalingAgrees
<1>6. ASSUME SendFrame PROVE ThreadsInv'
    <2>1. PICK src \in Sources : toProc' = Append(toProc, Frame(src))
        BY <1>6 DEF SendFrame
    <2>2. Frame(src).type # "scale"
        BY DEF Frame
    <2>3. ~renewed => Leaves(toProc', "scale", timer, proc.rate)
        BY <1>0, <2>1, <2>2, LeavesOther DEF ThreadsInv
    <2> QED BY <1>6, <2>3 DEF SendFrame, ThreadsInv
<1>7. ASSUME ChangeSides PROVE ThreadsInv'
    <2>1. proc'.rate = proc.rate
        BY <1>0, <1>7 DEF ChangeSides, ProcStates
    <2>2. CASE UNCHANGED toSim
        BY <1>7, <2>1, <2>2 DEF ChangeSides, ThreadsInv
    <2>3. CASE toSim' = Append(toSim, Flip(proc'.flip))
        <3>1. Flip(proc'.flip).type # "scale" /\ Flip(proc'.flip).type # "enable"
            BY DEF Flip
        <3>2. Leaves(toSim', "scale", timer, sim.scaling)
            BY <1>0, <2>3, <3>1, LeavesOther DEF ThreadsInv
        <3>3. ~amun.switching /\ ~renewed =>
                  Leaves(toSim', "enable", amun.enabled, sim.enabled)
            BY <1>0, <2>3, <3>1, LeavesOther DEF ThreadsInv
        <3> QED BY <1>7, <2>1, <3>2, <3>3 DEF ChangeSides, ThreadsInv
    <2> QED BY <1>7, <2>2, <2>3 DEF ChangeSides
<1>8. ASSUME UNCHANGED vars PROVE ThreadsInv'
    BY <1>8 DEF vars, ThreadsInv
<1> QED BY <1>1, <1>2, <1>3, <1>4, <1>5, <1>6, <1>7, <1>8,
           SimulatorAgrees, ProcessorAgrees DEF Next

\* When both threads have handled what Amun told them, the simulator runs with
\* the clock if it is in use and stands still if not, and the processor runs with
\* the clock and knows of the mode: setScaling and the enable command may come in
\* any order, between pauses and setups.
THEOREM ThreadsFollow == Spec => []ThreadsAgree
<1>1. Init => VisionInv /\ ThreadsInv
    BY DEF Init, VisionInv, LeadsTo, SourceOf, ThreadsInv, NewSimulator, RateOf, Leaves
<1>2. TypeOK /\ VisionInv /\ ThreadsInv => ThreadsAgree
    <2> SUFFICES ASSUME TypeOK, VisionInv, ThreadsInv, toSim = <<>>, toProc = <<>>,
                        ~amun.switching, ~renewed
                 PROVE  /\ sim.rate = IF amun.enabled THEN timer ELSE 0
                        /\ proc.rate = timer
                        /\ proc.simulated = amun.enabled
        BY DEF ThreadsAgree
    <2>1. \A t : Lacks(toSim, t, 0) /\ Lacks(toProc, t, 0)
        BY DEF Lacks
    <2>2. sim.scaling = timer /\ sim.enabled = amun.enabled /\ proc.rate = timer
        BY <2>1 DEF ThreadsInv, Leaves
    <2>3. Quiet(toProc, 0)
        BY DEF Quiet
    <2> QED BY <2>2, <2>3 DEF ThreadsInv, VisionInv, RateOf
<1> QED BY <1>1, <1>2, VisionStep, ThreadsStep, Typing, PTL DEF Spec
===============================================================================
