----------------------- MODULE StrategyControl_proofs -----------------------
(***************************************************************************)
(* Proofs about StrategyControl, for any robots, batches and queues.       *)
(***************************************************************************)
EXTENDS StrategyControl, TLAPS

USE StrategyAssumption

\* The parts of a strategy's state that the handlers return.
LEMMA FailedFacts ==
    ASSUME NEW s \in Strategies
    PROVE  Failed(s) \in Strategies /\ ~Running(Failed(s))
  BY DEF Strategies, Failed, Armed, Running, Shown

\* A loaded strategy keeps its types.
LEMMA LoadedFacts ==
    ASSUME NEW s \in Strategies
    PROVE  Loaded(s) \in Strategies
  BY DEF Strategies, Loaded, Shown

\* A closed strategy keeps its types and does not run.
LEMMA ClosedFacts ==
    ASSUME NEW s \in Strategies
    PROVE  Closed(s) \in Strategies /\ ~Running(Closed(s))
  BY DEF Strategies, Closed, Running, Shown

\* What a step of the strategy's thread does to the queue of the processor: a
\* halt at the end, or nothing, and then a strategy that ran goes on running; or
\* commands of a running strategy.
Halts == inbox' = Append(inbox, Halt)
Silent == UNCHANGED inbox /\ (Running(strategy) => Running(strategy'))
Commands == \E n \in 1..MaxBatch : \E orders \in BatchesOf(n) :
    LET b == [type |-> "commands", orders |-> orders]
    IN  \/ inbox' = Append(inbox, b) /\ Running(strategy')
        \/ inbox' = inbox \o <<b, Halt>>

\* loadScript ends in a halt, whatever the script does.
LEMMA LoadStep ==
    ASSUME NEW s \in Strategies, NEW file \in {"script", "other"},
           LoadScript(s, file)
    PROVE  strategy' \in Strategies /\ Halts
<1> DEFINE fresh == [s EXCEPT !.timer = FALSE, !.file = file,
                              !.script = (file = "script"), !.failed = TRUE]
<1>1. fresh \in Strategies /\ [fresh EXCEPT !.pending = TRUE] \in Strategies
  BY DEF Strategies
<1>2. Failed(fresh) \in Strategies /\ Loaded(fresh) \in Strategies
  BY <1>1, FailedFacts, LoadedFacts
<1>3. strategy' \in {Failed(fresh), Loaded(fresh), [fresh EXCEPT !.pending = TRUE]}
  BY DEF LoadScript, Becomes
<1> HIDE DEF fresh
<1> QED BY <1>1, <1>2, <1>3 DEF LoadScript, SendHalt, Halts

\* reload ends in a halt, or has nothing to load and leaves the queue alone.
LEMMA ReloadStep ==
    ASSUME NEW s \in Strategies, Reload(s), Running(strategy) => Running(s)
    PROVE  strategy' \in Strategies /\ (Halts \/ Silent)
<1>1. CASE s.file # "none"
  <2>1. s.file \in {"script", "other"}
    BY <1>1 DEF Strategies
  <2> QED BY <1>1, <2>1, LoadStep DEF Reload
<1>2. CASE s.file = "none"
  BY <1>2 DEF Reload, Nothing, Becomes, Silent
<1> QED BY <1>1, <1>2

\* A command or status keeps the types and at most halts the robots.
LEMMA MailStep ==
    ASSUME TypeOK, HandleMail
    PROVE  /\ strategy' \in Strategies /\ (Halts \/ Silent)
           /\ wanted' \in BOOLEAN /\ mail' \in Seq(Letters)
           /\ UNCHANGED robotVars
<1>0. strategy \in Strategies /\ wanted \in BOOLEAN /\ mail \in Seq(Letters)
  BY DEF TypeOK
<1>1. mail' \in Seq(Letters) /\ UNCHANGED robotVars
  BY <1>0 DEF HandleMail
<1>2. CASE OnLoad
  BY <1>1, <1>2, <1>0, LoadStep DEF OnLoad
<1>3. CASE OnClose
  BY <1>1, <1>3, <1>0, ClosedFacts DEF OnClose, SendHalt, Becomes, Halts
<1>4. CASE OnReload
  <2>1. CASE Reload(strategy)
    BY <1>1, <1>4, <2>1, <1>0, ReloadStep DEF OnReload
  <2>2. CASE Nothing(strategy)
    BY <1>1, <1>4, <2>2, <1>0 DEF OnReload, Nothing, Becomes, Silent
  <2> QED BY <1>4, <2>1, <2>2 DEF OnReload, ReloadScript
<1>5. CASE OnAutoReload
  <2> DEFINE s == [strategy EXCEPT !.autoReload = TRUE]
             t == [strategy EXCEPT !.autoReload = FALSE]
  <2>1. /\ s \in Strategies /\ t \in Strategies
        /\ Running(strategy) <=> Running(s)
        /\ Running(strategy) <=> Running(t)
    BY <1>0 DEF Strategies, Running
  <2>2. Reload(s) \/ Nothing(s) \/ Nothing(t)
    BY <1>5 DEF OnAutoReload, ReloadScript
  <2> HIDE DEF s, t
  <2>3. strategy' \in Strategies /\ (Halts \/ Silent)
    BY <2>1, <2>2, ReloadStep DEF Nothing, Becomes, Silent
  <2> QED BY <1>0, <1>1, <1>5, <2>3 DEF OnAutoReload
<1>6. CASE OnDebug
  BY <1>1, <1>6, <1>0, FailedFacts DEF OnDebug, Nothing, Fail, SendHalt, Becomes,
       Halts, Silent
<1>7. CASE OnReloadAny
  BY <1>1, <1>7, <1>0, ReloadStep DEF OnReloadAny
<1>8. CASE OnStatus
  <2> DEFINE s == [strategy EXCEPT !.idle = TRUE]
  <2>1. s \in Strategies /\ (Running(strategy) <=> Running(s))
    BY <1>0 DEF Strategies, Running
  <2> HIDE DEF s
  <2>2. Nothing(s)
    BY <1>8 DEF OnStatus, s
  <2> QED BY <1>1, <1>8, <1>0, <2>1, <2>2 DEF OnStatus, Nothing, Becomes, Silent
<1> QED BY <1>2, <1>3, <1>4, <1>5, <1>6, <1>7, <1>8 DEF HandleMail

\* The reload timer keeps the types and at most halts the robots.
LEMMA TimeoutStep ==
    ASSUME TypeOK, ReloadTimeout
    PROVE  /\ strategy' \in Strategies /\ (Halts \/ Silent)
           /\ UNCHANGED <<wanted, mail, robotVars>>
<1> DEFINE s == [strategy EXCEPT !.timer = FALSE]
<1>1. s \in Strategies /\ (Running(strategy) <=> Running(s))
  BY DEF TypeOK, Strategies, Running
<1>2. Reload(s)
  BY DEF ReloadTimeout
<1> HIDE DEF s
<1> QED BY <1>1, <1>2, ReloadStep DEF ReloadTimeout

\* A report of the compiler keeps the types and at most halts the robots.
LEMMA ReportStep ==
    ASSUME TypeOK, ScriptReports
    PROVE  /\ strategy' \in Strategies /\ (Halts \/ Silent)
           /\ UNCHANGED <<wanted, mail, robotVars>>
<1>0. strategy \in Strategies
  BY DEF TypeOK
<1> DEFINE s == [strategy EXCEPT !.shown = "COMPILING"]
           t == [strategy EXCEPT !.pending = FALSE]
<1>1. /\ s \in Strategies /\ (Running(strategy) <=> Running(s))
      /\ t \in Strategies /\ (Running(strategy) <=> Running(t))
  BY <1>0 DEF Strategies, Running, Shown
<1>2. Loaded(strategy) \in Strategies /\ (strategy.script => Running(Loaded(strategy)))
  BY <1>0, LoadedFacts DEF Strategies, Loaded, Running
<1>3. UNCHANGED <<wanted, mail, robotVars>> /\ strategy.script
  BY DEF ScriptReports
<1>4. Nothing(s) \/ Nothing(t) \/ Nothing(Loaded(strategy)) \/ Fail(strategy)
  BY DEF ScriptReports
<1> HIDE DEF s, t
<1> QED BY <1>0, <1>1, <1>2, <1>3, <1>4, FailedFacts
        DEF Nothing, Becomes, Fail, SendHalt, Silent, Halts

\* process() may add commands, of a strategy that goes on running or with a halt
\* behind them.
LEMMA ProcessStep ==
    ASSUME TypeOK, Process
    PROVE  /\ strategy' \in Strategies /\ (Halts \/ Silent \/ Commands)
           /\ UNCHANGED <<wanted, mail, robotVars>>
<1> DEFINE s == [strategy EXCEPT !.idle = FALSE]
<1>1. s \in Strategies /\ (Running(strategy) <=> Running(s))
  BY DEF TypeOK, Strategies, Running
<1>2. Failed(s) \in Strategies
  BY <1>1, FailedFacts
<1>3. UNCHANGED <<wanted, mail, robotVars>>
  BY DEF Process
<1>4. \/ Nothing(s)
      \/ Fail(s)
      \/ /\ Running(s)
         /\ \E n \in 1..MaxBatch : \E orders \in BatchesOf(n) :
               LET b == [type |-> "commands", orders |-> orders]
               IN  \/ inbox' = Append(inbox, b) /\ Becomes(s)
                   \/ inbox' = inbox \o <<b, Halt>> /\ Becomes(Failed(s))
  BY DEF Process, Guarded
<1> HIDE DEF s
<1>5. CASE Nothing(s)
  BY <1>1, <1>3, <1>5 DEF Nothing, Becomes, Silent
<1>6. CASE Fail(s)
  BY <1>2, <1>3, <1>6 DEF Fail, Becomes, SendHalt, Halts
<1>7. CASE /\ Running(s)
           /\ \E n \in 1..MaxBatch : \E orders \in BatchesOf(n) :
                 LET b == [type |-> "commands", orders |-> orders]
                 IN  \/ inbox' = Append(inbox, b) /\ Becomes(s)
                     \/ inbox' = inbox \o <<b, Halt>> /\ Becomes(Failed(s))
  <2>1. PICK n \in 1..MaxBatch : \E orders \in BatchesOf(n) :
                 LET b == [type |-> "commands", orders |-> orders]
                 IN  \/ inbox' = Append(inbox, b) /\ Becomes(s)
                     \/ inbox' = inbox \o <<b, Halt>> /\ Becomes(Failed(s))
    BY <1>7
  <2>2. PICK orders \in BatchesOf(n) :
                 LET b == [type |-> "commands", orders |-> orders]
                 IN  \/ inbox' = Append(inbox, b) /\ Becomes(s)
                     \/ inbox' = inbox \o <<b, Halt>> /\ Becomes(Failed(s))
    BY <2>1
  <2> DEFINE b == [type |-> "commands", orders |-> orders]
  <2>3. CASE inbox' = Append(inbox, b) /\ Becomes(s)
    <3>1. Commands
      BY <1>7, <2>1, <2>2, <2>3 DEF Commands, Becomes
    <3> QED BY <1>1, <1>3, <2>3, <3>1 DEF Becomes
  <2>4. CASE inbox' = inbox \o <<b, Halt>> /\ Becomes(Failed(s))
    <3>1. Commands
      BY <2>1, <2>2, <2>4 DEF Commands
    <3> QED BY <1>2, <1>3, <2>4, <3>1 DEF Becomes
  <2> QED BY <2>2, <2>3, <2>4
<1> QED BY <1>4, <1>5, <1>6, <1>7

-----------------------------------------------------------------------------
(* The queue of the processor.                                               *)

\* A batch of commands is a message.
LEMMA BatchType ==
    ASSUME NEW n \in 1..MaxBatch, NEW orders \in BatchesOf(n)
    PROVE  [type |-> "commands", orders |-> orders] \in Messages
<1>1. n \in Nat /\ orders \in [1..n -> Orders]
  BY DEF BatchesOf
<1>2. orders \in Seq(Orders)
  BY <1>1
<1> QED BY <1>2 DEF Messages

\* A halt is a message.
LEMMA HaltType == Halt \in Messages
  BY DEF Messages, Halt

\* Behind its halt the queue is empty.
LEMMA HaltBehind ==
    ASSUME NEW q \in Seq(Messages), NEW driven
    PROVE  HaltedBy(Append(q, Halt), driven)
<1> DEFINE r == Append(q, Halt)
           i == Len(q) + 1
<1>1. i \in 1..Len(r) /\ Len(r) = i /\ r[i] = Halt
  BY HaltType
<1>2. NoCommandAfter(r, i)
  BY <1>1 DEF NoCommandAfter
<1> QED BY <1>1, <1>2 DEF HaltedBy

\* The same when commands of the failing run are in front of the halt.
LEMMA HaltBehindBatch ==
    ASSUME NEW q \in Seq(Messages), NEW b \in Messages, NEW driven
    PROVE  HaltedBy(q \o <<b, Halt>>, driven)
<1>1. q \o <<b, Halt>> = Append(Append(q, b), Halt)
  BY HaltType
<1>2. Append(q, b) \in Seq(Messages)
  OBVIOUS
<1>3. HaltedBy(Append(Append(q, b), Halt), driven)
  BY <1>2, HaltBehind
<1> QED BY <1>1, <1>3

\* A message without commands, behind the others, changes nothing.
LEMMA OtherBehind ==
    ASSUME NEW q \in Seq(Messages), NEW m \in Messages, m.type # "commands",
           NEW driven, HaltedBy(q, driven)
    PROVE  HaltedBy(Append(q, m), driven)
<1> DEFINE r == Append(q, m)
<1>1. /\ Len(r) = Len(q) + 1 /\ r[Len(q) + 1] = m
      /\ \A j \in 1..Len(q) : r[j] = q[j]
  OBVIOUS
<1>2. \A i \in 0..Len(q) : NoCommandAfter(q, i) => NoCommandAfter(r, i)
  BY <1>1 DEF NoCommandAfter
<1> QED BY <1>1, <1>2 DEF HaltedBy

\* The first message is taken: commands have their halt behind them, any other
\* message stops all robots.
LEMMA FirstTaken ==
    ASSUME NEW q \in Seq(Messages), q # <<>>, NEW before, NEW after,
           HaltedBy(q, before), Head(q).type = "commands" \/ after = {}
    PROVE  HaltedBy(Tail(q), after)
<1> DEFINE r == Tail(q)
<1>1. /\ Len(r) = Len(q) - 1 /\ Len(r) \in Nat /\ Head(q) = q[1]
      /\ \A j \in 1..Len(r) : r[j] = q[j + 1]
  OBVIOUS
<1>2. \A i \in 1..Len(q) : NoCommandAfter(q, i) => NoCommandAfter(r, i - 1)
  BY <1>1 DEF NoCommandAfter
<1>3. CASE NoCommandAfter(q, 0)
  <2>1. NoCommandAfter(r, 0) /\ q[1].type # "commands"
    BY <1>1, <1>3 DEF NoCommandAfter
  <2> QED BY <1>1, <2>1 DEF HaltedBy
<1>4. CASE \E i \in 1..Len(q) : q[i] = Halt /\ NoCommandAfter(q, i)
  <2>1. PICK i \in 1..Len(q) : q[i] = Halt /\ NoCommandAfter(q, i)
    BY <1>4
  <2>2. NoCommandAfter(r, i - 1)
    BY <1>2, <2>1
  <2>3. CASE i = 1
    <3>1. Head(q).type # "commands"
      BY <1>1, <2>1, <2>3 DEF Halt
    <3> QED BY <2>2, <2>3, <3>1 DEF HaltedBy
  <2>4. CASE i # 1
    <3>1. i - 1 \in 1..Len(r) /\ r[i - 1] = Halt
      BY <1>1, <2>1, <2>4
    <3> QED BY <2>2, <3>1 DEF HaltedBy
  <2> QED BY <2>3, <2>4
<1> QED BY <1>3, <1>4 DEF HaltedBy

-----------------------------------------------------------------------------
(* The invariant.                                                            *)

\* The inductive invariant: the types and the property itself.
IInv == TypeOK /\ HaltReachesRobots

\* What the strategy posts keeps the promise to the robots.
LEMMA PostStep ==
    ASSUME TypeOK, HaltReachesRobots, Halts \/ Silent \/ Commands,
           UNCHANGED robotVars
    PROVE  inbox' \in Seq(Messages) /\ HaltReachesRobots'
<1>0. inbox \in Seq(Messages) /\ Driven' = Driven
  BY DEF TypeOK, robotVars, Driven
<1>1. CASE Halts
  BY <1>0, <1>1, HaltBehind, HaltType DEF Halts, HaltReachesRobots
<1>2. CASE Silent
  BY <1>0, <1>2 DEF Silent, HaltReachesRobots
<1>3. CASE Commands
  <2>1. PICK n \in 1..MaxBatch : \E orders \in BatchesOf(n) :
          LET b == [type |-> "commands", orders |-> orders]
          IN  \/ inbox' = Append(inbox, b) /\ Running(strategy')
              \/ inbox' = inbox \o <<b, Halt>>
    BY <1>3 DEF Commands
  <2>5. PICK orders \in BatchesOf(n) :
          \/ /\ inbox' = Append(inbox, [type |-> "commands", orders |-> orders])
             /\ Running(strategy')
          \/ inbox' = inbox \o <<[type |-> "commands", orders |-> orders], Halt>>
    BY <2>1
  <2> DEFINE b == [type |-> "commands", orders |-> orders]
  <2>2. b \in Messages
    BY <2>1, <2>5, BatchType
  <2> HIDE DEF b
  <2>3. CASE inbox' = Append(inbox, b) /\ Running(strategy')
    BY <1>0, <2>2, <2>3 DEF HaltReachesRobots
  <2>4. CASE inbox' = inbox \o <<b, Halt>>
    <3>1. inbox' \in Seq(Messages)
      BY <1>0, <2>2, <2>4, HaltType
    <3>2. HaltedBy(inbox', Driven')
      BY <1>0, <2>2, <2>4, HaltBehindBatch
    <3> QED BY <3>1, <3>2 DEF HaltReachesRobots
  <2> QED BY <2>5, <2>3, <2>4 DEF b
<1> QED BY <1>1, <1>2, <1>3

\* Only robots that are named in commands get them.
LEMMA TakenFacts ==
    ASSUME NEW orders \in Seq(Orders), NEW kinds
    PROVE  To(orders, kinds) \subseteq Robots
<1>1. \A i \in DOMAIN orders : orders[i] \in Orders
  OBVIOUS
<1>2. \A i \in DOMAIN orders : orders[i].robot \in Robots
  BY <1>1 DEF Orders
<1>3. Taken(orders) \subseteq DOMAIN orders
  BY DEF Taken
<1> QED BY <1>2, <1>3 DEF To

\* So does the processor when it takes a message.
LEMMA InboxStep ==
    ASSUME TypeOK, HaltReachesRobots, HandleInbox
    PROVE  TypeOK' /\ HaltReachesRobots'
<1>1. /\ inbox \in Seq(Messages) /\ inbox # <<>> /\ Head(inbox) \in Messages
      /\ inbox' = Tail(inbox) /\ inbox' \in Seq(Messages)
      /\ UNCHANGED <<strategy, wanted, mail>>
  BY DEF TypeOK, HandleInbox
<1>2. CASE OnCommands
  <2>1. Head(inbox).type = "commands" /\ Head(inbox).orders \in Seq(Orders)
    BY <1>1, <1>2 DEF OnCommands, Messages, Halt
  <2>2. \A kinds : To(Head(inbox).orders, kinds) \subseteq Robots
    BY <2>1, TakenFacts
  <2>3. command' \subseteq Robots /\ input' \subseteq Robots /\ team' \subseteq Robots
    BY <1>2, <2>2 DEF OnCommands, TypeOK
  <2>4. HaltReachesRobots'
    BY <1>1, <2>1, FirstTaken DEF HaltReachesRobots
  <2> QED BY <1>1, <2>3, <2>4 DEF TypeOK
<1>3. CASE OnHalt \/ OnTeam
  <2>1. command' = {} /\ input' = {} /\ team' \subseteq Robots
    BY <1>1, <1>3 DEF OnHalt, OnTeam, NoInput, TypeOK, Messages, Halt
  <2>2. Driven' = {}
    BY <2>1 DEF Driven
  <2>3. HaltReachesRobots'
    BY <1>1, <2>2, FirstTaken DEF HaltReachesRobots
  <2> QED BY <1>1, <2>1, <2>3 DEF TypeOK
<1> QED BY <1>2, <1>3 DEF HandleInbox

\* Letters to the strategy's thread keep the type of its mail.
LEMMA DeliverType ==
    ASSUME mail \in Seq(Letters), NEW e \in Letters, Deliver(e)
    PROVE  mail' \in Seq(Letters)
  BY DEF Deliver

\* Senders of letters leave the robots and their queue alone.
LEMMA SenderStep ==
    ASSUME TypeOK, HaltReachesRobots, User \/ UserDebug \/ System \/ RequestReload
    PROVE  TypeOK' /\ HaltReachesRobots'
<1>1. mail' \in Seq(Letters)
  BY DeliverType DEF TypeOK, User, UserDebug, System, RequestReload, Letters
<1>2. UNCHANGED <<strategy, wanted, inbox, robotVars>>
  BY DEF User, UserDebug, System, RequestReload
<1> QED BY <1>1, <1>2 DEF TypeOK, HaltReachesRobots, robotVars, Driven

\* A new team adds a message without commands and keeps the promise.
LEMMA TeamStep ==
    ASSUME TypeOK, HaltReachesRobots, SetTeam
    PROVE  TypeOK' /\ HaltReachesRobots'
<1>1. mail' \in Seq(Letters)
  BY DeliverType DEF TypeOK, SetTeam, Letters
<1>2. PICK t \in SUBSET Robots : inbox' = Append(inbox, [type |-> "team", robots |-> t])
  BY DEF SetTeam
<1> DEFINE m == [type |-> "team", robots |-> t]
<1>3. m \in Messages /\ m.type # "commands"
  BY DEF Messages
<1> HIDE DEF m
<1>4. inbox \in Seq(Messages) /\ inbox' = Append(inbox, m) /\ inbox' \in Seq(Messages)
  BY <1>2, <1>3 DEF TypeOK, m
<1>5. UNCHANGED <<strategy, wanted, robotVars>> /\ Driven' = Driven
  BY DEF SetTeam, robotVars, Driven
<1>6. HaltReachesRobots'
  BY <1>3, <1>4, <1>5, OtherBehind DEF HaltReachesRobots
<1> QED BY <1>1, <1>4, <1>5, <1>6 DEF TypeOK, robotVars

\* The inductive invariant holds initially ...
LEMMA InitIInv == Init => IInv
<1> SUFFICES ASSUME Init PROVE IInv
  OBVIOUS
<1>1. TypeOK
  <2>1. strategy \in Strategies
    BY DEF Init, Strategies, Shown
  <2>2. mail \in Seq(Letters) /\ inbox \in Seq(Messages)
    BY DEF Init
  <2> QED BY <2>1, <2>2 DEF Init, TypeOK
<1>2. Driven = {} /\ inbox = <<>>
  BY DEF Init, Driven
<1>3. NoCommandAfter(inbox, 0)
  BY <1>2 DEF NoCommandAfter
<1> QED BY <1>1, <1>2, <1>3 DEF IInv, HaltReachesRobots, HaltedBy

\* ... and every step keeps it.
LEMMA NextIInv == IInv /\ [Next]_vars => IInv'
<1> SUFFICES ASSUME IInv, [Next]_vars PROVE IInv'
  OBVIOUS
<1>0. TypeOK /\ HaltReachesRobots
  BY DEF IInv
<1>1. CASE HandleMail \/ ReloadTimeout \/ Process \/ ScriptReports
  <2>1. /\ strategy' \in Strategies /\ (Halts \/ Silent \/ Commands)
        /\ wanted' \in BOOLEAN /\ mail' \in Seq(Letters)
        /\ UNCHANGED robotVars
    BY <1>0, <1>1, MailStep, TimeoutStep, ProcessStep, ReportStep DEF TypeOK
  <2>2. inbox' \in Seq(Messages) /\ HaltReachesRobots'
    BY <1>0, <2>1, PostStep
  <2> QED BY <1>0, <2>1, <2>2 DEF IInv, TypeOK, robotVars
<1>2. CASE User \/ UserDebug \/ System \/ RequestReload
  BY <1>0, <1>2, SenderStep DEF IInv
<1>3. CASE SetTeam
  BY <1>0, <1>3, TeamStep DEF IInv
<1>4. CASE HandleInbox
  BY <1>0, <1>4, InboxStep DEF IInv
<1>5. CASE UNCHANGED vars
  BY <1>0, <1>5 DEF IInv, TypeOK, HaltReachesRobots, Driven, vars
<1> QED BY <1>1, <1>2, <1>3, <1>4, <1>5 DEF Next

\* Every reachable state is well typed, for any number of robots and any bounds
\* of the queues.
THEOREM StrategyTyped == Spec => []TypeOK
<1>1. IInv => TypeOK
  BY DEF IInv
<1> QED BY <1>1, InitIInv, NextIInv, PTL DEF Spec

\* A strategy that is closed, failed or loading no longer drives a robot, or its
\* halt is in the processor's queue behind all its commands (Strategy::sendHalt,
\* Processor::handleStrategyHalt).
THEOREM HaltBehindCommands == Spec => []HaltReachesRobots
<1>1. IInv => HaltReachesRobots
  BY DEF IInv
<1> QED BY <1>1, InitIInv, NextIInv, PTL DEF Spec

-----------------------------------------------------------------------------
(* What the user is shown, and the retries.                                  *)

\* A script comes from a file that can be loaded again; a running strategy is
\* shown as one; without a pending load what is shown is so; and a failed script
\* has its timer, or an answer still to come.
Sound(s) ==
    /\ s.script => s.file = "script"
    /\ Running(s) => s.shown \in {"RUNNING", "COMPILING"}
    /\ ~s.pending => /\ s.shown = "RUNNING" => Running(s)
                     /\ s.script => s.shown # "CLOSED"
    /\ s.shown = "FAILED" /\ s.autoReload /\ s.script => s.timer \/ s.pending

\* A failure arms the timer and shows itself.
LEMMA FailedSound ==
    ASSUME NEW s \in Strategies, s.script => s.file = "script"
    PROVE  Sound(Failed(s))
  BY DEF Strategies, Failed, Armed, Running, Sound

\* A script that was loaded runs and is shown to.
LEMMA LoadedSound ==
    ASSUME NEW s \in Strategies, s.script, s.file = "script"
    PROVE  Sound(Loaded(s))
  BY DEF Strategies, Loaded, Running, Sound

\* loadScript ends in one of these, or waits for its answer.
LEMMA LoadSound ==
    ASSUME NEW s \in Strategies, NEW file \in {"script", "other"},
           LoadScript(s, file)
    PROVE  Sound(strategy')
<1> DEFINE fresh == [s EXCEPT !.timer = FALSE, !.file = file,
                              !.script = (file = "script"), !.failed = TRUE]
<1>1. /\ fresh \in Strategies
      /\ fresh.script <=> file = "script"
      /\ fresh.file = file /\ fresh.failed
  BY DEF Strategies
<1>2. [fresh EXCEPT !.pending = TRUE] \in Strategies
      /\ Sound([fresh EXCEPT !.pending = TRUE])
  <2> HIDE DEF fresh
  <2> QED BY <1>1 DEF Strategies, Sound, Running
<1>3. \/ strategy' = Failed(fresh)
      \/ file = "script" /\ strategy' = Loaded(fresh)
      \/ strategy' = [fresh EXCEPT !.pending = TRUE]
  BY DEF LoadScript, Becomes
<1> HIDE DEF fresh
<1> QED BY <1>1, <1>2, <1>3, FailedSound, LoadedSound

\* reload loads the file there is, or leaves the strategy as it is.
LEMMA ReloadSound ==
    ASSUME NEW s \in Strategies, Reload(s), s.file = "none" => Sound(s)
    PROVE  Sound(strategy')
<1>1. CASE s.file # "none"
  <2>1. s.file \in {"script", "other"}
    BY <1>1 DEF Strategies
  <2> QED BY <1>1, <2>1, LoadSound DEF Reload
<1>2. CASE s.file = "none"
  BY <1>2 DEF Reload, Nothing, Becomes
<1> QED BY <1>1, <1>2

\* A command or status.  Automatic reloads that are switched on for a script that
\* has failed reload it at once; a script that has not is not shown as failed.
LEMMA MailSound == ASSUME TypeOK, Sound(strategy), HandleMail PROVE Sound(strategy')
<1>0. strategy \in Strategies /\ (strategy.script => strategy.file = "script")
  BY DEF TypeOK, Sound
<1>1. CASE OnLoad
  BY <1>0, <1>1, LoadSound DEF OnLoad
<1>2. CASE OnClose
  BY <1>0, <1>2 DEF OnClose, Becomes, Closed, Strategies, Sound, Running
<1>3. CASE OnReload
  BY <1>0, <1>3, ReloadSound DEF OnReload, ReloadScript, Nothing, Becomes
<1>4. CASE OnAutoReload
  <2> DEFINE s == [strategy EXCEPT !.autoReload = TRUE]
             t == [strategy EXCEPT !.autoReload = FALSE]
  <2>1. /\ s \in Strategies /\ s.script = strategy.script /\ s.file = strategy.file
        /\ s.failed = strategy.failed
    BY <1>0 DEF Strategies
  <2>2. Sound(t)
    BY <1>0 DEF Strategies, Sound, Running
  <2>3. ~s.failed \/ ~s.script => Sound(s)
    BY <1>0 DEF Strategies, Sound, Running
  <2>4. \/ s.failed /\ ReloadScript(s)
        \/ ~s.failed /\ Nothing(s)
        \/ Nothing(t)
    BY <1>4 DEF OnAutoReload
  <2> HIDE DEF s, t
  <2>5. CASE s.failed /\ ReloadScript(s)
    <3>1. CASE s.script
      BY <1>0, <2>1, <2>5, <3>1, ReloadSound DEF ReloadScript
    <3>2. CASE ~s.script
      BY <2>3, <2>5, <3>2 DEF ReloadScript, Nothing, Becomes
    <3> QED BY <3>1, <3>2
  <2> QED BY <2>2, <2>3, <2>4, <2>5 DEF Nothing, Becomes
<1>5. CASE OnDebug
  BY <1>0, <1>5, FailedSound DEF OnDebug, Nothing, Fail, Becomes
<1>6. CASE OnReloadAny
  BY <1>0, <1>6, ReloadSound DEF OnReloadAny
<1>7. CASE OnStatus
  <2>1. Sound([strategy EXCEPT !.idle = TRUE])
    BY <1>0 DEF Strategies, Sound, Running
  <2> QED BY <1>7, <2>1 DEF OnStatus, Nothing, Becomes
<1> QED BY <1>1, <1>2, <1>3, <1>4, <1>5, <1>6, <1>7 DEF HandleMail

\* The reload timer stops for a load, or for a strategy that has nothing to load.
LEMMA TimeoutSound ==
    ASSUME TypeOK, Sound(strategy), ReloadTimeout PROVE Sound(strategy')
<1> DEFINE s == [strategy EXCEPT !.timer = FALSE]
<1>1. strategy \in Strategies /\ s \in Strategies
  BY DEF TypeOK, Strategies
<1>2. s.file = "none" => Sound(s)
  BY <1>1 DEF Strategies, Sound, Running
<1>3. Reload(s)
  BY DEF ReloadTimeout
<1> HIDE DEF s
<1> QED BY <1>1, <1>2, <1>3, ReloadSound

\* A frame ends with the strategy as it was, or with a failure.
LEMMA ProcessSound ==
    ASSUME TypeOK, Sound(strategy), Process PROVE Sound(strategy')
<1> DEFINE s == [strategy EXCEPT !.idle = FALSE]
<1>1. strategy \in Strategies /\ s \in Strategies
      /\ (s.script => s.file = "script")
  BY DEF TypeOK, Strategies, Sound
<1>2. Sound(s)
  BY <1>1 DEF Strategies, Sound, Running
<1>3. strategy' \in {s, Failed(s)}
  BY DEF Process, Nothing, Fail, Becomes
<1> HIDE DEF s
<1> QED BY <1>1, <1>2, <1>3, FailedSound

\* What the compiler reports is what is shown.
LEMMA ReportSound ==
    ASSUME TypeOK, Sound(strategy), ScriptReports PROVE Sound(strategy')
<1>1. strategy \in Strategies /\ strategy.script /\ strategy.file = "script"
  BY DEF TypeOK, ScriptReports, Sound
<1>2. Sound([strategy EXCEPT !.shown = "COMPILING"])
  BY <1>1 DEF Strategies, Sound, Running
<1>3. strategy.shown = "COMPILING" => Sound([strategy EXCEPT !.pending = FALSE])
  BY <1>1 DEF Strategies, Sound, Running
<1>4. \/ strategy' = [strategy EXCEPT !.shown = "COMPILING"]
      \/ strategy' = Loaded(strategy)
      \/ strategy' = Failed(strategy)
      \/ strategy.shown = "COMPILING" /\ strategy' = [strategy EXCEPT !.pending = FALSE]
  BY DEF ScriptReports, Nothing, Fail, Becomes
<1> QED BY <1>1, <1>2, <1>3, <1>4, FailedSound, LoadedSound

LEMMA AlwaysSound == Spec => []Sound(strategy)
<1>1. Init => Sound(strategy)
  BY DEF Init, Sound, Running
<1>2. TypeOK /\ Sound(strategy) /\ [Next]_vars => Sound(strategy)'
  <2> SUFFICES ASSUME TypeOK, Sound(strategy), [Next]_vars PROVE Sound(strategy')
    OBVIOUS
  <2>1. CASE UNCHANGED strategy
    BY <2>1
  <2> QED BY <2>1, MailSound, TimeoutSound, ProcessSound, ReportSound
          DEF Next, User, UserDebug, System, RequestReload, SetTeam, HandleInbox, vars
<1> QED BY <1>1, <1>2, StrategyTyped, PTL DEF Spec

\* A script that failed is tried again when reloads are automatic, whichever
\* handler it failed in and whenever they were switched on (Strategy::fail,
\* handleCommand): its timer runs or a load has still to be answered.
THEOREM RetriesAreArmed == Spec => []RetryArmed
<1>1. Sound(strategy) => RetryArmed
  BY DEF Sound, RetryArmed
<1> QED BY <1>1, AlwaysSound, PTL

\* The user sees what the strategy does, unless a load is pending, through
\* failures, reloads and closes in any order (Strategy::setStrategyStatus).
THEOREM ShownIsSo == Spec => []ShownMatches
<1>1. Sound(strategy) => ShownMatches
  BY DEF Sound, ShownMatches
<1> QED BY <1>1, AlwaysSound, PTL
=============================================================================
