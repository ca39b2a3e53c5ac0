---------------------- MODULE TypescriptCompiler_proofs ----------------------
(***************************************************************************)
(* Proofs about TypescriptCompiler, for any set of strategies and without  *)
(* the bounds of the model checking runs.                                  *)
(*                                                                         *)
(* The inductive invariant adds to the properties the phases of the        *)
(* compiler thread in which it owns the result directory.                  *)
(***************************************************************************)
EXTENDS TypescriptCompiler, TLAPS

\* The compiler is RENAMING exactly while it is in the section that replaces
\* built/built.
RenamingPhase ==
    m_state = "RENAMING" <=>
        cpc \in {"removing", "copying", "restoring", "restoringFailed"}

IInv ==
    /\ RenamingPhase
    /\ NoLostWakeup
    /\ PauseProtectsReader
    /\ NoTornLoad

USE CompilerAssumption
USE DEF MayRename, Pausable, WakeAll, Standby, NextPhase, SourcesChanged

-----------------------------------------------------------------------------
\* emit queues one of the signals at every connected strategy.
LEMMA EmitType ==
    ASSUME inbox \in [Strategies -> Seq(Signals)],
           connected \in [Strategies -> BOOLEAN],
           NEW signal \in Signals, Emit(signal)
    PROVE  inbox' \in [Strategies -> Seq(Signals)]
  BY DEF Emit

\* Releasing a blocked caller leaves the strategies' program counters typed,
\* and changes only the one of a strategy that reads nothing.
LEMMA ReleaseFacts ==
    ASSUME TypeOK, NEW r, Release(r)
    PROVE  /\ spc' \in [Strategies -> {"closed", "idle", "connecting",
                  "connectingBlocking", "pausing", "checking", "opening",
                  "reading", "resuming", "blocked"}]
           /\ \A s \in Strategies :
                 spc'[s] = spc[s] \/ (spc[s] = "blocked" /\ spc'[s] = "idle")
  BY DEF Release, TypeOK

\* An answer to a load keeps the types of what it changes.
LEMMA AnswerType ==
    ASSUME TypeOK, NEW s \in Strategies,
           NEW state \in {"FAILED", "RUNNING"}, NEW versions \in SUBSET Content,
           Answer(s, state, versions)
    PROVE  /\ load' \in [Strategies -> {"CLOSED", "COMPILING", "RUNNING", "FAILED"}]
           /\ loaded' \in [Strategies -> SUBSET Content]
           /\ awaiting' \in [Strategies -> BOOLEAN]
  BY DEF Answer, TypeOK

\* The variables have their types in every reachable state: the state machine
\* of the compiler and of every strategy stays among the states listed.
THEOREM Typing == Spec => []TypeOK
<1>1. Init => TypeOK
  BY DEF Init, TypeOK, Missing, Content, Requesters, Outcomes
<1>2. TypeOK /\ [Next]_vars => TypeOK'
  <2> SUFFICES ASSUME TypeOK, [Next]_vars PROVE TypeOK'
    OBVIOUS
  <2>1. CASE Compile
    <3> PICK r \in requests : Compile!2!(r)
      BY <2>1 DEF Compile
    <3>1. CASE CompilationNeeded
      BY <2>1, <3>1, EmitType
         DEF Compile, BeginCompile, TypeOK, Signals, Outcomes
    <3>2. CASE ~CompilationNeeded
      BY <2>1, <3>2, ReleaseFacts DEF Compile, TypeOK
    <3> QED BY <3>1, <3>2
  <2>2. CASE PerformCompilation
    BY <2>2 DEF PerformCompilation, TypeOK, strategyVars, Content, Broken,
                Outcomes
  <2>3. CASE EnterRenaming
    BY <2>3 DEF EnterRenaming, TypeOK, strategyVars
  <2>4. CASE RemoveOldResult
    BY <2>4, EmitType DEF RemoveOldResult, TypeOK, strategyVars, Content,
                Missing, Broken, Signals, Outcomes
  <2>5. CASE PublishResult
    BY <2>5, EmitType DEF PublishResult, TypeOK, strategyVars, Signals, Outcomes
  <2>6. CASE LeaveRenaming
    BY <2>6, ReleaseFacts DEF LeaveRenaming, TypeOK
  <2>7. CASE EmitOutcome
    BY <2>7, EmitType DEF EmitOutcome, TypeOK, strategyVars, Signals
  <2>8. CASE RecheckSources
    <3>1. CASE src > begun /\ BeginCompile /\ UNCHANGED spc
      BY <2>8, <3>1, EmitType
         DEF RecheckSources, BeginCompile, TypeOK, Signals, Outcomes
    <3>2. CASE cpc' = "idle" /\ Release(caller) /\ UNCHANGED <<begun, inbox>>
      BY <2>8, <3>2, ReleaseFacts DEF RecheckSources, TypeOK
    <3> QED BY <2>8, <3>1, <3>2 DEF RecheckSources
  <2>9. ASSUME NEW s \in Strategies, StrategyThread(s)
        PROVE  TypeOK'
    <3>1. CASE SetupCompiler(s)
      BY <3>1 DEF SetupCompiler, TypeOK, compilerVars, Requesters
    <3>2. CASE RequestPause(s)
      BY <3>2 DEF RequestPause, TypeOK
    <3>3. CASE CheckResult(s)
      BY <3>3 DEF CheckResult, TypeOK, compilerVars
    <3>4. CASE OpenScript(s)
      <4>1. loaded[s] \in SUBSET Content /\ built \in Content
        BY DEF TypeOK
      <4>2. CASE Answer(s, "FAILED", loaded[s]) /\ UNCHANGED seen
                 /\ spc' = [spc EXCEPT ![s] = "resuming"]
        BY <3>4, <4>1, <4>2, AnswerType DEF OpenScript, TypeOK, compilerVars
      <4>3. CASE UNCHANGED <<load, loaded, awaiting>>
                 /\ spc' = [spc EXCEPT ![s] = "reading"]
                 /\ seen' = [seen EXCEPT ![s] = built]
        BY <3>4, <4>1, <4>3 DEF OpenScript, TypeOK, compilerVars
      <4> QED BY <3>4, <4>2, <4>3 DEF OpenScript
    <3>5. CASE RunScript(s)
      <4> DEFINE versions == {seen[s], built}
      <4>1. versions \in SUBSET Content /\ {} \in SUBSET Content
            /\ Missing \in Content
        BY DEF TypeOK, Missing, Content
      <4>2. \/ Answer(s, "FAILED", {})
            \/ Answer(s, "RUNNING", versions)
        BY <3>5 DEF RunScript
      <4>3. /\ load' \in [Strategies -> {"CLOSED", "COMPILING", "RUNNING", "FAILED"}]
            /\ loaded' \in [Strategies -> SUBSET Content]
            /\ awaiting' \in [Strategies -> BOOLEAN]
        <5> HIDE DEF versions
        <5> QED BY <4>1, <4>2, AnswerType
      <4> QED BY <3>5, <4>1, <4>3 DEF RunScript, TypeOK, compilerVars
    <3>6. CASE Resume(s)
      BY <3>6 DEF Resume, TypeOK, Holding
    <3>7. CASE HandleEvent(s)
      <4>0. /\ loaded[s] \in SUBSET Content
            /\ inbox[s] \in Seq(Signals) /\ inbox[s] # <<>>
            /\ Tail(inbox[s]) \in Seq(Signals)
            /\ Append(Tail(inbox[s]), "reload") \in Seq(Signals)
        BY <3>7 DEF HandleEvent, TypeOK, Signals
      <4>1. CASE OnCompileStarted(s)
        BY <3>7, <4>0, <4>1 DEF HandleEvent, OnCompileStarted, TypeOK, compilerVars
      <4>2. CASE OnCompileSuccess(s)
        BY <3>7, <4>0, <4>2 DEF HandleEvent, OnCompileSuccess, TypeOK, compilerVars
      <4>3. CASE OnCompileWarning(s)
        BY <3>7, <4>0, <4>3 DEF HandleEvent, OnCompileWarning, TypeOK, compilerVars
      <4>4. CASE OnCompileError(s)
        <5>1. /\ load' \in [Strategies -> {"CLOSED", "COMPILING", "RUNNING", "FAILED"}]
              /\ loaded' \in [Strategies -> SUBSET Content]
              /\ awaiting' \in [Strategies -> BOOLEAN]
          <6>1. CASE UNCHANGED <<load, loaded, awaiting>>
            BY <6>1 DEF TypeOK
          <6>2. CASE Answer(s, "FAILED", loaded[s])
            BY <6>2, <4>0, AnswerType
          <6> QED BY <4>4, <6>1, <6>2 DEF OnCompileError
        <5> QED BY <3>7, <4>0, <4>4, <5>1
                DEF HandleEvent, OnCompileError, TypeOK, compilerVars
      <4>5. CASE OnReload(s)
        BY <3>7, <4>0, <4>5 DEF HandleEvent, OnReload, TypeOK, compilerVars
      <4> QED BY <3>7, <4>1, <4>2, <4>3, <4>4, <4>5 DEF HandleEvent
    <3> QED BY <2>9, <3>1, <3>2, <3>3, <3>4, <3>5, <3>6, <3>7
            DEF StrategyThread
  <2>10. ASSUME NEW s \in Strategies, LoadScript(s) \/ CompileIfNecessary(s)
         PROVE  TypeOK'
    <3>1. CASE LoadScript(s)
      BY <3>1 DEF LoadScript, TypeOK, compilerVars
    <3>2. CASE CompileIfNecessary(s)
      BY <3>2 DEF CompileIfNecessary, TypeOK, compilerVars
    <3> QED BY <2>10, <3>1, <3>2
  <2>11. CASE Edit
    BY <2>11 DEF Edit, TypeOK, compilerVars, strategyVars, Requesters
  <2>12. CASE UNCHANGED vars
    BY <2>12 DEF vars, TypeOK, compilerVars, strategyVars
  <2> QED BY <2>1, <2>2, <2>3, <2>4, <2>5, <2>6, <2>7, <2>8, <2>9, <2>10,
             <2>11, <2>12 DEF Next, CompilerThread
<1> QED BY <1>1, <1>2, PTL DEF Spec

-----------------------------------------------------------------------------
\* Steps of the compiler thread preserve the inductive invariant: it enters its
\* critical section only when nobody paused it, and sleeps only when someone
\* did.  Only in that section, where m_state is RENAMING, built/built changes.
LEMMA CompilerSteps ==
    ASSUME TypeOK, IInv, CompilerThread
    PROVE  IInv'
<1>1. UNCHANGED foreign /\ UNCHANGED seen
  BY DEF CompilerThread, Compile, PerformCompilation, EnterRenaming,
         RemoveOldResult, PublishResult, LeaveRenaming, EmitOutcome,
         RecheckSources, strategyVars
<1>2. \A s \in Strategies : /\ Holding(s)' <=> Holding(s)
                            /\ spc'[s] = "reading" <=> spc[s] = "reading"
  <2>1. CASE UNCHANGED spc
    BY <2>1 DEF Holding
  <2>2. CASE \E r : Release(r)
    BY <2>2, ReleaseFacts DEF Holding
  <2> QED BY <2>1, <2>2
          DEF CompilerThread, Compile, PerformCompilation, EnterRenaming,
              RemoveOldResult, PublishResult, LeaveRenaming, EmitOutcome,
              RecheckSources, strategyVars
<1>3. CASE Compile
  BY <1>1, <1>2, <1>3 DEF Compile, BeginCompile, IInv, RenamingPhase,
     NoLostWakeup, PauseProtectsReader, NoTornLoad
<1>4. CASE PerformCompilation
  BY <1>1, <1>2, <1>4 DEF PerformCompilation, IInv, RenamingPhase,
     NoLostWakeup, PauseProtectsReader, NoTornLoad
<1>5. CASE EnterRenaming
  <2>1. \A s \in Strategies : m_state # "PAUSED" /\ Holding(s) => foreign[s]
    BY DEF IInv, PauseProtectsReader, TypeOK
  <2> QED BY <1>1, <1>2, <1>5, <2>1 DEF EnterRenaming, IInv, RenamingPhase,
             NoLostWakeup, PauseProtectsReader, NoTornLoad
<1>6. CASE RemoveOldResult \/ PublishResult
  <2>1. m_state = "RENAMING"
    BY <1>6 DEF RemoveOldResult, PublishResult, IInv, RenamingPhase
  <2>2. \A s \in Strategies : spc[s] = "reading" => foreign[s]
    BY <2>1 DEF IInv, PauseProtectsReader, Holding, TypeOK
  <2> QED BY <1>1, <1>2, <1>6, <2>1, <2>2
          DEF RemoveOldResult, PublishResult, IInv, RenamingPhase,
              NoLostWakeup, PauseProtectsReader, NoTornLoad
<1>7. CASE LeaveRenaming
  BY <1>1, <1>2, <1>7 DEF LeaveRenaming, IInv, RenamingPhase,
     NoLostWakeup, PauseProtectsReader, NoTornLoad
<1>8. CASE EmitOutcome
  BY <1>1, <1>2, <1>8 DEF EmitOutcome, IInv, RenamingPhase,
     NoLostWakeup, PauseProtectsReader, NoTornLoad
<1>9. CASE RecheckSources
  BY <1>1, <1>2, <1>9 DEF RecheckSources, BeginCompile, IInv, RenamingPhase,
     NoLostWakeup, PauseProtectsReader, NoTornLoad
<1> QED BY <1>3, <1>4, <1>5, <1>6, <1>7, <1>8, <1>9 DEF CompilerThread

\* A step that leaves m_state, the compiler, the result and the history alone,
\* and moves no strategy into or within its reading section, except from
\* "checking" on, preserves the inductive invariant.
LEMMA QuietSteps ==
    ASSUME TypeOK, IInv, UNCHANGED <<m_state, cpc, built, foreign>>,
           \A s \in Strategies : Holding(s)' <=> Holding(s),
           \A s \in Strategies : spc'[s] = "reading" =>
               \/ spc[s] = "reading" /\ seen'[s] = seen[s]
               \/ seen'[s] = built
    PROVE  IInv'
  BY DEF IInv, RenamingPhase, NoLostWakeup, PauseProtectsReader, NoTornLoad

\* Steps of a strategy's thread preserve the inductive invariant.
LEMMA StrategySteps ==
    ASSUME TypeOK, IInv, NEW s \in Strategies,
           StrategyThread(s) \/ LoadScript(s) \/ CompileIfNecessary(s)
    PROVE  IInv'
<1> USE DEF Holding
<1>1. CASE CompileIfNecessary(s)
  BY <1>1, QuietSteps DEF CompileIfNecessary, compilerVars, TypeOK
<1>2. CASE SetupCompiler(s)
  BY <1>2, QuietSteps DEF SetupCompiler, compilerVars, TypeOK
<1>3. CASE RequestPause(s)
  <2>1. CASE m_state = "RENAMING"
    BY <1>3, <2>1, QuietSteps DEF RequestPause, TypeOK
  <2>2. CASE m_state # "RENAMING"
    <3>1. /\ m_state' = "PAUSED" /\ UNCHANGED <<cpc, built, seen>>
          /\ spc' = [spc EXCEPT ![s] = "checking"]
          /\ foreign' = [foreign EXCEPT ![s] = FALSE]
      BY <1>3, <2>2 DEF RequestPause
    <3> QED BY <2>2, <3>1 DEF IInv, RenamingPhase, NoLostWakeup,
               PauseProtectsReader, NoTornLoad, TypeOK
  <2> QED BY <2>1, <2>2
<1>4. CASE CheckResult(s)
  BY <1>4, QuietSteps DEF CheckResult, compilerVars, TypeOK
<1>5. CASE OpenScript(s)
  BY <1>5, QuietSteps DEF OpenScript, compilerVars, TypeOK
<1>6. CASE RunScript(s)
  BY <1>6, QuietSteps DEF RunScript, compilerVars, TypeOK
<1>7. CASE Resume(s)
  <2>1. spc' = [spc EXCEPT ![s] = "idle"] /\ UNCHANGED <<built, seen>>
    BY <1>7 DEF Resume
  <2>2. CASE m_state = "PAUSED"
    <3>1. /\ m_state' = "STANDBY"
          /\ cpc' = IF cpc = "waiting" THEN "locking" ELSE cpc
          /\ foreign' = [t \in Strategies |-> t # s /\ Holding(t)]
      BY <1>7, <2>2 DEF Resume
    <3> QED BY <2>1, <2>2, <3>1 DEF IInv, RenamingPhase, NoLostWakeup,
               PauseProtectsReader, NoTornLoad, TypeOK
  <2>3. CASE m_state # "PAUSED"
    <3>1. /\ UNCHANGED <<m_state, cpc>>
          /\ foreign' = [foreign EXCEPT ![s] = FALSE]
      BY <1>7, <2>3 DEF Resume
    <3> QED BY <2>1, <2>3, <3>1 DEF IInv, RenamingPhase, NoLostWakeup,
               PauseProtectsReader, NoTornLoad, TypeOK
  <2> QED BY <2>2, <2>3
<1>8. CASE HandleEvent(s)
  <2>1. /\ UNCHANGED <<m_state, cpc, built, foreign, seen>>
        /\ \A t \in Strategies : t # s => spc'[t] = spc[t]
        /\ spc[s] = "idle" /\ spc'[s] \in {"idle", "pausing", "connecting"}
    BY <1>8 DEF HandleEvent, OnCompileStarted, OnCompileSuccess,
         OnCompileWarning, OnCompileError, OnReload, compilerVars, TypeOK
  <2> QED BY <2>1, QuietSteps
<1>9. CASE LoadScript(s)
  BY <1>9, QuietSteps DEF LoadScript, compilerVars, TypeOK
<1> QED BY <1>1, <1>2, <1>3, <1>4, <1>5, <1>6, <1>7, <1>8, <1>9
        DEF StrategyThread

\* The inductive invariant holds in every reachable state.
LEMMA Protocol == Spec => []IInv
<1>1. Init => IInv
  BY DEF Init, IInv, RenamingPhase, NoLostWakeup, PauseProtectsReader,
         NoTornLoad, Holding
<1>2. TypeOK /\ IInv /\ [Next]_vars => IInv'
  <2> SUFFICES ASSUME TypeOK, IInv, [Next]_vars PROVE IInv'
    OBVIOUS
  <2>1. CASE Edit \/ UNCHANGED vars
    BY <2>1, QuietSteps DEF Edit, vars, compilerVars, strategyVars, Holding
  <2>2. CASE CompilerThread
    BY <2>2, CompilerSteps
  <2>3. CASE \E s \in Strategies :
                StrategyThread(s) \/ LoadScript(s) \/ CompileIfNecessary(s)
    BY <2>3, StrategySteps
  <2> QED BY <2>1, <2>2, <2>3 DEF Next
<1> QED BY <1>1, <1>2, Typing, PTL DEF Spec

\* With any number of strategies the pause protocol loses no wakeup, and keeps
\* the compiler out of the files a strategy reads as long as no other strategy
\* resumes meanwhile.
THEOREM PauseProtocol ==
    Spec => [](NoLostWakeup /\ PauseProtectsReader /\ NoTornLoad)
<1>1. IInv => NoLostWakeup /\ PauseProtectsReader /\ NoTornLoad
  BY DEF IInv
<1> QED BY <1>1, Protocol, PTL

\* With one strategy nobody else can end its pause, so the compiler never
\* replaces the files under its reader.
THEOREM SingleReader ==
    ASSUME \A s, t \in Strategies : s = t
    PROVE  Spec => []NoRenameWhileReading
<1> DEFINE NoForeign == foreign = [s \in Strategies |-> FALSE]
<1>1. Init => NoForeign
  BY DEF Init
<1>2. TypeOK /\ NoForeign /\ [Next]_vars => NoForeign'
  <2> SUFFICES ASSUME TypeOK, NoForeign, [Next]_vars PROVE NoForeign'
    OBVIOUS
  <2>1. CASE \E s \in Strategies : RequestPause(s) \/ Resume(s)
    <3> PICK s \in Strategies : RequestPause(s) \/ Resume(s)
      BY <2>1
    <3>1. CASE RequestPause(s)
      BY <3>1 DEF RequestPause
    <3>2. CASE Resume(s)
      <4>1. foreign' \in {[t \in Strategies |-> t # s /\ Holding(t)],
                         [foreign EXCEPT ![s] = FALSE]}
        BY <3>2 DEF Resume
      <4>2. \A t \in Strategies : t = s
        OBVIOUS
      <4>3. [t \in Strategies |-> t # s /\ Holding(t)]
              = [t \in Strategies |-> FALSE]
        BY <4>2, Zenon
      <4> QED BY <4>1, <4>3
    <3> QED BY <3>1, <3>2
  <2>2. CASE UNCHANGED foreign
    BY <2>2
  <2> QED
    BY <2>1, <2>2 DEF Next, vars, strategyVars, CompilerThread, Compile,
       PerformCompilation, EnterRenaming, RemoveOldResult, PublishResult,
       LeaveRenaming, EmitOutcome, RecheckSources, StrategyThread,
       SetupCompiler, CheckResult, OpenScript, RunScript, HandleEvent,
       LoadScript, CompileIfNecessary, Edit
<1>3. PauseProtectsReader /\ NoForeign => NoRenameWhileReading
  BY DEF PauseProtectsReader, NoRenameWhileReading
<1> HIDE DEF NoForeign
<1> QED BY <1>1, <1>2, <1>3, Typing, PauseProtocol, PTL DEF Spec

\* No wakeup is lost: part of the protocol, for any number of strategies.
THEOREM WakeupsArrive == Spec => []NoLostWakeup
  BY PauseProtocol, PTL

-----------------------------------------------------------------------------
(* Answers.                                                                  *)

\* A compilation is on whose outcome will still be reported.
Busy == cpc \notin {"idle", "restoringFailed", "rechecking"}

\* What the compiler has made of the directories, phase by phase.
PhaseInv ==
    /\ begun >= 1 /\ src >= 1
    /\ cpc \in {"locking", "waiting", "removing", "copying"} => tmp # Missing
    /\ cpc = "copying" => built = Missing
    /\ cpc \in {"restoring", "emitting"} => built # Missing
    /\ cpc = "restoringFailed" => built \in {Missing, Broken}

\* A queue holds an event that says more than that a compilation began.
Heard(q) == \E i \in 1..Len(q) : q[i] # "started"

\* Behind every success that is not yet handled a later outcome is queued.
Outdated(q) ==
    \A i \in 1..Len(q) : q[i] = "success" =>
        \E j \in (i + 1)..Len(q) : q[j] \notin {"started", "success"}

Promised(s) ==
    \/ built = Broken
    \/ connected[s] /\ Busy
    \/ Heard(inbox[s])
    \/ built = Missing /\ s \in requests

\* A strategy that waits is promised an answer, and so is one that is about to
\* look for a result that is not there.  The success of an earlier compilation
\* is no promise once the result is gone: handling it leads nowhere, so a later
\* outcome must be behind it.  A strategy in compileIfNecessary() waits for the
\* return of compile() and for no answer.
AnswerInv(s) ==
    /\ spc[s] \in {"closed", "connectingBlocking", "blocked"} => ~awaiting[s]
    /\ spc[s] \notin {"closed", "connecting", "connectingBlocking"} => connected[s]
    /\ \/ awaiting[s] /\ spc[s] \in {"idle", "resuming"}
       \/ spc[s] \in {"pausing", "checking"} /\ built = Missing
       => Promised(s)
    /\ spc[s] \notin {"closed", "connecting", "connectingBlocking"}
         /\ built = Missing /\ s \notin requests /\ ~Busy => Outdated(inbox[s])

\* Every step of the compiler keeps its phases.
LEMMA PhaseStep == TypeOK /\ PhaseInv /\ [Next]_vars => PhaseInv'
<1> SUFFICES ASSUME TypeOK, PhaseInv, [Next]_vars PROVE PhaseInv'
  OBVIOUS
<1> USE DEF PhaseInv, Missing, Broken
<1>0. src \in Nat /\ begun \in Nat
  BY DEF TypeOK
<1>1. CASE Compile \/ RecheckSources
  BY <1>1 DEF Compile, RecheckSources, BeginCompile
<1>2. CASE PerformCompilation
  BY <1>0, <1>2 DEF PerformCompilation
<1>3. CASE EnterRenaming \/ RemoveOldResult \/ PublishResult
  BY <1>3 DEF EnterRenaming, RemoveOldResult, PublishResult
<1>4. CASE LeaveRenaming \/ EmitOutcome
  BY <1>4 DEF LeaveRenaming, EmitOutcome
<1>5. ASSUME NEW s \in Strategies, StrategyThread(s) \/ LoadScript(s) \/ CompileIfNecessary(s)
      PROVE  PhaseInv'
  <2>1. CASE Resume(s)
    BY <2>1 DEF Resume
  <2>2. CASE UNCHANGED <<cpc, begun, tmp, built, src>>
    BY <2>2
  <2> QED BY <1>5, <2>1, <2>2 DEF StrategyThread, SetupCompiler, RequestPause,
             CheckResult, OpenScript, RunScript, HandleEvent, LoadScript,
             CompileIfNecessary, compilerVars
<1>6. CASE Edit \/ UNCHANGED vars
  BY <1>0, <1>6 DEF Edit, vars, compilerVars
<1> QED BY <1>1, <1>2, <1>3, <1>4, <1>5, <1>6 DEF Next, CompilerThread

\* An outcome reaches the queue of a connected strategy, behind everything else.
LEMMA EmitReaches ==
    ASSUME TypeOK, NEW signal \in Outcomes, Emit(signal),
           NEW s \in Strategies, connected[s]
    PROVE  Heard(inbox'[s]) /\ (signal # "success" => Outdated(inbox'[s]))
<1> DEFINE q == inbox[s]
           r == inbox'[s]
<1>1. q \in Seq(Signals) /\ r = Append(q, signal)
  BY DEF TypeOK, Emit
<1>2. Len(q) \in Nat /\ Len(r) = Len(q) + 1 /\ r[Len(r)] = signal /\ signal # "started"
  BY <1>1 DEF Outcomes
<1> HIDE DEF q, r
<1>3. Len(r) \in 1..Len(r) /\ \A i \in 1..Len(r) : i = Len(r) \/ Len(r) \in (i + 1)..Len(r)
  BY <1>2
<1>4. \E i \in 1..Len(r) : r[i] # "started"
  BY <1>2, <1>3
<1>5. ASSUME signal # "success", NEW i \in 1..Len(r), r[i] = "success"
      PROVE  \E j \in (i + 1)..Len(r) : r[j] \notin {"started", "success"}
  BY <1>2, <1>3, <1>5
<1> QED BY <1>4, <1>5 DEF r, Heard, Outdated

\* A strategy that a step leaves alone, or at most lets return from its blocking
\* compile(), keeps its promise, and gets one from a compilation that is on.
LEMMA LeftAlone ==
    ASSUME TypeOK, NEW s \in Strategies, AnswerInv(s),
           spc'[s] = spc[s] \/ (spc[s] = "blocked" /\ spc'[s] = "idle"),
           connected'[s] = connected[s], awaiting'[s] = awaiting[s],
           \/ Busy'
           \/ /\ UNCHANGED <<built, inbox[s]>>
              /\ Busy => Busy'
              /\ s \in requests <=> s \in requests'
    PROVE  AnswerInv(s)'
  BY DEF AnswerInv, Promised

\* Every step of the compiler keeps the promises.
LEMMA CompilerAnswers ==
    ASSUME TypeOK, PhaseInv, CompilerThread, NEW s \in Strategies, AnswerInv(s)
    PROVE  AnswerInv(s)'
<1>0. UNCHANGED <<awaiting, connected>>
  BY DEF CompilerThread, Compile, PerformCompilation, EnterRenaming,
         RemoveOldResult, PublishResult, LeaveRenaming, EmitOutcome,
         RecheckSources, strategyVars
<1>1. spc'[s] = spc[s] \/ (spc[s] = "blocked" /\ spc'[s] = "idle")
  <2>1. CASE UNCHANGED spc
    BY <2>1
  <2>2. CASE \E r : Release(r)
    BY <2>2, ReleaseFacts
  <2> QED BY <2>1, <2>2
          DEF CompilerThread, Compile, PerformCompilation, EnterRenaming,
              RemoveOldResult, PublishResult, LeaveRenaming, EmitOutcome,
              RecheckSources, strategyVars
<1>2. CASE Busy'
  BY <1>0, <1>1, <1>2, LeftAlone
<1>3. CASE Compile /\ ~Busy'
  <2>1. built # Missing /\ ~Busy /\ UNCHANGED <<built, inbox>>
    BY <1>3 DEF Compile, BeginCompile, CompilationNeeded, Busy
  <2> QED BY <1>0, <1>1, <2>1 DEF AnswerInv, Promised
<1>4. CASE RemoveOldResult /\ ~Busy'
  <2>1. built' = Broken
    BY <1>4 DEF RemoveOldResult, Busy
  <2> QED BY <1>0, <1>1, <2>1 DEF AnswerInv, Promised, Missing, Broken
<1>5. CASE PublishResult /\ ~Busy'
  <2>1. Emit("error") /\ "error" \in Outcomes
    BY <1>5 DEF PublishResult, NextPhase, Busy, Outcomes
  <2>2. connected[s] => Heard(inbox'[s]) /\ Outdated(inbox'[s])
    BY <2>1, EmitReaches
  <2> QED BY <1>0, <1>1, <2>2 DEF AnswerInv, Promised
<1>6. CASE EmitOutcome
  <2>1. Emit(outcome) /\ outcome \in Outcomes /\ built' # Missing
    BY <1>6 DEF EmitOutcome, TypeOK, PhaseInv
  <2>2. connected[s] => Heard(inbox'[s])
    BY <2>1, EmitReaches
  <2> QED BY <1>0, <1>1, <2>1, <2>2 DEF AnswerInv, Promised
<1>7. CASE (LeaveRenaming \/ RecheckSources) /\ ~Busy'
  <2>1. UNCHANGED <<built, inbox, requests>> /\ ~Busy
    BY <1>7 DEF LeaveRenaming, RecheckSources, BeginCompile, NextPhase, Busy
  <2> QED BY <1>0, <1>1, <2>1, LeftAlone
<1>8. CASE (PerformCompilation \/ EnterRenaming) /\ ~Busy'
  BY <1>8 DEF PerformCompilation, EnterRenaming, Busy
<1> QED BY <1>2, <1>3, <1>4, <1>5, <1>6, <1>7, <1>8 DEF CompilerThread

\* Handling the first event leaves the outcomes behind it; a success that is
\* handled while it is outdated leaves one that is not.
LEMMA HandleFirst ==
    ASSUME NEW q \in Seq(Signals), q # <<>>,
           NEW r, r = Tail(q) \/ r = Append(Tail(q), "reload")
    PROVE  /\ Outdated(q) => Outdated(r) /\ (Head(q) = "success" => Heard(r))
           /\ Head(q) = "started" /\ Heard(q) => Heard(r)
           /\ r = Append(Tail(q), "reload") => Heard(r)
<1>1. /\ Len(q) \in Nat \ {0} /\ Head(q) = q[1]
      /\ \A i \in 2..Len(q) : i - 1 \in 1..Len(r) /\ r[i - 1] = q[i]
  OBVIOUS
<1>2. /\ Len(r) \in Nat
      /\ \A i \in 1..Len(r) :
            \/ i + 1 \in 2..Len(q) /\ r[i] = q[i + 1]
            \/ r[i] = "reload"
      /\ r = Append(Tail(q), "reload") => Len(r) \in 1..Len(r) /\ r[Len(r)] = "reload"
  OBVIOUS
<1>3. ASSUME Outdated(q), NEW i \in 1..Len(r), r[i] = "success"
      PROVE  \E j \in (i + 1)..Len(r) : r[j] \notin {"started", "success"}
  <2>1. i + 1 \in 2..Len(q) /\ q[i + 1] = "success"
    BY <1>2, <1>3
  <2>2. PICK j \in (i + 2)..Len(q) : q[j] \notin {"started", "success"}
    BY <1>1, <1>3, <2>1 DEF Outdated
  <2>3. j - 1 \in (i + 1)..Len(r) /\ r[j - 1] = q[j]
    BY <1>1, <1>2, <2>2
  <2> QED BY <2>2, <2>3
<1>4. ASSUME Outdated(q), Head(q) = "success" PROVE Heard(r)
  <2>1. PICK j \in 2..Len(q) : q[j] \notin {"started", "success"}
    BY <1>1, <1>4 DEF Outdated
  <2> QED BY <1>1, <2>1 DEF Heard
<1>5. ASSUME Head(q) = "started", Heard(q) PROVE Heard(r)
  <2>1. PICK i \in 2..Len(q) : q[i] # "started"
    BY <1>1, <1>5 DEF Heard
  <2> QED BY <1>1, <2>1 DEF Heard
<1>6. r = Append(Tail(q), "reload") => Heard(r)
  BY <1>2 DEF Heard
<1> QED BY <1>3, <1>4, <1>5, <1>6 DEF Outdated

\* Every step of its own thread keeps the promise made to a strategy.
LEMMA OwnAnswers ==
    ASSUME TypeOK, PhaseInv, RenamingPhase, ~TournamentMode,
           NEW s \in Strategies, AnswerInv(s),
           StrategyThread(s) \/ LoadScript(s) \/ CompileIfNecessary(s)
    PROVE  AnswerInv(s)'
<1> USE DEF AnswerInv
<1>0. /\ DOMAIN spc = Strategies /\ DOMAIN connected = Strategies
      /\ DOMAIN awaiting = Strategies /\ DOMAIN inbox = Strategies
      /\ s \in Strategies /\ inbox[s] \in Seq(Signals)
  BY DEF TypeOK
<1>1. CASE CompileIfNecessary(s)
  <2>1. spc'[s] = "connectingBlocking" /\ ~awaiting'[s]
    BY <1>0, <1>1 DEF CompileIfNecessary
  <2> QED BY <2>1
<1>2. CASE SetupCompiler(s)
  <2>1. connected'[s] /\ s \in requests' /\ UNCHANGED <<awaiting, built>>
    BY <1>0, <1>2 DEF SetupCompiler, compilerVars
  <2>2. \/ spc'[s] = "pausing"
        \/ spc'[s] = "blocked" /\ ~awaiting[s]
    BY <1>0, <1>2 DEF SetupCompiler
  <2> QED BY <2>1, <2>2 DEF Promised
<1>3. CASE RequestPause(s)
  <2>1. UNCHANGED <<inbox, connected, awaiting, built, requests, cpc>>
    BY <1>3 DEF RequestPause
  <2>2. CASE spc'[s] = "checking"
    BY <1>3, <2>1, <2>2 DEF RequestPause, Promised, Busy
  <2>3. CASE spc'[s] = "idle" /\ m_state = "RENAMING"
    <3>1. Busy \/ built \in {Missing, Broken}
      BY <2>3 DEF RenamingPhase, PhaseInv, Busy
    <3>2. Promised(s)
      BY <1>3, <3>1 DEF RequestPause, Promised
    <3> QED BY <1>3, <2>1, <2>3, <3>2 DEF RequestPause, Promised, Busy
  <2> QED BY <1>0, <1>3, <2>2, <2>3 DEF RequestPause
<1>4. CASE CheckResult(s)
  <2>1. UNCHANGED <<inbox, connected, awaiting, built, requests, cpc>>
    BY <1>4 DEF CheckResult, compilerVars
  <2>2. CASE spc'[s] = "opening"
    BY <1>4, <2>1, <2>2 DEF CheckResult, Busy
  <2>3. CASE spc'[s] = "resuming" /\ (m_state = "RENAMING" \/ built = Missing)
    <3>1. Busy \/ built \in {Missing, Broken}
      BY <2>3 DEF RenamingPhase, PhaseInv, Busy
    <3>2. Promised(s)
      BY <1>4, <3>1 DEF CheckResult, Promised
    <3> QED BY <1>4, <2>1, <2>3, <3>2 DEF CheckResult, Promised, Busy
  <2> QED BY <1>0, <1>4, <2>2, <2>3 DEF CheckResult
<1>5. CASE OpenScript(s)
  <2>1. UNCHANGED <<inbox, connected, built, requests, cpc>>
    BY <1>5 DEF OpenScript, compilerVars
  <2>2. spc'[s] = "reading" \/ (spc'[s] = "resuming" /\ ~awaiting'[s])
    BY <1>0, <1>5 DEF OpenScript, Answer
  <2> QED BY <1>5, <2>1, <2>2 DEF OpenScript, Busy
<1>6. CASE RunScript(s)
  <2>1. UNCHANGED <<inbox, connected, built, requests, cpc>>
    BY <1>6 DEF RunScript, compilerVars
  <2>2. spc'[s] = "resuming" /\ ~awaiting'[s]
    BY <1>0, <1>6 DEF RunScript, Answer
  <2> QED BY <1>6, <2>1, <2>2 DEF RunScript, Busy
<1>7. CASE Resume(s)
  <2>1. UNCHANGED <<inbox, connected, awaiting, built, requests>> /\ (Busy' <=> Busy)
    BY <1>7 DEF Resume, Busy
  <2>2. spc'[s] = "idle"
    BY <1>0, <1>7 DEF Resume
  <2> QED BY <1>7, <2>1, <2>2 DEF Resume, Promised
<1>8. CASE HandleEvent(s)
  <2> DEFINE q == inbox[s]
             r == inbox'[s]
  <2>0. /\ UNCHANGED <<built, requests, cpc>> /\ spc[s] = "idle" /\ connected[s]
        /\ q \in Seq(Signals) /\ q # <<>> /\ (Busy' <=> Busy)
    BY <1>0, <1>8 DEF HandleEvent, compilerVars, Busy
  <2>1. CASE OnReload(s)
    BY <1>0, <2>1 DEF OnReload
  <2>2. CASE ~OnReload(s)
    <3>1. /\ connected' = connected
          /\ r = Tail(q) \/ r = Append(Tail(q), "reload")
          /\ spc'[s] \in {"idle", "pausing"}
      <4>1. CASE OnCompileStarted(s) \/ OnCompileError(s)
        BY <1>0, <2>0, <4>1 DEF OnCompileStarted, OnCompileError
      <4>2. CASE OnCompileSuccess(s)
        BY <1>0, <2>0, <4>2 DEF OnCompileSuccess
      <4>3. CASE OnCompileWarning(s)
        BY <1>0, <2>0, <4>3 DEF OnCompileWarning
      <4> QED BY <1>8, <2>2, <4>1, <4>2, <4>3 DEF HandleEvent
    <3>2. Outdated(inbox[s]) => Outdated(inbox'[s])
      BY <2>0, <3>1, HandleFirst
    <3>3. CASE OnCompileStarted(s)
      <4>1. Heard(inbox[s]) => Heard(inbox'[s])
        BY <2>0, <3>1, <3>3, HandleFirst DEF OnCompileStarted
      <4> QED BY <2>0, <3>1, <3>2, <3>3, <4>1 DEF OnCompileStarted, Promised
    <3>4. CASE OnCompileSuccess(s)
      <4>1. Outdated(inbox[s]) => Heard(inbox'[s])
        BY <2>0, <3>1, <3>4, HandleFirst DEF OnCompileSuccess
      <4>2. spc'[s] = "pausing"
        BY <1>0, <3>4 DEF OnCompileSuccess
      <4> QED BY <2>0, <3>1, <3>2, <4>1, <4>2 DEF Promised
    <3>5. CASE OnCompileWarning(s)
      <4>1. r = Append(Tail(q), "reload")
        BY <1>0, <3>5 DEF OnCompileWarning
      <4>2. Heard(inbox'[s])
        BY <2>0, <4>1, HandleFirst
      <4> QED BY <2>0, <3>1, <3>2, <3>5, <4>2 DEF OnCompileWarning, Promised
    <3>6. CASE OnCompileError(s)
      <4>1. ~awaiting'[s] /\ spc'[s] = "idle"
        BY <1>0, <2>0, <3>6 DEF OnCompileError, Answer
      <4> QED BY <2>0, <3>1, <3>2, <4>1
    <3> QED BY <1>8, <2>2, <3>3, <3>4, <3>5, <3>6 DEF HandleEvent
  <2> QED BY <2>1, <2>2
<1>9. CASE LoadScript(s)
  BY <1>0, <1>9 DEF LoadScript
<1> QED BY <1>1, <1>2, <1>3, <1>4, <1>5, <1>6, <1>7, <1>8, <1>9 DEF StrategyThread

\* Another strategy's thread leaves the promise alone.
LEMMA OthersAnswer ==
    ASSUME TypeOK, NEW s \in Strategies, AnswerInv(s), NEW t \in Strategies, t # s,
           StrategyThread(t) \/ LoadScript(t) \/ CompileIfNecessary(t)
    PROVE  AnswerInv(s)'
<1>1. UNCHANGED <<spc[s], connected[s], built, inbox[s]>> /\ awaiting'[s] = awaiting[s]
  BY DEF StrategyThread, LoadScript, CompileIfNecessary, SetupCompiler, RequestPause,
         CheckResult, OpenScript, RunScript, Resume, HandleEvent, OnCompileStarted,
         OnCompileSuccess, OnCompileWarning, OnCompileError, OnReload, Answer,
         compilerVars, strategyVars, TypeOK
<1>2. (Busy' <=> Busy) /\ (s \in requests <=> s \in requests')
  BY DEF StrategyThread, LoadScript, CompileIfNecessary, SetupCompiler, RequestPause,
         CheckResult, OpenScript, RunScript, Resume, HandleEvent,
         compilerVars, strategyVars, Busy
<1> QED BY <1>1, <1>2, LeftAlone

\* A load that got no result is answered later, with any number of strategies and
\* any failures of the compiler: the call of compile() waits, its outcome is to
\* be reported, or it is on the way.
THEOREM NoAnswerIsLost == Spec => []NoLostAnswer
<1> DEFINE Inv == /\ PhaseInv
                  /\ ~TournamentMode => \A s \in Strategies : AnswerInv(s)
<1>1. Init => Inv
  BY DEF Init, PhaseInv, AnswerInv, Missing, Broken
<1>2. TypeOK /\ IInv /\ Inv /\ [Next]_vars => Inv'
  <2> SUFFICES ASSUME TypeOK, IInv, Inv, [Next]_vars, ~TournamentMode,
                      NEW s \in Strategies, AnswerInv(s)
               PROVE  AnswerInv(s)'
    BY PhaseStep
  <2>1. CASE CompilerThread
    BY <2>1, CompilerAnswers
  <2>2. CASE \E t \in Strategies :
                StrategyThread(t) \/ LoadScript(t) \/ CompileIfNecessary(t)
    BY <2>2, OwnAnswers, OthersAnswer DEF IInv
  <2>3. CASE Edit \/ UNCHANGED vars
    <3>1. /\ UNCHANGED <<spc, connected, awaiting, built, inbox, cpc>>
          /\ s \in requests <=> s \in requests'
      BY <2>3 DEF Edit, vars, compilerVars, strategyVars
    <3> QED BY <3>1, LeftAlone DEF Busy
  <2> QED BY <2>1, <2>2, <2>3 DEF Next
<1>3. TypeOK /\ Inv => NoLostAnswer
  <2> SUFFICES ASSUME TypeOK, Inv, ~TournamentMode, NEW s \in Strategies,
                      awaiting[s], spc[s] = "idle", built # Broken
               PROVE  AnswerIsComing(s)
    BY DEF NoLostAnswer
  <2>1. Promised(s) /\ connected[s]
    BY DEF AnswerInv
  <2>2. inbox[s] \in Seq(Signals)
    BY DEF TypeOK
  <2> QED BY <2>1, <2>2 DEF Promised, AnswerIsComing, Busy, Heard
<1> QED BY <1>1, <1>2, <1>3, Typing, Protocol, PTL DEF Spec
=============================================================================
