------------------------- MODULE TypescriptCompiler -------------------------
(***************************************************************************)
(* The TypeScript compiler that several strategies share                   *)
(* (src/src/amun/strategy/typescript/typescriptcompiler.cpp) and the part  *)
(* of Typescript (typescript.cpp) that uses it.                            *)
(*                                                                         *)
(* The compiler runs in a thread of its own (CompilerThreadWrapper), every *)
(* strategy in another one.  The compiler writes into built/built-tmp and  *)
(* then replaces built/built, from which the strategies read.  m_state is  *)
(* the protocol between them: a strategy sets it to PAUSED while it reads, *)
(* the compiler to RENAMING while it replaces, and sleeps on m_pauseWait   *)
(* while it is PAUSED.                                                     *)
(*                                                                         *)
(* Data: a version of the sources is the number of edits made so far plus  *)
(* one; modification times are compared through these versions, a file     *)
(* written after edit k and before edit k+1 having time k+1.               *)
(***************************************************************************)
EXTENDS Integers, Sequences

CONSTANTS Strategies,      \* the strategies that use one tsconfig.json
          MaxEdits,        \* bound on the changes made to the sources
          MaxOpens,        \* bound on the open/reload commands and compilations
          Results,         \* the outcomes a compilation can have
          MayFail,         \* file operations and scripts may fail
          TournamentMode,  \* m_scriptState.isTournamentMode
          Callers          \* the strategies that call compileIfNecessary()
                           \* before they are loaded

ASSUME CompilerAssumption ==
    /\ MaxEdits \in Nat
    /\ MaxOpens \in Nat
    /\ Results \subseteq {"success", "warning", "error"} /\ Results # {}
    /\ MayFail \in BOOLEAN
    /\ TournamentMode \in BOOLEAN
    /\ Callers \subseteq Strategies
    /\ "watcher" \notin Strategies

VARIABLES
    m_state,     \* TypescriptCompiler::m_state
    cpc,         \* where the compiler thread is
    requests,    \* queued compile() calls: of the file watcher, of strategies
    caller,      \* the queued call being executed
    src,         \* version of the source files
    begun,       \* lastStrategyModification of the running doCompile
    tmp,         \* content of built/built-tmp
    built,       \* content of built/built
    resultTime,  \* version of the sources when built/ was last written
    outcome,     \* result of performCompilation
    spc,         \* where each strategy thread is
    connected,   \* the compiler's signals are connected to the strategy
    inbox,       \* the strategy's queued events
    seen,        \* content read by the first file access of a load
    load,        \* last state passed to changeLoadState
    loaded,      \* the versions of the modules of the loaded script
    awaiting,    \* loadScript was not yet answered by RUNNING or FAILED
    foreign,     \* history: another strategy resumed since this one paused
    opens        \* open/reload commands and compileIfNecessary() so far

compilerVars == <<m_state, cpc, caller, begun, tmp, built, resultTime, outcome>>
strategyVars == <<spc, seen, load, loaded, awaiting, foreign, opens>>
vars == <<compilerVars, strategyVars, requests, src, connected, inbox>>

-----------------------------------------------------------------------------
Missing == 0     \* the directory does not exist
Broken  == -1    \* it exists, with files missing
Content == Int

Outcomes   == {"success", "warning", "error"}
Signals    == {"started", "reload"} \cup Outcomes
Requesters == Strategies \cup {"watcher"}

\* a strategy between a granted requestPause() and its resume()
Holding(s) == spc[s] \in {"checking", "opening", "reading", "resuming"}

TypeOK ==
    /\ m_state \in {"PAUSED", "STANDBY", "RENAMING"}
    /\ cpc \in {"idle", "compiling", "locking", "waiting", "removing",
                "copying", "restoring", "restoringFailed", "emitting",
                "rechecking"}
    /\ requests \subseteq Requesters
    /\ caller \in Requesters
    /\ src \in Nat /\ begun \in Nat /\ resultTime \in Nat
    /\ tmp \in Content /\ built \in Content
    /\ outcome \in Outcomes
    /\ spc \in [Strategies -> {"closed", "idle", "connecting",
                    "connectingBlocking", "pausing", "checking", "opening",
                    "reading", "resuming", "blocked"}]
    /\ connected \in [Strategies -> BOOLEAN]
    /\ inbox \in [Strategies -> Seq(Signals)]
    /\ seen \in [Strategies -> Content]
    /\ load \in [Strategies -> {"CLOSED", "COMPILING", "RUNNING", "FAILED"}]
    /\ loaded \in [Strategies -> SUBSET Content]
    /\ awaiting \in [Strategies -> BOOLEAN]
    /\ foreign \in [Strategies -> BOOLEAN]
    /\ opens \in Nat

Init ==
    /\ m_state = "STANDBY" /\ cpc = "idle"
    /\ requests = {} /\ caller = "watcher"
    /\ src \in {1, 2} /\ begun = 1       \* edited since, or not
    /\ tmp = Missing
    /\ built \in {Missing, 1}            \* left by an earlier program run
    /\ resultTime = built
    /\ outcome = "success"
    /\ spc = [s \in Strategies |-> "closed"]
    /\ connected = [s \in Strategies |-> FALSE]
    /\ inbox = [s \in Strategies |-> <<>>]
    /\ seen = [s \in Strategies |-> Missing]
    /\ load = [s \in Strategies |-> "CLOSED"]
    /\ loaded = [s \in Strategies |-> {}]
    /\ awaiting = [s \in Strategies |-> FALSE]
    /\ foreign = [s \in Strategies |-> FALSE]
    /\ opens = 0

-----------------------------------------------------------------------------
(* The compiler thread.                                                    *)

\* A signal of the compiler is queued for every strategy connected to it.
Emit(signal) ==
    inbox' = [s \in Strategies |->
                 IF connected[s] THEN Append(inbox[s], signal) ELSE inbox[s]]

\* isCompilationNeeded
CompilationNeeded == built = Missing \/ src > resultTime

\* The sources changed since the running compilation began.
SourcesUnchanged == FALSE                  \* mutant: no recheck
SourcesChanged == src > begun

\* The order in which doCompile replaces the result, unlocks and reports.
ReportFirst(pc) ==                         \* mutant: report while RENAMING
    CASE pc = "copying" -> "emitting"
      [] pc = "emitting" -> "restoring"
      [] pc = "restoring" -> "rechecking"
NextPhase(pc) ==
    CASE pc = "copying" -> "restoring"
      [] pc = "restoring" -> "emitting"
      [] pc = "emitting" -> "rechecking"

\* The condition under which doCompile leaves its wait loop.
RenameAnyway == TRUE                       \* mutant: no wait loop
MayRename == m_state # "PAUSED"

\* The condition under which requestPause() grants the pause.
Pausable == m_state # "RENAMING"

\* m_pauseWait.wakeAll(): a compiler that waits takes the lock again.
WakeNobody(pc) == pc                       \* mutant: no wakeAll
WakeAll(pc) == IF pc = "waiting" THEN "locking" ELSE pc

\* The state resume() and the end of the replacement leave behind.
StandbyMisspelt == "STAND_BY"              \* mutant: not a state
Standby == "STANDBY"

\* The start of doCompile: remember the source time, announce the compilation.
BeginCompile ==
    /\ begun' = src
    /\ cpc' = "compiling"
    /\ Emit("started")

\* The executed call returns: its caller continues if it was blocked in it.
Release(r) ==
    spc' = [s \in Strategies |->
               IF s = r /\ spc[s] = "blocked" THEN "idle" ELSE spc[s]]

\* compile(): leave it if built/ is newer than every source file.
Compile ==
    /\ cpc = "idle"
    /\ \E r \in requests :
         /\ requests' = requests \ {r}
         /\ caller' = r
         /\ \/ /\ CompilationNeeded
               /\ BeginCompile
               /\ UNCHANGED spc
            \/ /\ ~CompilationNeeded
               /\ Release(r)
               /\ UNCHANGED <<begun, cpc, inbox>>
    /\ UNCHANGED <<m_state, tmp, built, resultTime, outcome, seen, load,
                   loaded, awaiting, foreign, opens, src, connected>>

\* performCompilation: reads the sources at some moment since begun and fills
\* built-tmp; a failed compilation may leave it without some of the files.
PerformCompilation ==
    /\ cpc = "compiling"
    /\ cpc' = "locking"
    /\ resultTime' = src
    /\ outcome' \in Results
    /\ tmp' \in (begun..src) \cup (IF outcome' = "error" THEN {Broken} ELSE {})
    /\ UNCHANGED <<m_state, caller, begun, built, strategyVars, requests, src,
                   connected, inbox>>

\* With m_stateLock: while PAUSED wait on m_pauseWait, else start renaming.
EnterRenaming ==
    /\ cpc = "locking"
    /\ \/ /\ ~MayRename
          /\ cpc' = "waiting"
          /\ UNCHANGED m_state
       \/ /\ MayRename
          /\ cpc' = "removing"
          /\ m_state' = "RENAMING"
    /\ UNCHANGED <<caller, begun, tmp, built, resultTime, outcome,
                   strategyVars, requests, src, connected, inbox>>

\* oldResult.removeRecursively()
RemoveOldResult ==
    /\ cpc = "removing"
    /\ resultTime' = src
    /\ \/ /\ built' = Missing
          /\ cpc' = "copying"
          /\ UNCHANGED inbox
       \/ /\ MayFail /\ built # Missing
          /\ built' = Broken
          /\ cpc' = "restoringFailed"
          /\ Emit("error")
    /\ UNCHANGED <<m_state, caller, begun, tmp, outcome, strategyVars,
                   requests, src, connected>>

\* copyDirectory and rename of the copy to built/built
PublishResult ==
    /\ cpc = "copying"
    /\ resultTime' = src
    /\ \/ /\ built' = tmp
          /\ cpc' = NextPhase("copying")
          /\ UNCHANGED inbox
       \/ /\ MayFail
          /\ cpc' = "restoringFailed"
          /\ Emit("error")
          /\ UNCHANGED built
    /\ UNCHANGED <<m_state, caller, begun, tmp, outcome, strategyVars,
                   requests, src, connected>>

\* Back to STANDBY; without a new result doCompile returns here.
LeaveRenaming ==
    /\ cpc \in {"restoring", "restoringFailed"}
    /\ m_state' = Standby
    /\ \/ /\ cpc = "restoring"
          /\ cpc' = NextPhase("restoring")
          /\ UNCHANGED spc
       \/ /\ cpc = "restoringFailed"
          /\ cpc' = "idle"
          /\ Release(caller)
    /\ UNCHANGED <<caller, begun, tmp, built, resultTime, outcome, seen, load,
                   loaded, awaiting, foreign, opens, requests, src, connected,
                   inbox>>

\* success(), warning() or error()
EmitOutcome ==
    /\ cpc = "emitting"
    /\ cpc' = NextPhase("emitting")
    /\ Emit(outcome)
    /\ UNCHANGED <<m_state, caller, begun, tmp, built, resultTime, outcome,
                   strategyVars, requests, src, connected>>

\* Compile again if the sources changed since the compilation began.
RecheckSources ==
    /\ cpc = "rechecking"
    /\ \/ /\ SourcesChanged
          /\ BeginCompile
          /\ UNCHANGED spc
       \/ /\ ~SourcesChanged
          /\ cpc' = "idle"
          /\ Release(caller)
          /\ UNCHANGED <<begun, inbox>>
    /\ UNCHANGED <<m_state, caller, tmp, built, resultTime, outcome, seen,
                   load, loaded, awaiting, foreign, opens, requests, src,
                   connected>>

CompilerThread ==
    \/ Compile \/ PerformCompilation \/ EnterRenaming \/ RemoveOldResult
    \/ PublishResult \/ LeaveRenaming \/ EmitOutcome \/ RecheckSources

-----------------------------------------------------------------------------
(* The thread of strategy s.                                               *)

\* loadScript up to the disconnect() of setupCompiler: opening a script, or
\* reloading it by command.
LoadScript(s) ==
    /\ spc[s] = "idle" \/ (spc[s] = "closed" /\ s \notin Callers)
    /\ opens < MaxOpens
    /\ opens' = opens + 1
    /\ connected' = [connected EXCEPT ![s] = FALSE]
    /\ awaiting' = [awaiting EXCEPT ![s] = TRUE]
    /\ spc' = [spc EXCEPT ![s] = "connecting"]
    /\ UNCHANGED <<compilerVars, seen, load, loaded, foreign, requests, src,
                   inbox>>

\* Strategy::compileIfNecessary(): a new script is made but not loaded, and calls
\* setupCompiler with a blocking compile().  It has no signals to disconnect yet.
CompileIfNecessary(s) ==
    /\ spc[s] = "closed" /\ s \in Callers
    /\ opens < MaxOpens
    /\ opens' = opens + 1
    /\ spc' = [spc EXCEPT ![s] = "connectingBlocking"]
    /\ UNCHANGED <<compilerVars, seen, load, loaded, awaiting, foreign,
                   requests, src, connected, inbox>>

\* The rest of setupCompiler: connect the signals, queue the compile() call.
SetupCompiler(s) ==
    /\ spc[s] \in {"connecting", "connectingBlocking"}
    /\ connected' = [connected EXCEPT ![s] = TRUE]
    /\ requests' = requests \cup {s}
    /\ spc' = [spc EXCEPT ![s] =
                  IF spc[s] = "connecting" THEN "pausing" ELSE "blocked"]
    /\ UNCHANGED <<compilerVars, seen, load, loaded, awaiting, foreign, opens,
                   src, inbox>>

\* requestPause(): refused while the compiler is RENAMING.
RequestPause(s) ==
    /\ spc[s] = "pausing"
    /\ \/ /\ ~Pausable
          /\ spc' = [spc EXCEPT ![s] = "idle"]
          /\ UNCHANGED <<m_state, foreign>>
       \/ /\ Pausable
          /\ m_state' = "PAUSED"
          /\ spc' = [spc EXCEPT ![s] = "checking"]
          /\ foreign' = [foreign EXCEPT ![s] = FALSE]
    /\ UNCHANGED <<cpc, caller, begun, tmp, built, resultTime, outcome, seen,
                   load, loaded, awaiting, opens, requests, src, connected,
                   inbox>>

\* isResultAvailable(): without a result the load ends with no state change.
CheckResult(s) ==
    /\ spc[s] = "checking"
    /\ spc' = [spc EXCEPT ![s] =
                  IF m_state # "RENAMING" /\ built # Missing
                  THEN "opening" ELSE "resuming"]
    /\ UNCHANGED <<compilerVars, seen, load, loaded, awaiting, foreign, opens,
                   requests, src, connected, inbox>>

\* changeLoadState(FAILED) or changeLoadState(RUNNING)
Answer(s, state, versions) ==
    /\ load' = [load EXCEPT ![s] = state]
    /\ loaded' = [loaded EXCEPT ![s] = versions]
    /\ awaiting' = [awaiting EXCEPT ![s] = FALSE]

\* loadJavascript reads the init script, the first file of the result ...
OpenScript(s) ==
    /\ spc[s] = "opening"
    /\ \/ /\ built = Missing
          /\ spc' = [spc EXCEPT ![s] = "resuming"]
          /\ Answer(s, "FAILED", loaded[s])
          /\ UNCHANGED seen
       \/ /\ built # Missing
          /\ spc' = [spc EXCEPT ![s] = "reading"]
          /\ seen' = [seen EXCEPT ![s] = built]
          /\ UNCHANGED <<load, loaded, awaiting>>
    /\ UNCHANGED <<compilerVars, foreign, opens, requests, src, connected,
                   inbox>>

\* ... and runs it, which reads the modules it imports.  An error of the
\* script, or a file that is missing, makes the load fail.
RunScript(s) ==
    LET versions == {seen[s], built}
    IN  /\ spc[s] = "reading"
        /\ spc' = [spc EXCEPT ![s] = "resuming"]
        /\ \/ /\ MayFail \/ seen[s] # built \/ Broken \in versions
              /\ Answer(s, "FAILED", {})
           \/ /\ Missing \notin versions
              /\ Answer(s, "RUNNING", versions)
        /\ seen' = [seen EXCEPT ![s] = Missing]
        /\ UNCHANGED <<compilerVars, foreign, opens, requests, src,
                       connected, inbox>>

\* resume(): to STANDBY, waking the compiler, unless it is not PAUSED.
Resume(s) ==
    /\ spc[s] = "resuming"
    /\ spc' = [spc EXCEPT ![s] = "idle"]
    /\ \/ /\ m_state = "PAUSED"
          /\ m_state' = Standby
          /\ cpc' = WakeAll(cpc)
          /\ foreign' = [t \in Strategies |-> t # s /\ Holding(t)]
       \/ /\ m_state # "PAUSED"
          /\ foreign' = [foreign EXCEPT ![s] = FALSE]
          /\ UNCHANGED <<m_state, cpc>>
    /\ UNCHANGED <<caller, begun, tmp, built, resultTime, outcome, seen, load,
                   loaded, awaiting, opens, requests, src, connected, inbox>>

\* onCompileStarted
OnCompileStarted(s) ==
    /\ Head(inbox[s]) = "started"
    /\ load' = [load EXCEPT ![s] = "COMPILING"]
    /\ inbox' = [inbox EXCEPT ![s] = Tail(@)]
    /\ UNCHANGED <<spc, loaded, awaiting, connected>>

\* onCompileSuccess: load the new result.
OnCompileSuccess(s) ==
    /\ Head(inbox[s]) = "success"
    /\ spc' = [spc EXCEPT ![s] = "pausing"]
    /\ inbox' = [inbox EXCEPT ![s] = Tail(@)]
    /\ UNCHANGED <<load, loaded, awaiting, connected>>

\* onCompileWarning: requestReload() is a queued signal to Strategy::reload.
OnCompileWarning(s) ==
    /\ Head(inbox[s]) = "warning"
    /\ inbox' = [inbox EXCEPT ![s] = Append(Tail(@), "reload")]
    /\ UNCHANGED <<spc, load, loaded, awaiting, connected>>

\* onCompileError: only logged in tournament mode.
OnCompileError(s) ==
    /\ Head(inbox[s]) = "error"
    /\ inbox' = [inbox EXCEPT ![s] = Tail(@)]
    /\ IF TournamentMode
       THEN UNCHANGED <<load, loaded, awaiting>>
       ELSE Answer(s, "FAILED", loaded[s])
    /\ UNCHANGED <<spc, connected>>

\* Strategy::reload, requested by onCompileWarning.
OnReload(s) ==
    /\ Head(inbox[s]) = "reload"
    /\ inbox' = [inbox EXCEPT ![s] = Tail(@)]
    /\ connected' = [connected EXCEPT ![s] = FALSE]
    /\ awaiting' = [awaiting EXCEPT ![s] = TRUE]
    /\ spc' = [spc EXCEPT ![s] = "connecting"]
    /\ UNCHANGED <<load, loaded>>

HandleEvent(s) ==
    /\ spc[s] = "idle" /\ inbox[s] # <<>>
    /\ \/ OnCompileStarted(s) \/ OnCompileSuccess(s) \/ OnCompileWarning(s)
       \/ OnCompileError(s) \/ OnReload(s)
    /\ UNCHANGED <<compilerVars, seen, foreign, opens, requests, src>>

\* What the thread does by itself, commands aside.
StrategyThread(s) ==
    \/ SetupCompiler(s) \/ RequestPause(s) \/ CheckResult(s)
    \/ OpenScript(s) \/ RunScript(s) \/ Resume(s) \/ HandleEvent(s)

-----------------------------------------------------------------------------
\* Someone changes a source file; the compiler's file watcher queues compile().
Edit ==
    /\ src <= MaxEdits
    /\ \E s \in Strategies :
          spc[s] \notin {"closed", "connecting", "connectingBlocking"}
    /\ src' = src + 1
    /\ requests' = requests \cup {"watcher"}
    /\ UNCHANGED <<compilerVars, strategyVars, connected, inbox>>

Next ==
    \/ CompilerThread
    \/ \E s \in Strategies :
          StrategyThread(s) \/ LoadScript(s) \/ CompileIfNecessary(s)
    \/ Edit

Spec == Init /\ [][Next]_vars

\* Both threads run as long as they have something to do; nobody is obliged
\* to edit files or to open scripts.
Fairness ==
    /\ WF_vars(CompilerThread)
    /\ \A s \in Strategies : WF_vars(StrategyThread(s))

FairSpec == Spec /\ Fairness

-----------------------------------------------------------------------------
(* Properties.                                                             *)

\* The state machine is PAUSED only while some strategy is between its
\* requestPause and its resume, and the compiler sleeps on m_pauseWait only
\* while it is PAUSED: no sleeper is left with nobody to wake it.
NoLostWakeup ==
    /\ m_state = "PAUSED" => \E s \in Strategies : Holding(s)
    /\ cpc = "waiting" => m_state = "PAUSED"

\* A strategy reads the result only while the compiler is kept out of it,
\* unless another strategy's resume() ended the pause: PAUSED is a flag and
\* not a count of the readers.
PauseProtectsReader ==
    \A s \in Strategies : Holding(s) /\ ~foreign[s] => m_state = "PAUSED"

\* With a single strategy the compiler never replaces files under its reader.
NoRenameWhileReading ==
    \A s \in Strategies : Holding(s) => m_state # "RENAMING"

\* The modules a script imports come from the compile result its init script
\* came from, unless another strategy ended the pause in between.
NoTornLoad ==
    \A s \in Strategies : spc[s] = "reading" /\ ~foreign[s] => seen[s] = built

\* A load that got no result (the compiler was RENAMING, or there was none)
\* is still to be answered: a call of compile() is queued, a compilation whose
\* outcome the strategy will hear is running, or the outcome is in its queue.
\* The exceptions are in the code: an error is only logged in tournament mode,
\* and the error "Could not remove old compile result" is emitted before the
\* compiler is back in STANDBY, to the strategies connected so far.
AnswerIsComing(s) ==
    \/ s \in requests
    \/ connected[s] /\ cpc \notin {"idle", "restoringFailed", "rechecking"}
    \/ \E i \in DOMAIN inbox[s] : inbox[s][i] # "started"

NoLostAnswer ==
    ~TournamentMode =>
        \A s \in Strategies :
            awaiting[s] /\ spc[s] = "idle" /\ built # Broken => AnswerIsComing(s)

\* Every script that is opened or reloaded ends up RUNNING or FAILED.
LoadsAreAnswered ==
    \A s \in Strategies : awaiting[s] ~> ~awaiting[s]

\* Once the sources stay as they are, every open strategy runs them.  (Not its
\* load state: a queued started() that is handled after the load shows
\* COMPILING until the next compilation, if the outcome was emitted while the
\* signals were disconnected.  And not a script that is only compiled: it is
\* loaded by the outcome of a compilation, which need not be necessary.)
EventuallyFresh ==
    <>[](\A s \in Strategies \ Callers : spc[s] # "closed" => loaded[s] = {src})

\* compileIfNecessary() returns: the blocked strategy does not keep the compiler
\* from executing the call it waits for, and neither does any other strategy.
BlockingCompileReturns ==
    \A s \in Strategies : spc[s] = "blocked" ~> spc[s] = "idle"
=============================================================================
