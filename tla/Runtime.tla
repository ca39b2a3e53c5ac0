------------------------------ MODULE Runtime ------------------------------
(***************************************************************************)
(* The frames of a TypeScript strategy: the wrapper of its entrypoint       *)
(* updates the game controller's client and empties the caches, then runs   *)
(* the processes, the strategy and the processes after it.  All of them may *)
(* call cached functions, list processes, ask the game controller and throw *)
(* an exception.  JavaScript runs to the end of the frame without the event *)
(* loop.  The wrapper is the user's (entrypoints.ts:46-55); the order here  *)
(* is that of the words "before", "after" and "current frame" in the code.  *)
(***************************************************************************)
EXTENDS Processor, ResultCache, GameController

vars == <<processorVars, cacheVars, controllerVars>>

Init == ProcessorInit /\ CacheInit /\ ControllerInit

TypeOK ==
    /\ ProcessorTypeOK /\ CacheTypeOK /\ ControllerTypeOK

StartFrame ==
    /\ BeginFrame
    /\ \E isTeam \in BOOLEAN : UpdateController(isTeam)
    /\ CacheNextFrame

\* What the walk does on its own.
RunNext == RunProcess /\ UNCHANGED <<cacheVars, controllerVars>>
EndList == EndWalk /\ UNCHANGED <<cacheVars, controllerVars>>

\* What the user's code does while it has control.  It does not catch the exception
\* of a request without a connection.
AddProcess ==
    /\ \E l \in Lists, p \in Processes : Add(l, p)
    /\ UNCHANGED <<cacheVars, controllerVars>>
CallCached ==
    /\ InScript
    /\ \E f \in Functs : \E args \in ArgLists[f] : Call(f, args)
    /\ UNCHANGED <<processorVars, controllerVars>>
Request ==
    /\ InScript
    /\ \/ SendsRequest /\ UNCHANGED processorVars
       \/ RequestThrows /\ Throw
    /\ UNCHANGED cacheVars
Return ==
    /\ EndMain \/ \E finished \in BOOLEAN : ProcessReturns(finished)
    /\ UNCHANGED <<cacheVars, controllerVars>>
Fail == Throw /\ UNCHANGED <<cacheVars, controllerVars>>

\* The code is loaded again: in place, or by another strategy object.
Reload ==
    /\ phase \in {"idle", "failed"}
    /\ procs' = [l \in Lists |-> <<>>] /\ phase' = "idle"
    /\ next' = 1 /\ running' = {} /\ scheduled' = {} /\ ran' = {} /\ ended' = 0
    /\ frame' = frame /\ cached' = [f \in Functs |-> <<>>]
    /\ ReloadController \/ ReopenController

EventLoop ==
    /\ phase \in {"idle", "failed"}
    /\ SocketEvent
    /\ UNCHANGED <<processorVars, cacheVars>>

Next == \/ StartFrame \/ RunNext \/ EndList
        \/ AddProcess \/ CallCached \/ Request \/ Return \/ Fail
        \/ Reload \/ EventLoop

\* The tracking's frames keep coming, and code that does not return is ended by
\* the script's timeout (checkforscripttimeout.cpp).
Fairness ==
    /\ WF_vars(StartFrame) /\ WF_vars(RunNext) /\ WF_vars(EndList)
    /\ WF_vars(Return \/ Fail)

Spec == Init /\ [][Next]_vars
FairSpec == Spec /\ Fairness
-----------------------------------------------------------------------------
\* A strategy that takes itself for connected, over a socket that is up, is
\* registered on this connection: no reconnection, in between frames or while the
\* names were not the team's, leaves it unknown to the game controller
\* (gamecontroller.ts:39-54).
RegisteredWhenConnected ==
    phase # "failed" /\ state = "CONNECTED" /\ socket = "up" => registered

\* A process that was passed over is not forgotten: it runs in a later frame,
\* unless the script fails or is loaded again.
EveryProcessRuns ==
    \A p \in Processes : p \in Listed ~> (p \in running \/ phase = "failed" \/ p \notin Listed)
=============================================================================
