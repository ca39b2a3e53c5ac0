--------------------------- MODULE GameController ---------------------------
(***************************************************************************)
(* A strategy's registration with the game controller (gamecontroller.ts)   *)
(* over the socket that C++ keeps for it (externalgamecontroller.cpp).  The *)
(* socket is opened by the first call that wants it and comes up later; it  *)
(* changes only while the thread's event loop runs, between two frames.  A  *)
(* reload in place makes the strategy's variables anew and keeps the        *)
(* socket; another strategy object closes it (abstractstrategyscript.cpp).  *)
(***************************************************************************)

VARIABLES
    state,       \* "CONNECTED" or "UNCONNECTED"
    socket,      \* m_gameControllerSocket.state(): "down", "connecting" or "up"
    registered   \* external: the registration arrived on this connection

controllerVars == <<state, socket, registered>>

ControllerTypeOK ==
    /\ state \in {"CONNECTED", "UNCONNECTED"}
    /\ socket \in {"down", "connecting", "up"}
    /\ registered \in BOOLEAN

ControllerInit == state = "UNCONNECTED" /\ socket = "down" /\ registered = FALSE
-----------------------------------------------------------------------------
\* connectGameController, when it returns false.
Connecting == IF socket = "down" THEN "connecting" ELSE socket

\* The strategy's variable when there is no connection.  Mutant: it is kept.
StillConnected == state
NotConnected == "UNCONNECTED"

\* _update; isTeam: the names say that this is the team's one strategy.
UpdateController(isTeam) ==
    IF ~isTeam THEN UNCHANGED controllerVars
    ELSE IF socket = "up"
    THEN /\ state' = "CONNECTED" /\ UNCHANGED socket
         /\ registered' = (registered \/ state = "UNCONNECTED")
    ELSE /\ state' = NotConnected
         /\ socket' = Connecting /\ UNCHANGED registered

\* requestDesiredKeeper, requestSubstitution: sent, or an exception is thrown
\* after the socket was told to connect.
SendsRequest == socket = "up" /\ UNCHANGED controllerVars
RequestThrows == socket # "up" /\ socket' = Connecting /\ UNCHANGED <<state, registered>>

\* The other end answers, refuses, or closes; a new referee's address closes too.
SocketEvent ==
    \/ socket = "connecting" /\ socket' = "up" /\ UNCHANGED <<state, registered>>
    \/ socket # "down" /\ socket' = "down" /\ registered' = FALSE /\ UNCHANGED state

\* A reload in place, and the strategy being closed and opened.
ReloadController == state' = "UNCONNECTED" /\ UNCHANGED <<socket, registered>>
ReopenController == state' = "UNCONNECTED" /\ socket' = "down" /\ registered' = FALSE
=============================================================================
