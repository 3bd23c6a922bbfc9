---------------------------- MODULE MCTransport ----------------------------
(* The browser's two ways to the server, for TLC: a behaviour is one of    *)
(* the request layer's, which sees the socket as its variable sock, or one *)
(* of the socket's.  In either, the other one rests.                       *)
EXTENDS ApiClient, WsClient

VARIABLE half       \* whose behaviour it is

transportVars == <<half, vars, wsVars>>

\* A connection that stays open asks for no step of the socket.
WsAtRest ==
    /\ globalWs = CHOOSE i \in SockIds : TRUE
    /\ sk = [i \in SockIds |-> IF i = globalWs THEN [Closed EXCEPT !.st = "open"] ELSE Closed]
    /\ connecting = FALSE /\ timers = 0 /\ subscriptions = {} /\ accessToken = 0

TransportInit ==
    /\ Init
    /\ \/ half = "requests" /\ WsAtRest
       \/ half = "socket" /\ WsInit
TransportNext ==
    \/ half = "requests" /\ Next /\ UNCHANGED <<half, wsVars>>
    \/ half = "socket" /\ WsNext /\ UNCHANGED <<half, vars>>
TransportSpec == TransportInit /\ [][TransportNext]_transportVars /\ Fairness /\ WsFairness
=============================================================================
