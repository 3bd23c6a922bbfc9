------------------------------ MODULE WsClient ------------------------------
(***************************************************************************)
(* The browser's one WebSocket (hooks/useWebSocketSync.ts): connecting,    *)
(* the reconnect timer and the heartbeat, the tracked subscriptions and    *)
(* their replay, the reconnection when the access token changes, and the   *)
(* server's view of the connection.                                        *)
(***************************************************************************)
EXTENDS Naturals, Sequences, FiniteSets

CONSTANTS
    Resources,      \* what can be subscribed to
    SockIds,        \* names for browser sockets that exist at one time
    MaxTimers,      \* bound: reconnect timers pending at one time
    MaxToken,       \* bound: access tokens the session is given
    MaxUp,          \* bound: frames on their way to the server
    NoSock

ASSUME WsAssumption ==
    /\ NoSock \notin SockIds
    /\ MaxTimers \in Nat \ {0} /\ MaxToken \in Nat /\ MaxUp \in Nat \ {0}

VARIABLES
    sk,             \* sk[i]: a browser socket and the server's end of it
    globalWs,       \* _globalWs
    connecting,     \* _globalConnecting
    timers,         \* reconnect timers that have not fired
    subscriptions,  \* _globalSubscriptions
    accessToken     \* accessTokenAtom (0: signed out)

wsVars == <<sk, globalWs, connecting, timers, subscriptions, accessToken>>

\* A socket that is CLOSED; tok is the token of its URL, subs what the server
\* has it subscribed to, up the frames on their way.
Closed == [st |-> "closed", tok |-> 0, subs |-> {}, up |-> <<>>]

WsInit ==
    /\ sk = [i \in SockIds |-> Closed]
    /\ globalWs = NoSock
    /\ connecting = FALSE
    /\ timers = 0
    /\ subscriptions = {}
    /\ accessToken = 0

IsOpen == globalWs # NoSock /\ sk[globalWs].st = "open"

\* A mutant of setupWebSocket: a connection attempt under way is not noticed.
SetupEager(s, g, busy) ==
    IF (g # NoSock /\ s[g].st # "closed") \/ ~\E i \in SockIds : s[i].st = "closed"
    THEN sk' = s /\ connecting' = busy
    ELSE LET i == CHOOSE j \in SockIds : s[j].st = "closed" IN
         /\ sk' = [s EXCEPT ![i] = [Closed EXCEPT !.st = "connecting", !.tok = accessToken]]
         /\ connecting' = TRUE

\* setupWebSocket: at most one socket; a new one carries the token of now.
Setup(s, g, busy) ==
    IF (g # NoSock /\ s[g].st # "closed") \/ busy \/ ~\E i \in SockIds : s[i].st = "closed"
    THEN sk' = s /\ connecting' = busy
    ELSE LET i == CHOOSE j \in SockIds : s[j].st = "closed" IN
         /\ sk' = [s EXCEPT ![i] = [Closed EXCEPT !.st = "connecting", !.tok = accessToken]]
         /\ connecting' = TRUE

\* The mount effect and, every 30 s, the heartbeat of each hook instance.
Heartbeat ==
    /\ globalWs = NoSock
    /\ Setup(sk, globalWs, connecting)
    /\ UNCHANGED <<globalWs, timers, subscriptions, accessToken>>

ReconnectTimer ==
    /\ timers > 0 /\ timers' = timers - 1
    /\ Setup(sk, globalWs, connecting)
    /\ UNCHANGED <<globalWs, subscriptions, accessToken>>

\* A mutant of OnOpen: the tracked subscriptions are not replayed.
OnOpenSilent(i) ==
    /\ sk[i].st = "connecting"
    /\ sk' = [sk EXCEPT ![i].st = "open"]
    /\ globalWs' = i
    /\ connecting' = FALSE
    /\ UNCHANGED <<timers, subscriptions, accessToken>>

\* ws.onopen: the socket becomes the global one and every tracked resource is
\* subscribed again.
OnOpen(i) ==
    /\ sk[i].st = "connecting"
    /\ sk' = [sk EXCEPT ![i].st = "open", ![i].up = <<[drop |-> {}, add |-> subscriptions]>>]
    /\ globalWs' = i
    /\ connecting' = FALSE
    /\ UNCHANGED <<timers, subscriptions, accessToken>>

\* A mutant of OnClose: a failed attempt leaves _globalConnecting set.
OnCloseStillConnecting(i) ==
    /\ sk[i].st # "closed" /\ timers < MaxTimers
    /\ sk' = [sk EXCEPT ![i] = Closed]
    /\ globalWs' = NoSock
    /\ timers' = timers + 1
    /\ UNCHANGED <<connecting, subscriptions, accessToken>>

\* ws.onerror, ws.onclose: frames on their way are lost, a timer is armed.
OnClose(i) ==
    /\ sk[i].st # "closed" /\ timers < MaxTimers
    /\ sk' = [sk EXCEPT ![i] = Closed]
    /\ connecting' = FALSE
    /\ globalWs' = NoSock
    /\ timers' = timers + 1
    /\ UNCHANGED <<subscriptions, accessToken>>

\* setAccessToken by a login, a refresh, a permission push or a sign-out, and
\* the effect that closes the global socket, if there is one.
TokenChanges(t) ==
    /\ t # accessToken /\ accessToken' = t
    /\ sk' = IF globalWs = NoSock THEN sk ELSE [sk EXCEPT ![globalWs].st = "closing"]
    /\ UNCHANGED <<globalWs, connecting, timers, subscriptions>>

\* unsubscribe(drop) then subscribe(add): tracked in any case, sent when OPEN.
Resubscribe(drop, add) ==
    /\ drop \cap add = {} /\ (IsOpen => Len(sk[globalWs].up) < MaxUp)
    /\ subscriptions' = (subscriptions \ drop) \cup add
    /\ sk' = IF IsOpen /\ drop \cup add # {}
             THEN [sk EXCEPT ![globalWs].up = Append(@, [drop |-> drop, add |-> add])]
             ELSE sk
    /\ UNCHANGED <<globalWs, connecting, timers, accessToken>>

\* The server takes the next frames of an open connection.
ServerReads(i) ==
    /\ sk[i].st = "open" /\ sk[i].up # <<>>
    /\ LET m == Head(sk[i].up) IN
       sk' = [sk EXCEPT ![i].up = Tail(@), ![i].subs = (@ \ m.drop) \cup m.add]
    /\ UNCHANGED <<globalWs, connecting, timers, subscriptions, accessToken>>

WsNext ==
    \/ Heartbeat \/ ReconnectTimer
    \/ \E i \in SockIds : OnOpen(i) \/ OnClose(i) \/ ServerReads(i)
    \/ \E t \in 0..MaxToken : TokenChanges(t)
    \/ \E drop, add \in SUBSET Resources : Resubscribe(drop, add)

\* Timers and the heartbeat's interval fire, a connection attempt ends, and so
\* does a closing handshake.
WsFairness ==
    /\ WF_wsVars(ReconnectTimer) /\ WF_wsVars(Heartbeat)
    /\ \A i \in SockIds : WF_wsVars(OnOpen(i)) /\ WF_wsVars(sk[i].st = "closing" /\ OnClose(i))

-----------------------------------------------------------------------------
\* "Prevents multiple concurrent WebSocket connections" (useWebSocketSync.ts):
\* whatever mounts, heartbeats and reconnect timers call setupWebSocket, at most
\* one socket is not CLOSED, and no close event clears another socket's slot.
OneSocket ==
    /\ Cardinality({i \in SockIds : sk[i].st # "closed"}) <= 1
    /\ globalWs # NoSock => sk[globalWs].st \in {"open", "closing"}

\* What a connection with the subscriptions subs ends up subscribed to when the
\* server has read the frames up: what the last frame about a resource says.
Told(subs, up) ==
    LET Stays(r, n) == \A m \in 1..Len(up) : m > n => r \notin up[m].drop
    IN  {r \in Resources :
            \/ r \in subs /\ Stays(r, 0)
            \/ \E n \in 1..Len(up) : r \in up[n].add /\ Stays(r, n)}

\* Once the server has read what was sent, an open connection is subscribed to
\* exactly what the browser tracks, across reconnects and lost frames.
SubscriptionsAgree ==
    \A i \in SockIds : sk[i].st = "open" => Told(sk[i].subs, sk[i].up) = subscriptions

\* No attempt fails, no connection is lost and no token changes in this step.
Steady ==
    /\ \A i \in SockIds : sk[i].st \in {"connecting", "open"} => sk'[i].st # "closed"
    /\ accessToken' = accessToken

\* Whatever the client has been through, once the network and the session are
\* steady it is connected, and stays so: no flag or timer that an earlier
\* failure left behind keeps it from trying (setupWebSocket, onclose).
Reconnects == <>[][Steady]_wsVars => <>[]IsOpen
=============================================================================
