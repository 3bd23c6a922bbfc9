------------------------------ MODULE PeerMesh ------------------------------
(***************************************************************************)
(* Voice between two browsers on one route without a media server          *)
(* (lib/webrtc/WebRTCManager.ts and PeerSession.ts, the manager used       *)
(* unless LiveKit or the opt-in v2 is on). Each browser opens a session    *)
(* when presence shows it the other, says hello, and the two negotiate by  *)
(* offers and answers relayed over the socket; offers may cross, signals   *)
(* get lost while a socket is down, sessions that do not connect are       *)
(* replaced. The RTCPeerConnection underneath is external.                 *)
(***************************************************************************)
EXTENDS Naturals, Sequences, FiniteSets

CONSTANTS
    MaxTracks,      \* bound: changes of a browser's local tracks
    MaxTrouble,     \* bound: signals lost, arrivals, departures and guests barred
    MaxQueue,       \* bound: signals on their way to a browser
    Generations,    \* bound: sessions of a browser told apart (0: all of them)
    None

VARIABLES
    here,       \* is the browser on the route?
    sees,       \* does its presence list show the other?
    tracks,     \* version of its local tracks
    sess,       \* its PeerSession with the other, or None
    born,       \* sessions it has opened, modulo Generations
    queue,      \* its SignalQueue: signals and negotiations, run in order
    wire,       \* signals on their way to it
    closing,    \* pendingCloses: the 5 s timer for a peer no longer present
    guests,     \* permissions.guestsAllowed of the route
    lost, moves

meshVars == <<here, sees, tracks, sess, born, queue, wire, closing, guests, lost, moves>>

Peers == {1, 2}
Other(p) == 3 - p
polite(p) == p < Other(p)
Guest == 1          \* a guest's id is negative: the lower of the two

Signal(k, g, v) == [kind |-> k, gen |-> g, ver |-> v]

\* A session: its signalling state, needsNegotiation, the tracks its offers have
\* carried, the peer session and tracks the remote description is of, and the
\* state of the connection.  (ICE candidates belong to the connection.)
Sessions ==
    [gen : Nat, sig : {"stable", "offering"}, needs : BOOLEAN, sent : Nat,
     peer : Nat \cup {None}, got : Nat, state : {"new", "connected", "failed"}]
NewSession(g) ==
    [gen |-> g, sig |-> "stable", needs |-> FALSE, sent |-> 0, peer |-> None, got |-> 0,
     state |-> "new"]

ASSUME MeshAssumption ==
    /\ MaxTracks \in Nat /\ MaxTrouble \in Nat /\ MaxQueue \in Nat
    /\ Generations \in Nat /\ None \notin Nat /\ None \notin Sessions

\* Both have just come to the route.
MeshInit ==
    /\ here = [p \in Peers |-> TRUE] /\ sees = [p \in Peers |-> FALSE]
    /\ tracks \in [Peers -> 0..1]
    /\ sess = [p \in Peers |-> None] /\ born = [p \in Peers |-> 0]
    /\ queue = [p \in Peers |-> <<>>] /\ wire = [p \in Peers |-> <<>>]
    /\ closing = [p \in Peers |-> FALSE] /\ guests = TRUE /\ lost = 0 /\ moves = 0

\* The users the panel connects to: present, and not a guest where none may be.
validUser(p) == sees[p] /\ (Other(p) = Guest => guests)

\* sendVoiceSignal: the signal goes to the socket, or is dropped when that is
\* not open, and by the hub when a guest sends it where none may be.
Sends(p, ms) ==
    \/ p = Guest /\ ~guests /\ UNCHANGED <<wire, lost>>
    \/ (p = Guest => guests) /\ Len(wire[Other(p)] \o ms) <= MaxQueue /\ wire' = [wire EXCEPT ![Other(p)] = @ \o ms] /\ UNCHANGED lost
    \/ (p = Guest => guests) /\ ms # <<>> /\ lost + moves < MaxTrouble /\ lost' = lost + 1 /\ UNCHANGED wire

\* negotiate: remembered, and a task of the queue.
Negotiate == [kind |-> "negotiate"]
Negotiates(s) == [s EXCEPT !.needs = TRUE]

-----------------------------------------------------------------------------
(* Sessions.                                                               *)

\* The number of its next session.
NextGen(p) == IF Generations = 0 THEN born[p] + 1 ELSE (born[p] + 1) % Generations

\* ensureConnection: a session is made once; with local tracks it publishes and
\* negotiates at once.
Opened(p) ==
    LET s == NewSession(NextGen(p)) IN IF tracks[p] > 0 THEN Negotiates(s) ELSE s
Opening(p) == IF tracks[p] > 0 THEN <<Negotiate>> ELSE <<>>

\* The panel's effect: everybody present without a session is greeted.
ensureConnection(p) ==
    /\ here[p] /\ validUser(p) /\ sess[p] = None
    /\ sess' = [sess EXCEPT ![p] = Opened(p)]
    /\ born' = [born EXCEPT ![p] = NextGen(p)]
    /\ queue' = [queue EXCEPT ![p] = Opening(p)]
    /\ Sends(p, <<Signal("hello", NextGen(p), 0)>>)
    /\ UNCHANGED <<here, sees, tracks, closing, guests, moves>>

\* closePeer and closeAll: connection, timers and queue go; nobody is told.
Closed(p) ==
    /\ sess' = [sess EXCEPT ![p] = None] /\ queue' = [queue EXCEPT ![p] = <<>>]
    /\ closing' = [closing EXCEPT ![p] = FALSE]

\* A signal arrives.  A leave closes; a hello opens a session where there is
\* none and negotiates; the rest is queued on the session, opened if need be.
handleSignal(p) ==
    /\ wire[p] # <<>> /\ wire' = [wire EXCEPT ![p] = Tail(@)]
    /\ UNCHANGED <<here, sees, tracks, guests, lost, moves>>
    /\ LET m == Head(wire[p])
           s == IF sess[p] = None THEN Opened(p) ELSE sess[p]
           q == IF sess[p] = None THEN Opening(p) ELSE queue[p]
       IN  IF ~here[p] THEN UNCHANGED <<sess, born, queue, closing>>
           ELSE IF m.kind = "leave" THEN Closed(p) /\ UNCHANGED born
           ELSE /\ Len(q) < MaxQueue
                /\ sess' = [sess EXCEPT ![p] = IF m.kind = "hello" THEN Negotiates(s) ELSE s]
                /\ queue' = [queue EXCEPT ![p] = Append(q, IF m.kind = "hello" THEN Negotiate ELSE m)]
                /\ born' = [born EXCEPT ![p] = IF sess[p] = None THEN NextGen(p) ELSE @]
                /\ UNCHANGED closing

-----------------------------------------------------------------------------
(* The session's queue.                                                    *)

\* A mutant of triggerNegotiation: a wish it cannot serve yet is forgotten.
triggerOnce(p) ==
    /\ queue[p] # <<>> /\ Head(queue[p]).kind = "negotiate"
    /\ queue' = [queue EXCEPT ![p] = Tail(@)]
    /\ IF sess[p].needs /\ sess[p].sig = "stable"
       THEN /\ sess' = [sess EXCEPT ![p] = [@ EXCEPT !.needs = FALSE, !.sig = "offering", !.sent = tracks[p]]]
            /\ Sends(p, <<Signal("offer", sess[p].gen, tracks[p])>>)
       ELSE sess' = [sess EXCEPT ![p].needs = FALSE] /\ UNCHANGED <<wire, lost>>
    /\ UNCHANGED <<here, sees, tracks, born, closing, guests, moves>>

\* triggerNegotiation: an offer, when one is wanted and none is open.
triggerNegotiation(p) ==
    /\ queue[p] # <<>> /\ Head(queue[p]).kind = "negotiate"
    /\ queue' = [queue EXCEPT ![p] = Tail(@)]
    /\ IF sess[p].needs /\ sess[p].sig = "stable"
       THEN /\ sess' = [sess EXCEPT ![p] = [@ EXCEPT !.needs = FALSE, !.sig = "offering", !.sent = tracks[p]]]
            /\ Sends(p, <<Signal("offer", sess[p].gen, tracks[p])>>)
       ELSE UNCHANGED <<sess, wire, lost>>
    /\ UNCHANGED <<here, sees, tracks, born, closing, guests, moves>>

\* A task that ends with negotiation still wanted queues it again.
Again(p, s) ==
    queue' = [queue EXCEPT ![p] = IF s.needs THEN Append(Tail(@), Negotiate) ELSE Tail(@)]
Described(s, m) == [s EXCEPT !.peer = m.gen, !.got = m.ver, !.sig = "stable"]

\* An offer that crosses our own: the impolite side ignores it, the polite one
\* takes its own back and will offer again.
offerCollision(p) == sess[p].sig # "stable"
OnOffer(p) ==
    /\ queue[p] # <<>> /\ Head(queue[p]).kind = "offer"
    /\ UNCHANGED <<here, sees, tracks, born, closing, guests, moves>>
    /\ LET m == Head(queue[p]) IN
       IF ~polite(p) /\ offerCollision(p)
       THEN queue' = [queue EXCEPT ![p] = Tail(@)] /\ UNCHANGED <<sess, wire, lost>>
       ELSE LET s == Described([sess[p] EXCEPT !.needs = @ \/ offerCollision(p)], m) IN
            /\ sess' = [sess EXCEPT ![p] = s] /\ Again(p, s)
            /\ \E v \in {s.sent, tracks[p]} : Sends(p, <<Signal("answer", s.gen, v)>>)

\* An answer to no offer is an error that is only logged.
OnAnswer(p) ==
    /\ queue[p] # <<>> /\ Head(queue[p]).kind = "answer"
    /\ LET s == IF sess[p].sig = "offering" THEN Described(sess[p], Head(queue[p])) ELSE sess[p] IN
       /\ sess' = [sess EXCEPT ![p] = s]
       /\ IF sess[p].sig = "offering" THEN Again(p, s) ELSE queue' = [queue EXCEPT ![p] = Tail(@)]
    /\ UNCHANGED <<here, sees, tracks, born, wire, closing, guests, lost, moves>>

\* broadcastTracks and removeTracks: the tracks of every session, and an offer.
broadcastTracks(p) ==
    /\ tracks[p] < MaxTracks /\ tracks' = [tracks EXCEPT ![p] = @ + 1]
    /\ IF sess[p] = None THEN UNCHANGED <<sess, queue>>
       ELSE /\ Len(queue[p]) < MaxQueue
            /\ sess' = [sess EXCEPT ![p] = Negotiates(@)]
            /\ queue' = [queue EXCEPT ![p] = Append(@, Negotiate)]
    /\ UNCHANGED <<here, sees, born, wire, closing, guests, lost, moves>>

-----------------------------------------------------------------------------
(* The connection (external), the one-second sync and its healing.         *)

Matched(p) ==
    /\ sess[p] # None /\ sess[Other(p)] # None
    /\ sess[p].peer = sess[Other(p)].gen /\ sess[Other(p)].peer = sess[p].gen
Quiet(p) == queue[p] = <<>> /\ wire[p] = <<>>
Calm == \A p \in Peers : Quiet(p)

ConnectionStateChanges(p) ==
    /\ sess[p] # None
    /\ LET st == IF Matched(p) THEN "connected" ELSE "failed" IN
       /\ sess[p].state # st /\ (st = "failed" => sess[p].state = "connected")
       /\ sess' = [sess EXCEPT ![p].state = st]
    /\ UNCHANGED <<here, sees, tracks, born, queue, wire, closing, guests, lost, moves>>

\* A mutant of syncActivePeers: only a peer that is back is noticed.
syncReturningPeers(p) ==
    /\ here[p] /\ sess[p] # None /\ closing[p] /\ validUser(p)
    /\ closing' = [closing EXCEPT ![p] = FALSE]
    /\ UNCHANGED <<here, sees, tracks, sess, born, queue, wire, guests, lost, moves>>
\* syncActivePeers: a peer that is no longer present gets a timer, one that is
\* back loses it; a session that failed or has not connected in 2 or 5 seconds,
\* is replaced.  (Both timers are longer than signals, and the connection
\* of a pair whose descriptions match, take.)
syncActivePeers(p) ==
    /\ here[p] /\ sess[p] # None /\ closing[p] = validUser(p)
    /\ closing' = [closing EXCEPT ![p] = ~validUser(p)]
    /\ UNCHANGED <<here, sees, tracks, sess, born, queue, wire, guests, lost, moves>>
handlePendingCloseTimeout(p) ==
    /\ closing[p] /\ (IF guests THEN Calm ELSE Quiet(p)) /\ Closed(p)
    /\ UNCHANGED <<here, sees, tracks, born, wire, guests, lost, moves>>
\* A mutant of Heal: the replaced session does not say hello.
HealSilently(p) ==
    /\ here[p] /\ sess[p] # None /\ validUser(p) /\ sess[p].state # "connected" /\ Calm /\ ~Matched(p)
    /\ sess' = [sess EXCEPT ![p] = Opened(p)]
    /\ born' = [born EXCEPT ![p] = NextGen(p)]
    /\ queue' = [queue EXCEPT ![p] = Opening(p)]
    /\ closing' = [closing EXCEPT ![p] = FALSE]
    /\ UNCHANGED <<here, sees, tracks, wire, guests, lost, moves>>
Heal(p) ==
    /\ here[p] /\ sess[p] # None /\ validUser(p) /\ sess[p].state # "connected" /\ Calm /\ ~Matched(p)
    /\ sess' = [sess EXCEPT ![p] = Opened(p)]
    /\ born' = [born EXCEPT ![p] = NextGen(p)]
    /\ queue' = [queue EXCEPT ![p] = Opening(p)]
    /\ closing' = [closing EXCEPT ![p] = FALSE]
    /\ Sends(p, <<Signal("hello", NextGen(p), 0)>>)
    /\ UNCHANGED <<here, sees, tracks, guests, moves>>

\* The user comes to the route, or goes: the manager closes all its peers.
Moves(p) ==
    /\ lost + moves < MaxTrouble /\ moves' = moves + 1
    /\ here' = [here EXCEPT ![p] = ~@] /\ sees' = [sees EXCEPT ![p] = FALSE] /\ Closed(p)
    /\ UNCHANGED <<tracks, born, wire, guests, lost>>
\* Guests are no longer allowed: their peers are closed, and told so.
dropGuests ==
    /\ guests /\ lost + moves < MaxTrouble /\ moves' = moves + 1
    /\ guests' = FALSE
    /\ LET p == Other(Guest) IN
       IF sess[p] = None THEN UNCHANGED <<sess, queue, wire, closing, lost>>
       ELSE Closed(p) /\ Sends(p, <<Signal("leave", 0, 0)>>)
    /\ UNCHANGED <<here, sees, tracks, born>>
\* presence:update reaches a browser.
PresenceUpdate(p) ==
    /\ here[p] /\ sees[p] # here[Other(p)]
    /\ sees' = [sees EXCEPT ![p] = here[Other(p)]]
    /\ UNCHANGED <<here, tracks, sess, born, queue, wire, closing, guests, lost, moves>>

MeshTask(p) == triggerNegotiation(p) \/ OnOffer(p) \/ OnAnswer(p)
MeshTimer(p) == syncActivePeers(p) \/ handlePendingCloseTimeout(p)
Progress(p) == ensureConnection(p) \/ handleSignal(p) \/ MeshTask(p) \/ MeshTimer(p)
MeshNext ==
    \/ dropGuests
    \/ \E p \in Peers :
          \/ Progress(p) \/ Heal(p) \/ ConnectionStateChanges(p) \/ PresenceUpdate(p)
          \/ broadcastTracks(p) \/ Moves(p)

\* Timers, tasks and deliveries of each browser go on, in any order, and so do
\* the events of its connection and of presence; users need not do anything.
\* The age of a session only grows, so its healing is not put off for ever.
MeshFairness ==
    \A p \in Peers :
        /\ WF_meshVars(Progress(p)) /\ WF_meshVars(ConnectionStateChanges(p))
        /\ WF_meshVars(PresenceUpdate(p)) /\ SF_meshVars(Heal(p))
MeshSpec == MeshInit /\ [][MeshNext]_meshVars /\ MeshFairness

-----------------------------------------------------------------------------
\* Negotiation ends with both sides knowing all of each other's tracks
\* (PeerSession): whatever crossed, once nothing is under way and no signal was
\* lost or refused, a connected pair has no open offer, no forgotten negotiation, and each
\* has a description of the other's present tracks.
NegotiationAgrees ==
    Calm /\ lost = 0 /\ guests /\ Matched(1) =>
        \A p \in Peers : sess[p].sig = "stable" /\ ~sess[p].needs /\ sess[p].got = tracks[Other(p)]

\* Two browsers that stay on a route end up connected, even if signals of the
\* first negotiation are lost (syncActivePeers heals).
EventuallyConnected ==
    <>[](guests /\ \A p \in Peers : here[p]) => <>[](\A p \in Peers : sess[p] # None /\ sess[p].state = "connected")

\* A session does not outlive the other's presence, nor a guest's admission, in
\* spite of signals still on their way (handlePendingCloseTimeout).
SessionsFollowPresence ==
    \A p \in Peers : <>[](~here[Other(p)] \/ (Other(p) = Guest /\ ~guests)) => <>[](sess[p] = None)
=============================================================================
