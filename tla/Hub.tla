-------------------------------- MODULE Hub --------------------------------
(***************************************************************************)
(* Connections, sessions, subscriptions, chat and presence of the          *)
(* WebSocket hub (src/backend/internal/ws).                                *)
(*                                                                         *)
(* The processes are the hub's Run loop, the goroutine of its presence     *)
(* ticker, the conveyor workers that execute dispatched jobs, and the      *)
(* ReadPump and WritePump of every connection.  A step is one critical     *)
(* section (of mu, sessionMu or chatMu), one channel operation or one      *)
(* atomic store; between two steps any other process may run.              *)
(*                                                                         *)
(* A Client object is one connection: it registers once and unregisters    *)
(* once, so handleRegister never meets a known client and handleUnregister *)
(* never an unknown one.  Every connection is taken for a user of its own, *)
(* and sessions for no larger than the 100 users a presence frame lists.   *)
(***************************************************************************)
EXTENDS Integers, Sequences, FiniteSets

CONSTANTS
  Clients,           \* connections
  Keys,              \* subscription keys, "resource_type:resource_id"
  Workers,           \* goroutines of the conveyor pool
  NoClient,
  MaxConnections, SessionSize, MaxSubscriptions, ChatRingSize,   \* HubConfig
  SendCapacity,      \* capacity of Client.Send
  ChatCapacity,      \* capacity of the globalChat channel
  BeltCapacity,      \* capacity of the conveyor belt
  MaxChats,          \* bound on the messages users write
  Ticking            \* does the presence ticker fire in the time considered?

ASSUME HubAssumption ==
  /\ IsFiniteSet(Clients) /\ NoClient \notin Clients
  /\ MaxConnections \in Nat \ {0} /\ SessionSize \in Nat \ {0}
  /\ MaxSubscriptions \in Nat \ {0} /\ ChatRingSize \in Nat \ {0}
  /\ SendCapacity \in Nat \ {0} /\ ChatCapacity \in Nat \ {0}
  /\ BeltCapacity \in Nat \ {0}
  /\ MaxChats \in Nat /\ Ticking \in BOOLEAN

VARIABLES
  conn,            \* connection -> where its HandleConnection and pumps stand
  clients,         \* Hub.clients
  connCount,       \* Hub.connCount
  sessionOf,       \* Client.SessionID, 0 before registration
  sessions,        \* session -> active client count
  nextSession,
  chatRings,       \* session -> sessionChatRing
  subscriptions,   \* key -> connection -> times the connection is in its list
  clientSubs,      \* connection -> keys (the reverse index)
  register,        \* channel
  unregister,      \* channel
  globalChat,      \* channel of messages, each given by its session
  chats,           \* session of every message numbered so far: chat n is chats[n]
  presenceDirty,
  run,             \* where Run stands, with the client or job it works on
  ticker,          \* "wait", or "push" once it has claimed the dirty flag
  belt,            \* jobs on the conveyor belt
  work,            \* worker -> the job it executes and how far it is
  send,            \* connection -> frames in Client.Send
  lost,            \* connection -> has a frame been dropped for it?
  shown,           \* connection -> chat messages queued to it
  welcomed,        \* connections whose welcome job has ended
  view,            \* connection -> last presence list queued to it
  said             \* messages users have written

tableVars == <<clients, connCount, sessionOf, sessions, nextSession>>
subVars   == <<subscriptions, clientSubs>>
chatVars  == <<chatRings, chats>>
chanVars  == <<register, unregister, globalChat>>
poolVars  == <<belt, work>>
frameVars == <<send, lost, shown, view>>
vars == <<conn, tableVars, subVars, chatVars, chanVars, presenceDirty, run, ticker,
          poolVars, frameVars, welcomed, said>>

-----------------------------------------------------------------------------
(* Jobs, the chat ring, a client's Send channel.                           *)

Welcome(c)      == [kind |-> "welcome", client |-> c, session |-> 0]
ChatJob(s)      == [kind |-> "chat", client |-> NoClient, session |-> s]
PresenceJob     == [kind |-> "presence", client |-> NoClient, session |-> 0]

Selecting       == [at |-> "select", client |-> NoClient, job |-> PresenceJob]
RunAt(label, c) == [at |-> label, client |-> c, job |-> PresenceJob]
Dispatching(j)  == [at |-> "dispatch", client |-> NoClient, job |-> j]

Idle            == [at |-> "idle", job |-> PresenceJob, chat |-> 0, history |-> <<>>]

\* newSessionChatRing, push and history: a circular buffer of message numbers.
NewRing == [ring |-> [i \in 0..ChatRingSize - 1 |-> 0], head |-> 0, count |-> 0]

\* Mutant: count stays one below the size.
PushLost(r, n) ==
  [ring  |-> [r.ring EXCEPT ![r.head] = n],
   head  |-> (r.head + 1) % ChatRingSize,
   count |-> IF r.count < ChatRingSize - 1 THEN r.count + 1 ELSE r.count]

Push(r, n) ==
  [ring  |-> [r.ring EXCEPT ![r.head] = n],
   head  |-> (r.head + 1) % ChatRingSize,
   count |-> IF r.count < ChatRingSize THEN r.count + 1 ELSE r.count]

\* Mutant: reading starts at head, as if the buffer were always full.
HistoryFromHead(r) == [i \in 1..r.count |-> r.ring[(r.head + i - 1) % ChatRingSize]]

History(r) ==
  LET start == (r.head - r.count + ChatRingSize) % ChatRingSize
  IN  [i \in 1..r.count |-> r.ring[(start + i - 1) % ChatRingSize]]

Contents(h) == {h[i] : i \in DOMAIN h}

Closed(c) == conn[c] = "closed"

\* queueMessage for every client of cs: never blocks, drops when Send is full.
Queues(c) == ~Closed(c) /\ send[c] < SendCapacity

QueueMessage(cs) ==
  /\ send' = [c \in Clients |-> IF c \in cs /\ Queues(c) THEN send[c] + 1 ELSE send[c]]
  /\ lost' = [c \in Clients |->
                lost[c] \/ (c \in cs /\ ~Closed(c) /\ send[c] = SendCapacity)]

\* SendGlobalChat: never blocks, drops the message when the channel is full.
SendGlobalChat(s) ==
  globalChat' = IF Len(globalChat) < ChatCapacity THEN Append(globalChat, s)
                                                  ELSE globalChat

Members(s) == {c \in clients : sessionOf[c] = s}

-----------------------------------------------------------------------------
Init ==
  /\ conn = [c \in Clients |-> "new"]
  /\ clients = {} /\ connCount = 0
  /\ sessionOf = [c \in Clients |-> 0]
  /\ sessions = [s \in {} |-> 0] /\ nextSession = 0
  /\ chatRings = [s \in {} |-> NewRing] /\ chats = <<>>
  /\ subscriptions = [k \in Keys |-> [c \in Clients |-> 0]]
  /\ clientSubs = [c \in Clients |-> {}]
  /\ register = <<>> /\ unregister = <<>> /\ globalChat = <<>>
  /\ presenceDirty = FALSE
  /\ run = Selecting
  /\ ticker = "wait"
  /\ belt = <<>>
  /\ work = [w \in Workers |-> Idle]
  /\ send = [c \in Clients |-> 0]
  /\ lost = [c \in Clients |-> FALSE]
  /\ shown = [c \in Clients |-> {}]
  /\ welcomed = {}
  /\ view = [c \in Clients |-> {}]
  /\ said = 0

-----------------------------------------------------------------------------
(* Connections: HandleConnection, ReadPump, WritePump.                     *)

\* The upgraded connection asks the hub to register it and waits.
Connect(c) ==
  /\ conn[c] = "new"
  /\ conn' = [conn EXCEPT ![c] = "waiting"]
  /\ register' = Append(register, c)
  /\ UNCHANGED <<tableVars, subVars, chatVars, unregister, globalChat, presenceDirty,
                 run, ticker, poolVars, frameVars, welcomed, said>>

\* ReadPump ends (peer gone, deadline, bad frame): close, then unregister.  What
\* was in Send is lost with the connection.
Hangup(c) ==
  /\ conn[c] = "open"
  /\ conn' = [conn EXCEPT ![c] = "closed"]
  /\ unregister' = Append(unregister, c)
  /\ send' = [send EXCEPT ![c] = 0]
  /\ lost' = [lost EXCEPT ![c] = FALSE]
  /\ shown' = [shown EXCEPT ![c] = {}]
  /\ view' = [view EXCEPT ![c] = {}]
  /\ welcomed' = welcomed \ {c}
  /\ UNCHANGED <<tableVars, subVars, chatVars, register, globalChat, presenceDirty,
                 run, ticker, poolVars, said>>

\* WritePump takes one frame.
Write(c) ==
  /\ conn[c] = "open" /\ send[c] > 0
  /\ send' = [send EXCEPT ![c] = @ - 1]
  /\ UNCHANGED <<conn, tableVars, subVars, chatVars, chanVars, presenceDirty, run,
                 ticker, poolVars, lost, shown, view, welcomed, said>>

\* A user writes into the session's chat.
Say(c) ==
  /\ conn[c] = "open" /\ said < MaxChats
  /\ said' = said + 1
  /\ SendGlobalChat(sessionOf[c])
  /\ UNCHANGED <<conn, tableVars, subVars, chatVars, register, unregister,
                 presenceDirty, run, ticker, poolVars, frameVars, welcomed>>

\* Mutant: a client may be listed twice under one key.
SubscribeTwice(c, k) ==
  /\ conn[c] = "open" /\ c \in clients
  /\ Cardinality(clientSubs[c] \cup {k}) <= MaxSubscriptions
  /\ subscriptions[k][c] < 2
  /\ subscriptions' = [subscriptions EXCEPT ![k][c] = @ + 1]
  /\ clientSubs' = [clientSubs EXCEPT ![c] = @ \cup {k}]
  /\ UNCHANGED <<conn, tableVars, chatVars, chanVars, presenceDirty, run, ticker,
                 poolVars, frameVars, welcomed, said>>

\* Mutant: the limit is tested after the key was added.
SubscribeOneMore(c, k) ==
  /\ conn[c] = "open" /\ c \in clients
  /\ k \notin clientSubs[c]
  /\ Cardinality(clientSubs[c]) <= MaxSubscriptions
  /\ subscriptions' = [subscriptions EXCEPT ![k][c] = @ + 1]
  /\ clientSubs' = [clientSubs EXCEPT ![c] = @ \cup {k}]
  /\ UNCHANGED <<conn, tableVars, chatVars, chanVars, presenceDirty, run, ticker,
                 poolVars, frameVars, welcomed, said>>

\* handleSubscribe for an authorised key: only a registered client below its
\* limit is added; a key it already has changes nothing.
Subscribe(c, k) ==
  /\ conn[c] = "open" /\ c \in clients
  /\ k \notin clientSubs[c]
  /\ Cardinality(clientSubs[c]) < MaxSubscriptions
  /\ subscriptions' = [subscriptions EXCEPT ![k][c] = @ + 1]
  /\ clientSubs' = [clientSubs EXCEPT ![c] = @ \cup {k}]
  /\ UNCHANGED <<conn, tableVars, chatVars, chanVars, presenceDirty, run, ticker,
                 poolVars, frameVars, welcomed, said>>

\* handleUnsubscribe: an unknown key changes nothing.
Unsubscribe(c, k) ==
  /\ conn[c] = "open"
  /\ \E d \in Clients : subscriptions[k][d] > 0
  /\ subscriptions' = [subscriptions EXCEPT ![k][c] = 0]
  /\ clientSubs' = [clientSubs EXCEPT ![c] = @ \ {k}]
  /\ UNCHANGED <<conn, tableVars, chatVars, chanVars, presenceDirty, run, ticker,
                 poolVars, frameVars, welcomed, said>>

-----------------------------------------------------------------------------
(* Run.                                                                    *)

\* handleRegister at the connection limit, and the negative reply.
Reject ==
  /\ run.at = "select" /\ register # <<>>
  /\ connCount >= MaxConnections
  /\ conn' = [conn EXCEPT ![Head(register)] = "rejected"]
  /\ register' = Tail(register)
  /\ UNCHANGED <<tableVars, subVars, chatVars, unregister, globalChat, presenceDirty,
                 run, ticker, poolVars, frameVars, welcomed, said>>

\* Sessions that still have room.
RoomySessions == {s \in DOMAIN sessions : sessions[s] < SessionSize}

Join(c, s) ==
  /\ sessionOf' = [sessionOf EXCEPT ![c] = s]
  /\ sessions' = [t \in DOMAIN sessions \cup {s} |->
                    IF t = s THEN (IF s \in DOMAIN sessions THEN sessions[s] + 1 ELSE 1)
                    ELSE sessions[t]]
  /\ chatRings' = [t \in DOMAIN chatRings \cup {s} |->
                     IF t \in DOMAIN chatRings THEN chatRings[t] ELSE NewRing]

\* Mutant: a new session takes the smallest number that is free.
PlaceReusing(c) ==
  \/ /\ RoomySessions # {}
     /\ \E s \in RoomySessions : Join(c, s)
     /\ UNCHANGED nextSession
  \/ /\ RoomySessions = {}
     /\ Join(c, CHOOSE s \in 1..(nextSession + 1) : s \notin DOMAIN sessions)
     /\ nextSession' = nextSession + 1

\* Mutant: a session is full one client too late.
PlaceOneMore(c) ==
  \/ \E s \in DOMAIN sessions :
       sessions[s] <= SessionSize /\ Join(c, s) /\ UNCHANGED nextSession
  \/ /\ RoomySessions = {}
     /\ Join(c, nextSession + 1)
     /\ nextSession' = nextSession + 1

\* Any session with room, found in map order, or a new one.
Place(c) ==
  \/ /\ RoomySessions # {}
     /\ \E s \in RoomySessions : Join(c, s)
     /\ UNCHANGED nextSession
  \/ /\ RoomySessions = {}
     /\ Join(c, nextSession + 1)
     /\ nextSession' = nextSession + 1

\* handleRegister: place the client and add it to the tables.
Register ==
  /\ run.at = "select" /\ register # <<>>
  /\ connCount < MaxConnections
  /\ register' = Tail(register)
  /\ Place(Head(register))
  /\ clients' = clients \cup {Head(register)}
  /\ connCount' = connCount + 1
  /\ run' = RunAt("announce", Head(register))
  /\ UNCHANGED <<conn, subVars, chats, unregister, globalChat, presenceDirty, ticker,
                 poolVars, frameVars, welcomed, said>>

\* The join message, then the positive reply, on which the pumps start.
Announce ==
  /\ run.at = "announce"
  /\ SendGlobalChat(sessionOf[run.client])
  /\ conn' = [conn EXCEPT ![run.client] = "open"]
  /\ run' = Dispatching(Welcome(run.client))
  /\ UNCHANGED <<tableVars, subVars, chatVars, register, unregister, presenceDirty,
                 ticker, poolVars, frameVars, welcomed, said>>

\* Mutant: the belt has no capacity.
DispatchUnbounded ==
  /\ run.at = "dispatch"
  /\ belt' = Append(belt, run.job)
  /\ run' = Selecting
  /\ UNCHANGED <<conn, tableVars, subVars, chatVars, chanVars, presenceDirty, ticker,
                 work, frameVars, welcomed, said>>

\* dispatch: blocks while the belt is full.
Dispatch ==
  /\ run.at = "dispatch" /\ Len(belt) < BeltCapacity
  /\ belt' = Append(belt, run.job)
  /\ run' = Selecting
  /\ UNCHANGED <<conn, tableVars, subVars, chatVars, chanVars, presenceDirty, ticker,
                 work, frameVars, welcomed, said>>

TakeChat ==
  /\ run.at = "select" /\ globalChat # <<>>
  /\ run' = Dispatching(ChatJob(Head(globalChat)))
  /\ globalChat' = Tail(globalChat)
  /\ UNCHANGED <<conn, tableVars, subVars, chatVars, register, unregister,
                 presenceDirty, ticker, poolVars, frameVars, welcomed, said>>

\* Mutant: the counter is not decremented.
ForgetClientKeepsCount ==
  /\ run.at = "select" /\ unregister # <<>>
  /\ clients' = clients \ {Head(unregister)}
  /\ unregister' = Tail(unregister)
  /\ run' = RunAt("session", Head(unregister))
  /\ UNCHANGED <<conn, connCount, sessionOf, sessions, nextSession, subVars, chatVars,
                 register, globalChat, presenceDirty, ticker, poolVars, frameVars,
                 welcomed, said>>

\* handleUnregister, first section of mu.
ForgetClient ==
  /\ run.at = "select" /\ unregister # <<>>
  /\ clients' = clients \ {Head(unregister)}
  /\ connCount' = connCount - 1
  /\ unregister' = Tail(unregister)
  /\ run' = RunAt("session", Head(unregister))
  /\ UNCHANGED <<conn, sessionOf, sessions, nextSession, subVars, chatVars, register,
                 globalChat, presenceDirty, ticker, poolVars, frameVars, welcomed, said>>

Without(f, s) == [t \in DOMAIN f \ {s} |-> f[t]]

\* Mutant: the emptied session's ring stays.
LeaveSessionKeepsRing ==
  /\ run.at = "session"
  /\ LET s == sessionOf[run.client]
     IN  sessions' = IF sessions[s] <= 1 THEN Without(sessions, s)
                     ELSE [sessions EXCEPT ![s] = @ - 1]
  /\ run' = RunAt("subs", run.client)
  /\ UNCHANGED <<conn, clients, connCount, sessionOf, nextSession, subVars, chatVars,
                 chanVars, presenceDirty, ticker, poolVars, frameVars, welcomed, said>>

\* handleUnregister under sessionMu: free the slot; the last client to leave
\* takes the session and its ring away.
LeaveSession ==
  /\ run.at = "session"
  /\ LET s == sessionOf[run.client]
     IN  \/ /\ sessions[s] <= 1
            /\ sessions' = Without(sessions, s)
            /\ chatRings' = Without(chatRings, s)
         \/ /\ sessions[s] > 1
            /\ sessions' = [sessions EXCEPT ![s] = @ - 1]
            /\ UNCHANGED chatRings
  /\ run' = RunAt("subs", run.client)
  /\ UNCHANGED <<conn, clients, connCount, sessionOf, nextSession, subVars, chats,
                 chanVars, presenceDirty, ticker, poolVars, frameVars, welcomed, said>>

\* Mutant: only the reverse index is cleared.
DropSubscriptionsIndex ==
  /\ run.at = "subs"
  /\ clientSubs' = [clientSubs EXCEPT ![run.client] = {}]
  /\ run' = RunAt("leave", run.client)
  /\ UNCHANGED <<conn, tableVars, subscriptions, chatVars, chanVars, presenceDirty,
                 ticker, poolVars, frameVars, welcomed, said>>

\* handleUnregister, second section of mu: clean up along the reverse index.
DropSubscriptions ==
  /\ run.at = "subs"
  /\ subscriptions' = [k \in Keys |->
       IF k \in clientSubs[run.client]
       THEN [subscriptions[k] EXCEPT ![run.client] = 0] ELSE subscriptions[k]]
  /\ clientSubs' = [clientSubs EXCEPT ![run.client] = {}]
  /\ run' = RunAt("leave", run.client)
  /\ UNCHANGED <<conn, tableVars, chatVars, chanVars, presenceDirty, ticker, poolVars,
                 frameVars, welcomed, said>>

\* Mutant: presence is not marked dirty.
LeaveQuietly ==
  /\ run.at = "leave"
  /\ SendGlobalChat(sessionOf[run.client])
  /\ run' = Selecting
  /\ UNCHANGED <<conn, tableVars, subVars, chatVars, register, unregister,
                 presenceDirty, ticker, poolVars, frameVars, welcomed, said>>

\* The leave message and markPresenceDirty.
Leave ==
  /\ run.at = "leave"
  /\ SendGlobalChat(sessionOf[run.client])
  /\ presenceDirty' = TRUE
  /\ run' = Selecting
  /\ UNCHANGED <<conn, tableVars, subVars, chatVars, register, unregister, ticker,
                 poolVars, frameVars, welcomed, said>>

-----------------------------------------------------------------------------
(* The presence ticker.                                                    *)

\* CompareAndSwap(1, 0) on a tick.
Tick ==
  /\ Ticking /\ ticker = "wait" /\ presenceDirty
  /\ presenceDirty' = FALSE
  /\ ticker' = "push"
  /\ UNCHANGED <<conn, tableVars, subVars, chatVars, chanVars, run, poolVars, frameVars,
                 welcomed, said>>

TickDispatch ==
  /\ ticker = "push" /\ Len(belt) < BeltCapacity
  /\ belt' = Append(belt, PresenceJob)
  /\ ticker' = "wait"
  /\ UNCHANGED <<conn, tableVars, subVars, chatVars, chanVars, presenceDirty, run, work,
                 frameVars, welcomed, said>>

-----------------------------------------------------------------------------
(* Conveyor workers.                                                       *)

Take(w) ==
  /\ work[w].at = "idle" /\ belt # <<>>
  /\ work' = [work EXCEPT ![w] = [Idle EXCEPT !.at = "start", !.job = Head(belt)]]
  /\ belt' = Tail(belt)
  /\ UNCHANGED <<conn, tableVars, subVars, chatVars, chanVars, presenceDirty, run,
                 ticker, frameVars, welcomed, said>>

\* handleGlobalChat under chatMu: number the message and keep it, if its
\* session still has a ring.
NumberChat(w) ==
  /\ work[w].at = "start" /\ work[w].job.kind = "chat"
  /\ LET n == Len(chats) + 1
         s == work[w].job.session
     IN  /\ chats' = Append(chats, s)
         /\ chatRings' = IF s \in DOMAIN chatRings
                         THEN [chatRings EXCEPT ![s] = Push(@, n)] ELSE chatRings
         /\ work' = [work EXCEPT ![w] = [@ EXCEPT !.at = "fan", !.chat = n]]
  /\ UNCHANGED <<conn, tableVars, subVars, chanVars, presenceDirty, run, ticker, belt,
                 frameVars, welcomed, said>>

\* Mutant: the message goes to every client.
FanOutEverywhere(w) ==
  /\ work[w].at = "fan"
  /\ QueueMessage(clients)
  /\ shown' = [c \in Clients |->
       IF c \in clients /\ Queues(c) THEN shown[c] \cup {work[w].chat} ELSE shown[c]]
  /\ work' = [work EXCEPT ![w] = Idle]
  /\ UNCHANGED <<conn, tableVars, subVars, chatVars, chanVars, presenceDirty, run,
                 ticker, belt, view, welcomed, said>>

\* handleGlobalChat under mu: fan out to the session's clients.
FanOut(w) ==
  /\ work[w].at = "fan"
  /\ LET cs == Members(work[w].job.session)
     IN  /\ QueueMessage(cs)
         /\ shown' = [c \in Clients |->
              IF c \in cs /\ Queues(c) THEN shown[c] \cup {work[w].chat} ELSE shown[c]]
  /\ work' = [work EXCEPT ![w] = Idle]
  /\ UNCHANGED <<conn, tableVars, subVars, chatVars, chanVars, presenceDirty, run,
                 ticker, belt, view, welcomed, said>>

\* sendChatHistory under chatMu: copy the ring, if there is one.
CopyHistory(w) ==
  /\ work[w].at = "start" /\ work[w].job.kind = "welcome"
  /\ LET s == sessionOf[work[w].job.client]
         h == IF s \in DOMAIN chatRings THEN History(chatRings[s]) ELSE <<>>
     IN  work' = [work EXCEPT ![w] = [@ EXCEPT !.at = "history", !.history = h]]
  /\ UNCHANGED <<conn, tableVars, subVars, chatVars, chanVars, presenceDirty, run,
                 ticker, belt, frameVars, welcomed, said>>

\* Queue a history that is not empty, then markPresenceDirty.
SendHistory(w) ==
  /\ work[w].at = "history"
  /\ LET c  == work[w].job.client
         cs == IF work[w].history = <<>> THEN {} ELSE {c}
     IN  /\ QueueMessage(cs)
         /\ shown' = [shown EXCEPT ![c] =
                        IF Queues(c) THEN @ \cup Contents(work[w].history) ELSE @]
         /\ welcomed' = IF Closed(c) THEN welcomed ELSE welcomed \cup {c}
  /\ presenceDirty' = TRUE
  /\ work' = [work EXCEPT ![w] = Idle]
  /\ UNCHANGED <<conn, tableVars, subVars, chatVars, chanVars, run, ticker, belt, view,
                 said>>

\* doPresenceBroadcast: every client gets the list of its session.
BroadcastPresence(w) ==
  /\ work[w].at = "start" /\ work[w].job.kind = "presence"
  /\ QueueMessage(clients)
  /\ view' = [c \in Clients |->
       IF c \in clients /\ Queues(c) THEN Members(sessionOf[c]) ELSE view[c]]
  /\ work' = [work EXCEPT ![w] = Idle]
  /\ UNCHANGED <<conn, tableVars, subVars, chatVars, chanVars, presenceDirty, run,
                 ticker, belt, shown, welcomed, said>>

-----------------------------------------------------------------------------
(* The specification.                                                      *)

RunStep ==
  \/ Reject \/ Register \/ Announce \/ Dispatch \/ TakeChat
  \/ ForgetClient \/ LeaveSession \/ DropSubscriptions \/ Leave

TickerStep == Tick \/ TickDispatch

WorkerStep(w) ==
  \/ Take(w) \/ NumberChat(w) \/ FanOut(w)
  \/ CopyHistory(w) \/ SendHistory(w) \/ BroadcastPresence(w)

PumpStep(c) ==
  \/ Connect(c) \/ Hangup(c) \/ Write(c) \/ Say(c)
  \/ \E k \in Keys : Subscribe(c, k) \/ Unsubscribe(c, k)

Next ==
  \/ RunStep
  \/ TickerStep
  \/ \E w \in Workers : WorkerStep(w)
  \/ \E c \in Clients : PumpStep(c)

Spec == Init /\ [][Next]_vars

\* The Go scheduler runs every goroutine that can run: the Run loop, the ticker
\* and the pool.  Nothing is assumed of peers.
Fairness ==
  /\ WF_vars(RunStep)
  /\ WF_vars(TickerStep)
  /\ \A w \in Workers : WF_vars(WorkerStep(w))

FairSpec == Spec /\ Fairness

-----------------------------------------------------------------------------
(* Properties.                                                             *)

Jobs == [kind : {"welcome", "chat", "presence"}, client : Clients \cup {NoClient},
         session : Nat]

Rings == [ring : [0..ChatRingSize - 1 -> Nat], head : 0..ChatRingSize - 1,
          count : 0..ChatRingSize]

TablesOK ==
  /\ clients \subseteq Clients
  /\ connCount \in Int
  /\ sessionOf \in [Clients -> Nat]
  /\ DOMAIN sessions \subseteq 1..nextSession
  /\ sessions \in [DOMAIN sessions -> Nat \ {0}]
  /\ nextSession \in Nat

SubsOK ==
  /\ subscriptions \in [Keys -> [Clients -> Nat]]
  /\ clientSubs \in [Clients -> SUBSET Keys]

ChatOK ==
  /\ chatRings \in [DOMAIN chatRings -> Rings]
  /\ chats \in Seq(Nat)

ConnOK ==
  /\ conn \in [Clients -> {"new", "waiting", "open", "closed", "rejected"}]
  /\ register \in Seq(Clients) /\ unregister \in Seq(Clients)

ChannelOK == globalChat \in Seq(Nat) /\ Len(globalChat) <= ChatCapacity

RunStates ==
  [at : {"select", "announce", "dispatch", "session", "subs", "leave"},
   client : Clients \cup {NoClient}, job : Jobs]

LoopsOK ==
  /\ presenceDirty \in BOOLEAN
  /\ run \in RunStates
  /\ ticker \in {"wait", "push"}

WorkStates ==
  [at : {"idle", "start", "fan", "history"}, job : Jobs, chat : Nat, history : Seq(Nat)]

PoolOK ==
  /\ belt \in Seq(Jobs) /\ Len(belt) <= BeltCapacity
  /\ work \in [Workers -> WorkStates]

FramesOK ==
  /\ send \in [Clients -> 0..SendCapacity]
  /\ lost \in [Clients -> BOOLEAN]
  /\ shown \in [Clients -> SUBSET Nat]
  /\ view \in [Clients -> SUBSET Clients]
  /\ welcomed \subseteq Clients \cup {NoClient}
  /\ said \in 0..MaxChats

\* Every table, channel and goroutine has its type; no channel exceeds its
\* capacity.
TypeOK ==
  /\ TablesOK /\ SubsOK /\ ChatOK /\ ConnOK /\ ChannelOK
  /\ LoopsOK /\ PoolOK /\ FramesOK

\* Clients that occupy a slot of session s: the registered ones, and one that
\* handleUnregister has taken from clients but not yet from its session.
Holders(s) ==
  {c \in Clients : /\ sessionOf[c] = s
                   /\ c \in clients \/ (run.at = "session" /\ run.client = c)}

\* The connection counter is the number of registered clients and never passes
\* the limit (handleRegister, handleUnregister).
ConnectionsCounted ==
  connCount = Cardinality(clients) /\ connCount <= MaxConnections

\* A session's count is the number of clients that occupy it, within
\* SessionSize, and every occupied session exists: no slot is lost or freed
\* twice although the two tables are updated under different locks.
SessionsAccounted ==
  /\ \A s \in DOMAIN sessions :
       sessions[s] = Cardinality(Holders(s)) /\ sessions[s] \in 1..SessionSize
  /\ \A c \in clients : sessionOf[c] \in DOMAIN sessions

\* A session has a chat ring exactly as long as it exists: an emptied session
\* leaves no ring behind and no late message brings one back.
RingsFollowSessions == DOMAIN chatRings = DOMAIN sessions

\* The subscriber lists and the reverse index say the same, without duplicates.
SubscriptionsMatch ==
  \A k \in Keys, c \in Clients :
    subscriptions[k][c] = IF k \in clientSubs[c] THEN 1 ELSE 0

\* Only clients that are registered, or in the middle of handleUnregister,
\* hold subscriptions, and each within MaxSubscriptions.
NoStaleSubscriber ==
  \A c \in Clients :
    /\ Cardinality(clientSubs[c]) <= MaxSubscriptions
    /\ clientSubs[c] # {} => \/ c \in clients
                             \/ run.at \in {"session", "subs"} /\ run.client = c

\* Chat never crosses sessions: whatever is queued to a client, live or as
\* history, was written in the session it belongs to, although messages of
\* sessions that have ended may still be under way.
SessionIsolation ==
  \A c \in Clients : \A n \in shown[c] : chats[n] = sessionOf[c]

\* A session that has ended never comes back: a new session has a number no
\* client was ever given, so messages still under way for an old one cannot
\* reach the newcomers.
SessionsNeverReopened ==
  [][\A s \in DOMAIN sessions' \ DOMAIN sessions :
       \A c \in Clients : sessionOf[c] # s]_vars

\* A session's ring holds its latest messages, oldest first, whichever worker
\* numbered them and however often the buffer has wrapped around: only a full
\* ring has forgotten messages of its session, and those are older than its own.
RingIsRecentChat ==
  \A s \in DOMAIN chatRings :
    LET h == History(chatRings[s])
    IN  /\ \A i, j \in DOMAIN h : i < j => h[i] < h[j]
        /\ \A n \in Contents(h) : n \in DOMAIN chats /\ chats[n] = s
        /\ \A n \in DOMAIN chats :
             chats[n] = s /\ n \notin Contents(h) =>
               Len(h) = ChatRingSize /\ \A m \in Contents(h) : n < m

\* A client for which no frame was dropped has, once welcomed, been sent every
\* message its session still remembers, live or as history, however its
\* registration interleaves with messages being numbered and fanned out.
ChatComplete ==
  \A c \in clients \cap welcomed :
    conn[c] = "open" /\ ~lost[c] =>
      \A n \in Contents(History(chatRings[sessionOf[c]])) :
        n \in shown[c] \/ \E w \in Workers : work[w].at = "fan" /\ work[w].chat = n

\* Once nobody connects or leaves any more, every client for which no frame
\* was dropped has the true list of its session.
PresenceConverges ==
  <>[](\A c \in clients : conn[c] = "open" /\ ~lost[c] => view[c] = Members(sessionOf[c]))

\* The hub forgets every client that hangs up: its entry, its slot, its
\* subscriptions.
ClosedIsForgotten ==
  \A c \in Clients :
    conn[c] = "closed" ~> /\ c \notin clients
                          /\ c \notin Holders(sessionOf[c])
                          /\ \A k \in Keys : subscriptions[k][c] = 0

=============================================================================
