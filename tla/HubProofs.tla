----------------------------- MODULE HubProofs -----------------------------
(***************************************************************************)
(* Proofs about Hub: type correctness, the accounting of connections,      *)
(* sessions and subscriptions, and the freshness of session numbers; then  *)
(* its chat: the circular buffer holds the latest messages, chat never     *)
(* crosses sessions, and a client for which no frame was dropped misses no *)
(* message.                                                                *)
(***************************************************************************)
EXTENDS Hub, FiniteSetTheorems, TLAPS

\* Run works on a client in the states between two selects.
RunInv ==
  run.at \in {"announce", "session", "subs", "leave"} => run.client \in Clients

\* The inductive strengthening of TypeOK.
TypeInv == TypeOK /\ RunInv

-----------------------------------------------------------------------------
(* What the operators return.                                              *)

\* An index into the circular buffer stays within it.
LEMMA ModRange ==
  ASSUME NEW a \in Int, NEW n \in Nat \ {0}
  PROVE  a % n \in 0..n - 1
  OBVIOUS

\* The records of Run, of a worker and of the jobs have their types.
LEMMA Records ==
  ASSUME NEW c \in Clients, NEW s \in Nat, NEW j \in Jobs
  PROVE  /\ Welcome(c) \in Jobs /\ ChatJob(s) \in Jobs /\ PresenceJob \in Jobs
         /\ RunAt("announce", c).client = c
  BY DEF Welcome, ChatJob, PresenceJob, Jobs, RunAt

\* The fields of a ring.
LEMMA RingFields ==
  ASSUME NEW r \in Rings
  PROVE  /\ r.head \in 0..ChatRingSize - 1 /\ r.head \in Int
         /\ r.count \in 0..ChatRingSize /\ r.count \in Nat
         /\ r.ring \in [0..ChatRingSize - 1 -> Nat]
         /\ ChatRingSize \in Nat \ {0}
  BY HubAssumption DEF Rings

\* push keeps a ring a ring.
LEMMA PushType ==
  ASSUME NEW r \in Rings, NEW n \in Nat
  PROVE  Push(r, n) \in Rings
<1>1. (r.head + 1) % ChatRingSize \in 0..ChatRingSize - 1
  <2>1. r.head + 1 \in Int
    BY RingFields
  <2> QED BY <2>1, RingFields, ModRange
<1>2. [r.ring EXCEPT ![r.head] = n] \in [0..ChatRingSize - 1 -> Nat]
  BY RingFields
<1>3. (IF r.count < ChatRingSize THEN r.count + 1 ELSE r.count) \in 0..ChatRingSize
  BY RingFields
<1> QED
  BY <1>1, <1>2, <1>3 DEF Push, Rings

\* A new ring is a ring.
LEMMA NewRingType == NewRing \in Rings
  BY HubAssumption DEF NewRing, Rings

\* history returns a sequence of message numbers.
LEMMA HistoryType ==
  ASSUME NEW r \in Rings
  PROVE  History(r) \in Seq(Nat)
<1> DEFINE start == (r.head - r.count + ChatRingSize) % ChatRingSize
<1>1. start \in Int
  <2>1. r.head - r.count + ChatRingSize \in Int
    BY RingFields
  <2>2. start \in 0..ChatRingSize - 1
    BY <2>1, RingFields, ModRange
  <2> QED BY <2>2
<1>2. ASSUME NEW i \in 1..r.count
      PROVE  r.ring[(start + i - 1) % ChatRingSize] \in Nat
  <2> HIDE DEF start
  <2>1. start + i - 1 \in Int
    BY <1>1, RingFields
  <2>2. (start + i - 1) % ChatRingSize \in 0..ChatRingSize - 1
    BY <2>1, RingFields, ModRange
  <2> QED BY <2>2, RingFields
<1> DEFINE out == [i \in 1..r.count |-> r.ring[(start + i - 1) % ChatRingSize]]
<1>3. History(r) = out
  BY DEF History
<1>4. out \in [1..r.count -> Nat]
  BY <1>2
<1> HIDE DEF out
<1> QED
  BY <1>3, <1>4, RingFields

-----------------------------------------------------------------------------
(* Type correctness.                                                       *)

\* The initial tables, channels and goroutines have their types.
LEMMA TypeInit == Init => TypeInv
<1> SUFFICES ASSUME Init PROVE TypeInv
  OBVIOUS
<1>1. TablesOK /\ SubsOK /\ ConnOK
  BY DEF Init, TablesOK, SubsOK, ConnOK
<1>2. ChatOK /\ ChannelOK
  BY HubAssumption DEF Init, ChatOK, ChannelOK
<1>3. LoopsOK /\ RunInv
  BY DEF Init, Selecting, PresenceJob, Jobs, RunInv, LoopsOK, RunStates
<1>4. PoolOK
  <2>1. Idle \in WorkStates
    BY DEF Idle, PresenceJob, Jobs, WorkStates
  <2> QED
    BY <2>1, HubAssumption DEF Init, PoolOK
<1>5. FramesOK
  BY HubAssumption DEF Init, FramesOK
<1> QED
  BY <1>1, <1>2, <1>3, <1>4, <1>5 DEF TypeInv, TypeOK

\* SendGlobalChat keeps the channel within its capacity.
LEMMA ChatChannel ==
  ASSUME TypeOK, NEW s \in Nat, SendGlobalChat(s)
  PROVE  ChannelOK'
<1>1. globalChat \in Seq(Nat) /\ Len(globalChat) <= ChatCapacity /\ ChatCapacity \in Nat
  BY HubAssumption DEF TypeOK, ChannelOK
<1>2. CASE Len(globalChat) < ChatCapacity
  BY <1>1, <1>2 DEF SendGlobalChat, ChannelOK
<1>3. CASE ~(Len(globalChat) < ChatCapacity)
  BY <1>1, <1>3 DEF SendGlobalChat, ChannelOK
<1> QED BY <1>2, <1>3

\* queueMessage keeps every Send channel within its capacity.
LEMMA QueueType ==
  ASSUME TypeOK, NEW cs, QueueMessage(cs)
  PROVE  send' \in [Clients -> 0..SendCapacity] /\ lost' \in [Clients -> BOOLEAN]
<1>1. send' \in [Clients -> 0..SendCapacity]
  BY HubAssumption DEF TypeOK, FramesOK, QueueMessage, Queues
<1>2. lost' \in [Clients -> BOOLEAN]
  BY DEF TypeOK, FramesOK, QueueMessage
<1> QED BY <1>1, <1>2

\* Joining a session keeps the session tables well-formed.
LEMMA JoinType ==
  ASSUME TypeOK, NEW c \in Clients, NEW s \in Nat \ {0}, s <= nextSession',
         nextSession' \in Nat, nextSession <= nextSession', Join(c, s)
  PROVE  /\ sessionOf' \in [Clients -> Nat]
         /\ DOMAIN sessions' \subseteq 1..nextSession'
         /\ sessions' \in [DOMAIN sessions' -> Nat \ {0}]
         /\ chatRings' \in [DOMAIN chatRings' -> Rings]
<1> USE DEF TypeOK, TablesOK, ChatOK
<1>1. sessionOf' \in [Clients -> Nat]
  BY DEF Join
<1>2. DOMAIN sessions' = DOMAIN sessions \cup {s}
      /\ DOMAIN chatRings' = DOMAIN chatRings \cup {s}
  BY DEF Join
<1>3. sessions' \in [DOMAIN sessions' -> Nat \ {0}]
  BY <1>2 DEF Join
<1>4. chatRings' \in [DOMAIN chatRings' -> Rings]
  BY <1>2, NewRingType DEF Join
<1> QED BY <1>1, <1>2, <1>3, <1>4

\* Placing a client does so too.
LEMMA PlaceType ==
  ASSUME TypeOK, NEW c \in Clients, Place(c)
  PROVE  /\ sessionOf' \in [Clients -> Nat]
         /\ nextSession' \in Nat
         /\ DOMAIN sessions' \subseteq 1..nextSession'
         /\ sessions' \in [DOMAIN sessions' -> Nat \ {0}]
         /\ chatRings' \in [DOMAIN chatRings' -> Rings]
<1>1. nextSession \in Nat /\ DOMAIN sessions \subseteq 1..nextSession
  BY DEF TypeOK, TablesOK
<1>2. CASE \E s \in RoomySessions : Join(c, s) /\ UNCHANGED nextSession
  <2>1. PICK s \in RoomySessions : Join(c, s) /\ UNCHANGED nextSession
    BY <1>2
  <2>2. s \in Nat \ {0} /\ s <= nextSession' /\ nextSession' = nextSession
    BY <1>1, <2>1 DEF RoomySessions
  <2> QED BY <1>1, <2>1, <2>2, JoinType
<1>3. CASE Join(c, nextSession + 1) /\ nextSession' = nextSession + 1
  BY <1>1, <1>3, JoinType
<1> QED BY <1>2, <1>3 DEF Place

\* The parts of the type invariant that a step leaves alone.
LEMMA TypeFrame ==
  /\ TablesOK /\ UNCHANGED tableVars => TablesOK'
  /\ SubsOK /\ UNCHANGED subVars => SubsOK'
  /\ ChatOK /\ UNCHANGED chatVars => ChatOK'
  /\ ConnOK /\ UNCHANGED <<conn, register, unregister>> => ConnOK'
  /\ ChannelOK /\ UNCHANGED globalChat => ChannelOK'
  /\ LoopsOK /\ UNCHANGED <<presenceDirty, run, ticker>> => LoopsOK'
  /\ PoolOK /\ UNCHANGED poolVars => PoolOK'
  /\ FramesOK /\ UNCHANGED <<frameVars, welcomed, said>> => FramesOK'
  /\ RunInv /\ UNCHANGED run => RunInv'
<1>1. TablesOK /\ UNCHANGED tableVars => TablesOK'
  BY DEF TablesOK, tableVars
<1>2. SubsOK /\ UNCHANGED subVars => SubsOK'
  BY DEF SubsOK, subVars
<1>3. ChatOK /\ UNCHANGED chatVars => ChatOK'
  BY DEF ChatOK, chatVars
<1>4. ConnOK /\ UNCHANGED <<conn, register, unregister>> => ConnOK'
  BY DEF ConnOK
<1>5. ChannelOK /\ UNCHANGED globalChat => ChannelOK'
  BY DEF ChannelOK
<1>6. LoopsOK /\ UNCHANGED <<presenceDirty, run, ticker>> => LoopsOK'
  BY DEF LoopsOK
<1>7. PoolOK /\ UNCHANGED poolVars => PoolOK'
  BY DEF PoolOK, poolVars
<1>8. FramesOK /\ UNCHANGED <<frameVars, welcomed, said>> => FramesOK'
  BY DEF FramesOK, frameVars
<1>9. RunInv /\ UNCHANGED run => RunInv'
  BY DEF RunInv
<1> QED
  BY <1>1, <1>2, <1>3, <1>4, <1>5, <1>6, <1>7, <1>8, <1>9

\* Every step keeps every type.
LEMMA TypeStep == TypeInv /\ [Next]_vars => TypeInv'
<1> SUFFICES ASSUME TypeInv, [Next]_vars PROVE TypeInv'
  OBVIOUS
<1> USE DEF TypeInv, TypeOK
<1>1. ASSUME NEW c \in Clients, Connect(c) PROVE TypeInv'
  <2>1. ConnOK'
    BY <1>1 DEF Connect, ConnOK
  <2> QED
    BY <1>1, <2>1, TypeFrame DEF Connect, chatVars, chanVars, poolVars, frameVars
<1>2. ASSUME NEW c \in Clients, Hangup(c) PROVE TypeInv'
  <2>1. ConnOK'
    BY <1>2 DEF Hangup, ConnOK
  <2>2. FramesOK'
    BY <1>2, HubAssumption DEF Hangup, FramesOK
  <2> QED
    BY <1>2, <2>1, <2>2, TypeFrame DEF Hangup, chatVars, chanVars, poolVars, frameVars
<1>3. ASSUME NEW c \in Clients, Write(c) PROVE TypeInv'
  <2>1. FramesOK'
    BY <1>3, HubAssumption DEF Write, FramesOK
  <2> QED
    BY <1>3, <2>1, TypeFrame DEF Write, chatVars, chanVars, poolVars, frameVars
<1>4. ASSUME NEW c \in Clients, Say(c) PROVE TypeInv'
  <2>1. ChannelOK'
    BY <1>4, ChatChannel DEF Say, ChannelOK, TablesOK
  <2>2. FramesOK'
    BY <1>4, HubAssumption DEF Say, FramesOK, frameVars
  <2> QED
    BY <1>4, <2>1, <2>2, TypeFrame DEF Say, chatVars, chanVars, poolVars, frameVars
<1>5. ASSUME NEW c \in Clients, NEW k \in Keys, Subscribe(c, k) PROVE TypeInv'
  <2>1. SubsOK'
    BY <1>5 DEF Subscribe, SubsOK
  <2> QED
    BY <1>5, <2>1, TypeFrame DEF Subscribe, chatVars, chanVars, poolVars, frameVars
<1>6. ASSUME NEW c \in Clients, NEW k \in Keys, Unsubscribe(c, k) PROVE TypeInv'
  <2>1. SubsOK'
    BY <1>6 DEF Unsubscribe, SubsOK
  <2> QED
    BY <1>6, <2>1, TypeFrame DEF Unsubscribe, chatVars, chanVars, poolVars, frameVars
<1>7. ASSUME Reject PROVE TypeInv'
  <2>1. ConnOK'
    BY <1>7 DEF Reject, ConnOK
  <2> QED
    BY <1>7, <2>1, TypeFrame DEF Reject, chatVars, chanVars, poolVars, frameVars
<1>8. ASSUME Register PROVE TypeInv'
  <2>1. TablesOK'
    BY SMTT(30), <1>8, PlaceType DEF Register, TablesOK, ConnOK
  <2>2. ChatOK'
    BY <1>8, PlaceType DEF Register, ChatOK, ConnOK
  <2>3. ConnOK'
    BY <1>8 DEF Register, ConnOK
  <2>4. LoopsOK' /\ RunInv'
    BY <1>8 DEF Register, LoopsOK, RunInv, ConnOK, RunAt, RunStates, PresenceJob, Jobs
  <2> QED
    BY <1>8, <2>1, <2>2, <2>3, <2>4, TypeFrame DEF Register, chatVars, chanVars,
       poolVars, frameVars
<1>9. ASSUME Announce PROVE TypeInv'
  <2>1. ChannelOK'
    BY <1>9, ChatChannel DEF Announce, ChannelOK, TablesOK, RunInv
  <2>2. ConnOK'
    BY <1>9 DEF Announce, ConnOK, RunInv
  <2>3. LoopsOK' /\ RunInv'
    BY <1>9 DEF Announce, LoopsOK, RunInv, Dispatching, Welcome, RunStates, Jobs
  <2> QED
    BY <1>9, <2>1, <2>2, <2>3, TypeFrame DEF Announce, chatVars, chanVars, poolVars,
       frameVars
<1>10. ASSUME Dispatch PROVE TypeInv'
  <2>1. LoopsOK' /\ RunInv'
    BY <1>10 DEF Dispatch, LoopsOK, RunInv, Selecting, RunStates, PresenceJob, Jobs
  <2>2. PoolOK'
    BY <1>10, HubAssumption DEF Dispatch, PoolOK, LoopsOK, RunStates
  <2> QED
    BY <1>10, <2>1, <2>2, TypeFrame DEF Dispatch, chatVars, chanVars, poolVars, frameVars
<1>11. ASSUME TakeChat PROVE TypeInv'
  <2>1. ChannelOK'
    <3>1. Tail(globalChat) \in Seq(Nat) /\ Len(Tail(globalChat)) = Len(globalChat) - 1
      BY <1>11 DEF TakeChat, ChannelOK
    <3> QED
      BY <1>11, <3>1, HubAssumption DEF TakeChat, ChannelOK
  <2>2. LoopsOK' /\ RunInv'
    BY <1>11 DEF TakeChat, LoopsOK, RunInv, ChannelOK, Dispatching, ChatJob, RunStates, Jobs
  <2> QED
    BY <1>11, <2>1, <2>2, TypeFrame DEF TakeChat, chatVars, chanVars, poolVars, frameVars
<1>12. ASSUME ForgetClient PROVE TypeInv'
  <2>1. TablesOK'
    BY <1>12 DEF ForgetClient, TablesOK
  <2>2. ConnOK'
    BY <1>12 DEF ForgetClient, ConnOK
  <2>3. LoopsOK' /\ RunInv'
    BY <1>12 DEF ForgetClient, LoopsOK, RunInv, ConnOK, RunAt, RunStates, PresenceJob, Jobs
  <2> QED
    BY <1>12, <2>1, <2>2, <2>3, TypeFrame DEF ForgetClient, chatVars, chanVars,
       poolVars, frameVars
<1>13. ASSUME LeaveSession PROVE TypeInv'
  <2>1. TablesOK'
    BY <1>13 DEF LeaveSession, TablesOK, Without
  <2>2. ChatOK'
    BY <1>13 DEF LeaveSession, ChatOK, Without
  <2>3. LoopsOK' /\ RunInv'
    BY <1>13 DEF LeaveSession, LoopsOK, RunInv, RunAt, RunStates, PresenceJob, Jobs
  <2> QED
    BY <1>13, <2>1, <2>2, <2>3, TypeFrame DEF LeaveSession, chatVars, chanVars,
       poolVars, frameVars
<1>14. ASSUME DropSubscriptions PROVE TypeInv'
  <2>1. SubsOK'
    BY <1>14 DEF DropSubscriptions, SubsOK
  <2>2. LoopsOK' /\ RunInv'
    BY <1>14 DEF DropSubscriptions, LoopsOK, RunInv, RunAt, RunStates, PresenceJob, Jobs
  <2> QED
    BY <1>14, <2>1, <2>2, TypeFrame DEF DropSubscriptions, chatVars, chanVars,
       poolVars, frameVars
<1>15. ASSUME Leave PROVE TypeInv'
  <2>1. ChannelOK'
    BY <1>15, ChatChannel DEF Leave, ChannelOK, TablesOK, RunInv
  <2>2. LoopsOK' /\ RunInv'
    BY <1>15 DEF Leave, LoopsOK, RunInv, Selecting, RunStates, PresenceJob, Jobs
  <2> QED
    BY <1>15, <2>1, <2>2, TypeFrame DEF Leave, chatVars, chanVars, poolVars, frameVars
<1>16. ASSUME Tick PROVE TypeInv'
  <2>1. LoopsOK'
    BY <1>16 DEF Tick, LoopsOK
  <2> QED
    BY <1>16, <2>1, TypeFrame DEF Tick, chatVars, chanVars, poolVars, frameVars
<1>17. ASSUME TickDispatch PROVE TypeInv'
  <2>1. LoopsOK'
    BY <1>17 DEF TickDispatch, LoopsOK
  <2>2. PoolOK'
    BY <1>17, HubAssumption DEF TickDispatch, PoolOK, PresenceJob, Jobs
  <2> QED
    BY <1>17, <2>1, <2>2, TypeFrame DEF TickDispatch, chatVars, chanVars, poolVars,
       frameVars
<1>18. ASSUME NEW w \in Workers, Take(w) PROVE TypeInv'
  <2>1. PoolOK'
    <3>1. Tail(belt) \in Seq(Jobs) /\ Len(Tail(belt)) = Len(belt) - 1
          /\ Head(belt) \in Jobs
      BY <1>18 DEF Take, PoolOK
    <3>2. [Idle EXCEPT !.at = "start", !.job = Head(belt)] \in WorkStates
      <4>1. Idle \in WorkStates
        BY DEF Idle, PresenceJob, Jobs, WorkStates
      <4> QED
        BY <3>1, <4>1 DEF WorkStates
    <3>3. work' \in [Workers -> WorkStates]
      BY <1>18, <3>2 DEF Take, PoolOK
    <3> QED
      BY <1>18, <3>1, <3>3, HubAssumption DEF Take, PoolOK
  <2> QED
    BY <1>18, <2>1, TypeFrame DEF Take, chatVars, chanVars, poolVars, frameVars
<1>19. ASSUME NEW w \in Workers, NumberChat(w) PROVE TypeInv'
  <2>1. ChatOK'
    <3>1. work[w].job.session \in Nat
      BY DEF PoolOK, WorkStates, Jobs
    <3>2. chats' \in Seq(Nat)
      BY <1>19, <3>1 DEF NumberChat, ChatOK
    <3>3. CASE work[w].job.session \notin DOMAIN chatRings
      BY <1>19, <3>2, <3>3 DEF NumberChat, ChatOK
    <3>4. CASE work[w].job.session \in DOMAIN chatRings
      <4>1. Push(chatRings[work[w].job.session], Len(chats) + 1) \in Rings
        BY <3>4, PushType DEF ChatOK
      <4> QED
        BY <1>19, <3>2, <3>4, <4>1 DEF NumberChat, ChatOK
    <3> QED BY <3>3, <3>4
  <2>2. PoolOK'
    <3>1. [work[w] EXCEPT !.at = "fan", !.chat = Len(chats) + 1] \in WorkStates
      <4>1. Len(chats) + 1 \in Nat
        BY DEF ChatOK
      <4> QED
        BY <4>1 DEF PoolOK, WorkStates
    <3> QED
      BY <1>19, <3>1 DEF NumberChat, PoolOK
  <2> QED
    BY <1>19, <2>1, <2>2, TypeFrame DEF NumberChat, chatVars, chanVars, poolVars, frameVars
<1>20. ASSUME NEW w \in Workers, FanOut(w) PROVE TypeInv'
  <2>1. FramesOK'
    BY <1>20, QueueType DEF FanOut, FramesOK, PoolOK, WorkStates
  <2>2. PoolOK'
    BY <1>20 DEF FanOut, PoolOK, Idle, WorkStates, PresenceJob, Jobs
  <2> QED
    BY <1>20, <2>1, <2>2, TypeFrame DEF FanOut, chatVars, chanVars, poolVars, frameVars
<1>21. ASSUME NEW w \in Workers, CopyHistory(w) PROVE TypeInv'
  <2>1. PoolOK'
    <3> DEFINE s == sessionOf[work[w].job.client]
               h == IF s \in DOMAIN chatRings THEN History(chatRings[s]) ELSE <<>>
    <3>1. h \in Seq(Nat)
      BY HistoryType DEF ChatOK
    <3>2. work' = [work EXCEPT ![w] = [@ EXCEPT !.at = "history", !.history = h]]
      BY <1>21 DEF CopyHistory
    <3> HIDE DEF h
    <3>3. [work[w] EXCEPT !.at = "history", !.history = h] \in WorkStates
      BY <3>1 DEF PoolOK, WorkStates
    <3> QED
      BY <1>21, <3>2, <3>3 DEF CopyHistory, PoolOK
  <2> QED
    BY <1>21, <2>1, TypeFrame DEF CopyHistory, chatVars, chanVars, poolVars, frameVars
<1>22. ASSUME NEW w \in Workers, SendHistory(w) PROVE TypeInv'
  <2>1. FramesOK'
    <3> DEFINE c == work[w].job.client
    <3>1. Contents(work[w].history) \subseteq Nat
      BY DEF Contents, PoolOK, WorkStates
    <3>2. send' \in [Clients -> 0..SendCapacity] /\ lost' \in [Clients -> BOOLEAN]
      BY <1>22, QueueType DEF SendHistory
    <3>3. shown' \in [Clients -> SUBSET Nat]
      BY <1>22, <3>1 DEF SendHistory, FramesOK
    <3>4. c \in Clients \cup {NoClient}
      BY DEF PoolOK, WorkStates, Jobs
    <3>5. welcomed' \subseteq Clients \cup {NoClient}
      BY <1>22, <3>4 DEF SendHistory, FramesOK
    <3> QED
      BY <1>22, <3>2, <3>3, <3>5 DEF SendHistory, FramesOK
  <2>2. LoopsOK'
    BY <1>22 DEF SendHistory, LoopsOK
  <2>3. PoolOK'
    BY <1>22 DEF SendHistory, PoolOK, Idle, WorkStates, PresenceJob, Jobs
  <2> QED
    BY <1>22, <2>1, <2>2, <2>3, TypeFrame DEF SendHistory, chatVars, chanVars,
       poolVars, frameVars
<1>23. ASSUME NEW w \in Workers, BroadcastPresence(w) PROVE TypeInv'
  <2>1. FramesOK'
    BY <1>23, QueueType DEF BroadcastPresence, FramesOK, TablesOK, Members
  <2>2. PoolOK'
    BY <1>23 DEF BroadcastPresence, PoolOK, Idle, WorkStates, PresenceJob, Jobs
  <2> QED
    BY <1>23, <2>1, <2>2, TypeFrame DEF BroadcastPresence, chatVars, chanVars,
       poolVars, frameVars
<1>24. CASE UNCHANGED vars
  BY <1>24, TypeFrame DEF vars, chanVars
<1> QED
  BY <1>1, <1>2, <1>3, <1>4, <1>5, <1>6, <1>7, <1>8, <1>9, <1>10, <1>11, <1>12,
     <1>13, <1>14, <1>15, <1>16, <1>17, <1>18, <1>19, <1>20, <1>21, <1>22, <1>23,
     <1>24
  DEF Next, RunStep, TickerStep, WorkerStep, PumpStep

\* Every table, channel and goroutine of the hub keeps its type, and no channel
\* exceeds its capacity, for any number of clients and workers and any limits.
THEOREM TypeCorrect == Spec => []TypeOK
<1>1. Spec => []TypeInv
  BY TypeInit, TypeStep, PTL DEF Spec
<1>2. TypeInv => TypeOK
  BY DEF TypeInv
<1> QED
  BY <1>1, <1>2, PTL

-----------------------------------------------------------------------------
(* The life of a connection.                                               *)

\* Clients waiting in register are unknown to the hub, clients waiting in
\* unregister are known to it, and neither waits twice.
QueuesInv ==
  /\ \A i \in 1..Len(register) :
       conn[register[i]] = "waiting" /\ register[i] \notin clients
  /\ \A i, j \in 1..Len(register) : register[i] = register[j] => i = j
  /\ \A i \in 1..Len(unregister) :
       conn[unregister[i]] = "closed" /\ unregister[i] \in clients
  /\ \A i, j \in 1..Len(unregister) : unregister[i] = unregister[j] => i = j

\* A client is known from its registration until handleUnregister begins.
KnownInv ==
  /\ \A c \in Clients : conn[c] = "open" => c \in clients
  /\ \A c \in clients : /\ conn[c] \in {"waiting", "open", "closed"}
                        /\ conn[c] = "waiting" => run.at = "announce" /\ run.client = c
  /\ run.at = "announce" => run.client \in clients /\ conn[run.client] = "waiting"
  /\ run.at \in {"session", "subs", "leave"} => run.client \notin clients

\* The life of a connection, from its registration to its removal.
LifeInv == QueuesInv /\ KnownInv

\* Initially nobody is known.
LEMMA LifeInit == Init => LifeInv
  BY DEF Init, LifeInv, QueuesInv, KnownInv, Selecting

\* What Head and Tail are, index by index.
LEMMA HeadTail ==
  ASSUME NEW S, NEW q \in Seq(S), q # <<>>
  PROVE  /\ Head(q) = q[1] /\ 1 \in 1..Len(q) /\ q[1] \in S
         /\ Len(Tail(q)) = Len(q) - 1
         /\ \A i \in 1..Len(Tail(q)) : Tail(q)[i] = q[i + 1] /\ i + 1 \in 1..Len(q)
  OBVIOUS

\* Steps that neither move a connection nor touch the queues or clients.
LEMMA LifeFrame ==
  ASSUME LifeInv, UNCHANGED <<conn, clients, register, unregister, run>>
  PROVE  LifeInv'
  BY DEF LifeInv, QueuesInv, KnownInv

\* Every step keeps the life of connections in order.
LEMMA LifeStep == TypeInv /\ LifeInv /\ [Next]_vars => LifeInv'
<1> SUFFICES ASSUME TypeInv, LifeInv, [Next]_vars PROVE LifeInv'
  OBVIOUS
<1>0. /\ register \in Seq(Clients) /\ unregister \in Seq(Clients)
      /\ conn \in [Clients -> {"new", "waiting", "open", "closed", "rejected"}]
      /\ clients \subseteq Clients
  BY DEF TypeInv, TypeOK, ConnOK, TablesOK
<1>1. ASSUME NEW c \in Clients, Connect(c) PROVE LifeInv'
  <2>1. QueuesInv'
    <3>1. c \notin clients /\ \A i \in 1..Len(register) : register[i] # c
      BY <1>1 DEF Connect, LifeInv, QueuesInv, KnownInv
    <3>2. /\ Len(register') = Len(register) + 1
          /\ \A i \in 1..Len(register') :
               register'[i] = IF i <= Len(register) THEN register[i] ELSE c
      BY <1>0, <1>1 DEF Connect
    <3>3. \A i \in 1..Len(unregister) : unregister[i] # c
      BY <1>1 DEF Connect, LifeInv, QueuesInv
    <3> QED
      BY <1>0, <1>1, <3>1, <3>2, <3>3 DEF Connect, LifeInv, QueuesInv, tableVars
  <2>2. KnownInv'
    BY <1>0, <1>1 DEF Connect, LifeInv, QueuesInv, KnownInv, tableVars
  <2> QED BY <2>1, <2>2 DEF LifeInv
<1>2. ASSUME NEW c \in Clients, Hangup(c) PROVE LifeInv'
  <2>1. QueuesInv'
    BY <1>0, <1>2 DEF Hangup, LifeInv, QueuesInv, KnownInv, tableVars
  <2>2. KnownInv'
    BY <1>0, <1>2 DEF Hangup, LifeInv, QueuesInv, KnownInv, tableVars
  <2> QED BY <2>1, <2>2 DEF LifeInv
<1>3. ASSUME Reject PROVE LifeInv'
  <2>1. QueuesInv'
    BY <1>0, <1>3, HeadTail DEF Reject, LifeInv, QueuesInv, KnownInv, tableVars
  <2>2. KnownInv'
    BY <1>0, <1>3, HeadTail DEF Reject, LifeInv, QueuesInv, KnownInv, tableVars
  <2> QED BY <2>1, <2>2 DEF LifeInv
<1>4. ASSUME Register PROVE LifeInv'
  <2>1. QueuesInv'
    BY <1>0, <1>4, HeadTail DEF Register, LifeInv, QueuesInv
  <2>2. KnownInv'
    BY <1>0, <1>4, HeadTail DEF Register, LifeInv, QueuesInv, KnownInv, RunAt
  <2> QED BY <2>1, <2>2 DEF LifeInv
<1>5. ASSUME Announce PROVE LifeInv'
  <2>1. QueuesInv'
    BY <1>0, <1>5 DEF Announce, LifeInv, QueuesInv, KnownInv, tableVars
  <2>2. KnownInv'
    BY <1>0, <1>5 DEF Announce, LifeInv, KnownInv, tableVars, Dispatching
  <2> QED BY <2>1, <2>2 DEF LifeInv
<1>6. ASSUME ForgetClient PROVE LifeInv'
  <2>1. QueuesInv'
    BY <1>0, <1>6, HeadTail DEF ForgetClient, LifeInv, QueuesInv
  <2>2. KnownInv'
    BY <1>0, <1>6, HeadTail DEF ForgetClient, LifeInv, QueuesInv, KnownInv, RunAt
  <2> QED BY <2>1, <2>2 DEF LifeInv
<1>7. ASSUME Dispatch \/ TakeChat \/ Leave PROVE LifeInv'
  BY <1>7 DEF Dispatch, TakeChat, Leave, LifeInv, QueuesInv, KnownInv, tableVars,
     chanVars, Selecting, Dispatching
<1>8. ASSUME LeaveSession \/ DropSubscriptions PROVE LifeInv'
  BY <1>8 DEF LeaveSession, DropSubscriptions, LifeInv, QueuesInv, KnownInv, tableVars,
     chanVars, RunAt
<1>9. ASSUME NEW c \in Clients,
             Write(c) \/ Say(c) \/ \E k \in Keys : Subscribe(c, k) \/ Unsubscribe(c, k)
      PROVE  LifeInv'
  BY <1>9, LifeFrame DEF Write, Say, Subscribe, Unsubscribe, tableVars, chanVars
<1>10. ASSUME TickerStep PROVE LifeInv'
  BY <1>10, LifeFrame DEF TickerStep, Tick, TickDispatch, tableVars, chanVars
<1>11. ASSUME NEW w \in Workers, WorkerStep(w) PROVE LifeInv'
  BY <1>11, LifeFrame DEF WorkerStep, Take, NumberChat, FanOut, CopyHistory,
     SendHistory, BroadcastPresence, tableVars, chanVars
<1>12. CASE UNCHANGED vars
  BY <1>12, LifeFrame DEF vars, tableVars, chanVars
<1> QED
  BY <1>1, <1>2, <1>3, <1>4, <1>5, <1>6, <1>7, <1>8, <1>9, <1>10, <1>11, <1>12
  DEF Next, RunStep, PumpStep

-----------------------------------------------------------------------------
(* Connections and sessions are accounted for.                             *)

\* Clients that occupy a slot of some session.
Placed(c) == c \in clients \/ (run.at = "session" /\ run.client = c)

\* A session's counter is the number of clients that hold one of its slots.
SlotInv ==
  /\ \A s \in DOMAIN sessions :
       sessions[s] = Cardinality(Holders(s)) /\ sessions[s] <= SessionSize
  /\ \A c \in Clients : Placed(c) => sessionOf[c] \in DOMAIN sessions
  /\ \A c \in Clients : sessionOf[c] <= nextSession

\* The accounting of connections, sessions and rings.
AccountInv == ConnectionsCounted /\ SlotInv /\ RingsFollowSessions

\* Initially there are no connections and no sessions.
LEMMA AccountInit == Init => AccountInv
<1> SUFFICES ASSUME Init PROVE AccountInv
  OBVIOUS
<1>1. ConnectionsCounted
  BY FS_EmptySet, HubAssumption DEF Init, ConnectionsCounted
<1>2. SlotInv
  BY DEF Init, SlotInv, Placed, Selecting
<1> QED
  BY <1>1, <1>2 DEF Init, AccountInv, RingsFollowSessions

\* Steps that touch neither clients, sessions nor rings, and leave Run outside
\* the middle of handleUnregister.
LEMMA AccountFrame ==
  ASSUME AccountInv, UNCHANGED tableVars, DOMAIN chatRings' = DOMAIN chatRings,
         run' = run \/ (run.at # "session" /\ run'.at # "session")
  PROVE  AccountInv'
<1>1. \A s : Holders(s)' = Holders(s)
  BY DEF Holders, tableVars
<1>2. \A c \in Clients : Placed(c)' <=> Placed(c)
  BY DEF Placed, tableVars
<1>3. SlotInv'
  BY <1>1, <1>2 DEF AccountInv, SlotInv, tableVars
<1> QED
  BY <1>3 DEF AccountInv, ConnectionsCounted, RingsFollowSessions, tableVars

\* Any set of clients is finite.
LEMMA FiniteClients ==
  ASSUME NEW S \in SUBSET Clients
  PROVE  IsFiniteSet(S) /\ Cardinality(S) \in Nat
  BY FS_Subset, FS_CardinalityType, HubAssumption

\* What placing client c in session s does to the slots.
LEMMA JoinSlots ==
  ASSUME TypeInv, SlotInv, NEW c \in Clients, NEW s \in Nat \ {0},
         ~Placed(c), run.at # "session", run'.at # "session",
         Join(c, s), clients' = clients \cup {c},
         s \in DOMAIN sessions => sessions[s] < SessionSize,
         s \notin DOMAIN sessions => s = nextSession + 1,
         s <= nextSession', nextSession <= nextSession', nextSession' \in Nat
  PROVE  SlotInv'
<1>0. /\ sessionOf \in [Clients -> Nat] /\ nextSession \in Nat
      /\ sessions \in [DOMAIN sessions -> Nat \ {0}] /\ SessionSize \in Nat \ {0}
      /\ clients \subseteq Clients
  BY HubAssumption DEF TypeInv, TypeOK, TablesOK
<1>1. /\ sessionOf' = [sessionOf EXCEPT ![c] = s]
      /\ DOMAIN sessions' = DOMAIN sessions \cup {s}
      /\ \A t \in DOMAIN sessions' : t # s => sessions'[t] = sessions[t]
      /\ s \in DOMAIN sessions => sessions'[s] = sessions[s] + 1
      /\ s \notin DOMAIN sessions => sessions'[s] = 1
  BY DEF Join
<1>2. Holders(s)' = Holders(s) \cup {c} /\ c \notin Holders(s)
  BY <1>0, <1>1 DEF Holders, Placed
<1>3. ASSUME NEW t, t # s PROVE Holders(t)' = Holders(t)
  BY <1>0, <1>1, <1>3 DEF Holders, Placed
<1>4. IsFiniteSet(Holders(s)) /\ Cardinality(Holders(s)) \in Nat
      /\ Cardinality(Holders(s)') = Cardinality(Holders(s)) + 1
  <2>1. Holders(s) \in SUBSET Clients
    BY DEF Holders
  <2> QED
    BY <1>2, <2>1, FiniteClients, FS_AddElement
<1>5. s \notin DOMAIN sessions => Cardinality(Holders(s)) = 0
  <2>1. s \notin DOMAIN sessions => Holders(s) = {}
    BY <1>0 DEF SlotInv, Holders
  <2> QED
    BY <2>1, FS_EmptySet
<1>6. ASSUME NEW t \in DOMAIN sessions'
      PROVE  sessions'[t] = Cardinality(Holders(t)') /\ sessions'[t] <= SessionSize
  <2>1. CASE t # s
    BY <1>1, <1>3, <2>1 DEF SlotInv
  <2>2. CASE t = s /\ s \in DOMAIN sessions
    BY <1>0, <1>1, <1>4, <2>2 DEF SlotInv
  <2>3. CASE t = s /\ s \notin DOMAIN sessions
    BY <1>0, <1>1, <1>4, <1>5, <2>3
  <2> QED BY <2>1, <2>2, <2>3
<1>7. \A d \in Clients : Placed(d)' => sessionOf'[d] \in DOMAIN sessions'
  BY <1>0, <1>1 DEF SlotInv, Placed
<1>8. \A d \in Clients : sessionOf'[d] <= nextSession'
  BY <1>0, <1>1 DEF SlotInv
<1> QED
  BY <1>6, <1>7, <1>8 DEF SlotInv

\* handleRegister counts the new client and gives it a slot.
LEMMA RegisterAccount ==
  ASSUME TypeInv, LifeInv, AccountInv, Register
  PROVE  AccountInv'
<1> DEFINE c == Head(register)
<1>0. /\ clients \subseteq Clients /\ nextSession \in Nat
      /\ DOMAIN sessions \subseteq 1..nextSession
      /\ connCount \in Int /\ MaxConnections \in Nat
  BY HubAssumption DEF TypeInv, TypeOK, TablesOK
<1>1. c \in Clients /\ c \notin clients
  <2>1. register \in Seq(Clients) /\ register # <<>>
    BY DEF TypeInv, TypeOK, ConnOK, Register
  <2> QED
    BY <2>1, HeadTail DEF LifeInv, QueuesInv
<1>2. run.at = "select" /\ run'.at = "announce" /\ Place(c) /\ clients' = clients \cup {c}
      /\ connCount' = connCount + 1 /\ connCount < MaxConnections
  BY DEF Register, RunAt
<1> HIDE DEF c
<1>3. ConnectionsCounted'
  <2>1. Cardinality(clients \cup {c}) = Cardinality(clients) + 1
    BY <1>0, <1>1, FiniteClients, FS_AddElement
  <2> QED
    BY <1>0, <1>2, <2>1 DEF AccountInv, ConnectionsCounted
<1>4. ~Placed(c)
  BY <1>1, <1>2 DEF Placed
<1>5. SlotInv' /\ RingsFollowSessions'
  <2>1. CASE \E s \in RoomySessions : Join(c, s) /\ UNCHANGED nextSession
    <3>1. PICK s \in RoomySessions : Join(c, s) /\ UNCHANGED nextSession
      BY <2>1
    <3>2. s \in Nat \ {0} /\ s <= nextSession /\ s \in DOMAIN sessions
          /\ sessions[s] < SessionSize
      BY <1>0 DEF RoomySessions
    <3>3. SlotInv'
      BY <1>0, <1>1, <1>2, <1>4, <3>1, <3>2, JoinSlots DEF AccountInv
    <3>4. RingsFollowSessions'
      BY <3>1 DEF Join, AccountInv, RingsFollowSessions
    <3> QED BY <3>3, <3>4
  <2>2. CASE Join(c, nextSession + 1) /\ nextSession' = nextSession + 1
    <3>1. nextSession + 1 \in Nat \ {0} /\ nextSession + 1 \notin DOMAIN sessions
      BY <1>0
    <3>2. SlotInv'
      BY <1>0, <1>1, <1>2, <1>4, <2>2, <3>1, JoinSlots DEF AccountInv
    <3>3. RingsFollowSessions'
      BY <2>2 DEF Join, AccountInv, RingsFollowSessions
    <3> QED BY <3>2, <3>3
  <2> QED BY <1>2, <2>1, <2>2 DEF Place
<1> QED
  BY <1>3, <1>5 DEF AccountInv

\* The first section of handleUnregister keeps the slot until the second.
LEMMA ForgetAccount ==
  ASSUME TypeInv, LifeInv, AccountInv, ForgetClient
  PROVE  AccountInv'
<1> DEFINE c == Head(unregister)
<1>0. clients \subseteq Clients /\ connCount \in Int /\ MaxConnections \in Nat
  BY HubAssumption DEF TypeInv, TypeOK, TablesOK
<1>1. c \in clients
  <2>1. unregister \in Seq(Clients) /\ unregister # <<>>
    BY DEF TypeInv, TypeOK, ConnOK, ForgetClient
  <2> QED
    BY <2>1, HeadTail DEF LifeInv, QueuesInv
<1>2. /\ run.at = "select" /\ run'.at = "session" /\ run'.client = c
      /\ clients' = clients \ {c} /\ connCount' = connCount - 1
      /\ UNCHANGED <<sessionOf, sessions, nextSession, chatRings>>
  BY DEF ForgetClient, RunAt, chatVars
<1> HIDE DEF c
<1>3. ConnectionsCounted'
  <2>1. Cardinality(clients \ {c}) = Cardinality(clients) - 1
    BY <1>0, <1>1, FiniteClients, FS_RemoveElement
  <2> QED
    BY <1>0, <1>2, <2>1 DEF AccountInv, ConnectionsCounted
<1>4. \A d \in Clients : Placed(d)' <=> Placed(d)
  BY <1>1, <1>2 DEF Placed
<1>5. \A s : Holders(s)' = Holders(s)
  BY <1>1, <1>2 DEF Holders
<1>6. SlotInv' /\ RingsFollowSessions'
  BY <1>2, <1>4, <1>5 DEF AccountInv, SlotInv, RingsFollowSessions
<1> QED
  BY <1>3, <1>6 DEF AccountInv

\* The section under sessionMu frees exactly the slot of the client that left.
LEMMA LeaveAccount ==
  ASSUME TypeInv, LifeInv, AccountInv, LeaveSession
  PROVE  AccountInv'
<1>0. /\ clients \subseteq Clients /\ sessionOf \in [Clients -> Nat]
      /\ sessions \in [DOMAIN sessions -> Nat \ {0}] /\ SessionSize \in Nat
  BY HubAssumption DEF TypeInv, TypeOK, TablesOK
<1>1. /\ run.at = "session" /\ run'.at = "subs"
      /\ UNCHANGED <<clients, connCount, sessionOf, nextSession>>
  BY DEF LeaveSession, RunAt
<1> PICK c, s : c = run.client /\ s = sessionOf[c]
  OBVIOUS
<1>2. c \in Clients /\ c \notin clients
  BY <1>1 DEF TypeInv, RunInv, LifeInv, KnownInv
<1>3. s \in DOMAIN sessions
  BY <1>1, <1>2 DEF AccountInv, SlotInv, Placed
<1>4. Holders(s)' = Holders(s) \ {c} /\ c \in Holders(s)
  BY <1>1, <1>2 DEF Holders
<1>5. ASSUME NEW t, t # s PROVE Holders(t)' = Holders(t)
  BY <1>1, <1>2, <1>5 DEF Holders
<1>6. Cardinality(Holders(s)) \in Nat
      /\ Cardinality(Holders(s)') = Cardinality(Holders(s)) - 1
  <2>1. Holders(s) \in SUBSET Clients
    BY DEF Holders
  <2> QED
    BY <1>4, <2>1, FiniteClients, FS_RemoveElement
<1>7. \A d \in Clients : Placed(d)' => Placed(d) /\ d # c
  BY <1>1, <1>2 DEF Placed
<1>8. ConnectionsCounted'
  BY <1>1 DEF AccountInv, ConnectionsCounted
<1>9. CASE /\ sessions[s] <= 1
           /\ sessions' = Without(sessions, s)
           /\ chatRings' = Without(chatRings, s)
  <2>1. DOMAIN sessions' = DOMAIN sessions \ {s}
        /\ \A t \in DOMAIN sessions' : sessions'[t] = sessions[t]
    BY <1>9 DEF Without
  <2>2. Holders(s)' = {}
    <3>1. Cardinality(Holders(s)) = 1
      BY <1>0, <1>3, <1>9 DEF AccountInv, SlotInv
    <3>2. Holders(s)' \in SUBSET Clients
      BY <1>4 DEF Holders
    <3> QED
      BY <1>6, <3>1, <3>2, FiniteClients, FS_EmptySet
  <2>3. \A d \in Clients : Placed(d)' => sessionOf[d] \in DOMAIN sessions'
    <3>1. ASSUME NEW d \in Clients, Placed(d)' PROVE sessionOf[d] # s
      BY <1>1, <2>2, <3>1 DEF Holders, Placed
    <3> QED
      BY <1>7, <2>1, <3>1 DEF AccountInv, SlotInv
  <2>4. SlotInv'
    BY <1>1, <1>5, <2>1, <2>3 DEF AccountInv, SlotInv
  <2>5. RingsFollowSessions'
    BY <1>9 DEF Without, AccountInv, RingsFollowSessions
  <2> QED BY <1>8, <2>4, <2>5 DEF AccountInv
<1>10. CASE /\ sessions[s] > 1
            /\ sessions' = [sessions EXCEPT ![s] = @ - 1]
            /\ UNCHANGED chatRings
  <2>1. /\ DOMAIN sessions' = DOMAIN sessions
        /\ sessions'[s] = sessions[s] - 1
        /\ \A t \in DOMAIN sessions : t # s => sessions'[t] = sessions[t]
    BY <1>3, <1>10
  <2>2. ASSUME NEW t \in DOMAIN sessions'
        PROVE  sessions'[t] = Cardinality(Holders(t)') /\ sessions'[t] <= SessionSize
    <3>1. CASE t = s
      BY <1>0, <1>3, <1>6, <2>1, <3>1 DEF AccountInv, SlotInv
    <3>2. CASE t # s
      BY <1>5, <2>1, <3>2 DEF AccountInv, SlotInv
    <3> QED BY <3>1, <3>2
  <2>3. SlotInv'
    BY <1>1, <1>7, <2>1, <2>2 DEF AccountInv, SlotInv
  <2>4. RingsFollowSessions'
    BY <1>10, <2>1 DEF AccountInv, RingsFollowSessions
  <2> QED BY <1>8, <2>3, <2>4 DEF AccountInv
<1> QED
  BY <1>9, <1>10 DEF LeaveSession

\* Every step keeps connections, sessions and rings accounted for.
LEMMA AccountStep == TypeInv /\ LifeInv /\ AccountInv /\ [Next]_vars => AccountInv'
<1> SUFFICES ASSUME TypeInv, LifeInv, AccountInv, [Next]_vars PROVE AccountInv'
  OBVIOUS
<1>1. ASSUME NEW c \in Clients, PumpStep(c) PROVE AccountInv'
  <2>1. UNCHANGED tableVars /\ UNCHANGED chatVars /\ UNCHANGED run
    BY <1>1 DEF PumpStep, Connect, Hangup, Write, Say, Subscribe, Unsubscribe
  <2> QED
    BY <2>1, AccountFrame DEF chatVars
<1>2. ASSUME Reject \/ TakeChat \/ Announce \/ Dispatch \/ DropSubscriptions \/ Leave
      PROVE  AccountInv'
  <2>1. UNCHANGED tableVars /\ UNCHANGED chatVars
    BY <1>2 DEF Reject, TakeChat, Announce, Dispatch, DropSubscriptions, Leave
  <2>2. run' = run \/ (run.at # "session" /\ run'.at # "session")
    BY <1>2 DEF Reject, TakeChat, Announce, Dispatch, DropSubscriptions, Leave,
       Selecting, Dispatching, RunAt
  <2> QED
    BY <2>1, <2>2, AccountFrame DEF chatVars
<1>3. ASSUME TickerStep PROVE AccountInv'
  <2>1. UNCHANGED tableVars /\ UNCHANGED chatVars /\ UNCHANGED run
    BY <1>3 DEF TickerStep, Tick, TickDispatch
  <2> QED
    BY <2>1, AccountFrame DEF chatVars
<1>4. ASSUME NEW w \in Workers, WorkerStep(w) PROVE AccountInv'
  <2>1. UNCHANGED tableVars /\ UNCHANGED run
    BY <1>4 DEF WorkerStep, Take, NumberChat, FanOut, CopyHistory, SendHistory,
       BroadcastPresence
  <2>2. DOMAIN chatRings' = DOMAIN chatRings
    <3>1. CASE NumberChat(w)
      BY <3>1 DEF NumberChat
    <3>2. CASE Take(w) \/ FanOut(w) \/ CopyHistory(w) \/ SendHistory(w)
               \/ BroadcastPresence(w)
      BY <3>2 DEF Take, FanOut, CopyHistory, SendHistory, BroadcastPresence, chatVars
    <3> QED BY <1>4, <3>1, <3>2 DEF WorkerStep
  <2> QED
    BY <2>1, <2>2, AccountFrame
<1>5. CASE UNCHANGED vars
  BY <1>5, AccountFrame DEF vars, chatVars
<1> QED
  BY <1>1, <1>2, <1>3, <1>4, <1>5, RegisterAccount, ForgetAccount, LeaveAccount
  DEF Next, RunStep

-----------------------------------------------------------------------------
(* Subscriptions.                                                          *)

\* The two subscription indexes agree, within the limit and without the dead.
SubInv ==
  /\ SubscriptionsMatch /\ NoStaleSubscriber
  /\ \A c \in Clients : IsFiniteSet(clientSubs[c])

\* Initially nobody subscribes.
LEMMA SubInit == Init => SubInv
  BY FS_EmptySet, HubAssumption
  DEF Init, SubInv, SubscriptionsMatch, NoStaleSubscriber

\* Every step keeps the two indexes equal and free of clients that have left.
LEMMA SubStep == TypeInv /\ LifeInv /\ SubInv /\ [Next]_vars => SubInv'
<1> SUFFICES ASSUME TypeInv, LifeInv, SubInv, [Next]_vars PROVE SubInv'
  OBVIOUS
<1>0. /\ subscriptions \in [Keys -> [Clients -> Nat]]
      /\ clientSubs \in [Clients -> SUBSET Keys] /\ clients \subseteq Clients
      /\ MaxSubscriptions \in Nat
  BY HubAssumption DEF TypeInv, TypeOK, SubsOK, TablesOK
<1>1. ASSUME UNCHANGED subVars, clients \subseteq clients',
             run' = run \/ run.at \notin {"session", "subs"}
      PROVE  SubInv'
  BY <1>1 DEF SubInv, SubscriptionsMatch, NoStaleSubscriber, subVars
<1>2. ASSUME NEW c \in Clients, NEW k \in Keys, Subscribe(c, k) PROVE SubInv'
  <2>1. SubscriptionsMatch'
    BY <1>0, <1>2 DEF Subscribe, SubInv, SubscriptionsMatch
  <2>2. IsFiniteSet(clientSubs'[c])
        /\ Cardinality(clientSubs'[c]) = Cardinality(clientSubs[c]) + 1
        /\ Cardinality(clientSubs[c]) \in Nat
    BY <1>0, <1>2, FS_AddElement, FS_CardinalityType DEF Subscribe, SubInv
  <2>3. \A d \in Clients : d # c => clientSubs'[d] = clientSubs[d]
    BY <1>0, <1>2 DEF Subscribe
  <2>4. c \in clients /\ UNCHANGED <<clients, run>>
        /\ Cardinality(clientSubs[c]) < MaxSubscriptions
    BY <1>2 DEF Subscribe, tableVars
  <2>5. NoStaleSubscriber'
    BY <1>0, <2>2, <2>3, <2>4 DEF SubInv, NoStaleSubscriber
  <2>6. \A d \in Clients : IsFiniteSet(clientSubs'[d])
    BY <2>2, <2>3 DEF SubInv
  <2> QED BY <2>1, <2>5, <2>6 DEF SubInv
<1>3. ASSUME NEW c \in Clients, NEW k \in Keys, Unsubscribe(c, k) PROVE SubInv'
  <2>1. SubscriptionsMatch'
    BY <1>0, <1>3 DEF Unsubscribe, SubInv, SubscriptionsMatch
  <2>2. /\ IsFiniteSet(clientSubs'[c])
        /\ Cardinality(clientSubs'[c]) <= Cardinality(clientSubs[c])
        /\ Cardinality(clientSubs[c]) \in Nat /\ Cardinality(clientSubs'[c]) \in Nat
    <3>1. clientSubs'[c] \subseteq clientSubs[c]
      BY <1>0, <1>3 DEF Unsubscribe
    <3> QED
      BY <3>1, FS_Subset, FS_CardinalityType DEF SubInv
  <2>3. \A d \in Clients : d # c => clientSubs'[d] = clientSubs[d]
    BY <1>0, <1>3 DEF Unsubscribe
  <2>4. c \in clients /\ UNCHANGED <<clients, run>>
    BY <1>3 DEF Unsubscribe, tableVars, LifeInv, KnownInv
  <2>5. NoStaleSubscriber'
    BY <1>0, <2>2, <2>3, <2>4 DEF SubInv, NoStaleSubscriber
  <2>6. \A d \in Clients : IsFiniteSet(clientSubs'[d])
    BY <2>2, <2>3 DEF SubInv
  <2> QED BY <2>1, <2>5, <2>6 DEF SubInv
<1>4. ASSUME ForgetClient PROVE SubInv'
  <2>1. /\ UNCHANGED subVars /\ clients' = clients \ {run'.client}
        /\ run.at = "select" /\ run'.at = "session"
    BY <1>4 DEF ForgetClient, RunAt
  <2> QED
    BY <2>1 DEF SubInv, SubscriptionsMatch, NoStaleSubscriber, subVars
<1>5. ASSUME LeaveSession PROVE SubInv'
  <2>1. /\ UNCHANGED subVars /\ UNCHANGED clients /\ run'.client = run.client
        /\ run.at = "session" /\ run'.at = "subs"
    BY <1>5 DEF LeaveSession, RunAt
  <2> QED
    BY <2>1 DEF SubInv, SubscriptionsMatch, NoStaleSubscriber, subVars
<1>6. ASSUME DropSubscriptions PROVE SubInv'
  <2>1. run.at = "subs" /\ run.client \in Clients /\ UNCHANGED clients
        /\ run'.at = "leave"
    BY <1>6 DEF DropSubscriptions, TypeInv, RunInv, tableVars, RunAt
  <2>2. clientSubs'[run.client] = {}
        /\ \A d \in Clients : d # run.client => clientSubs'[d] = clientSubs[d]
    BY <1>0, <1>6, <2>1 DEF DropSubscriptions
  <2>3. SubscriptionsMatch'
    <3> SUFFICES ASSUME NEW k \in Keys, NEW d \in Clients
                 PROVE  subscriptions'[k][d] = IF k \in clientSubs'[d] THEN 1 ELSE 0
      BY DEF SubscriptionsMatch
    <3>1. CASE d = run.client
      BY <1>0, <1>6, <2>2, <3>1 DEF DropSubscriptions, SubInv, SubscriptionsMatch
    <3>2. CASE d # run.client
      BY <1>0, <1>6, <2>2, <3>2 DEF DropSubscriptions, SubInv, SubscriptionsMatch
    <3> QED BY <3>1, <3>2
  <2>4. Cardinality({}) = 0 /\ IsFiniteSet({})
    BY FS_EmptySet
  <2>5. NoStaleSubscriber'
    <3> SUFFICES ASSUME NEW d \in Clients
                 PROVE  /\ Cardinality(clientSubs'[d]) <= MaxSubscriptions
                        /\ clientSubs'[d] # {} => d \in clients'
      BY DEF NoStaleSubscriber
    <3>1. CASE d = run.client
      <4>1. clientSubs'[d] = {}
        BY <2>2, <3>1
      <4>2. Cardinality(clientSubs'[d]) = 0
        BY <2>4, <4>1, Zenon
      <4> QED BY <1>0, <4>1, <4>2
    <3>2. CASE d # run.client
      BY <2>1, <2>2, <3>2 DEF SubInv, NoStaleSubscriber
    <3> QED BY <3>1, <3>2
  <2>6. \A d \in Clients : IsFiniteSet(clientSubs'[d])
    BY <2>2, <2>4 DEF SubInv
  <2> QED BY <2>3, <2>5, <2>6 DEF SubInv
<1>7. ASSUME NEW c \in Clients, Connect(c) \/ Hangup(c) \/ Write(c) \/ Say(c)
      PROVE  SubInv'
  BY <1>1, <1>7 DEF Connect, Hangup, Write, Say, tableVars
<1>8. ASSUME Reject \/ Register \/ Announce \/ Dispatch \/ TakeChat \/ Leave PROVE SubInv'
  BY <1>1, <1>8 DEF Reject, Register, Announce, Dispatch, TakeChat, Leave, tableVars
<1>9. ASSUME TickerStep PROVE SubInv'
  BY <1>1, <1>9 DEF TickerStep, Tick, TickDispatch, tableVars
<1>10. ASSUME NEW w \in Workers, WorkerStep(w) PROVE SubInv'
  BY <1>1, <1>10 DEF WorkerStep, Take, NumberChat, FanOut, CopyHistory, SendHistory,
     BroadcastPresence, tableVars
<1>11. CASE UNCHANGED vars
  BY <1>1, <1>11 DEF vars, tableVars
<1> QED
  BY <1>2, <1>3, <1>4, <1>5, <1>6, <1>7, <1>8, <1>9, <1>10, <1>11
  DEF Next, RunStep, PumpStep

-----------------------------------------------------------------------------
(* The theorems.                                                           *)

\* The inductive invariant.
HubInv == TypeInv /\ LifeInv /\ AccountInv /\ SubInv

\* The conjunction of the parts is inductive.
LEMMA HubInvariant == Spec => []HubInv
<1>1. Init => HubInv
  BY TypeInit, LifeInit, AccountInit, SubInit DEF HubInv
<1>2. HubInv /\ [Next]_vars => HubInv'
  BY TypeStep, LifeStep, AccountStep, SubStep DEF HubInv
<1> QED
  BY <1>1, <1>2, PTL DEF Spec

\* The connection counter of the hub is exact and stays within MaxConnections,
\* for any number of clients and any interleaving of registrations and hangups.
THEOREM ConnectionsAreCounted == Spec => []ConnectionsCounted
<1>1. HubInv => ConnectionsCounted
  BY DEF HubInv, AccountInv
<1> QED
  BY <1>1, HubInvariant, PTL

\* The slot counts of the sessions are exact, within SessionSize, and no
\* registered client is without a session, although clients and sessions change
\* under different locks.
THEOREM SessionsAreAccounted == Spec => []SessionsAccounted
<1>1. HubInv => SessionsAccounted
  BY HubAssumption DEF HubInv, AccountInv, SlotInv, Placed, SessionsAccounted, TypeInv,
     TypeOK, TablesOK
<1> QED
  BY <1>1, HubInvariant, PTL

\* Chat rings live exactly as long as their sessions.
THEOREM RingsAreNotLeaked == Spec => []RingsFollowSessions
<1>1. HubInv => RingsFollowSessions
  BY DEF HubInv, AccountInv
<1> QED
  BY <1>1, HubInvariant, PTL

\* The subscriber lists and the reverse index always agree.
THEOREM IndexesAgree == Spec => []SubscriptionsMatch
<1>1. HubInv => SubscriptionsMatch
  BY DEF HubInv, SubInv
<1> QED
  BY <1>1, HubInvariant, PTL

\* No client that has left keeps a subscription, and none exceeds its limit.
THEOREM SubscribersAreConnected == Spec => []NoStaleSubscriber
<1>1. HubInv => NoStaleSubscriber
  BY DEF HubInv, SubInv
<1> QED
  BY <1>1, HubInvariant, PTL

\* A session number is never used for a second session.
THEOREM SessionsAreFresh == Spec => SessionsNeverReopened
<1>1. ASSUME HubInv, [Next]_vars
      PROVE  [\A s \in DOMAIN sessions' \ DOMAIN sessions :
                \A c \in Clients : sessionOf[c] # s]_vars
  <2>0. nextSession \in Nat /\ sessionOf \in [Clients -> Nat]
        /\ \A c \in Clients : sessionOf[c] <= nextSession
    BY <1>1 DEF HubInv, AccountInv, SlotInv, TypeInv, TypeOK, TablesOK
  <2>1. CASE Register
    <3>1. CASE \E s \in RoomySessions : Join(Head(register), s)
      BY <3>1 DEF Join, RoomySessions
    <3>2. CASE Join(Head(register), nextSession + 1)
      BY <2>0, <3>2 DEF Join
    <3> QED BY <2>1, <3>1, <3>2 DEF Register, Place
  <2>2. CASE LeaveSession
    BY <2>2 DEF LeaveSession, Without
  <2>3. CASE UNCHANGED sessions
    BY <2>3
  <2> QED
    BY <1>1, <2>1, <2>2, <2>3 DEF Next, RunStep, TickerStep, WorkerStep, PumpStep, vars,
       tableVars, Reject, Announce, Dispatch, TakeChat, ForgetClient, DropSubscriptions,
       Leave, Tick, TickDispatch, Take, NumberChat, FanOut, CopyHistory, SendHistory,
       BroadcastPresence, Connect, Hangup, Write, Say, Subscribe, Unsubscribe
<1> QED
  BY <1>1, HubInvariant, PTL DEF Spec, SessionsNeverReopened

-----------------------------------------------------------------------------
(* The circular buffer.                                                    *)

LEMMA ModSmall == ASSUME NEW m \in Nat \ {0}, NEW a \in 0..m - 1 PROVE a % m = a
OBVIOUS

LEMMA ModWrap == ASSUME NEW m \in Nat \ {0}, NEW a \in m..2 * m - 1 PROVE a % m = a - m
OBVIOUS

\* Where the i-th of count messages stands, when the next goes to head.
Slot(head, count, i) ==
  IF head - count + i - 1 >= 0 THEN head - count + i - 1
                               ELSE head - count + i - 1 + ChatRingSize

\* history reads the slots from the oldest message on.
LEMMA HistorySlots ==
  ASSUME NEW r \in Rings
  PROVE  History(r) = [i \in 1..r.count |-> r.ring[Slot(r.head, r.count, i)]]
<1> DEFINE a == r.head - r.count + ChatRingSize
           start == a % ChatRingSize
<1>1. a \in 0..2 * ChatRingSize - 1
  BY RingFields
<1>2. start = IF r.head - r.count >= 0 THEN r.head - r.count ELSE a
  <2> HIDE DEF a
  <2>1. CASE a \in 0..ChatRingSize - 1
    <3>1. a % ChatRingSize = a
      BY <2>1, ModSmall, RingFields
    <3> QED
      BY <2>1, <3>1, RingFields DEF a
  <2>2. CASE a \in ChatRingSize..2 * ChatRingSize - 1
    <3>1. a % ChatRingSize = a - ChatRingSize
      BY <2>2, ModWrap, RingFields
    <3> QED
      BY <2>2, <3>1, RingFields DEF a
  <2> QED
    BY <1>1, <2>1, <2>2, RingFields
<1>3. ASSUME NEW i \in 1..r.count
      PROVE  (start + i - 1) % ChatRingSize = Slot(r.head, r.count, i)
  <2> DEFINE b == start + i - 1
  <2> HIDE DEF start
  <2>1. b \in 0..2 * ChatRingSize - 1
    BY SMTT(30), <1>2, RingFields
  <2>2. b = IF r.head - r.count >= 0 THEN r.head - r.count + i - 1
                                     ELSE r.head - r.count + ChatRingSize + i - 1
    BY <1>2, RingFields
  <2>3. CASE b \in 0..ChatRingSize - 1
    <3>1. b % ChatRingSize = b
      BY <2>3, ModSmall, RingFields
    <3> QED
      BY <2>2, <2>3, <3>1, RingFields DEF Slot
  <2>4. CASE b \in ChatRingSize..2 * ChatRingSize - 1
    <3>1. b % ChatRingSize = b - ChatRingSize
      BY <2>4, ModWrap, RingFields
    <3> QED
      BY SMTT(30), <2>2, <2>4, <3>1, RingFields DEF Slot
  <2> QED
    BY <2>1, <2>3, <2>4, RingFields
<1> QED
  BY <1>3 DEF History

\* push appends a message to what history reads, and drops the oldest one when
\* the buffer was full.
LEMMA HistoryPush ==
  ASSUME NEW r \in Rings, NEW n \in Nat, NEW h, h = History(r), NEW g, g = History(Push(r, n))
  PROVE  /\ h \in Seq(Nat) /\ Len(h) = r.count /\ g \in Seq(Nat)
         /\ r.count < ChatRingSize =>
              /\ Len(g) = Len(h) + 1 /\ g[Len(h) + 1] = n
              /\ \A i \in 1..Len(h) : g[i] = h[i]
         /\ r.count = ChatRingSize =>
              /\ Len(g) = Len(h) /\ g[Len(h)] = n
              /\ \A i \in 1..Len(h) - 1 : g[i] = h[i + 1]
<1> DEFINE p == Push(r, n)
<1>1. p \in Rings
  BY PushType
<1>2. /\ p.ring = [r.ring EXCEPT ![r.head] = n]
      /\ p.head = IF r.head = ChatRingSize - 1 THEN 0 ELSE r.head + 1
      /\ p.count = IF r.count < ChatRingSize THEN r.count + 1 ELSE r.count
  <2>1. (r.head + 1) % ChatRingSize = IF r.head = ChatRingSize - 1 THEN 0 ELSE r.head + 1
    <3>1. CASE r.head = ChatRingSize - 1
      <4>1. r.head + 1 \in ChatRingSize..2 * ChatRingSize - 1
        BY <3>1, RingFields
      <4> QED
        BY <3>1, <4>1, ModWrap, RingFields
    <3>2. CASE r.head # ChatRingSize - 1
      <4>1. r.head + 1 \in 0..ChatRingSize - 1
        BY <3>2, RingFields
      <4> QED
        BY <3>2, <4>1, ModSmall, RingFields
    <3> QED BY <3>1, <3>2
  <2> QED
    BY <2>1 DEF Push
<1> HIDE DEF p
<1>0. /\ r.head \in Int /\ 0 <= r.head /\ r.head <= ChatRingSize - 1
      /\ r.count \in Int /\ 0 <= r.count /\ r.count <= ChatRingSize
      /\ ChatRingSize \in Int /\ ChatRingSize > 0
      /\ p.head \in Int /\ p.count \in Nat
  BY <1>1, RingFields
<1>3. /\ h = [i \in 1..r.count |-> r.ring[Slot(r.head, r.count, i)]]
      /\ g = [i \in 1..p.count |-> p.ring[Slot(p.head, p.count, i)]]
  BY <1>1, HistorySlots DEF p
<1>4. h \in Seq(Nat) /\ g \in Seq(Nat) /\ Len(h) = r.count /\ Len(g) = p.count
  <2>1. h \in Seq(Nat) /\ g \in Seq(Nat)
    BY <1>1, HistoryType DEF p
  <2>2. DOMAIN h = 1..r.count /\ DOMAIN g = 1..p.count
    BY <1>3
  <2> QED
    BY <1>0, <2>1, <2>2
<1>5. ASSUME NEW i \in 1..r.count, NEW j \in Nat,
             r.count < ChatRingSize => j = i,
             r.count = ChatRingSize => j = i - 1 /\ i > 1
      PROVE  g[j] = h[i]
  <2>1. Slot(p.head, p.count, j) = Slot(r.head, r.count, i)
    <3>1. CASE r.count < ChatRingSize
      <4>1. j = i /\ p.count = r.count + 1
        BY <1>0, <1>2, <1>5, <3>1
      <4>2. CASE r.head = ChatRingSize - 1
        BY <1>0, <1>2, <1>5, <3>1, <4>1, <4>2 DEF Slot
      <4>3. CASE r.head # ChatRingSize - 1
        BY <1>0, <1>2, <1>5, <3>1, <4>1, <4>3 DEF Slot
      <4> QED BY <4>2, <4>3
    <3>2. CASE r.count = ChatRingSize
      <4>1. j = i - 1 /\ p.count = r.count
        BY <1>0, <1>2, <1>5, <3>2
      <4>2. CASE r.head = ChatRingSize - 1
        BY <1>0, <1>2, <1>5, <3>2, <4>1, <4>2 DEF Slot
      <4>3. CASE r.head # ChatRingSize - 1
        BY <1>0, <1>2, <1>5, <3>2, <4>1, <4>3 DEF Slot
      <4> QED BY <4>2, <4>3
    <3> QED
      BY <1>0, <3>1, <3>2
  <2>2. Slot(r.head, r.count, i) \in 0..ChatRingSize - 1 /\ Slot(r.head, r.count, i) # r.head
    <3>1. i \in Int /\ 1 <= i /\ i <= r.count /\ (r.count = ChatRingSize => i > 1)
      BY <1>0, <1>5
    <3> QED
      BY <1>0, <3>1 DEF Slot
  <2>3. j \in 1..p.count
    BY <1>2, <1>5, RingFields
  <2> QED
    BY <1>2, <1>3, <2>1, <2>2, <2>3, RingFields
<1>6. g[p.count] = n
  <2>1. Slot(p.head, p.count, p.count) = r.head /\ p.count \in 1..p.count
    <3>1. CASE r.head = ChatRingSize - 1
      BY <1>0, <1>2, <3>1 DEF Slot
    <3>2. CASE r.head # ChatRingSize - 1
      BY <1>0, <1>2, <3>2 DEF Slot
    <3> QED BY <3>1, <3>2
  <2> QED
    BY <1>2, <1>3, <2>1, RingFields
<1>7. CASE r.count < ChatRingSize
  <2>1. ASSUME NEW i \in 1..Len(h)
        PROVE  g[i] = h[i]
    <3>1. i \in 1..r.count /\ i \in Nat /\ r.count # ChatRingSize
      BY <1>0, <1>4, <1>7, <2>1
    <3> QED
      BY <1>5, <3>1, Zenon
  <2> QED
    BY <1>0, <1>2, <1>4, <1>6, <1>7, <2>1
<1>8. CASE r.count = ChatRingSize
  <2>1. ASSUME NEW i \in 1..Len(h) - 1
        PROVE  g[i] = h[i + 1]
    <3>1. i + 1 \in 1..r.count /\ i \in Nat /\ i = (i + 1) - 1 /\ i + 1 > 1
      BY <1>4, <2>1, RingFields
    <3>2. ~(r.count < ChatRingSize)
      BY <1>0, <1>8
    <3> QED
      BY <1>5, <3>1, <3>2, Zenon
  <2> QED
    BY <1>0, <1>2, <1>4, <1>6, <1>8, <2>1
<1> QED
  BY <1>0, <1>7, <1>8

\* push adds nothing but the message to what history reads.
LEMMA PushAdds ==
  ASSUME NEW r \in Rings, NEW m \in Nat
  PROVE  \A k \in Contents(History(Push(r, m))) : k = m \/ k \in Contents(History(r))
<1> PICK h, g : h = History(r) /\ g = History(Push(r, m))
  OBVIOUS
<1>1. /\ h \in Seq(Nat) /\ Len(h) = r.count /\ g \in Seq(Nat)
      /\ r.count < ChatRingSize =>
           /\ Len(g) = Len(h) + 1 /\ g[Len(h) + 1] = m
           /\ \A i \in 1..Len(h) : g[i] = h[i]
      /\ r.count = ChatRingSize =>
           /\ Len(g) = Len(h) /\ g[Len(h)] = m
           /\ \A i \in 1..Len(h) - 1 : g[i] = h[i + 1]
  BY SMTT(30), HistoryPush
<1>2. r.count \in Nat /\ r.count <= ChatRingSize /\ ChatRingSize \in Nat
  BY RingFields
<1>3. DOMAIN g = 1..Len(g) /\ DOMAIN h = 1..Len(h)
  BY <1>1
<1> SUFFICES ASSUME NEW i \in DOMAIN g
             PROVE  g[i] = m \/ \E j \in DOMAIN h : g[i] = h[j]
  BY DEF Contents
<1>4. CASE r.count < ChatRingSize
  BY SMTT(30), <1>1, <1>2, <1>3, <1>4
<1>5. CASE r.count = ChatRingSize
  <2>1. i = Len(h) \/ (i \in 1..Len(h) - 1 /\ i + 1 \in DOMAIN h)
    BY <1>1, <1>2, <1>3, <1>5
  <2> QED
    BY <1>1, <1>5, <2>1
<1> QED
  BY <1>2, <1>4, <1>5

\* RingIsRecentChat for what is read from one ring.
Recent(h, s, numbered) ==
  /\ \A i, j \in DOMAIN h : i < j => h[i] < h[j]
  /\ \A n \in Contents(h) : n \in DOMAIN numbered /\ numbered[n] = s
  /\ \A n \in DOMAIN numbered :
       numbered[n] = s /\ n \notin Contents(h) =>
         Len(h) = ChatRingSize /\ \A m \in Contents(h) : n < m

\* A message of another session leaves it recent.
LEMMA RecentOther ==
  ASSUME NEW h, NEW s, NEW t, NEW q \in Seq(Nat), Recent(h, s, q), s # t, t \in Nat
  PROVE  Recent(h, s, Append(q, t))
<1>1. /\ DOMAIN Append(q, t) = 1..Len(q) + 1 /\ DOMAIN q = 1..Len(q)
      /\ Append(q, t)[Len(q) + 1] = t
      /\ \A n \in 1..Len(q) : Append(q, t)[n] = q[n]
  OBVIOUS
<1> QED
  BY <1>1 DEF Recent

\* A message of the session that is pushed keeps it recent.
LEMMA RecentPush ==
  ASSUME NEW r \in Rings, NEW s \in Nat, NEW q \in Seq(Nat), Recent(History(r), s, q)
  PROVE  Recent(History(Push(r, Len(q) + 1)), s, Append(q, s))
<1> DEFINE n == Len(q) + 1
           h == History(r)
           g == History(Push(r, n))
<1>0. n \in Nat /\ Len(q) \in Nat
  OBVIOUS
<1>1. /\ DOMAIN Append(q, s) = 1..n /\ DOMAIN q = 1..Len(q)
      /\ Append(q, s)[n] = s
      /\ \A m \in 1..Len(q) : Append(q, s)[m] = q[m]
  OBVIOUS
<1>2. /\ h \in Seq(Nat) /\ Len(h) = r.count /\ g \in Seq(Nat)
      /\ r.count < ChatRingSize =>
           /\ Len(g) = Len(h) + 1 /\ g[Len(h) + 1] = n
           /\ \A i \in 1..Len(h) : g[i] = h[i]
      /\ r.count = ChatRingSize =>
           /\ Len(g) = Len(h) /\ g[Len(h)] = n
           /\ \A i \in 1..Len(h) - 1 : g[i] = h[i + 1]
  BY SMTT(30), <1>0, HistoryPush
<1>3. /\ \A i, j \in DOMAIN h : i < j => h[i] < h[j]
      /\ \A i \in DOMAIN h : h[i] \in 1..Len(q) /\ q[h[i]] = s
      /\ \A m \in 1..Len(q) :
           q[m] = s /\ (\A i \in DOMAIN h : m # h[i]) =>
             Len(h) = ChatRingSize /\ \A i \in DOMAIN h : m < h[i]
  BY <1>1 DEF Recent, Contents
<1>4. r.count \in Nat /\ r.count <= ChatRingSize /\ ChatRingSize \in Nat /\ ChatRingSize > 0
  BY RingFields
<1> HIDE DEF n, h, g
<1>5. DOMAIN h = 1..Len(h) /\ DOMAIN g = 1..Len(g) /\ Len(h) \in Nat /\ n = Len(q) + 1
  BY <1>2 DEF n
<1>6. CASE r.count < ChatRingSize
  <2>1. /\ Len(g) = Len(h) + 1 /\ g[Len(h) + 1] = n
        /\ \A i \in 1..Len(h) : g[i] = h[i]
    BY <1>2, <1>6
  <2>2. \A i, j \in DOMAIN g : i < j => g[i] < g[j]
    <3> SUFFICES ASSUME NEW i \in DOMAIN g, NEW j \in DOMAIN g, i < j
                 PROVE  g[i] < g[j]
      OBVIOUS
    <3>1. i \in DOMAIN h /\ g[i] = h[i] /\ h[i] \in 1..Len(q)
      BY <1>3, <1>5, <2>1
    <3>2. CASE j = Len(g)
      BY <1>0, <1>5, <2>1, <3>1, <3>2
    <3>3. CASE j # Len(g)
      <4>1. j \in DOMAIN h /\ g[j] = h[j]
        BY <1>5, <2>1, <3>3
      <4> QED
        BY <1>3, <3>1, <4>1
    <3> QED BY <3>2, <3>3
  <2>3. \A i \in DOMAIN g : g[i] \in 1..n /\ Append(q, s)[g[i]] = s
    BY <1>0, <1>1, <1>3, <1>5, <2>1
  <2>4. \A m \in 1..n : Append(q, s)[m] = s => \E i \in DOMAIN g : m = g[i]
    <3> SUFFICES ASSUME NEW m \in 1..n, Append(q, s)[m] = s
                 PROVE  \E i \in DOMAIN g : m = g[i]
      OBVIOUS
    <3>1. CASE m = n
      BY <1>5, <2>1, <3>1
    <3>2. CASE m \in 1..Len(q)
      <4>1. q[m] = s
        BY <1>1, <3>2
      <4>2. PICK i \in DOMAIN h : m = h[i]
        BY SMTT(30), <1>2, <1>3, <1>6, <3>2, <4>1
      <4> QED
        BY <1>5, <2>1, <4>2
    <3> QED
      BY <1>0, <1>5, <3>1, <3>2
  <2> QED
    BY <1>1, <2>2, <2>3, <2>4 DEF Recent, Contents, g, n
<1>7. CASE r.count = ChatRingSize
  <2>1. /\ Len(g) = Len(h) /\ g[Len(h)] = n /\ Len(h) = ChatRingSize
        /\ \A i \in 1..Len(h) - 1 : g[i] = h[i + 1] /\ i + 1 \in DOMAIN h
    BY <1>2, <1>5, <1>7
  <2>2. \A i, j \in DOMAIN g : i < j => g[i] < g[j]
    <3> SUFFICES ASSUME NEW i \in DOMAIN g, NEW j \in DOMAIN g, i < j
                 PROVE  g[i] < g[j]
      OBVIOUS
    <3>1. i + 1 \in DOMAIN h /\ g[i] = h[i + 1] /\ h[i + 1] \in 1..Len(q)
      BY SMTT(30), <1>3, <1>5, <2>1
    <3>2. CASE j = Len(g)
      BY <1>0, <1>5, <2>1, <3>1, <3>2
    <3>3. CASE j # Len(g)
      <4> HIDE DEF g, h
      <4>0. i \in Nat /\ j \in 1..Len(h) - 1
        BY <1>5, <2>1, <3>3
      <4>1. j + 1 \in DOMAIN h /\ g[j] = h[j + 1] /\ i + 1 < j + 1
        BY <2>1, <4>0
      <4> QED
        BY <1>3, <3>1, <4>1
    <3> QED BY <3>2, <3>3
  <2>3. \A i \in DOMAIN g : g[i] \in 1..n /\ Append(q, s)[g[i]] = s
    <3> SUFFICES ASSUME NEW i \in DOMAIN g
                 PROVE  g[i] \in 1..n /\ Append(q, s)[g[i]] = s
      OBVIOUS
    <3>1. CASE i = Len(g)
      BY <1>0, <1>1, <1>5, <2>1, <3>1
    <3>2. CASE i # Len(g)
      <4>1. i + 1 \in DOMAIN h /\ g[i] = h[i + 1]
        BY <1>5, <2>1, <3>2
      <4> QED
        BY <1>0, <1>1, <1>3, <1>5, <4>1
    <3> QED BY <3>1, <3>2
  <2>4. ASSUME NEW m \in 1..n, Append(q, s)[m] = s, \A i \in DOMAIN g : m # g[i]
        PROVE  \A i \in DOMAIN g : m < g[i]
    <3>1. m # n
      BY <1>4, <1>5, <2>1, <2>4
    <3>2. m \in 1..Len(q) /\ q[m] = s
      BY <1>0, <1>1, <1>5, <2>4, <3>1
    <3>3. \A i \in DOMAIN h : i > 1 => m # h[i]
      <4> SUFFICES ASSUME NEW i \in DOMAIN h, i > 1
                   PROVE  m # h[i]
        OBVIOUS
      <4>1. i - 1 \in 1..Len(h) - 1 /\ (i - 1) + 1 = i
        BY <1>5
      <4>2. g[i - 1] = h[i] /\ i - 1 \in DOMAIN g
        BY <1>5, <2>1, <4>1
      <4> QED
        BY <2>4, <4>2
    <3>4. \A i \in DOMAIN h : m <= h[i]
      <4>1. CASE m = h[1]
        <5> SUFFICES ASSUME NEW i \in DOMAIN h
                     PROVE  m <= h[i]
          OBVIOUS
        <5>1. 1 \in DOMAIN h /\ i \in 1..Len(h) /\ h[i] \in 1..Len(q)
          BY <1>3, <1>4, <1>5, <2>1
        <5>2. CASE i = 1
          BY <3>2, <4>1, <5>2
        <5>3. CASE i # 1
          <6>1. 1 < i
            BY <1>5, <5>1, <5>3
          <6>2. h[1] < h[i]
            BY <1>3, <5>1, <6>1
          <6> QED
            BY <3>2, <4>1, <5>1, <6>2
        <5> QED BY <5>2, <5>3
      <4>2. CASE m # h[1]
        <5>1. \A i \in DOMAIN h : m # h[i]
          BY <1>5, <3>3, <4>2
        <5>2. \A i \in DOMAIN h : m < h[i]
          BY <1>3, <3>2, <5>1
        <5> QED
          BY <1>3, <3>2, <5>2
      <4> QED BY <4>1, <4>2
    <3> SUFFICES ASSUME NEW i \in DOMAIN g
                 PROVE  m < g[i]
      OBVIOUS
    <3>5. CASE i = Len(g)
      BY <1>0, <1>5, <2>1, <3>2, <3>5
    <3>6. CASE i # Len(g)
      <4>1. i \in 1..Len(h) - 1 /\ i + 1 > 1
        BY <1>5, <2>1, <3>6
      <4>2. g[i] = h[i + 1] /\ i + 1 \in DOMAIN h
        BY <2>1, <4>1
      <4> QED
        BY <1>3, <3>2, <3>3, <3>4, <4>1, <4>2
    <3> QED BY <3>5, <3>6
  <2>5. /\ \A m \in Contents(g) : m \in DOMAIN Append(q, s) /\ Append(q, s)[m] = s
        /\ \A m \in DOMAIN Append(q, s) :
             Append(q, s)[m] = s /\ m \notin Contents(g) =>
               Len(g) = ChatRingSize /\ \A k \in Contents(g) : m < k
    BY ZenonT(30), <1>1, <2>1, <2>3, <2>4 DEF Contents
  <2>6. Recent(g, s, Append(q, s))
    BY <2>2, <2>5 DEF Recent
  <2> QED
    BY <2>6 DEF g, n
<1> QED
  BY <1>4, <1>6, <1>7

-----------------------------------------------------------------------------
(* What is under way.                                                      *)

\* A job is for a session that has been opened, and a welcome for a connection
\* that is registered or has been.
JobFits(j) ==
  /\ j.session <= nextSession
  /\ j.kind = "welcome" => j.client \in Clients /\ conn[j.client] \in {"open", "closed"}

BeltFits == \A i \in 1..Len(belt) : JobFits(belt[i])
RunFits == run.at = "dispatch" => JobFits(run.job)
WorkFits ==
  \A w \in Workers : /\ work[w].at # "idle" => JobFits(work[w].job)
                     /\ work[w].at = "history" => work[w].job.kind = "welcome"
ChannelFits == \A i \in 1..Len(globalChat) : globalChat[i] <= nextSession
ChatsFit == \A n \in 1..Len(chats) : chats[n] <= nextSession

JobsInv == BeltFits /\ RunFits /\ WorkFits /\ ChannelFits /\ ChatsFit

LEMMA JobsInit == Init => JobsInv
BY DEF Init, JobsInv, BeltFits, RunFits, WorkFits, ChannelFits, ChatsFit, Idle, Selecting

\* Sessions are numbered upwards, and no connection is new or waiting again.
LEMMA Onwards ==
  ASSUME TypeInv, LifeInv, [Next]_vars
  PROVE  /\ nextSession <= nextSession' /\ nextSession \in Nat /\ nextSession' \in Nat
         /\ \A c \in Clients : conn[c] \in {"open", "closed"} => conn'[c] \in {"open", "closed"}
<1>0. /\ nextSession \in Nat /\ register \in Seq(Clients)
      /\ conn \in [Clients -> {"new", "waiting", "open", "closed", "rejected"}]
  BY DEF TypeInv, TypeOK, TablesOK, ConnOK
<1>1. nextSession' = nextSession \/ nextSession' = nextSession + 1
  BY DEF Next, RunStep, TickerStep, WorkerStep, PumpStep, vars, tableVars, Reject, Register,
     Place, Announce, Dispatch, TakeChat, ForgetClient, LeaveSession, DropSubscriptions,
     Leave, Tick, TickDispatch, Take, NumberChat, FanOut, CopyHistory, SendHistory,
     BroadcastPresence, Connect, Hangup, Write, Say, Subscribe, Unsubscribe
<1>2. \A c \in Clients : conn[c] \in {"open", "closed"} => conn'[c] \in {"open", "closed"}
  <2>1. CASE Reject
    <3>1. Head(register) = register[1] /\ conn[register[1]] = "waiting"
      BY <1>0, <2>1, HeadTail DEF Reject, LifeInv, QueuesInv
    <3> QED
      BY <1>0, <2>1, <3>1 DEF Reject
  <2>2. CASE Announce \/ \E c \in Clients : Connect(c) \/ Hangup(c)
    BY <1>0, <2>2 DEF Announce, Connect, Hangup
  <2>3. CASE UNCHANGED conn
    BY <2>3
  <2> QED
    BY <2>1, <2>2, <2>3
       DEF Next, RunStep, TickerStep, WorkerStep, PumpStep, vars, Register, Dispatch,
           TakeChat, ForgetClient, LeaveSession, DropSubscriptions, Leave, Tick, TickDispatch,
           Take, NumberChat, FanOut, CopyHistory, SendHistory, BroadcastPresence, Write, Say,
           Subscribe, Unsubscribe
<1> QED
  BY <1>0, <1>1, <1>2

\* So what fits goes on to fit.
LEMMA JobsPersist ==
  ASSUME TypeInv, LifeInv, JobsInv, [Next]_vars
  PROVE  /\ \A j \in Jobs : JobFits(j) => JobFits(j)'
         /\ UNCHANGED belt => BeltFits'
         /\ UNCHANGED run => RunFits'
         /\ UNCHANGED work => WorkFits'
         /\ UNCHANGED globalChat => ChannelFits'
         /\ UNCHANGED chats => ChatsFit'
<1>1. \A j \in Jobs : JobFits(j) => JobFits(j)'
  BY Onwards DEF JobFits, Jobs
<1>2. belt \in Seq(Jobs) /\ run.job \in Jobs /\ \A w \in Workers : work[w].job \in Jobs
  BY DEF TypeInv, TypeOK, PoolOK, LoopsOK, RunStates, WorkStates
<1>3. globalChat \in Seq(Nat) /\ chats \in Seq(Nat)
  BY DEF TypeInv, TypeOK, ChannelOK, ChatOK
<1>4. UNCHANGED belt => BeltFits'
  BY <1>1, <1>2 DEF JobsInv, BeltFits
<1>5. UNCHANGED run => RunFits'
  BY <1>1, <1>2 DEF JobsInv, RunFits
<1>6. UNCHANGED work => WorkFits'
  BY <1>1, <1>2 DEF JobsInv, WorkFits
<1>7. UNCHANGED globalChat => ChannelFits'
  <2>1. \A i \in 1..Len(globalChat) : globalChat[i] \in Nat
    BY <1>3
  <2> QED
    BY <2>1, Onwards DEF JobsInv, ChannelFits
<1>8. UNCHANGED chats => ChatsFit'
  <2>1. \A i \in 1..Len(chats) : chats[i] \in Nat
    BY <1>3
  <2> QED
    BY <2>1, Onwards DEF JobsInv, ChatsFit
<1> QED
  BY <1>1, <1>4, <1>5, <1>6, <1>7, <1>8

\* A message handed to the channel is for its writer's session.
LEMMA SendFits ==
  ASSUME TypeInv, LifeInv, JobsInv, [Next]_vars, NEW s \in Nat, s <= nextSession, SendGlobalChat(s)
  PROVE  ChannelFits'
<1>1. globalChat \in Seq(Nat) /\ \A i \in 1..Len(globalChat) : globalChat[i] <= nextSession
  BY DEF TypeInv, TypeOK, ChannelOK, JobsInv, ChannelFits
<1>2. globalChat' = globalChat \/ globalChat' = Append(globalChat, s)
  BY DEF SendGlobalChat
<1>3. \A i \in 1..Len(globalChat') : globalChat'[i] \in Nat /\ globalChat'[i] <= nextSession
  BY <1>1, <1>2
<1> QED
  BY <1>3, Onwards DEF ChannelFits

\* Appending a job that fits.
LEMMA AppendFits ==
  ASSUME TypeInv, LifeInv, JobsInv, [Next]_vars, NEW j \in Jobs, JobFits(j)',
         belt' = Append(belt, j)
  PROVE  BeltFits'
<1>1. belt \in Seq(Jobs) /\ \A i \in 1..Len(belt) : belt[i] \in Jobs /\ JobFits(belt[i])
  BY DEF TypeInv, TypeOK, PoolOK, JobsInv, BeltFits
<1>2. \A i \in 1..Len(belt') : IF i <= Len(belt) THEN belt'[i] = belt[i] /\ i \in 1..Len(belt)
                                                ELSE belt'[i] = j
  BY <1>1
<1>3. \A i \in 1..Len(belt) : \A k \in Jobs : k = belt[i] => JobFits(k)'
  BY <1>1, JobsPersist
<1> QED
  BY <1>1, <1>2, <1>3 DEF BeltFits

\* Every step keeps what is under way within the sessions and clients there are.
LEMMA JobsStep == TypeInv /\ LifeInv /\ AccountInv /\ JobsInv /\ [Next]_vars => JobsInv'
<1> SUFFICES ASSUME TypeInv, LifeInv, AccountInv, JobsInv, [Next]_vars PROVE JobsInv'
  OBVIOUS
<1>0. /\ sessionOf \in [Clients -> Nat] /\ \A c \in Clients : sessionOf[c] <= nextSession
      /\ globalChat \in Seq(Nat) /\ chats \in Seq(Nat) /\ belt \in Seq(Jobs)
      /\ run.job \in Jobs /\ work \in [Workers -> WorkStates]
      /\ conn \in [Clients -> {"new", "waiting", "open", "closed", "rejected"}]
      /\ nextSession \in Nat
  BY DEF TypeInv, TypeOK, TablesOK, ChannelOK, ChatOK, PoolOK, LoopsOK, RunStates, AccountInv,
         SlotInv, ConnOK
<1>a. /\ UNCHANGED belt => BeltFits'
      /\ UNCHANGED run => RunFits'
      /\ UNCHANGED work => WorkFits'
      /\ UNCHANGED globalChat => ChannelFits'
      /\ UNCHANGED chats => ChatsFit'
  BY JobsPersist
<1>b. run'.at # "dispatch" => RunFits'
  BY DEF RunFits
<1>1. ASSUME NEW c \in Clients, PumpStep(c) PROVE JobsInv'
  <2>1. UNCHANGED <<belt, run, work, chats>>
    BY <1>1 DEF PumpStep, Connect, Hangup, Write, Say, Subscribe, Unsubscribe, poolVars, chatVars
  <2>2. CASE Say(c)
    <3>1. sessionOf[c] \in Nat /\ sessionOf[c] <= nextSession /\ SendGlobalChat(sessionOf[c])
      BY <1>0, <2>2 DEF Say
    <3>2. ChannelFits'
      BY <3>1, SendFits
    <3> QED BY <1>a, <2>1, <3>2 DEF JobsInv
  <2>3. CASE UNCHANGED globalChat
    BY <1>a, <2>1, <2>3 DEF JobsInv
  <2> QED
    BY <1>1, <2>2, <2>3 DEF PumpStep, Connect, Hangup, Write, Subscribe, Unsubscribe, chanVars
<1>2. ASSUME Reject \/ Register \/ ForgetClient \/ LeaveSession \/ DropSubscriptions
      PROVE  JobsInv'
  <2>1. UNCHANGED <<belt, work, chats, globalChat>>
    BY <1>2 DEF Reject, Register, ForgetClient, LeaveSession, DropSubscriptions, poolVars,
       chatVars, chanVars
  <2>2. run' = run \/ run'.at # "dispatch"
    BY <1>2 DEF Reject, Register, ForgetClient, LeaveSession, DropSubscriptions, RunAt
  <2> QED BY <1>a, <1>b, <2>1, <2>2 DEF JobsInv
<1>3. ASSUME Announce PROVE JobsInv'
  <2>1. UNCHANGED <<belt, work, chats>> /\ run.client \in Clients
        /\ run' = Dispatching(Welcome(run.client)) /\ SendGlobalChat(sessionOf[run.client])
        /\ conn' = [conn EXCEPT ![run.client] = "open"] /\ nextSession' = nextSession
    BY <1>3 DEF Announce, poolVars, chatVars, tableVars, TypeInv, RunInv
  <2>2. ChannelFits'
    BY <1>0, <2>1, SendFits
  <2>3. RunFits'
    BY <1>0, <2>1 DEF RunFits, Dispatching, Welcome, JobFits
  <2> QED BY <1>a, <2>1, <2>2, <2>3 DEF JobsInv
<1>4. ASSUME Dispatch PROVE JobsInv'
  <2>1. /\ UNCHANGED <<work, chats, globalChat>> /\ belt' = Append(belt, run.job)
        /\ run.at = "dispatch" /\ run'.at # "dispatch"
    BY <1>4 DEF Dispatch, chatVars, chanVars, Selecting
  <2> PICK j \in Jobs : j = run.job
    BY <1>0
  <2>2. JobFits(j)'
    BY <2>1, JobsPersist DEF JobsInv, RunFits
  <2>3. belt' = Append(belt, j)
    BY <2>1
  <2>4. BeltFits'
    BY <2>2, <2>3, AppendFits
  <2> QED BY <1>a, <1>b, <2>1, <2>4 DEF JobsInv
<1>5. ASSUME TakeChat PROVE JobsInv'
  <2>1. /\ UNCHANGED <<belt, work, chats, nextSession>> /\ globalChat # <<>>
        /\ run' = Dispatching(ChatJob(Head(globalChat))) /\ globalChat' = Tail(globalChat)
    BY <1>5 DEF TakeChat, chatVars, poolVars, tableVars
  <2>2. /\ \A i \in 1..Len(globalChat) : globalChat[i] <= nextSession
        /\ Head(globalChat) = globalChat[1] /\ 1 \in 1..Len(globalChat)
        /\ \A i \in 1..Len(globalChat') : globalChat'[i] = globalChat[i + 1]
                                          /\ i + 1 \in 1..Len(globalChat)
    BY <1>0, <2>1, HeadTail DEF JobsInv, ChannelFits
  <2>3. ChannelFits'
    BY <2>1, <2>2 DEF ChannelFits
  <2>4. RunFits'
    BY <2>1, <2>2 DEF RunFits, Dispatching, ChatJob, JobFits
  <2> QED BY <1>a, <2>1, <2>3, <2>4 DEF JobsInv
<1>6. ASSUME Leave PROVE JobsInv'
  <2>1. UNCHANGED <<belt, work, chats>> /\ run.client \in Clients /\ run'.at # "dispatch"
        /\ SendGlobalChat(sessionOf[run.client])
    BY <1>6 DEF Leave, poolVars, chatVars, TypeInv, RunInv, Selecting
  <2>2. ChannelFits'
    BY <1>0, <2>1, SendFits
  <2> QED BY <1>a, <1>b, <2>1, <2>2 DEF JobsInv
<1>7. ASSUME TickerStep PROVE JobsInv'
  <2>1. UNCHANGED <<work, chats, globalChat, run>>
    BY <1>7 DEF TickerStep, Tick, TickDispatch, chatVars, chanVars, poolVars
  <2>2. UNCHANGED belt \/ belt' = Append(belt, PresenceJob)
    BY <1>7 DEF TickerStep, Tick, TickDispatch, poolVars
  <2>3. PresenceJob \in Jobs /\ JobFits(PresenceJob)'
    BY Onwards DEF PresenceJob, Jobs, JobFits
  <2> QED BY <1>a, <2>1, <2>2, <2>3, AppendFits DEF JobsInv
<1>8. ASSUME NEW w \in Workers, WorkerStep(w) PROVE JobsInv'
  <2>1. UNCHANGED <<globalChat, run>>
    BY <1>8 DEF WorkerStep, Take, NumberChat, FanOut, CopyHistory, SendHistory,
       BroadcastPresence, chanVars
  <2>2. WorkFits'
    <3>1. ASSUME NEW state \in WorkStates, work' = [work EXCEPT ![w] = state],
                 state.at # "idle" => JobFits(state.job)',
                 state.at = "history" => state.job.kind = "welcome"
          PROVE  WorkFits'
      <4>1. \A v \in Workers : v # w => work'[v] = work[v] /\ work[v].job \in Jobs
        BY <1>0, <3>1 DEF WorkStates
      <4>2. work'[w] = state
        BY <1>0, <3>1
      <4> QED
        BY <3>1, <4>1, <4>2, JobsPersist DEF WorkFits, JobsInv
    <3>2. CASE Take(w)
      <4>1. /\ Head(belt) = belt[1] /\ 1 \in 1..Len(belt) /\ belt[1] \in Jobs
            /\ work' = [work EXCEPT ![w] = [Idle EXCEPT !.at = "start", !.job = Head(belt)]]
        BY <1>0, <3>2, HeadTail DEF Take
      <4> PICK j \in Jobs : j = Head(belt)
        BY <4>1
      <4>2. JobFits(j)'
        BY <4>1, JobsPersist DEF JobsInv, BeltFits
      <4>3. /\ [Idle EXCEPT !.at = "start", !.job = j] \in WorkStates
            /\ [Idle EXCEPT !.at = "start", !.job = j].job = j
            /\ [Idle EXCEPT !.at = "start", !.job = j].at = "start"
        <5>1. Idle \in WorkStates
          BY DEF Idle, PresenceJob, Jobs, WorkStates
        <5> QED
          BY <5>1 DEF WorkStates
      <4> QED
        BY <3>1, <4>1, <4>2, <4>3
    <3>3. CASE NumberChat(w)
      <4>1. /\ work' = [work EXCEPT ![w] = [work[w] EXCEPT !.at = "fan", !.chat = Len(chats) + 1]]
            /\ work[w].at = "start" /\ work[w] \in WorkStates /\ Len(chats) + 1 \in Nat
        BY <1>0, <3>3 DEF NumberChat
      <4>2. [work[w] EXCEPT !.at = "fan", !.chat = Len(chats) + 1] \in WorkStates
        BY <4>1 DEF WorkStates
      <4> PICK state \in WorkStates, j \in Jobs :
             /\ work' = [work EXCEPT ![w] = state] /\ state.at = "fan" /\ state.job = j
             /\ j = work[w].job
        BY <4>1, <4>2 DEF WorkStates
      <4>3. JobFits(j)'
        BY <4>1, JobsPersist DEF JobsInv, WorkFits
      <4>4. JobFits(state.job)'
        BY <4>3
      <4> QED
        BY <3>1, <4>4
    <3>4. CASE CopyHistory(w)
      <4> PICK h : work' = [work EXCEPT ![w] = [@ EXCEPT !.at = "history", !.history = h]]
        BY <3>4 DEF CopyHistory
      <4> PICK j \in Jobs : j = work[w].job
        BY <1>0 DEF WorkStates
      <4>1. work[w].at = "start" /\ j.kind = "welcome"
        BY <3>4 DEF CopyHistory
      <4>2. JobFits(j)'
        BY <4>1, JobsPersist DEF JobsInv, WorkFits
      <4>3. /\ work'[w].job = j /\ work'[w].at = "history"
            /\ \A v \in Workers : v # w => work'[v] = work[v] /\ work[v].job \in Jobs
        BY <1>0 DEF WorkStates
      <4> QED
        BY <4>1, <4>2, <4>3, JobsPersist DEF WorkFits, JobsInv
    <3>5. CASE FanOut(w) \/ SendHistory(w) \/ BroadcastPresence(w)
      <4>1. work' = [work EXCEPT ![w] = Idle] /\ Idle \in WorkStates /\ Idle.at = "idle"
        BY <3>5 DEF FanOut, SendHistory, BroadcastPresence, Idle, WorkStates, PresenceJob, Jobs
      <4> QED
        BY <3>1, <4>1
    <3> QED
      BY <1>8, <3>2, <3>3, <3>4, <3>5 DEF WorkerStep
  <2>3. BeltFits'
    <3>1. CASE Take(w)
      <4>1. belt' = Tail(belt) /\ belt # <<>>
        BY <3>1 DEF Take
      <4>2. \A i \in 1..Len(belt') : belt'[i] = belt[i + 1] /\ i + 1 \in 1..Len(belt)
        BY <1>0, <4>1, HeadTail
      <4>3. \A i \in 1..Len(belt) : \A j \in Jobs : j = belt[i] => JobFits(j)'
        BY JobsPersist DEF JobsInv, BeltFits
      <4>4. \A i \in 1..Len(belt) : belt[i] \in Jobs
        BY <1>0
      <4> QED
        BY <4>2, <4>3, <4>4 DEF BeltFits
    <3>2. CASE UNCHANGED belt
      BY <1>a, <3>2
    <3> QED
      BY <1>8, <3>1, <3>2 DEF WorkerStep, NumberChat, FanOut, CopyHistory, SendHistory,
         BroadcastPresence
  <2>4. ChatsFit'
    <3>1. CASE NumberChat(w)
      <4> PICK s : s = work[w].job.session
        OBVIOUS
      <4>1. chats' = Append(chats, s) /\ s \in Nat /\ s <= nextSession
        BY <1>0, <3>1 DEF NumberChat, JobsInv, WorkFits, JobFits, WorkStates, Jobs
      <4>2. nextSession' = nextSession
        BY <3>1 DEF NumberChat, tableVars
      <4>3. \A n \in 1..Len(chats') :
               chats'[n] = s \/ (n \in 1..Len(chats) /\ chats'[n] = chats[n])
        BY <1>0, <4>1
      <4> QED
        BY <4>1, <4>2, <4>3 DEF JobsInv, ChatsFit
    <3>2. CASE UNCHANGED chats
      BY <1>a, <3>2
    <3> QED
      BY <1>8, <3>1, <3>2 DEF WorkerStep, Take, FanOut, CopyHistory, SendHistory,
         BroadcastPresence, chatVars
  <2> QED BY <1>a, <2>1, <2>2, <2>3, <2>4 DEF JobsInv
<1>9. CASE UNCHANGED vars
  BY <1>9, <1>a DEF JobsInv, vars, chatVars, chanVars, poolVars
<1> QED
  BY <1>1, <1>2, <1>3, <1>4, <1>5, <1>6, <1>7, <1>8, <1>9 DEF Next, RunStep

-----------------------------------------------------------------------------
(* Chat stays in its session.                                              *)

\* n is the number of a message that was written in session s.
Of(n, s) == n \in DOMAIN chats /\ chats[n] = s

\* Who is not connected has been shown nothing and is not welcomed.
OnlyMembersAreShown ==
  \A c \in Clients : c \notin clients \/ Closed(c) => shown[c] = {} /\ c \notin welcomed

\* The messages that workers hold are of the session they work for.
WorkersHoldTheirSession ==
  \A w \in Workers :
    /\ work[w].at = "fan" => Of(work[w].chat, work[w].job.session)
    /\ work[w].at = "history" =>
         \A n \in Contents(work[w].history) : Of(n, sessionOf[work[w].job.client])

ChatInv ==
  SessionIsolation /\ RingIsRecentChat /\ OnlyMembersAreShown /\ WorkersHoldTheirSession
  /\ \A c \in Clients : \A n \in shown[c] : n \in DOMAIN chats

LEMMA ChatInit == Init => ChatInv
BY DEF Init, ChatInv, SessionIsolation, RingIsRecentChat, OnlyMembersAreShown,
       WorkersHoldTheirSession, Idle

\* What was numbered stays.
LEMMA ChatsGrow ==
  ASSUME TypeInv, [Next]_vars
  PROVE  /\ chats \in Seq(Nat)
         /\ \A n \in DOMAIN chats : n \in DOMAIN chats' /\ chats'[n] = chats[n]
<1>1. chats \in Seq(Nat)
  BY DEF TypeInv, TypeOK, ChatOK
<1>2. CASE UNCHANGED chats
  BY <1>1, <1>2
<1>3. ASSUME NEW w \in Workers, NumberChat(w)
      PROVE  \A n \in DOMAIN chats : n \in DOMAIN chats' /\ chats'[n] = chats[n]
  <2>1. work[w].job.session \in Nat
    BY DEF TypeInv, TypeOK, PoolOK, WorkStates, Jobs
  <2>2. chats' = Append(chats, work[w].job.session)
    BY <1>3 DEF NumberChat
  <2> QED
    BY <1>1, <2>1, <2>2
<1> QED
  BY <1>1, <1>2, <1>3
     DEF Next, RunStep, TickerStep, WorkerStep, PumpStep, vars, chatVars, Reject, Register,
         Announce, Dispatch, TakeChat, ForgetClient, LeaveSession, DropSubscriptions, Leave,
         Tick, TickDispatch, Take, FanOut, CopyHistory, SendHistory, BroadcastPresence,
         Connect, Hangup, Write, Say, Subscribe, Unsubscribe

\* A client that works, or is worked for, keeps its session.
LEMMA SessionsStay ==
  ASSUME TypeInv, LifeInv, [Next]_vars, NEW c \in Clients,
         c \in clients \/ conn[c] \in {"open", "closed"}
  PROVE  sessionOf'[c] = sessionOf[c]
<1>0. register \in Seq(Clients) /\ sessionOf \in [Clients -> Nat]
  BY DEF TypeInv, TypeOK, ConnOK, TablesOK
<1>1. CASE Register
  <2>1. Head(register) # c
    <3>1. /\ Head(register) = register[1] /\ 1 \in 1..Len(register)
          /\ conn[register[1]] = "waiting" /\ register[1] \notin clients
      BY <1>0, <1>1, HeadTail DEF Register, LifeInv, QueuesInv
    <3> QED BY <3>1
  <2>2. \E s : sessionOf' = [sessionOf EXCEPT ![Head(register)] = s]
    BY <1>1 DEF Register, Place, Join
  <2> QED
    BY <1>0, <2>1, <2>2
<1>2. CASE UNCHANGED sessionOf
  BY <1>2
<1> QED
  BY <1>1, <1>2
     DEF Next, RunStep, TickerStep, WorkerStep, PumpStep, vars, tableVars, Reject, Announce,
         Dispatch, TakeChat, ForgetClient, LeaveSession, DropSubscriptions, Leave, Tick,
         TickDispatch, Take, NumberChat, FanOut, CopyHistory, SendHistory, BroadcastPresence,
         Connect, Hangup, Write, Say, Subscribe, Unsubscribe

\* A step under which nobody is shown anything new.
LEMMA ShownStays ==
  ASSUME TypeInv, LifeInv, ChatInv, [Next]_vars,
         \A c \in Clients : shown'[c] = shown[c] \/ shown'[c] = {},
         \A c \in Clients : c \in welcomed' => c \in welcomed,
         \A c \in Clients : c \in clients /\ ~Closed(c) /\ (c \notin clients' \/ Closed(c)')
                             => shown'[c] = {} /\ c \notin welcomed'
  PROVE  /\ OnlyMembersAreShown' /\ SessionIsolation'
         /\ \A c \in Clients : \A n \in shown'[c] : n \in DOMAIN chats'
<1>1. OnlyMembersAreShown'
  BY DEF ChatInv, OnlyMembersAreShown
<1>2. ASSUME NEW c \in Clients, NEW n \in shown'[c]
      PROVE  n \in DOMAIN chats' /\ chats'[n] = sessionOf'[c]
  <2>1. n \in shown[c] /\ c \in clients /\ n \in DOMAIN chats /\ chats[n] = sessionOf[c]
    BY <1>2 DEF ChatInv, OnlyMembersAreShown, SessionIsolation
  <2> QED
    BY <2>1, ChatsGrow, SessionsStay
<1> QED
  BY <1>1, <1>2 DEF SessionIsolation

\* Clients are removed only when closed, and closed only when emptied.
LEMMA ShownStep ==
  ASSUME TypeInv, LifeInv, JobsInv, ChatInv, [Next]_vars
  PROVE  /\ OnlyMembersAreShown' /\ SessionIsolation'
         /\ \A c \in Clients : \A n \in shown'[c] : n \in DOMAIN chats'
<1>0. /\ conn \in [Clients -> {"new", "waiting", "open", "closed", "rejected"}]
      /\ shown \in [Clients -> SUBSET Nat] /\ register \in Seq(Clients)
      /\ unregister \in Seq(Clients) /\ clients \subseteq Clients
  BY DEF TypeInv, TypeOK, ConnOK, FramesOK, TablesOK
<1>1. ASSUME NEW c \in Clients, Hangup(c)
      PROVE  /\ OnlyMembersAreShown' /\ SessionIsolation'
             /\ \A d \in Clients : \A n \in shown'[d] : n \in DOMAIN chats'
  BY <1>0, <1>1, ShownStays DEF Hangup, Closed, tableVars
<1>2. CASE ForgetClient
  <2>1. /\ Head(unregister) = unregister[1] /\ conn[unregister[1]] = "closed"
    BY <1>0, <1>2, HeadTail DEF ForgetClient, LifeInv, QueuesInv
  <2>2. clients' = clients \ {unregister[1]} /\ UNCHANGED <<conn, shown, welcomed>>
    BY <1>2, <2>1 DEF ForgetClient, frameVars
  <2> QED
    BY <2>1, <2>2, ShownStays DEF Closed
<1>3. ASSUME NEW c \in Clients, Connect(c)
      PROVE  /\ OnlyMembersAreShown' /\ SessionIsolation'
             /\ \A d \in Clients : \A n \in shown'[d] : n \in DOMAIN chats'
  BY <1>0, <1>3, ShownStays DEF Connect, Closed, tableVars, frameVars
<1>4. CASE Reject
  BY <1>0, <1>4, ShownStays DEF Reject, Closed, tableVars, frameVars
<1>5. CASE Register
  BY <1>0, <1>5, ShownStays DEF Register, Closed, frameVars
<1>6. CASE Announce
  BY <1>0, <1>6, ShownStays DEF Announce, Closed, tableVars, frameVars
<1>7. CASE UNCHANGED <<conn, clients, shown, welcomed>>
  BY <1>7, ShownStays DEF Closed
<1>8. ASSUME NEW w \in Workers, FanOut(w)
      PROVE  /\ OnlyMembersAreShown' /\ SessionIsolation'
             /\ \A d \in Clients : \A n \in shown'[d] : n \in DOMAIN chats'
  <2>1. /\ UNCHANGED <<conn, clients, sessionOf, chats, welcomed>>
        /\ Of(work[w].chat, work[w].job.session)
    BY <1>8 DEF FanOut, ChatInv, WorkersHoldTheirSession, tableVars, chatVars
  <2>2. \A d \in Clients :
           \/ shown'[d] = shown[d]
           \/ /\ d \in clients /\ ~Closed(d) /\ sessionOf[d] = work[w].job.session
              /\ shown'[d] = shown[d] \cup {work[w].chat}
    BY <1>0, <1>8 DEF FanOut, Members, Queues
  <2>3. OnlyMembersAreShown'
    BY <2>1, <2>2 DEF ChatInv, OnlyMembersAreShown, Closed
  <2> QED
    BY <2>1, <2>2, <2>3 DEF ChatInv, SessionIsolation, Of
<1>9. ASSUME NEW w \in Workers, SendHistory(w)
      PROVE  /\ OnlyMembersAreShown' /\ SessionIsolation'
             /\ \A d \in Clients : \A n \in shown'[d] : n \in DOMAIN chats'
  <2> PICK c : c = work[w].job.client
    OBVIOUS
  <2>1. /\ c \in Clients /\ conn[c] \in {"open", "closed"}
        /\ \A n \in Contents(work[w].history) : Of(n, sessionOf[c])
    BY <1>9 DEF SendHistory, JobsInv, WorkFits, JobFits, ChatInv, WorkersHoldTheirSession
  <2>2. ~Closed(c) => c \in clients
    BY <2>1 DEF Closed, LifeInv, KnownInv
  <2>3. /\ UNCHANGED <<conn, clients, sessionOf, chats>>
        /\ \A d \in Clients : d # c => shown'[d] = shown[d]
        /\ shown'[c] = IF Queues(c) THEN shown[c] \cup Contents(work[w].history) ELSE shown[c]
        /\ welcomed' = IF Closed(c) THEN welcomed ELSE welcomed \cup {c}
    BY <1>0, <1>9, <2>1 DEF SendHistory, tableVars, chatVars
  <2>4. OnlyMembersAreShown'
    BY <2>2, <2>3 DEF ChatInv, OnlyMembersAreShown, Closed, Queues
  <2> QED
    BY <2>1, <2>3, <2>4 DEF ChatInv, SessionIsolation, Of
<1> QED
  BY <1>1, <1>2, <1>3, <1>4, <1>5, <1>6, <1>7, <1>8, <1>9
     DEF Next, RunStep, TickerStep, WorkerStep, PumpStep, vars, tableVars, frameVars,
         Dispatch, TakeChat, LeaveSession, DropSubscriptions, Leave, Tick, TickDispatch, Take,
         NumberChat, CopyHistory, BroadcastPresence, Write, Say, Subscribe, Unsubscribe

\* The rings hold the latest messages of their sessions.
LEMMA RingStep ==
  ASSUME TypeInv, AccountInv, JobsInv, ChatInv, [Next]_vars
  PROVE  RingIsRecentChat'
<1>0. /\ chats \in Seq(Nat) /\ nextSession \in Nat
      /\ \A s \in DOMAIN chatRings : chatRings[s] \in Rings /\ s \in Nat
  BY DEF TypeInv, TypeOK, ChatOK, TablesOK, AccountInv, RingsFollowSessions
<1>1. /\ RingIsRecentChat <=> \A s \in DOMAIN chatRings : Recent(History(chatRings[s]), s, chats)
      /\ RingIsRecentChat' <=>
           \A s \in DOMAIN chatRings' : Recent(History(chatRings'[s]), s, chats')
  BY DEF RingIsRecentChat, Recent
<1>2. \A s \in DOMAIN chatRings : Recent(History(chatRings[s]), s, chats)
  BY <1>1 DEF ChatInv
<1>3. ASSUME NEW w \in Workers, NumberChat(w)
      PROVE  RingIsRecentChat'
  <2> PICK t : t = work[w].job.session
    OBVIOUS
  <2>1. t \in Nat
    BY DEF TypeInv, TypeOK, PoolOK, WorkStates, Jobs
  <2>2. /\ chats' = Append(chats, t)
        /\ chatRings' = IF t \in DOMAIN chatRings
                        THEN [chatRings EXCEPT ![t] = Push(chatRings[t], Len(chats) + 1)]
                        ELSE chatRings
    BY <1>3 DEF NumberChat
  <2>3. ASSUME NEW s \in DOMAIN chatRings'
        PROVE  Recent(History(chatRings'[s]), s, chats')
    <3>1. s \in DOMAIN chatRings
      BY <2>2, <2>3
    <3>2. CASE s = t
      <4>1. chatRings'[s] = Push(chatRings[s], Len(chats) + 1)
        BY <2>2, <3>1, <3>2
      <4> QED
        BY <1>0, <1>2, <2>1, <2>2, <3>1, <3>2, <4>1, RecentPush
    <3>3. CASE s # t
      <4>1. chatRings'[s] = chatRings[s]
        BY <2>2, <3>1, <3>3
      <4> QED
        BY <1>0, <1>2, <2>1, <2>2, <3>1, <3>3, <4>1, RecentOther
    <3> QED BY <3>2, <3>3
  <2> QED BY <1>1, <2>3
<1>4. ASSUME NEW c, NEW s, Join(c, s), s \in DOMAIN sessions \/ s = nextSession + 1, UNCHANGED chats
      PROVE  RingIsRecentChat'
  <2>1. \A t \in DOMAIN chatRings' : IF t \in DOMAIN chatRings THEN chatRings'[t] = chatRings[t]
                                     ELSE t = s /\ chatRings'[t] = NewRing
    BY <1>4 DEF Join
  <2>2. ASSUME NEW t \in DOMAIN chatRings', t \notin DOMAIN chatRings
        PROVE  Recent(History(chatRings'[t]), t, chats')
    <3>1. t = nextSession + 1 /\ chatRings'[t] = NewRing
      BY <1>4, <2>1, <2>2 DEF AccountInv, RingsFollowSessions
    <3>2. History(NewRing) = [i \in 1..0 |-> NewRing.ring[Slot(0, 0, i)]]
      BY NewRingType, HistorySlots DEF NewRing
    <3>3. DOMAIN History(NewRing) = {} /\ Contents(History(NewRing)) = {}
      BY <3>2 DEF Contents
    <3>4. \A n \in DOMAIN chats : chats[n] # t
      <4>1. \A n \in DOMAIN chats : n \in 1..Len(chats) /\ chats[n] \in Nat
        BY <1>0
      <4>2. \A n \in 1..Len(chats) : chats[n] <= nextSession
        BY DEF JobsInv, ChatsFit
      <4> QED
        BY <1>0, <3>1, <4>1, <4>2
    <3> QED
      BY <1>4, <3>1, <3>3, <3>4 DEF Recent
  <2> QED
    BY <1>1, <1>2, <1>4, <2>1, <2>2
<1>5. CASE Register
  <2>1. UNCHANGED chats /\ Place(Head(register))
    BY <1>5 DEF Register
  <2> QED
    BY <1>4, <2>1 DEF Place, RoomySessions
<1>6. CASE LeaveSession
  <2>1. /\ UNCHANGED chats
        /\ \A t \in DOMAIN chatRings' : t \in DOMAIN chatRings /\ chatRings'[t] = chatRings[t]
    BY <1>6 DEF LeaveSession, Without
  <2> QED
    BY <1>1, <1>2, <2>1
<1>7. CASE UNCHANGED <<chatRings, chats>>
  BY <1>7, <1>1, <1>2
<1> QED
  BY <1>3, <1>5, <1>6, <1>7
     DEF Next, RunStep, TickerStep, WorkerStep, PumpStep, vars, chatVars, Reject, Announce,
         Dispatch, TakeChat, ForgetClient, DropSubscriptions, Leave, Tick, TickDispatch, Take,
         FanOut, CopyHistory, SendHistory, BroadcastPresence, Connect, Hangup, Write, Say,
         Subscribe, Unsubscribe

\* What a worker does not touch stays of its session.
LEMMA WorkersKeep ==
  ASSUME TypeInv, LifeInv, JobsInv, ChatInv, [Next]_vars, NEW w \in Workers, work'[w] = work[w]
  PROVE  /\ work'[w].at = "fan" =>
              /\ work'[w].chat \in DOMAIN chats'
              /\ chats'[work'[w].chat] = work'[w].job.session
         /\ work'[w].at = "history" =>
              \A n \in Contents(work'[w].history) :
                n \in DOMAIN chats' /\ chats'[n] = sessionOf'[work'[w].job.client]
<1>1. CASE work[w].at = "fan"
  <2>1. Of(work[w].chat, work[w].job.session)
    BY <1>1 DEF ChatInv, WorkersHoldTheirSession
  <2> QED
    BY <1>1, <2>1, ChatsGrow DEF Of
<1>2. CASE work[w].at = "history"
  <2> PICK c : c = work[w].job.client
    OBVIOUS
  <2>1. c \in Clients /\ conn[c] \in {"open", "closed"}
    BY <1>2 DEF JobsInv, WorkFits, JobFits
  <2>2. \A n \in Contents(work[w].history) : Of(n, sessionOf[c])
    BY <1>2 DEF ChatInv, WorkersHoldTheirSession
  <2>3. sessionOf'[c] = sessionOf[c]
    BY <2>1, SessionsStay
  <2> QED
    BY <1>2, <2>2, <2>3, ChatsGrow DEF Of
<1> QED
  BY <1>1, <1>2

\* Workers take up messages and histories of the session they work for.
LEMMA WorkersStep ==
  ASSUME TypeInv, LifeInv, JobsInv, ChatInv, [Next]_vars
  PROVE  WorkersHoldTheirSession'
<1>0. work \in [Workers -> WorkStates] /\ chats \in Seq(Nat)
  BY DEF TypeInv, TypeOK, PoolOK, ChatOK
<1> SUFFICES ASSUME NEW v \in Workers
             PROVE  /\ work'[v].at = "fan" =>
                         /\ work'[v].chat \in DOMAIN chats'
                         /\ chats'[work'[v].chat] = work'[v].job.session
                    /\ work'[v].at = "history" =>
                         \A n \in Contents(work'[v].history) :
                           n \in DOMAIN chats' /\ chats'[n] = sessionOf'[work'[v].job.client]
  BY DEF WorkersHoldTheirSession, Of
<1>1. CASE work'[v] = work[v]
  BY <1>1, WorkersKeep
<1>2. CASE work'[v].at \notin {"fan", "history"}
  BY <1>2
<1>3. CASE NumberChat(v)
  <2> PICK state \in WorkStates : state = work[v]
    BY <1>0
  <2>1. /\ chats' = Append(chats, state.job.session)
        /\ work'[v] = [state EXCEPT !.at = "fan", !.chat = Len(chats) + 1]
    BY <1>0, <1>3 DEF NumberChat
  <2>2. /\ work'[v].at = "fan" /\ work'[v].chat = Len(chats) + 1
        /\ work'[v].job = state.job /\ state.job.session \in Nat
    BY <2>1 DEF WorkStates, Jobs
  <2> QED
    BY <1>0, <2>1, <2>2
<1>4. CASE CopyHistory(v)
  <2> PICK state, c, s, h :
         /\ state \in WorkStates /\ state = work[v] /\ c = state.job.client /\ s = sessionOf[c]
         /\ h = IF s \in DOMAIN chatRings THEN History(chatRings[s]) ELSE <<>>
    BY <1>0
  <2>1. /\ work'[v] = [state EXCEPT !.at = "history", !.history = h]
        /\ UNCHANGED <<chats, sessionOf>>
    BY <1>0, <1>4 DEF CopyHistory, chatVars, tableVars
  <2>2. /\ work'[v].at = "history" /\ work'[v].history = h /\ work'[v].job.client = c
    BY <2>1 DEF WorkStates
  <2>3. \A n \in Contents(h) : n \in DOMAIN chats /\ chats[n] = s
    BY DEF ChatInv, RingIsRecentChat, Contents
  <2> QED
    BY <2>1, <2>2, <2>3
<1> QED
  <2>1. ASSUME NEW w \in Workers, WorkerStep(w), w # v
        PROVE  work'[v] = work[v]
    BY <1>0, <2>1 DEF WorkerStep, Take, NumberChat, FanOut, CopyHistory, SendHistory,
       BroadcastPresence
  <2>2. ASSUME Take(v) \/ FanOut(v) \/ SendHistory(v) \/ BroadcastPresence(v)
        PROVE  work'[v].at \notin {"fan", "history"}
    <3>1. work'[v] = Idle \/ \E j : work'[v] = [Idle EXCEPT !.at = "start", !.job = j]
      BY <1>0, <2>2 DEF Take, FanOut, SendHistory, BroadcastPresence
    <3>2. \A j : [Idle EXCEPT !.at = "start", !.job = j].at = "start"
      BY DEF Idle
    <3>3. Idle.at = "idle"
      BY DEF Idle
    <3> QED
      BY <3>1, <3>2, <3>3
  <2>3. UNCHANGED work \/ \E w \in Workers : WorkerStep(w)
    BY DEF Next, RunStep, TickerStep, PumpStep, vars, poolVars, Reject, Register, Announce,
       Dispatch, TakeChat, ForgetClient, LeaveSession, DropSubscriptions, Leave, Tick,
       TickDispatch, Connect, Hangup, Write, Say, Subscribe, Unsubscribe
  <2> QED
    BY <1>1, <1>2, <1>3, <1>4, <2>1, <2>2, <2>3 DEF WorkerStep

LEMMA ChatStep ==
  TypeInv /\ LifeInv /\ AccountInv /\ JobsInv /\ ChatInv /\ [Next]_vars => ChatInv'
BY ShownStep, RingStep, WorkersStep DEF ChatInv

-----------------------------------------------------------------------------
(* Nobody misses a message.                                                *)

\* A worker has numbered n and has yet to fan it out.
Fanning(n) == \E w \in Workers : work[w].at = "fan" /\ work[w].chat = n

\* Message n is accounted for at c: it was sent to c once c was welcomed, and
\* until then it is in the history that c is about to be sent.
Due(c, n) ==
  /\ c \in welcomed => n \in shown[c] \/ Fanning(n)
  /\ \A w \in Workers :
       work[w].at = "history" /\ work[w].job.client = c =>
         n \in shown[c] \/ Fanning(n) \/ n \in Contents(work[w].history)

\* Clients for which every frame found room.
Lossless(c) == c \in clients /\ ~Closed(c) /\ ~lost[c]

Remembered(c) == Contents(History(chatRings[sessionOf[c]]))

CompleteInv == \A c \in Clients : Lossless(c) => \A n \in Remembered(c) : Due(c, n)

LEMMA CompleteInit == Init => CompleteInv
BY DEF Init, CompleteInv, Lossless

\* A message that was remembered stays accounted for when nothing sent is
\* taken back and every welcome or history is one that was there before.
LEMMA DueStays ==
  ASSUME TypeInv, CompleteInv, NEW c \in Clients, NEW n \in Remembered(c), Lossless(c),
         n \in shown[c] => n \in shown'[c],
         Fanning(n) => n \in shown'[c] \/ Fanning(n)',
         c \in welcomed' => c \in welcomed,
         \A w \in Workers :
           work'[w].at = "history" /\ work'[w].job.client = c => work'[w] = work[w]
  PROVE  Due(c, n)'
<1>1. Due(c, n)
  BY DEF CompleteInv
<1> QED
  BY <1>1 DEF Due

\* Steps of everyone but the workers.
LEMMA CompleteFrame ==
  ASSUME TypeInv, LifeInv, JobsInv, ChatInv, CompleteInv, [Next]_vars,
         UNCHANGED <<work, shown>> \/ \E d \in Clients : Hangup(d),
         \A c \in Clients : c \in welcomed' => c \in welcomed,
         \A c \in Clients : Lossless(c)' =>
           Lossless(c) /\ sessionOf'[c] = sessionOf[c]
                       /\ chatRings'[sessionOf[c]] = chatRings[sessionOf[c]]
  PROVE  CompleteInv'
<1> SUFFICES ASSUME NEW c \in Clients, Lossless(c)', NEW n \in Remembered(c)'
             PROVE  Due(c, n)'
  BY DEF CompleteInv
<1>1. Lossless(c) /\ n \in Remembered(c)
  BY DEF Remembered
<1>2. UNCHANGED work /\ shown'[c] = shown[c]
  BY DEF Hangup, Lossless, Closed, poolVars, TypeInv, TypeOK, FramesOK, ConnOK
<1>3. Fanning(n) => Fanning(n)'
  BY <1>2 DEF Fanning
<1> QED
  BY <1>1, <1>2, <1>3, DueStays

\* A step of a worker that shows and remembers nothing new.
LEMMA WorkerFrame ==
  ASSUME TypeInv, CompleteInv, NEW w \in Workers, Take(w) \/ BroadcastPresence(w)
  PROVE  CompleteInv'
<1> SUFFICES ASSUME NEW c \in Clients, Lossless(c)', NEW n \in Remembered(c)'
             PROVE  Due(c, n)'
  BY DEF CompleteInv
<1>0. work \in [Workers -> WorkStates] /\ lost \in [Clients -> BOOLEAN] /\ Idle \in WorkStates
  BY DEF TypeInv, TypeOK, PoolOK, FramesOK, Idle, PresenceJob, Jobs, WorkStates
<1>1. /\ UNCHANGED <<conn, clients, sessionOf, chatRings, shown, welcomed>>
      /\ lost[c] => lost'[c]
  BY <1>0 DEF Take, BroadcastPresence, QueueMessage, tableVars, chatVars, frameVars
<1>2. Lossless(c) /\ n \in Remembered(c)
  BY <1>1 DEF Lossless, Remembered, Closed
<1>3. \A v \in Workers :
        \/ work'[v] = work[v]
        \/ v = w /\ work[w].at # "fan" /\ work'[w].at # "history"
  <2>1. \A v \in Workers : v # w => work'[v] = work[v]
    BY <1>0 DEF Take, BroadcastPresence
  <2>2. work[w].at \in {"idle", "start"}
    BY DEF Take, BroadcastPresence
  <2>3. work'[w] = Idle \/ \E j : work'[w] = [Idle EXCEPT !.at = "start", !.job = j]
    BY <1>0 DEF Take, BroadcastPresence
  <2>4. work'[w].at # "history"
    <3>1. \A j : [Idle EXCEPT !.at = "start", !.job = j].at = "start"
      BY DEF Idle
    <3>2. Idle.at = "idle"
      BY DEF Idle
    <3> QED
      BY <2>3, <3>1, <3>2
  <2> QED
    BY <2>1, <2>2, <2>4
<1>4. Fanning(n) => Fanning(n)'
  BY <1>3 DEF Fanning
<1> QED
  BY <1>1, <1>2, <1>3, <1>4, DueStays

\* A message that enters a ring is about to be fanned out.
LEMMA NumberComplete ==
  ASSUME TypeInv, ChatInv, AccountInv, CompleteInv, NEW w \in Workers, NumberChat(w)
  PROVE  CompleteInv'
<1> SUFFICES ASSUME NEW c \in Clients, Lossless(c)', NEW n \in Remembered(c)'
             PROVE  Due(c, n)'
  BY DEF CompleteInv
<1> PICK state \in WorkStates, s \in Nat, m \in Nat :
      state = work[w] /\ s = state.job.session /\ m = Len(chats) + 1
  BY DEF TypeInv, TypeOK, PoolOK, ChatOK, WorkStates, Jobs
<1>1. /\ UNCHANGED <<conn, clients, sessionOf, shown, lost, welcomed>>
      /\ chatRings' = IF s \in DOMAIN chatRings
                      THEN [chatRings EXCEPT ![s] = Push(chatRings[s], m)] ELSE chatRings
  BY DEF NumberChat, tableVars, frameVars
<1>2. /\ state.at = "start" /\ work'[w].at = "fan" /\ work'[w].chat = m
      /\ \A v \in Workers : v # w => work'[v] = work[v]
  BY DEF NumberChat, TypeInv, TypeOK, PoolOK, WorkStates
<1>3. Lossless(c) /\ sessionOf[c] \in DOMAIN chatRings
  BY <1>1 DEF Lossless, Closed, AccountInv, SlotInv, Placed, RingsFollowSessions
<1>4. CASE n = m
  <2>1. Fanning(n)'
    BY <1>2, <1>4 DEF Fanning
  <2> QED
    BY <2>1 DEF Due
<1>5. CASE n # m
  <2>1. n \in Remembered(c)
    <3>1. CASE sessionOf[c] # s
      BY <1>1, <1>3, <3>1 DEF Remembered
    <3>2. CASE sessionOf[c] = s
      <4> PICK r \in Rings : r = chatRings[s]
        BY <1>3, <3>2 DEF TypeInv, TypeOK, ChatOK
      <4>1. n \in Contents(History(Push(r, m)))
        BY <1>1, <1>3, <3>2 DEF Remembered
      <4>2. \A k \in Contents(History(Push(r, m))) : k = m \/ k \in Contents(History(r))
        BY PushAdds
      <4>3. n \in Contents(History(r))
        BY <1>5, <4>1, <4>2
      <4> QED
        BY <3>2, <4>3 DEF Remembered
    <3> QED BY <3>1, <3>2
  <2>2. Fanning(n) => Fanning(n)'
    BY <1>2 DEF Fanning
  <2> QED
    BY <1>1, <1>2, <1>3, <2>1, <2>2, DueStays
<1> QED BY <1>4, <1>5

\* A message that is fanned out is shown to every client of its session, or one
\* of them loses a frame.
LEMMA FanOutComplete ==
  ASSUME TypeInv, ChatInv, CompleteInv, AccountInv, NEW w \in Workers, FanOut(w)
  PROVE  CompleteInv'
<1> SUFFICES ASSUME NEW c \in Clients, Lossless(c)', NEW n \in Remembered(c)'
             PROVE  Due(c, n)'
  BY DEF CompleteInv
<1>0. /\ send \in [Clients -> 0..SendCapacity] /\ lost \in [Clients -> BOOLEAN]
      /\ shown \in [Clients -> SUBSET Nat] /\ SendCapacity \in Nat
      /\ work \in [Workers -> WorkStates] /\ Idle \in WorkStates
  BY HubAssumption
     DEF TypeInv, TypeOK, FramesOK, PoolOK, Idle, PresenceJob, Jobs, WorkStates
<1> PICK m, s : m = work[w].chat /\ s = work[w].job.session
  OBVIOUS
<1>1. /\ UNCHANGED <<conn, clients, sessionOf, chatRings, chats, welcomed>>
      /\ work[w].at = "fan" /\ work' = [work EXCEPT ![w] = Idle]
  BY DEF FanOut, tableVars, chatVars
<1>2. /\ lost'[c] = (lost[c] \/ (c \in Members(s) /\ ~Closed(c) /\ send[c] = SendCapacity))
      /\ shown'[c] = IF c \in Members(s) /\ Queues(c) THEN shown[c] \cup {m} ELSE shown[c]
  BY DEF FanOut, QueueMessage
<1>3. Lossless(c) /\ n \in Remembered(c) /\ (c \in Members(s) => m \in shown'[c])
  <2>1. Lossless(c) /\ n \in Remembered(c)
    BY <1>1, <1>2 DEF Lossless, Closed, Remembered
  <2>2. c \in Members(s) => send[c] # SendCapacity
    BY <1>2, <2>1 DEF Lossless
  <2>3. c \in Members(s) => Queues(c)
    BY <1>0, <2>1, <2>2 DEF Queues, Lossless
  <2> QED
    BY <1>2, <2>1, <2>3
<1>4. n = m => c \in Members(s)
  <2>1. sessionOf[c] \in DOMAIN chatRings
    BY <1>3 DEF Lossless, AccountInv, SlotInv, Placed, RingsFollowSessions
  <2>2. chats[n] = sessionOf[c]
    BY <1>3, <2>1 DEF ChatInv, RingIsRecentChat, Remembered
  <2>3. chats[m] = s
    BY <1>1 DEF ChatInv, WorkersHoldTheirSession, Of
  <2> QED
    BY <1>3, <2>2, <2>3 DEF Members, Lossless
<1>5. \A v \in Workers : IF v = w THEN work'[v].at = "idle" ELSE work'[v] = work[v]
  BY <1>0, <1>1 DEF Idle
<1>6. Fanning(n) => n \in shown'[c] \/ Fanning(n)'
  BY <1>3, <1>4, <1>5 DEF Fanning
<1> QED
  BY <1>1, <1>2, <1>3, <1>5, <1>6, DueStays

\* The history a worker copies holds all its client's session remembers.
LEMMA CopyComplete ==
  ASSUME TypeInv, CompleteInv, AccountInv, NEW w \in Workers, CopyHistory(w)
  PROVE  CompleteInv'
<1> SUFFICES ASSUME NEW c \in Clients, Lossless(c)', NEW n \in Remembered(c)'
             PROVE  Due(c, n)'
  BY DEF CompleteInv
<1> PICK state, d, h :
      /\ state \in WorkStates /\ state = work[w] /\ d = state.job.client
      /\ h = IF sessionOf[d] \in DOMAIN chatRings THEN History(chatRings[sessionOf[d]]) ELSE <<>>
  BY DEF TypeInv, TypeOK, PoolOK
<1>1. /\ UNCHANGED <<conn, clients, sessionOf, chatRings, shown, lost, welcomed>>
      /\ work' = [work EXCEPT ![w] = [state EXCEPT !.at = "history", !.history = h]]
      /\ state.at = "start"
  BY DEF CopyHistory, tableVars, chatVars, frameVars
<1>2. Lossless(c) /\ n \in Remembered(c) /\ sessionOf[c] \in DOMAIN chatRings
  BY <1>1 DEF Lossless, Closed, Remembered, AccountInv, SlotInv, Placed, RingsFollowSessions
<1>3. /\ \A v \in Workers : v # w => work'[v] = work[v]
      /\ work'[w].at = "history" /\ work'[w].history = h /\ work'[w].job.client = d
  BY <1>1 DEF TypeInv, TypeOK, PoolOK, WorkStates
<1>4. Fanning(n) => Fanning(n)'
  BY <1>1, <1>3 DEF Fanning
<1>5. CASE d # c
  BY <1>1, <1>2, <1>3, <1>4, <1>5, DueStays
<1>6. CASE d = c
  <2>1. n \in Contents(h)
    BY <1>2, <1>6 DEF Remembered
  <2>2. Due(c, n)
    BY <1>2 DEF CompleteInv
  <2> QED
    BY <1>1, <1>3, <1>4, <2>1, <2>2 DEF Due
<1> QED BY <1>5, <1>6

\* With its history a client has all its session remembers, or lost a frame.
LEMMA SendComplete ==
  ASSUME TypeInv, CompleteInv, JobsInv, NEW w \in Workers, SendHistory(w)
  PROVE  CompleteInv'
<1> SUFFICES ASSUME NEW c \in Clients, Lossless(c)', NEW n \in Remembered(c)'
             PROVE  Due(c, n)'
  BY DEF CompleteInv
<1>0. /\ send \in [Clients -> 0..SendCapacity] /\ lost \in [Clients -> BOOLEAN]
      /\ shown \in [Clients -> SUBSET Nat] /\ SendCapacity \in Nat
      /\ work \in [Workers -> WorkStates] /\ Idle \in WorkStates
  BY HubAssumption
     DEF TypeInv, TypeOK, FramesOK, PoolOK, Idle, PresenceJob, Jobs, WorkStates
<1> PICK d, h : d = work[w].job.client /\ h = work[w].history
  OBVIOUS
<1>1. /\ UNCHANGED <<conn, clients, sessionOf, chatRings, chats>>
      /\ work[w].at = "history" /\ work' = [work EXCEPT ![w] = Idle]
      /\ c \in welcomed' => c \in welcomed \/ c = d
  BY DEF SendHistory, tableVars, chatVars
<1>2. /\ lost'[c] = (lost[c] \/ (c = d /\ h # <<>> /\ ~Closed(c) /\ send[c] = SendCapacity))
      /\ shown'[c] = IF c = d /\ Queues(c) THEN shown[c] \cup Contents(h) ELSE shown[c]
  BY <1>0 DEF SendHistory, QueueMessage
<1>3. Lossless(c) /\ n \in Remembered(c)
  BY <1>1, <1>2 DEF Lossless, Closed, Remembered
<1>4. \A v \in Workers : IF v = w THEN work'[v].at = "idle" ELSE work'[v] = work[v]
  BY <1>0, <1>1 DEF Idle
<1>5. Fanning(n) => Fanning(n)'
  BY <1>1, <1>4 DEF Fanning
<1>6. CASE c # d
  BY <1>1, <1>2, <1>3, <1>4, <1>5, <1>6, DueStays
<1>7. CASE c = d
  <2>1. n \in Contents(h) => n \in shown'[c]
    <3>1. h = <<>> => Contents(h) = {}
      BY DEF Contents
    <3>2. h # <<>> => send[c] # SendCapacity
      BY <1>2, <1>3, <1>7 DEF Lossless
    <3>3. send[c] # SendCapacity => Queues(c)
      BY <1>0, <1>3 DEF Queues, Lossless
    <3> QED
      BY <1>2, <1>7, <3>1, <3>2, <3>3
  <2>2. Due(c, n)
    BY <1>3 DEF CompleteInv
  <2>3. n \in shown'[c] \/ Fanning(n)'
    BY <1>1, <1>2, <1>5, <1>7, <2>1, <2>2 DEF Due
  <2> QED
    BY <2>3 DEF Due
<1> QED BY <1>6, <1>7

\* Every step leaves every remembered message accounted for.
LEMMA CompleteStep ==
  ASSUME TypeInv, LifeInv, AccountInv, AccountInv', JobsInv, ChatInv, CompleteInv, [Next]_vars
  PROVE  CompleteInv'
<1>0. /\ conn \in [Clients -> {"new", "waiting", "open", "closed", "rejected"}]
      /\ lost \in [Clients -> BOOLEAN] /\ register \in Seq(Clients) /\ clients \subseteq Clients
  BY DEF TypeInv, TypeOK, ConnOK, FramesOK, TablesOK
<1>1. ASSUME NEW d \in Clients, Hangup(d) PROVE CompleteInv'
  <2>1. \A c \in Clients : Lossless(c)' => Lossless(c)
    BY <1>0, <1>1 DEF Hangup, Lossless, Closed, tableVars
  <2> QED
    BY <1>1, <2>1, CompleteFrame DEF Hangup, tableVars, chatVars
<1>2. CASE Register
  <2> PICK d \in Clients : d = Head(register)
    BY <1>0, <1>2, HeadTail DEF Register
  <2>1. /\ conn[d] = "waiting" /\ d \notin clients
    <3>1. d = register[1] /\ 1 \in 1..Len(register)
      BY <1>0, <1>2, HeadTail DEF Register
    <3> QED
      BY <3>1 DEF LifeInv, QueuesInv
  <2>2. /\ UNCHANGED <<conn, work, shown, lost, welcomed>> /\ clients' = clients \cup {d}
        /\ \A c \in Clients : c # d => sessionOf'[c] = sessionOf[c]
        /\ \A s \in DOMAIN chatRings : chatRings'[s] = chatRings[s]
    BY <1>2 DEF Register, Place, Join, poolVars, frameVars, TypeInv, TypeOK, TablesOK
  <2> SUFFICES ASSUME NEW c \in Clients, Lossless(c)', NEW n \in Remembered(c)'
               PROVE  Due(c, n)'
    BY DEF CompleteInv
  <2>3. CASE c = d
    <3>1. c \notin welcomed'
      BY <2>1, <2>2, <2>3 DEF ChatInv, OnlyMembersAreShown
    <3>2. \A w \in Workers : work'[w].at = "history" => work'[w].job.client # c
      BY <2>1, <2>2, <2>3 DEF JobsInv, WorkFits, JobFits
    <3> QED
      BY <3>1, <3>2 DEF Due
  <2>4. CASE c # d
    <3>1. Lossless(c) /\ sessionOf[c] \in DOMAIN chatRings
      BY <2>2, <2>4 DEF Lossless, Closed, AccountInv, SlotInv, Placed, RingsFollowSessions
    <3>2. n \in Remembered(c)
      BY <2>2, <2>4, <3>1 DEF Remembered
    <3>3. Fanning(n) => Fanning(n)'
      BY <2>2 DEF Fanning
    <3> QED
      BY <2>2, <3>1, <3>2, <3>3, DueStays
  <2> QED BY <2>3, <2>4
<1>3. CASE LeaveSession
  <2>1. /\ UNCHANGED <<conn, clients, sessionOf, work, shown, lost, welcomed>>
        /\ \A s \in DOMAIN chatRings' : chatRings'[s] = chatRings[s]
    BY <1>3 DEF LeaveSession, Without, poolVars, frameVars
  <2>2. \A c \in Clients : Lossless(c)' => Lossless(c) /\ sessionOf[c] \in DOMAIN chatRings'
    BY <2>1 DEF Lossless, Closed, AccountInv, SlotInv, Placed, RingsFollowSessions
  <2> QED
    BY <2>1, <2>2, CompleteFrame
<1>4. ASSUME UNCHANGED <<sessionOf, chatRings, work, shown, lost, welcomed>>,
             clients' \subseteq clients, \A c \in clients : Closed(c) => Closed(c)'
      PROVE  CompleteInv'
  <2>1. \A c \in Clients : Lossless(c)' => Lossless(c)
    BY <1>4 DEF Lossless
  <2> QED
    BY <1>4, <2>1, CompleteFrame
<1>5. CASE Announce
  BY <1>0, <1>4, <1>5 DEF Announce, Closed, LifeInv, KnownInv, tableVars, chatVars, poolVars,
     frameVars
<1>6. CASE Reject
  <2>1. /\ Head(register) = register[1] /\ conn[register[1]] = "waiting"
    BY <1>0, <1>6, HeadTail DEF Reject, LifeInv, QueuesInv
  <2> QED
    BY <1>0, <1>4, <1>6, <2>1 DEF Reject, Closed, tableVars, chatVars, poolVars, frameVars
<1>7. ASSUME NEW c \in Clients, Connect(c) PROVE CompleteInv'
  BY <1>0, <1>4, <1>7 DEF Connect, Closed, tableVars, chatVars, poolVars, frameVars
<1>8. ASSUME NEW w \in Workers, WorkerStep(w) PROVE CompleteInv'
  BY <1>8, WorkerFrame, NumberComplete, FanOutComplete, CopyComplete, SendComplete
     DEF WorkerStep
<1>9. CASE UNCHANGED <<conn, clients, sessionOf, chatRings, work, shown, lost, welcomed>>
  BY <1>4, <1>9 DEF Closed
<1>10. CASE ForgetClient
  BY <1>4, <1>10 DEF ForgetClient, Closed, chatVars, poolVars, frameVars
<1> QED
  BY <1>1, <1>2, <1>3, <1>5, <1>6, <1>7, <1>8, <1>9, <1>10
     DEF Next, RunStep, TickerStep, PumpStep, vars, tableVars, chatVars, poolVars, frameVars,
         Dispatch, TakeChat, DropSubscriptions, Leave, Tick, TickDispatch, Write, Say,
         Subscribe, Unsubscribe

-----------------------------------------------------------------------------
(* The theorems.                                                           *)

\* The inductive invariant of the chat.
ChatHubInv == HubInv /\ JobsInv /\ ChatInv /\ CompleteInv

\* The conjunction of the parts is inductive.
LEMMA ChatInvariant == Spec => []ChatHubInv
<1>1. Init => ChatHubInv
  BY TypeInit, LifeInit, AccountInit, SubInit, JobsInit, ChatInit, CompleteInit
     DEF ChatHubInv, HubInv
<1>2. ChatHubInv /\ [Next]_vars => ChatHubInv'
  <2> SUFFICES ASSUME ChatHubInv, [Next]_vars PROVE ChatHubInv'
    OBVIOUS
  <2>1. HubInv'
    BY TypeStep, LifeStep, AccountStep, SubStep DEF ChatHubInv, HubInv
  <2>2. JobsInv' /\ ChatInv'
    BY JobsStep, ChatStep DEF ChatHubInv, HubInv
  <2>3. CompleteInv'
    BY <2>1, CompleteStep DEF ChatHubInv, HubInv
  <2> QED
    BY <2>1, <2>2, <2>3 DEF ChatHubInv
<1> QED
  BY <1>1, <1>2, PTL DEF Spec

\* Whatever is queued to a client was written in its session, for any number of
\* sessions, workers and messages under way (handleGlobalChat, sendChatHistory).
THEOREM ChatStaysInItsSession == Spec => []SessionIsolation
<1>1. ChatHubInv => SessionIsolation
  BY DEF ChatHubInv, ChatInv
<1> QED
  BY <1>1, ChatInvariant, PTL

\* The circular buffer of a session holds its latest messages in the order they
\* were numbered in, for every size of the buffer.
THEOREM RingsHoldTheLatest == Spec => []RingIsRecentChat
<1>1. ChatHubInv => RingIsRecentChat
  BY DEF ChatHubInv, ChatInv
<1> QED
  BY <1>1, ChatInvariant, PTL

\* No message is missed between the history and the live chat, unless a frame
\* was dropped, for any number of workers.
THEOREM NoChatIsMissed == Spec => []ChatComplete
<1>1. ChatHubInv => ChatComplete
  BY DEF ChatHubInv, HubInv, TypeInv, TypeOK, TablesOK, CompleteInv, Lossless, Closed,
     Remembered, Due, Fanning, ChatComplete
<1> QED
  BY <1>1, ChatInvariant, PTL
=============================================================================
