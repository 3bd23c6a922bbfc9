-------------------------- MODULE TransportProofs --------------------------
(***************************************************************************)
(* Proofs about the browser's two ways to the server.                      *)
(*                                                                         *)
(* Requests: for any number of concurrent calls, endpoints and token       *)
(* generations, a read found in pendingAPIReads is still pending, and      *)
(* apiRequest implements the promise of ApiPromise.                        *)
(*                                                                         *)
(* The socket: for any number of socket names, timers and tokens, there is *)
(* at most one, and the server knows what the browser subscribed to,       *)
(* whatever the mounts, heartbeats, timers, failures and token changes do. *)
(***************************************************************************)
EXTENDS ApiClient, WsClient, FiniteSetTheorems, TLAPS

-----------------------------------------------------------------------------
(* The request layer.                                                      *)

\* The shapes the argument needs.
ReadTypes ==
    /\ DOMAIN st = Calls /\ DOMAIN key = Calls /\ DOMAIN window = Calls
    /\ DOMAIN entry = Keys
    /\ \A k \in Keys : entry[k] \in Calls \cup {None}
    /\ pending \subseteq Calls

\* An entry names a read that is waiting for its window or is on the bridge,
\* and that was registered under this very key.
EntryIsPending ==
    \A k \in Keys : entry[k] # None =>
        st[entry[k]] \in {"window", "ws"} /\ key[entry[k]] = k

\* Who awaits the bridge is on the bridge; a window before a fetch is awaited.
BridgeIsAwaited == \A c \in pending : st[c] = "ws"
WindowIsAwaited == \A c \in Calls : window[c] = "http" => st[c] = "window"

ReadsInv == ReadTypes /\ EntryIsPending /\ BridgeIsAwaited /\ WindowIsAwaited

-----------------------------------------------------------------------------
\* A call that is neither waiting for its window nor on the bridge may leave
\* its state for any other without disturbing an entry.
LEMMA MoveOther ==
    ASSUME ReadsInv, NEW c \in Calls, NEW s, st[c] \notin {"window", "ws"},
           st' = [st EXCEPT ![c] = s],
           UNCHANGED <<key, entry, window, pending>>
    PROVE  ReadsInv'
<1>1. DOMAIN st' = Calls /\ \A d \in Calls : d # c => st'[d] = st[d]
  BY DEF ReadsInv, ReadTypes
<1>2. \A k \in Keys : entry[k] # None => entry[k] # c /\ entry[k] \in Calls
  BY DEF ReadsInv, ReadTypes, EntryIsPending
<1>3. c \notin pending
  BY DEF ReadsInv, BridgeIsAwaited
<1> QED
  BY <1>1, <1>2, <1>3 DEF ReadsInv, ReadTypes, EntryIsPending, BridgeIsAwaited, WindowIsAwaited

\* Settling a set of promises that are each on the bridge, or each over fetch:
\* the entries of the settled bridge reads are gone, the others undisturbed.
LEMMA SettleKeeps ==
    ASSUME ReadsInv, NEW P \in SUBSET Calls, NEW result,
           \A c \in P : st[c] \in {"ws", "fetch", "refresh", "retry"},
           Settle(P, result), pending' \subseteq pending \ P, UNCHANGED window
    PROVE  ReadsInv'
<1> DEFINE all == UNION {Sharers(c) : c \in P}
           keys == {key[c] : c \in {d \in P : st[d] = "ws"}}
<1>1. /\ st' = [d \in Calls |-> IF d \in all THEN result ELSE st[d]]
      /\ entry' = [k \in Keys |-> IF k \in keys THEN None ELSE entry[k]]
      /\ key' = key
  BY DEF Settle
<1>2. \A d \in all : d \in P \/ st[d] = "joined"
  BY DEF Sharers
<1>3. \A d \in P : st[d] = "ws" => key[d] \in keys
  OBVIOUS
<1> HIDE DEF all, keys
<1>4. ASSUME NEW k \in Keys, entry'[k] # None
      PROVE  st'[entry'[k]] \in {"window", "ws"} /\ key'[entry'[k]] = k
  <2>1. entry'[k] = entry[k] /\ k \notin keys
    BY <1>1, <1>4
  <2>2. entry[k] \in Calls /\ st[entry[k]] \in {"window", "ws"} /\ key[entry[k]] = k
    BY <1>4, <2>1 DEF ReadsInv, ReadTypes, EntryIsPending
  <2>3. entry[k] \notin all
    BY <1>2, <1>3, <2>1, <2>2
  <2> QED
    BY <1>1, <2>1, <2>2, <2>3
<1>5. ASSUME NEW d \in pending'
      PROVE  st'[d] = "ws"
  BY <1>1, <1>2, <1>5 DEF ReadsInv, ReadTypes, BridgeIsAwaited
<1>6. ASSUME NEW d \in Calls, window'[d] = "http"
      PROVE  st'[d] = "window"
  BY <1>1, <1>2, <1>6 DEF ReadsInv, WindowIsAwaited
<1>7. ReadTypes'
  BY <1>1 DEF ReadsInv, ReadTypes
<1> QED
  BY <1>4, <1>5, <1>6, <1>7 DEF ReadsInv, EntryIsPending, BridgeIsAwaited, WindowIsAwaited

\* A read registers itself under a key that has no entry.
LEMMA RegisterKeeps ==
    ASSUME ReadsInv, NEW c \in Calls, NEW k, NEW s \in {"window", "ws"},
           NEW w \in {"ws", "http"}, w = "http" => s = "window",
           st[c] = "idle",
           st' = [st EXCEPT ![c] = s], key' = [key EXCEPT ![c] = k],
           entry' = [entry EXCEPT ![k] = c], window' = [window EXCEPT ![c] = w],
           pending' \subseteq Calls,
           \A d \in pending' : d \in pending \/ (d = c /\ s = "ws")
    PROVE  ReadsInv'
<1>1. /\ DOMAIN st' = Calls /\ DOMAIN key' = Calls /\ DOMAIN window' = Calls /\ DOMAIN entry' = Keys
      /\ st'[c] = s /\ key'[c] = k /\ window'[c] = w
      /\ \A d \in Calls : d # c => st'[d] = st[d] /\ key'[d] = key[d] /\ window'[d] = window[d]
      /\ \A j \in Keys : entry'[j] = IF j = k THEN c ELSE entry[j]
  BY DEF ReadsInv, ReadTypes
<1>2. \A j \in Keys : entry[j] # None => entry[j] # c /\ entry[j] \in Calls
  BY DEF ReadsInv, ReadTypes, EntryIsPending
<1>3. c \notin pending
  BY DEF ReadsInv, BridgeIsAwaited
<1>4. ReadTypes'
  BY <1>1 DEF ReadsInv, ReadTypes
<1>5. EntryIsPending'
  BY <1>1, <1>2 DEF ReadsInv, EntryIsPending
<1>6. BridgeIsAwaited'
  BY <1>1, <1>3 DEF ReadsInv, ReadTypes, BridgeIsAwaited
<1>7. WindowIsAwaited'
  BY <1>1 DEF ReadsInv, WindowIsAwaited
<1> QED
  BY <1>4, <1>5, <1>6, <1>7 DEF ReadsInv

-----------------------------------------------------------------------------
LEMMA ReadsInvInit == Init => ReadsInv
BY DEF Init, ReadsInv, ReadTypes, EntryIsPending, BridgeIsAwaited, WindowIsAwaited

\* A step that changes nothing the invariant reads.
LEMMA ReadsInvUnchanged ==
    ASSUME ReadsInv, UNCHANGED <<st, key, entry, window, pending>>
    PROVE  ReadsInv'
BY DEF ReadsInv, ReadTypes, EntryIsPending, BridgeIsAwaited, WindowIsAwaited

\* apiRequest joins a read, registers one, or sends a write.
LEMMA RequestKeeps ==
    ASSUME ReadsInv, NEW c \in Calls, apiRequest(c)
    PROVE  ReadsInv'
<1>1. ASSUME NEW k, JoinRead(c, k)
      PROVE  ReadsInv'
  BY <1>1, MoveOther DEF JoinRead, Begin
<1>2. ASSUME NEW k, ReadOnBridge(c, k)
      PROVE  ReadsInv'
  <2>1. pending' = pending \cup {c} /\ pending' \subseteq Calls
    BY <1>2 DEF ReadOnBridge, QueueWs, ReadsInv, ReadTypes
  <2>2. /\ st[c] = "idle" /\ st' = [st EXCEPT ![c] = "ws"] /\ key' = [key EXCEPT ![c] = k]
        /\ entry' = [entry EXCEPT ![k] = c] /\ window' = [window EXCEPT ![c] = "ws"]
    BY <1>2 DEF ReadOnBridge, Begin
  <2> QED
    BY <2>1, <2>2, RegisterKeeps
<1>3. ASSUME NEW k, ReadInWindow(c, k)
      PROVE  ReadsInv'
  <2>1. pending' = pending /\ pending' \subseteq Calls
    BY <1>3 DEF ReadInWindow, ReadsInv, ReadTypes
  <2>2. /\ st[c] = "idle" /\ st' = [st EXCEPT ![c] = "window"] /\ key' = [key EXCEPT ![c] = k]
        /\ entry' = [entry EXCEPT ![k] = c] /\ window' = [window EXCEPT ![c] = "http"]
    BY <1>3 DEF ReadInWindow, Begin
  <2> QED
    BY <2>1, <2>2, RegisterKeeps
<1>4. ASSUME NEW k, Write(c, k)
      PROVE  ReadsInv'
  <2>1. CASE open /\ k = "write"
    <3>1. /\ st[c] = "idle" /\ st' = [st EXCEPT ![c] = "ws"]
          /\ pending' = pending \cup {c} /\ UNCHANGED <<key, entry, window>>
      BY <1>4, <2>1 DEF Write, Begin, QueueWs
    <3>2. DOMAIN st' = Calls /\ st'[c] = "ws" /\ \A d \in Calls : d # c => st'[d] = st[d]
      BY <3>1 DEF ReadsInv, ReadTypes
    <3>3. \A k2 \in Keys : entry[k2] # None => entry[k2] # c /\ entry[k2] \in Calls
      BY <3>1 DEF ReadsInv, ReadTypes, EntryIsPending
    <3> QED
      BY <3>1, <3>2, <3>3 DEF ReadsInv, ReadTypes, EntryIsPending, BridgeIsAwaited, WindowIsAwaited
  <2>2. CASE ~(open /\ k = "write")
    BY <1>4, <2>2, MoveOther DEF Write, Begin
  <2> QED
    BY <2>1, <2>2
<1> QED
  BY <1>1, <1>2, <1>3, <1>4 DEF apiRequest

\* The coalesce timer removes the entry of the read it sends.
LEMMA TimerKeeps ==
    ASSUME ReadsInv, NEW c \in Calls, CoalesceTimer(c)
    PROVE  ReadsInv'
<1>1. /\ entry' = [entry EXCEPT ![key[c]] = None]
      /\ window' = [window EXCEPT ![c] = "off"]
      /\ UNCHANGED <<key, pending>>
  BY DEF CoalesceTimer
<1>2. /\ DOMAIN entry' = Keys /\ DOMAIN window' = Calls /\ window'[c] = "off"
      /\ \A k \in Keys : entry'[k] = IF k = key[c] THEN None ELSE entry[k]
      /\ \A d \in Calls : d # c => window'[d] = window[d]
  BY <1>1 DEF ReadsInv, ReadTypes
<1>3. CASE window[c] = "http"
  <2>1. st[c] = "window" /\ st' = [st EXCEPT ![c] = "fetch"]
    BY <1>3 DEF CoalesceTimer, ReadsInv, WindowIsAwaited
  <2>2. DOMAIN st' = Calls /\ \A d \in Calls : d # c => st'[d] = st[d]
    BY <2>1 DEF ReadsInv, ReadTypes
  <2>3. \A k \in Keys : entry'[k] # None => entry[k] \in Calls /\ entry[k] # c
    BY <1>2 DEF ReadsInv, ReadTypes, EntryIsPending
  <2>4. c \notin pending
    BY <2>1 DEF ReadsInv, BridgeIsAwaited
  <2> QED
    BY <1>1, <1>2, <2>2, <2>3, <2>4 DEF ReadsInv, ReadTypes, EntryIsPending, BridgeIsAwaited, WindowIsAwaited
<1>4. CASE window[c] # "http"
  <2>1. st' = st
    BY <1>4 DEF CoalesceTimer
  <2> QED
    BY <1>1, <1>2, <2>1 DEF ReadsInv, ReadTypes, EntryIsPending, BridgeIsAwaited, WindowIsAwaited
<1> QED
  BY <1>3, <1>4

\* Every step of the request layer, the network, the server and the user keeps it.
LEMMA ReadsInvStep == ReadsInv /\ [Next]_vars => ReadsInv'
<1> SUFFICES ASSUME ReadsInv, [Next]_vars
             PROVE  ReadsInv'
  OBVIOUS
<1>1. CASE SocketOpens \/ SocketCloses \/ TokenExpires \/ SignOut
  BY <1>1, ReadsInvUnchanged DEF SocketOpens, SocketCloses, TokenExpires, SignOut, callVars, readVars
<1>2. CASE rejectAllWsApiRequests
  <2>1. /\ Settle(pending, "error") /\ pending' = {} /\ UNCHANGED window
        /\ pending \in SUBSET Calls /\ \A c \in pending : st[c] = "ws"
    BY <1>2 DEF rejectAllWsApiRequests, ReadsInv, ReadTypes, BridgeIsAwaited
  <2> QED
    BY <2>1, SettleKeeps
<1>3. ASSUME NEW c \in Calls, WsTimeout(c)
      PROVE  ReadsInv'
  <2>1. Settle({c}, "error") /\ pending' = pending \ {c} /\ UNCHANGED window /\ st[c] = "ws"
    BY <1>3 DEF WsTimeout, ReadsInv, BridgeIsAwaited
  <2> QED
    BY <2>1, SettleKeeps
<1>4. ASSUME NEW c \in Calls, resolveWsApiResponse(c)
      PROVE  ReadsInv'
  <2>1. CASE c \in pending
    <3>1. PICK r : Settle({c}, r)
      BY <1>4, <2>1 DEF resolveWsApiResponse
    <3>2. pending' = pending \ {c} /\ UNCHANGED window /\ st[c] = "ws"
      BY <1>4, <2>1 DEF resolveWsApiResponse, ReadsInv, BridgeIsAwaited
    <3> QED
      BY <3>1, <3>2, SettleKeeps
  <2>2. CASE c \notin pending
    BY <1>4, <2>2, ReadsInvUnchanged DEF resolveWsApiResponse, callVars
  <2> QED
    BY <2>1, <2>2
<1>5. ASSUME NEW c \in Calls, st[c] \in {"fetch", "refresh", "retry"}, NEW r, Settle({c}, r),
             UNCHANGED <<window, pending>>
      PROVE  ReadsInv'
  <2>1. c \notin pending
    BY <1>5 DEF ReadsInv, BridgeIsAwaited
  <2> QED
    BY <1>5, <2>1, SettleKeeps
<1>6. ASSUME NEW c \in Calls, FetchAnswered(c)
      PROVE  ReadsInv'
  <2>1. CASE st' = [st EXCEPT ![c] = "refresh"] /\ UNCHANGED <<key, entry>>
    BY <1>6, <2>1, MoveOther DEF FetchAnswered
  <2>2. CASE \E r : Settle({c}, r)
    BY <1>5, <1>6, <2>2 DEF FetchAnswered
  <2> QED
    BY <1>6, <2>1, <2>2 DEF FetchAnswered
<1>7. ASSUME NEW c \in Calls, RefreshAnswered(c)
      PROVE  ReadsInv'
  <2>1. CASE st' = [st EXCEPT ![c] = "retry"] /\ UNCHANGED <<key, entry>>
    BY <1>7, <2>1, MoveOther DEF RefreshAnswered
  <2>2. CASE \E r : Settle({c}, r)
    BY <1>5, <1>7, <2>2 DEF RefreshAnswered
  <2> QED
    BY <1>7, <2>1, <2>2 DEF RefreshAnswered
<1>8. ASSUME NEW c \in Calls, RetryAnswered(c) \/ FetchFails(c)
      PROVE  ReadsInv'
  <2>1. \E r : Settle({c}, r)
    BY <1>8 DEF RetryAnswered, FetchFails
  <2> QED
    BY <1>5, <1>8, <2>1 DEF RetryAnswered, FetchFails
<1>9. ASSUME NEW c \in Calls, Serve(c) \/ ServeRefresh(c)
      PROVE  ReadsInv'
  BY <1>9, ReadsInvUnchanged DEF Serve, ServeRefresh, callVars, readVars
<1>10. ASSUME NEW c \in Calls, Consume(c)
       PROVE  ReadsInv'
  <2>1. /\ DOMAIN st' = Calls /\ DOMAIN key' = Calls
        /\ \A d \in Calls : d # c => st'[d] = st[d] /\ key'[d] = key[d]
        /\ st[c] \in {"ok", "error"} /\ UNCHANGED <<entry, window, pending>>
    BY <1>10 DEF Consume, readVars, ReadsInv, ReadTypes
  <2>2. \A k \in Keys : entry[k] # None => entry[k] # c /\ entry[k] \in Calls
    BY <2>1 DEF ReadsInv, ReadTypes, EntryIsPending
  <2>3. c \notin pending /\ window[c] # "http"
    BY <2>1 DEF ReadsInv, BridgeIsAwaited, WindowIsAwaited
  <2> QED
    BY <2>1, <2>2, <2>3 DEF ReadsInv, ReadTypes, EntryIsPending, BridgeIsAwaited, WindowIsAwaited
<1>11. CASE UNCHANGED vars
  BY <1>11, ReadsInvUnchanged DEF vars, callVars, readVars
<1> QED
  BY <1>1, <1>2, <1>3, <1>4, <1>6, <1>7, <1>8, <1>9, <1>10, <1>11, RequestKeeps, TimerKeeps DEF Next

\* In every behaviour of the request layer an entry of pendingAPIReads is a read
\* whose promise is still pending (apiRequest, performApiRequest,
\* queueWsRequest and rejectAllWsApiRequests of utils/api.ts).
THEOREM NoCachedResultAlways == Spec => []NoCachedResult
<1>1. Spec => []ReadsInv
  BY ReadsInvInit, ReadsInvStep, PTL DEF Spec
<1>2. ReadsInv => NoCachedResult
  BY DEF ReadsInv, EntryIsPending, NoCachedResult
<1> QED
  BY <1>1, <1>2, PTL

-----------------------------------------------------------------------------
(* The promise.                                                            *)

States == {"idle", "joined", "window", "ws", "fetch", "refresh", "retry", "ok", "error"}
Wires == {"none", "sent", "orphan"} \cup Replies

\* A call whose own request to the endpoint is on the way.
Carried == {"ws", "fetch", "retry"}

\* What relates a call to its request: who awaits its own promise; that a
\* request which may yet be carried out, or is asked again with a new token, has
\* had no effect; and that a good answer is no older than what any sharer of it
\* may expect, and reports a write that was applied.
CallInv(c) ==
    /\ kind[c] = "read" => effect[c] = 0
    /\ st[c] \in {"idle", "joined", "window"} => kind[c] = "read"
    /\ st[c] \in {"joined", "ok"} => wire[c] = "none"
    /\ st[c] \notin {"joined", "ok", "error"} => owner[c] = c
    /\ wire[c] \in {"sent", "orphan", "denied"} \/ st[c] = "refresh" => effect[c] = 0
    /\ floor[c] <= db
    /\ st[c] \in Carried /\ wire[c] = "ok" =>
          /\ val[c] <= db
          /\ kind[c] # "read" => effect[c] = 1
          /\ \A d \in Sharers(c) : floor[d] <= val[c]
    /\ st[c] = "refresh" /\ wire[c] = "ok" => val[c] \in Gens

PromiseInv == TypeOK /\ \A c \in Calls : CallInv(c)

\* The part of TypeOK that Settle touches.
SettledTypes ==
    /\ st \in [Calls -> States]
    /\ kind \in [Calls -> Kinds]
    /\ key \in [Calls -> Keys \cup {None}]
    /\ owner \in [Calls -> Calls]
    /\ entry \in [Keys -> Calls \cup {None}]
    /\ floor \in [Calls -> Nat] /\ got \in [Calls -> Nat]

LEMMA SettleTypes ==
    ASSUME TypeOK, NEW P \in SUBSET Calls, NEW result \in {"ok", "error"}, Settle(P, result)
    PROVE  SettledTypes'
<1> DEFINE all == UNION {Sharers(c) : c \in P}
           keys == {key[c] : c \in {d \in P : st[d] = "ws"}}
<1>1. /\ st' = [d \in Calls |-> IF d \in all THEN result ELSE st[d]]
      /\ got' = [d \in Calls |-> IF d \in all /\ result = "ok" THEN val[owner[d]] ELSE got[d]]
      /\ entry' = [k \in Keys |-> IF k \in keys THEN None ELSE entry[k]]
      /\ floor' = [d \in Calls |-> IF d \in all THEN 0 ELSE floor[d]]
      /\ UNCHANGED <<kind, key, owner>>
  BY DEF Settle
<1> HIDE DEF all, keys
<1>2. st' \in [Calls -> States]
  BY <1>1 DEF TypeOK, States
<1>3. got' \in [Calls -> Nat] /\ floor' \in [Calls -> Nat]
  BY <1>1 DEF TypeOK
<1>4. entry' \in [Keys -> Calls \cup {None}]
  BY <1>1 DEF TypeOK
<1> QED
  BY <1>1, <1>2, <1>3, <1>4 DEF TypeOK, SettledTypes

\* Settling promises keeps the relation, when the requests of those that succeed
\* are done with and any other request is kept, dropped or orphaned.
LEMMA SettleCalls ==
    ASSUME PromiseInv, NEW P \in SUBSET Calls, NEW result \in {"ok", "error"}, Settle(P, result),
           UNCHANGED <<val, effect, db>>,
           \A d \in Calls : \/ wire'[d] = wire[d] \/ wire'[d] = "none"
                            \/ wire'[d] = "orphan" /\ wire[d] = "sent",
           result = "ok" => \A d \in P : wire'[d] = "none"
    PROVE  \A c \in Calls : CallInv(c)'
<1> DEFINE all == UNION {Sharers(c) : c \in P}
<1>1. /\ st' = [d \in Calls |-> IF d \in all THEN result ELSE st[d]]
      /\ floor' = [d \in Calls |-> IF d \in all THEN 0 ELSE floor[d]]
      /\ UNCHANGED <<kind, key, owner>>
  BY DEF Settle
<1>2. \A d \in all : d \in P \/ st[d] = "joined"
  BY DEF Sharers
<1>3. \A c, d \in Calls : d \in Sharers(c)' => d \in Sharers(c)
  BY <1>1 DEF Sharers
<1> HIDE DEF all
<1> SUFFICES ASSUME NEW c \in Calls
             PROVE  CallInv(c)'
  OBVIOUS
<1>4. CallInv(c) /\ floor[c] \in Nat /\ db \in Nat
  BY DEF PromiseInv, TypeOK
<1>5. \A d \in Calls : floor'[d] = floor[d] \/ floor'[d] = 0
  BY <1>1
<1>6. st'[c] = IF c \in all THEN result ELSE st[c]
  BY <1>1
<1>7. st'[c] \in {"joined", "ok"} => wire'[c] = "none"
  BY <1>2, <1>4, <1>6 DEF CallInv
<1>8. st'[c] \in Carried /\ wire'[c] = "ok" =>
          /\ val'[c] <= db'
          /\ kind'[c] # "read" => effect'[c] = 1
          /\ \A d \in Sharers(c)' : floor'[d] <= val'[c]
  <2> SUFFICES ASSUME st'[c] \in Carried, wire'[c] = "ok"
               PROVE  /\ val'[c] <= db'
                      /\ kind'[c] # "read" => effect'[c] = 1
                      /\ \A d \in Sharers(c)' : floor'[d] <= val'[c]
    OBVIOUS
  <2>1. st[c] \in Carried /\ wire[c] = "ok"
    BY <1>6 DEF Carried
  <2>2. val[c] \in Nat
    BY DEF PromiseInv, TypeOK
  <2>3. ASSUME NEW d \in Sharers(c)'
        PROVE  floor'[d] <= val[c]
    <3>1. d \in Calls /\ d \in Sharers(c) /\ floor[d] <= val[c]
      BY <1>3, <1>4, <2>1, <2>3 DEF CallInv, Sharers
    <3> QED
      BY <1>5, <2>2, <3>1
  <2> QED
    BY <1>1, <1>4, <2>1, <2>3 DEF CallInv
<1>9. floor'[c] <= db'
  BY <1>4, <1>5 DEF CallInv
<1>10. st'[c] = "refresh" \/ st'[c] \in {"idle", "window"} => st'[c] = st[c]
  BY <1>6
<1>11. st'[c] \notin {"joined", "ok", "error"} => st'[c] = st[c]
  BY <1>6
<1>12. st'[c] = "joined" => st'[c] = st[c]
  BY <1>6
<1>13. wire'[c] \in {"sent", "orphan", "denied"} \/ st'[c] = "refresh" => effect'[c] = 0
  BY <1>4, <1>10 DEF CallInv
<1>14. st'[c] = "refresh" /\ wire'[c] = "ok" => val'[c] \in Gens
  BY <1>4, <1>10 DEF CallInv
<1>15. /\ kind'[c] = "read" => effect'[c] = 0
       /\ st'[c] \in {"idle", "joined", "window"} => kind'[c] = "read"
       /\ st'[c] \notin {"joined", "ok", "error"} => owner'[c] = c
  BY <1>1, <1>4, <1>10, <1>11, <1>12 DEF CallInv
<1> QED
  BY <1>7, <1>8, <1>9, <1>13, <1>14, <1>15 DEF CallInv

\* What the calls other than c need, when a step changes c alone.
LEMMA OthersKeep ==
    ASSUME TypeOK, NEW c \in Calls, NEW d \in Calls, d # c, CallInv(d),
           \A e \in Calls \ {c} :
              /\ st'[e] = st[e] /\ kind'[e] = kind[e] /\ owner'[e] = owner[e]
              /\ wire'[e] = wire[e] /\ val'[e] = val[e] /\ effect'[e] = effect[e]
              /\ floor'[e] = floor[e],
           db' \in Nat, db <= db',
           st'[c] = "joined" /\ owner'[c] = d /\ st[d] \in Carried /\ wire[d] = "ok"
              => floor'[c] <= val[d]
    PROVE  CallInv(d)'
<1>1. /\ st'[d] = st[d] /\ kind'[d] = kind[d] /\ owner'[d] = owner[d] /\ wire'[d] = wire[d]
      /\ val'[d] = val[d] /\ effect'[d] = effect[d] /\ floor'[d] = floor[d]
      /\ db \in Nat /\ floor[d] \in Nat /\ val[d] \in Nat
  BY DEF TypeOK
<1>2. floor'[d] <= db' /\ (val[d] <= db => val'[d] <= db')
  BY <1>1 DEF CallInv
<1>3. ASSUME st[d] \in Carried, wire[d] = "ok", NEW e \in Sharers(d)'
      PROVE  floor'[e] <= val[d]
  <2>1. CASE e = c
    BY <1>3, <2>1 DEF Sharers
  <2>2. CASE e # c
    <3>1. e \in Sharers(d) /\ e \in Calls \ {c}
      BY <1>3, <2>2 DEF Sharers
    <3> QED
      BY <1>3, <3>1 DEF CallInv
  <2> QED
    BY <2>1, <2>2
<1> QED
  BY <1>1, <1>2, <1>3 DEF CallInv

\* A call that begins: a joined read, a read on the bridge or in its window, or a
\* write.  Only a joined read shares another call's answer.
LEMMA RequestTypes ==
    ASSUME TypeOK, NEW c \in Calls, apiRequest(c)
    PROVE  TypeOK'
<1>1. ASSUME NEW e \in Endpoints, JoinRead(c, <<e, acc>>)
      PROVE  TypeOK'
  <2>1. <<e, acc>> \in Keys
    BY DEF TypeOK, Keys
  <2>2. entry[<<e, acc>>] \in Calls
    BY <1>1, <2>1 DEF JoinRead, TypeOK
  <2> QED
    BY <1>1, <2>2 DEF JoinRead, Begin, TypeOK, authVars, Kinds
<1>2. ASSUME NEW e \in Endpoints, ReadOnBridge(c, <<e, acc>>)
      PROVE  TypeOK'
  <2>1. <<e, acc>> \in Keys
    BY DEF TypeOK, Keys
  <2> QED
    BY <1>2, <2>1 DEF ReadOnBridge, Begin, QueueWs, SendWith, TypeOK, authVars, Kinds
<1>3. ASSUME NEW e \in Endpoints, ReadInWindow(c, <<e, acc>>)
      PROVE  TypeOK'
  <2>1. <<e, acc>> \in Keys
    BY DEF TypeOK, Keys
  <2> QED
    BY <1>3, <2>1 DEF ReadInWindow, Begin, TypeOK, authVars, Kinds
<1>4. ASSUME NEW k \in {"write", "form"}, Write(c, k)
      PROVE  TypeOK'
  <2>1. pending' \subseteq Calls
    BY <1>4 DEF Write, QueueWs, TypeOK
  <2>2. SendWith(c)
    BY <1>4 DEF Write, QueueWs
  <2>3. st' \in [Calls -> States] /\ kind' \in [Calls -> Kinds]
    BY <1>4 DEF Write, Begin, TypeOK, Kinds, States
  <2>4. floor' \in [Calls -> Nat] /\ wire' \in [Calls -> Wires] /\ tok' \in [Calls -> Gens]
    BY <1>4, <2>2 DEF Write, SendWith, TypeOK, Wires
  <2> QED
    BY <1>4, <2>1, <2>3, <2>4 DEF Write, Begin, TypeOK, authVars, States, Wires
<1> QED
  BY <1>1, <1>2, <1>3, <1>4 DEF apiRequest

LEMMA RequestCalls ==
    ASSUME PromiseInv, ReadsInv, NEW c \in Calls, apiRequest(c)
    PROVE  \A d \in Calls : CallInv(d)'
<1> USE DEF PromiseInv
<1>0. TypeOK' /\ TypeOK /\ CallInv(c)
  BY RequestTypes
<1>1. ASSUME NEW k \in Keys, JoinRead(c, k)
      PROVE  \A d \in Calls : CallInv(d)'
  <2> DEFINE o == entry[k]
  <2>1. o \in Calls /\ st[o] \in {"window", "ws"} /\ o # c /\ owner'[c] = o
    BY <1>1 DEF JoinRead, Begin, ReadsInv, EntryIsPending, TypeOK
  <2>2. /\ st'[c] = "joined" /\ kind'[c] = "read" /\ wire'[c] = "none" /\ effect'[c] = effect[c]
        /\ floor'[c] = IF st[o] = "window" THEN db ELSE floor[o]
        /\ st[c] = "idle" /\ db' = db
    BY <1>1 DEF JoinRead, Begin, TypeOK
  <2>3. \A e \in Calls \ {c} :
           /\ st'[e] = st[e] /\ kind'[e] = kind[e] /\ owner'[e] = owner[e]
           /\ wire'[e] = wire[e] /\ val'[e] = val[e] /\ effect'[e] = effect[e]
           /\ floor'[e] = floor[e]
    BY <1>1 DEF JoinRead, Begin, TypeOK
  <2>4. effect[c] = 0
    BY <1>0, <2>2 DEF CallInv
  <2>5. floor'[c] <= db' /\ (st[o] \in Carried /\ wire[o] = "ok" => floor'[c] <= val[o])
    <3>1. CallInv(o) /\ floor[o] \in Nat /\ db \in Nat /\ o \in Sharers(o)
      BY <2>1 DEF TypeOK, Sharers
    <3> QED
      BY <2>1, <2>2, <3>1 DEF CallInv, Carried
  <2>6. CallInv(c)'
    BY <2>2, <2>4, <2>5 DEF CallInv, Carried
  <2>7. ASSUME NEW d \in Calls, d # c
        PROVE  CallInv(d)'
    <3>1. CallInv(d)
      BY <2>7
    <3>2. db' \in Nat /\ db <= db'
      BY <1>0, <2>2 DEF TypeOK
    <3>3. st'[c] = "joined" /\ owner'[c] = d /\ st[d] \in Carried /\ wire[d] = "ok" => floor'[c] <= val[d]
      BY <2>1, <2>5
    <3> HIDE DEF o
    <3> QED
      BY <1>0, <2>3, <2>7, <3>1, <3>2, <3>3, OthersKeep
  <2> QED
    BY <2>6, <2>7
<1>2. ASSUME NEW s \in {"ws", "window", "fetch"}, NEW k \in Kinds, Begin(c, k, s),
             s = "window" => k = "read",
             UNCHANGED owner, floor' = [floor EXCEPT ![c] = db],
             wire' = wire \/ wire' = [wire EXCEPT ![c] = "sent"]
      PROVE  \A d \in Calls : CallInv(d)'
  <2>1. /\ st'[c] = s /\ kind'[c] = k /\ wire'[c] \in {"none", "sent"} /\ effect'[c] = effect[c]
        /\ floor'[c] = db /\ st[c] = "idle" /\ db' = db /\ owner'[c] = owner[c] /\ db \in Nat
    BY <1>2 DEF Begin, TypeOK
  <2>2. \A e \in Calls \ {c} :
           /\ st'[e] = st[e] /\ kind'[e] = kind[e] /\ owner'[e] = owner[e]
           /\ wire'[e] = wire[e] /\ val'[e] = val[e] /\ effect'[e] = effect[e]
           /\ floor'[e] = floor[e]
    BY <1>2 DEF Begin, TypeOK
  <2>3. effect[c] = 0 /\ owner[c] = c
    BY <1>0, <2>1 DEF CallInv
  <2>4. CallInv(c)'
    BY <1>2, <2>1, <2>3 DEF CallInv, Carried
  <2>5. ASSUME NEW d \in Calls, d # c
        PROVE  CallInv(d)'
    BY <1>0, <2>1, <2>2, <2>5, OthersKeep DEF TypeOK
  <2> QED
    BY <2>4, <2>5
<1>3. ASSUME NEW k \in Keys, ReadOnBridge(c, k) \/ ReadInWindow(c, k)
      PROVE  \A d \in Calls : CallInv(d)'
  BY <1>2, <1>3 DEF ReadOnBridge, ReadInWindow, QueueWs, SendWith, Kinds
<1>4. ASSUME NEW k \in {"write", "form"}, Write(c, k)
      PROVE  \A d \in Calls : CallInv(d)'
  BY <1>2, <1>4 DEF Write, QueueWs, SendWith, Kinds
<1>5. \A e \in Endpoints : <<e, acc>> \in Keys
  BY DEF TypeOK, Keys
<1> QED
  BY <1>1, <1>3, <1>4, <1>5 DEF apiRequest

\* The coalesce timer: a read whose window is over is sent.
LEMMA TimerCalls ==
    ASSUME PromiseInv, ReadsInv, NEW c \in Calls, CoalesceTimer(c)
    PROVE  PromiseInv'
<1>1. TypeOK /\ CallInv(c)
  BY DEF PromiseInv
<1>2. CASE window[c] = "http"
  <2>1. st[c] = "window" /\ st' = [st EXCEPT ![c] = "fetch"] /\ SendWith(c)
    BY <1>2 DEF CoalesceTimer, ReadsInv, WindowIsAwaited
  <2>2. TypeOK'
    BY <1>1, <2>1 DEF CoalesceTimer, SendWith, TypeOK, authVars
  <2>3. CallInv(c)'
    BY <1>1, <2>1 DEF CoalesceTimer, SendWith, TypeOK, CallInv, Carried
  <2>4. ASSUME NEW d \in Calls, d # c
        PROVE  CallInv(d)'
    <3>1. \A e \in Calls \ {c} :
             /\ st'[e] = st[e] /\ kind'[e] = kind[e] /\ owner'[e] = owner[e]
             /\ wire'[e] = wire[e] /\ val'[e] = val[e] /\ effect'[e] = effect[e]
             /\ floor'[e] = floor[e]
      BY <1>1, <2>1 DEF CoalesceTimer, SendWith, TypeOK
    <3>2. st'[c] = "fetch" /\ db' = db /\ db \in Nat
      BY <1>1, <2>1 DEF CoalesceTimer, TypeOK
    <3> QED
      BY <1>1, <2>4, <3>1, <3>2, OthersKeep DEF PromiseInv
  <2> QED
    BY <2>2, <2>3, <2>4 DEF PromiseInv
<1>3. CASE window[c] # "http"
  <2>1. TypeOK'
    BY <1>1, <1>3 DEF CoalesceTimer, TypeOK, authVars
  <2>2. UNCHANGED <<st, kind, owner, floor, wire, val, effect, db>>
    BY <1>3 DEF CoalesceTimer
  <2> QED
    BY <2>1, <2>2 DEF PromiseInv, CallInv, Sharers
<1> QED
  BY <1>2, <1>3

\* A 401 starts a refresh, and a refreshed request is sent again: the server has
\* done nothing for it yet.
LEMMA RefreshCalls ==
    ASSUME PromiseInv, NEW c \in Calls, st[c] \in {"fetch", "refresh"}, NEW s \in {"refresh", "retry"},
           effect[c] = 0,
           st' = [st EXCEPT ![c] = s], wire' = [wire EXCEPT ![c] = "sent"],
           UNCHANGED <<kind, owner, floor, val, effect, db>>
    PROVE  \A d \in Calls : CallInv(d)'
<1>1. TypeOK /\ CallInv(c)
  BY DEF PromiseInv
<1>2. st'[c] = s /\ wire'[c] = "sent" /\ db \in Nat
  BY <1>1 DEF TypeOK
<1>3. \A e \in Calls \ {c} :
         /\ st'[e] = st[e] /\ kind'[e] = kind[e] /\ owner'[e] = owner[e]
         /\ wire'[e] = wire[e] /\ val'[e] = val[e] /\ effect'[e] = effect[e]
         /\ floor'[e] = floor[e]
  BY <1>1 DEF TypeOK
<1>4. CallInv(c)'
  BY <1>1, <1>2 DEF CallInv, Carried
<1>5. ASSUME NEW d \in Calls, d # c
      PROVE  CallInv(d)'
  BY <1>1, <1>2, <1>3, <1>5, OthersKeep DEF PromiseInv
<1> QED
  BY <1>4, <1>5

\* The server answers a request, and applies it when it is a write with a token
\* that is still good: the answer then carries data as new as any floor.
LEMMA ServeCalls ==
    ASSUME PromiseInv, NEW c \in Calls, Serve(c)
    PROVE  PromiseInv'
<1>1. TypeOK /\ CallInv(c) /\ st[c] # "refresh" /\ db \in Nat /\ effect[c] = 0
      /\ wire[c] \in {"sent", "orphan"} /\ kind[c] \in Kinds
  BY DEF PromiseInv, Serve, CallInv, TypeOK
<1>2. /\ UNCHANGED <<sock, callVars, readVars, pending, tok, authVars>>
      /\ \A e \in Calls \ {c} : val'[e] = val[e] /\ effect'[e] = effect[e] /\ wire'[e] = wire[e]
      /\ wire'[c] \in {"none", "ok", "bad", "denied"}
      /\ wire'[c] = "ok" => val'[c] = db
      /\ wire' \in [Calls -> Wires] /\ val' \in [Calls -> Nat]
  BY <1>1 DEF Serve, Reply, TypeOK, Wires, Replies
<1>3. /\ effect' \in [Calls -> Nat] /\ db' \in Nat /\ db <= db'
      /\ kind[c] = "read" => effect'[c] = 0
      /\ kind[c] # "read" /\ wire'[c] = "ok" => effect'[c] = 1
      /\ wire'[c] = "denied" => effect'[c] = 0
      /\ \A e \in Calls \ {c} : effect'[e] = effect[e]
  BY <1>1 DEF Serve, Reply, TypeOK, Wires, Replies
<1>4. TypeOK'
  BY <1>1, <1>2, <1>3 DEF TypeOK, callVars, readVars, authVars, Wires
<1>5. \A e \in Calls \ {c} :
         /\ st'[e] = st[e] /\ kind'[e] = kind[e] /\ owner'[e] = owner[e]
         /\ wire'[e] = wire[e] /\ val'[e] = val[e] /\ effect'[e] = effect[e]
         /\ floor'[e] = floor[e]
  BY <1>2, <1>3 DEF callVars
<1>6. ASSUME NEW d \in Calls, d # c
      PROVE  CallInv(d)'
  <2>1. st'[c] = "joined" => wire[c] = "none"
    BY <1>1, <1>2 DEF CallInv, callVars
  <2> QED
    BY <1>1, <1>3, <1>5, <1>6, <2>1, OthersKeep DEF PromiseInv
<1>7. CallInv(c)'
  <2>1. \A d \in Calls : floor'[d] = floor[d] /\ floor[d] <= db
    BY <1>2 DEF PromiseInv, CallInv, callVars
  <2>2. /\ st'[c] = st[c] /\ kind'[c] = kind[c] /\ owner'[c] = owner[c]
        /\ Sharers(c)' \subseteq Calls
    BY <1>2 DEF callVars, Sharers
  <2>3. floor'[c] <= db' /\ (wire'[c] = "ok" => val'[c] <= db')
    <3>1. floor[c] \in Nat /\ floor[c] <= db /\ floor'[c] = floor[c]
      BY <1>1, <2>1 DEF TypeOK
    <3> QED
      BY <1>1, <1>2, <1>3, <3>1
  <2>4. st[c] \notin {"joined", "ok"}
    BY <1>1 DEF CallInv
  <2> QED
    BY <1>1, <1>2, <1>3, <2>1, <2>2, <2>3, <2>4 DEF CallInv
<1> QED
  BY <1>4, <1>6, <1>7 DEF PromiseInv

\* The refresh endpoint answers with the token the server accepts.
LEMMA ServeRefreshCalls ==
    ASSUME PromiseInv, NEW c \in Calls, ServeRefresh(c)
    PROVE  PromiseInv'
<1>1. TypeOK /\ CallInv(c) /\ st[c] = "refresh" /\ effect[c] = 0 /\ db \in Nat
  BY DEF PromiseInv, ServeRefresh, CallInv, TypeOK
<1>2. live \in Nat /\ live \in Gens
  BY <1>1, ApiAssumption DEF TypeOK, Gens
<1>3. /\ UNCHANGED <<sock, callVars, readVars, pending, tok, effect, db, authVars>>
      /\ \A e \in Calls \ {c} : val'[e] = val[e] /\ wire'[e] = wire[e]
      /\ val'[c] = live
      /\ wire' \in [Calls -> Wires] /\ val' \in [Calls -> Nat]
  BY <1>1, <1>2 DEF ServeRefresh, Reply, TypeOK, Wires, Replies
<1>4. TypeOK'
  BY <1>1, <1>3 DEF TypeOK, callVars, readVars, authVars, Wires
<1>5. CallInv(c)'
  BY <1>1, <1>2, <1>3 DEF CallInv, callVars, Carried
<1>6. ASSUME NEW d \in Calls, d # c
      PROVE  CallInv(d)'
  <2>1. st'[c] = "refresh" /\ db' = db
    BY <1>1, <1>3 DEF callVars
  <2>2. \A e \in Calls \ {c} :
           /\ st'[e] = st[e] /\ kind'[e] = kind[e] /\ owner'[e] = owner[e]
           /\ wire'[e] = wire[e] /\ val'[e] = val[e] /\ effect'[e] = effect[e]
           /\ floor'[e] = floor[e]
    BY <1>3 DEF callVars
  <2> QED
    BY <1>1, <1>6, <2>1, <2>2, OthersKeep DEF PromiseInv
<1> QED
  BY <1>4, <1>5, <1>6 DEF PromiseInv

\* A result is consumed: the slot is as at the start.
LEMMA ConsumeCalls ==
    ASSUME PromiseInv, NEW c \in Calls, Consume(c)
    PROVE  PromiseInv'
<1>1. TypeOK /\ db \in Nat /\ 0 \in Gens
  BY ApiAssumption DEF PromiseInv, TypeOK, Gens
<1>2. /\ st'[c] = "idle" /\ kind'[c] = "read" /\ owner'[c] = c /\ effect'[c] = 0
      /\ floor'[c] = 0 /\ wire'[c] = "none" /\ db' = db
      /\ \A e \in Calls \ {c} :
           /\ st'[e] = st[e] /\ kind'[e] = kind[e] /\ owner'[e] = owner[e]
           /\ wire'[e] = wire[e] /\ val'[e] = val[e] /\ effect'[e] = effect[e]
           /\ floor'[e] = floor[e]
  BY <1>1 DEF Consume, TypeOK
<1>3. TypeOK'
  BY <1>1 DEF Consume, TypeOK, readVars, authVars, Kinds
<1>4. CallInv(c)'
  BY <1>1, <1>2 DEF CallInv, Carried
<1>5. ASSUME NEW d \in Calls, d # c
      PROVE  CallInv(d)'
  BY <1>1, <1>2, <1>5, OthersKeep DEF PromiseInv
<1> QED
  BY <1>3, <1>4, <1>5 DEF PromiseInv

\* The end of a bridge request: its answer, its timeout, its socket's closing.
LEMMA BridgeEndCalls ==
    ASSUME PromiseInv, ReadsInv,
           rejectAllWsApiRequests \/ \E c \in Calls : WsTimeout(c) \/ resolveWsApiResponse(c)
    PROVE  PromiseInv'
<1>0. TypeOK
  BY DEF PromiseInv
<1>1. CASE rejectAllWsApiRequests
  <2>1. pending \in SUBSET Calls /\ Settle(pending, "error") /\ UNCHANGED <<val, effect, db>>
    BY <1>0, <1>1 DEF rejectAllWsApiRequests, TypeOK
  <2>2. /\ wire' \in [Calls -> Wires]
        /\ \A d \in Calls : \/ wire'[d] = wire[d] \/ wire'[d] = "none"
                            \/ wire'[d] = "orphan" /\ wire[d] = "sent"
    BY <1>0, <1>1 DEF rejectAllWsApiRequests, TypeOK, Wires
  <2>3. SettledTypes'
    BY <1>0, <2>1, SettleTypes
  <2>4. TypeOK'
    BY <1>0, <1>1, <2>2, <2>3 DEF rejectAllWsApiRequests, TypeOK, SettledTypes, States, Wires, authVars
  <2> QED
    BY <2>1, <2>2, <2>4, SettleCalls DEF PromiseInv
<1>2. ASSUME NEW c \in Calls, WsTimeout(c)
      PROVE  PromiseInv'
  <2>1. {c} \in SUBSET Calls /\ Settle({c}, "error") /\ UNCHANGED <<wire, val, effect, db>>
    BY <1>2 DEF WsTimeout, wireVars
  <2>2. SettledTypes'
    BY <1>0, <2>1, SettleTypes
  <2>3. TypeOK'
    BY <1>0, <1>2, <2>2 DEF WsTimeout, TypeOK, SettledTypes, States, wireVars, authVars
  <2> QED
    BY <2>1, <2>3, SettleCalls DEF PromiseInv
<1>3. ASSUME NEW c \in Calls, resolveWsApiResponse(c)
      PROVE  PromiseInv'
  <2>1. /\ wire' = [wire EXCEPT ![c] = "none"] /\ UNCHANGED <<val, effect, db>>
        /\ wire' \in [Calls -> Wires]
        /\ UNCHANGED <<sock, window, tok, authVars>>
    BY <1>0, <1>3 DEF resolveWsApiResponse, TypeOK, Wires
  <2>2. CASE c \in pending
    <3>1. PICK r \in {"ok", "error"} : Settle({c}, r)
      BY <1>3, <2>2 DEF resolveWsApiResponse
    <3>2. SettledTypes'
      BY <1>0, <3>1, SettleTypes
    <3>3. pending' = pending \ {c}
      BY <1>3, <2>2 DEF resolveWsApiResponse
    <3>4. TypeOK'
      BY <1>0, <2>1, <3>2, <3>3 DEF TypeOK, SettledTypes, States, Wires, authVars
    <3>5. /\ \A d \in Calls : wire'[d] = wire[d] \/ wire'[d] = "none"
          /\ \A d \in {c} : wire'[d] = "none"
      BY <1>0, <2>1 DEF TypeOK
    <3> QED
      BY <2>1, <3>1, <3>4, <3>5, SettleCalls DEF PromiseInv
  <2>3. CASE c \notin pending
    <3>1. UNCHANGED <<callVars, entry, pending>>
      BY <1>3, <2>3 DEF resolveWsApiResponse
    <3>2. TypeOK'
      BY <1>0, <2>1, <3>1 DEF TypeOK, callVars, authVars, Wires
    <3>3. \A d \in Calls : wire'[d] = wire[d] \/ wire'[d] = "none"
      BY <1>0, <2>1 DEF TypeOK
    <3>4. ASSUME NEW d \in Calls
          PROVE  CallInv(d)'
      BY <2>1, <3>1, <3>3 DEF PromiseInv, CallInv, Sharers, callVars
    <3> QED
      BY <3>2, <3>4 DEF PromiseInv
  <2> QED
    BY <2>2, <2>3
<1> QED
  BY <1>1, <1>2, <1>3

\* A call over fetch ends: by an answer, or because the network failed.
LEMMA FetchEndCalls ==
    ASSUME PromiseInv, NEW c \in Calls, NEW r \in {"ok", "error"}, Settle({c}, r),
           wire' = [wire EXCEPT ![c] = "none"] \/
              (wire[c] = "sent" /\ r = "error" /\ wire' = [wire EXCEPT ![c] = "orphan"]),
           acc' \in Gens, ref' \in BOOLEAN, live' \in Gens, tok' \in [Calls -> Gens],
           UNCHANGED <<sock, window, pending, val, effect, db>>
    PROVE  PromiseInv'
<1>1. TypeOK /\ {c} \in SUBSET Calls
  BY DEF PromiseInv
<1>2. SettledTypes'
  BY <1>1, SettleTypes
<1>3. /\ wire' \in [Calls -> Wires]
      /\ \A d \in Calls : \/ wire'[d] = wire[d] \/ wire'[d] = "none"
                          \/ wire'[d] = "orphan" /\ wire[d] = "sent"
      /\ r = "ok" => \A d \in {c} : wire'[d] = "none"
  BY <1>1 DEF TypeOK, Wires
<1>4. TypeOK'
  BY <1>1, <1>2, <1>3 DEF TypeOK, SettledTypes, States, Wires
<1> QED
  BY <1>1, <1>3, <1>4, SettleCalls DEF PromiseInv

LEMMA FetchStepCalls ==
    ASSUME PromiseInv, NEW c \in Calls,
           FetchAnswered(c) \/ RefreshAnswered(c) \/ RetryAnswered(c) \/ FetchFails(c)
    PROVE  PromiseInv'
<1>1. TypeOK /\ CallInv(c) /\ 0 \in Gens
  BY ApiAssumption DEF PromiseInv, TypeOK, Gens
<1>2. CASE FetchAnswered(c)
  <2>1. CASE wire[c] = "denied" /\ st' = [st EXCEPT ![c] = "refresh"]
              /\ wire' = [wire EXCEPT ![c] = "sent"]
              /\ UNCHANGED <<kind, key, owner, floor, got, entry, authVars>>
    <3>1. effect[c] = 0 /\ st[c] = "fetch"
      BY <1>1, <1>2, <2>1 DEF CallInv, FetchAnswered
    <3>2. TypeOK'
      BY <1>1, <1>2, <2>1 DEF FetchAnswered, TypeOK, authVars
    <3> QED
      BY <1>2, <2>1, <3>1, <3>2, RefreshCalls DEF FetchAnswered, PromiseInv
  <2>2. CASE /\ Settle({c}, IF wire[c] = "ok" THEN "ok" ELSE "error")
             /\ wire' = [wire EXCEPT ![c] = "none"]
             /\ IF wire[c] = "denied" THEN ClearAuth ELSE UNCHANGED authVars
    BY <1>1, <1>2, <2>2, FetchEndCalls DEF FetchAnswered, ClearAuth, authVars, TypeOK
  <2> QED
    BY <1>2, <2>1, <2>2 DEF FetchAnswered
<1>3. CASE RefreshAnswered(c)
  <2>1. CASE wire[c] = "ok"
    <3>1. effect[c] = 0 /\ st[c] = "refresh" /\ val[c] \in Gens
      BY <1>1, <1>3, <2>1 DEF CallInv, RefreshAnswered
    <3>2. TypeOK'
      BY <1>1, <1>3, <2>1, <3>1 DEF RefreshAnswered, TypeOK
    <3>3. /\ st' = [st EXCEPT ![c] = "retry"] /\ wire' = [wire EXCEPT ![c] = "sent"]
          /\ UNCHANGED <<kind, owner, floor, val, effect, db>>
      BY <1>3, <2>1 DEF RefreshAnswered
    <3> QED
      BY <3>1, <3>2, <3>3, RefreshCalls DEF PromiseInv
  <2>2. CASE wire[c] # "ok"
    <3>1. /\ Settle({c}, "error") /\ wire' = [wire EXCEPT ![c] = "none"]
          /\ acc' = 0 /\ ref' = FALSE /\ live' = live /\ tok' = tok
          /\ UNCHANGED <<sock, window, pending, val, effect, db>>
      BY <1>3, <2>2 DEF RefreshAnswered, ClearAuth
    <3> QED
      BY <1>1, <3>1, FetchEndCalls DEF TypeOK
  <2> QED
    BY <2>1, <2>2
<1>4. CASE RetryAnswered(c)
  BY <1>1, <1>4, FetchEndCalls DEF RetryAnswered, ClearAuth, authVars, TypeOK
<1>5. CASE FetchFails(c)
  <2>1. wire' = [wire EXCEPT ![c] = "none"] \/
              (wire[c] = "sent" /\ wire' = [wire EXCEPT ![c] = "orphan"])
    BY <1>5 DEF FetchFails
  <2> QED
    BY ZenonT(30), <1>1, <1>5, <2>1, FetchEndCalls DEF FetchFails, ClearAuth, authVars, TypeOK
<1> QED
  BY <1>2, <1>3, <1>4, <1>5

-----------------------------------------------------------------------------
LEMMA PromiseInvInit == Init => PromiseInv
<1> SUFFICES ASSUME Init
             PROVE  PromiseInv
  OBVIOUS
<1>1. 0 \in Gens /\ 1 \in Gens
  BY ApiAssumption DEF Gens
<1>2. TypeOK
  BY <1>1 DEF Init, TypeOK, Kinds, Keys
<1>3. ASSUME NEW c \in Calls
      PROVE  CallInv(c)
  BY <1>3 DEF Init, CallInv, Carried
<1> QED
  BY <1>2, <1>3 DEF PromiseInv

LEMMA PromiseInvStep == PromiseInv /\ ReadsInv /\ [Next]_vars => PromiseInv'
<1> SUFFICES ASSUME PromiseInv, ReadsInv, [Next]_vars
             PROVE  PromiseInv'
  OBVIOUS
<1>1. ASSUME TypeOK', UNCHANGED <<callVars, wire, val, effect, db>>
      PROVE  PromiseInv'
  BY <1>1 DEF PromiseInv, CallInv, Sharers, callVars
<1>2. CASE SocketOpens \/ SocketCloses
  <2>1. TypeOK'
    BY <1>2 DEF PromiseInv, SocketOpens, SocketCloses, TypeOK, callVars, readVars, wireVars, authVars
  <2> QED
    BY <1>1, <1>2, <2>1 DEF SocketOpens, SocketCloses, wireVars
<1>3. CASE TokenExpires \/ SignOut
  <2>1. live' \in Gens /\ acc' \in Gens /\ ref' \in BOOLEAN
    <3>1. live \in 0..MaxGen /\ acc \in 0..MaxGen /\ ref \in BOOLEAN /\ MaxGen \in Nat
      BY ApiAssumption DEF PromiseInv, TypeOK, Gens
    <3>2. CASE TokenExpires
      BY <3>1, <3>2 DEF TokenExpires, Gens
    <3>3. CASE SignOut
      <4>1. acc' = 0 /\ ref' = FALSE /\ live' = live
        BY <3>3 DEF SignOut
      <4>2. live' \in Gens /\ acc' \in Gens
        BY <3>1, <4>1 DEF Gens
      <4> QED
        BY <4>1, <4>2
    <3> QED
      BY <1>3, <3>2, <3>3
  <2>2. TypeOK'
    BY <1>3, <2>1 DEF PromiseInv, TokenExpires, SignOut, TypeOK, callVars, readVars, wireVars
  <2> QED
    BY <1>1, <1>3, <2>2 DEF TokenExpires, SignOut, wireVars
<1>4. CASE UNCHANGED vars
  <2>1. TypeOK'
    BY <1>4 DEF PromiseInv, TypeOK, vars, callVars, readVars, wireVars, authVars
  <2> QED
    BY <1>1, <1>4, <2>1 DEF vars, wireVars
<1>5. ASSUME NEW c \in Calls, apiRequest(c)
      PROVE  PromiseInv'
  BY <1>5, RequestTypes, RequestCalls DEF PromiseInv
<1> QED
  BY <1>2, <1>3, <1>4, <1>5, TimerCalls, ServeCalls, ServeRefreshCalls, ConsumeCalls,
     BridgeEndCalls, FetchStepCalls DEF Next

-----------------------------------------------------------------------------
(* Every step is one of ApiPromise, or none that a caller could see.       *)

\* A settled promise is resolved or rejected for all who share it.
LEMMA ResolveMaps ==
    ASSUME PromiseInv, NEW c \in Calls, st[c] \in Carried, wire[c] = "ok",
           Settle({c}, "ok"), UNCHANGED <<effect, db>>
    PROVE  Promise!Next
<1> DEFINE S == Sharers(c)
<1>1. TypeOK /\ CallInv(c) /\ val[c] \in Nat /\ db \in Nat
  BY DEF PromiseInv, TypeOK
<1>2. val[c] \in 0..db /\ S \in SUBSET Calls
  BY <1>1 DEF CallInv, Sharers
<1>3. UNION {Sharers(d) : d \in {c}} = S
  OBVIOUS
<1>4. \A d \in S : /\ st[d] \notin Settled /\ owner[d] = c
                   /\ kind[d] = "read" => floor[d] <= val[c]
                   /\ kind[d] # "read" => effect[d] = 1
  <2> SUFFICES ASSUME NEW d \in S
               PROVE  /\ st[d] \notin Settled /\ owner[d] = c
                      /\ kind[d] = "read" => floor[d] <= val[c]
                      /\ kind[d] # "read" => effect[d] = 1
    OBVIOUS
  <2>1. CallInv(d) /\ floor[d] <= val[c] /\ st[d] \in Carried \cup {"joined"}
    BY <1>1 DEF PromiseInv, CallInv, Sharers
  <2>2. owner[d] = c
    BY <2>1 DEF Sharers, CallInv, Carried
  <2>3. kind[d] # "read" => effect[d] = 1
    BY <1>1, <2>1 DEF Sharers, CallInv, Carried
  <2> QED
    BY <2>1, <2>2, <2>3 DEF Settled, Carried
<1>5. /\ st' = [d \in Calls |-> IF d \in S THEN "ok" ELSE st[d]]
      /\ got' = [d \in Calls |-> IF d \in S THEN val[owner[d]] ELSE got[d]]
      /\ floor' = [d \in Calls |-> IF d \in S THEN 0 ELSE floor[d]]
      /\ UNCHANGED <<kind, effect, db>>
  BY <1>3 DEF Settle
<1> HIDE DEF S
<1>6. got' = [d \in Calls |-> IF d \in S THEN val[c] ELSE got[d]]
  BY <1>4, <1>5
<1>7. callerStatus' = [d \in Calls |-> IF d \in S THEN "ok" ELSE callerStatus[d]]
  BY <1>5 DEF callerStatus, Settled
<1>8. \A d \in S : callerStatus[d] = "pending"
  BY <1>2, <1>4 DEF callerStatus
<1>9. Promise!Resolve(S, val[c])
  BY <1>4, <1>5, <1>6, <1>7, <1>8 DEF Promise!Resolve
<1> QED
  BY <1>2, <1>9 DEF Promise!Next

LEMMA RejectMaps ==
    ASSUME TypeOK, NEW P \in SUBSET Calls, \A c \in P : st[c] \notin Settled,
           Settle(P, "error"), UNCHANGED <<effect, db>>
    PROVE  Promise!Next
<1> DEFINE S == UNION {Sharers(c) : c \in P}
<1>1. S \in SUBSET Calls
  BY DEF Sharers
<1>2. \A d \in S : st[d] \notin Settled
  BY DEF Sharers, Settled
<1>3. /\ st' = [d \in Calls |-> IF d \in S THEN "error" ELSE st[d]]
      /\ got' = [d \in Calls |-> got[d]]
      /\ floor' = [d \in Calls |-> IF d \in S THEN 0 ELSE floor[d]]
      /\ UNCHANGED <<kind, effect, db>>
  BY DEF Settle
<1> HIDE DEF S
<1>4. got' = got
  BY <1>3 DEF TypeOK
<1>5. callerStatus' = [d \in Calls |-> IF d \in S THEN "error" ELSE callerStatus[d]]
  BY <1>3 DEF callerStatus, Settled
<1>6. \A d \in S : callerStatus[d] = "pending"
  BY <1>1, <1>2 DEF callerStatus
<1>7. Promise!Reject(S)
  BY <1>3, <1>4, <1>5, <1>6 DEF Promise!Reject
<1> QED
  BY <1>1, <1>7 DEF Promise!Next

\* The caller sees nothing of a call that moves from one pending state to another.
LEMMA HiddenMaps ==
    ASSUME TypeOK, NEW c \in Calls, NEW s, s \notin Settled, st[c] \notin Settled,
           st' = [st EXCEPT ![c] = s], UNCHANGED <<kind, effect, floor, got, db>>
    PROVE  UNCHANGED Promise!vars
<1>1. \A d \in Calls : st'[d] = IF d = c THEN s ELSE st[d]
  BY DEF TypeOK
<1>2. callerStatus' = callerStatus
  BY <1>1 DEF callerStatus
<1> QED
  BY <1>2 DEF Promise!vars

LEMMA UnchangedMaps ==
    ASSUME UNCHANGED <<st, kind, effect, floor, got, db>>
    PROVE  UNCHANGED Promise!vars
<1>1. callerStatus' = callerStatus
  BY DEF callerStatus
<1> QED
  BY <1>1 DEF Promise!vars

\* A call starts with the data version of now, or with that of the read it joins.
LEMMA StartMaps ==
    ASSUME PromiseInv, ReadsInv, NEW c \in Calls, apiRequest(c)
    PROVE  Promise!Next
<1>1. TypeOK
  BY DEF PromiseInv
<1>2. ASSUME NEW k \in Kinds, NEW s \in {"joined", "window", "ws", "fetch"}, Begin(c, k, s),
             NEW f, f = db \/ \E d \in Calls : st[d] \notin Settled /\ f = floor[d],
             floor' = [floor EXCEPT ![c] = f]
      PROVE  Promise!Next
  <2>1. \A d \in Calls : st'[d] = IF d = c THEN s ELSE st[d]
    BY <1>1, <1>2 DEF Begin, TypeOK
  <2>2. callerStatus' = [callerStatus EXCEPT ![c] = "pending"]
    BY <2>1 DEF callerStatus, Settled
  <2>3. callerStatus[c] = "idle"
    BY <1>2 DEF Begin, callerStatus, Settled
  <2>4. f \in {db} \cup {floor[d] : d \in {e \in Calls : callerStatus[e] = "pending"}}
    BY <1>2 DEF callerStatus
  <2>5. kind' = [kind EXCEPT ![c] = k] /\ UNCHANGED <<effect, got, db>>
    BY <1>2 DEF Begin
  <2>6. Promise!Start(c)
    BY <1>2, <2>2, <2>3, <2>4, <2>5 DEF Promise!Start
  <2> QED
    BY <2>6 DEF Promise!Next
<1>3. ASSUME NEW k \in Keys, JoinRead(c, k)
      PROVE  Promise!Next
  <2> DEFINE o == entry[k]
             f == IF st[o] = "window" THEN db ELSE floor[o]
  <2>1. o \in Calls /\ st[o] \in {"window", "ws"}
    BY <1>1, <1>3 DEF JoinRead, ReadsInv, EntryIsPending, TypeOK
  <2>2. f = db \/ \E d \in Calls : st[d] \notin Settled /\ f = floor[d]
    BY <2>1 DEF Settled
  <2>3. Begin(c, "read", "joined") /\ floor' = [floor EXCEPT ![c] = f]
    BY <1>3 DEF JoinRead
  <2> QED
    BY <1>2, <2>2, <2>3 DEF Kinds
<1>4. ASSUME NEW k, ReadOnBridge(c, k) \/ ReadInWindow(c, k)
      PROVE  Promise!Next
  BY <1>2, <1>4 DEF ReadOnBridge, ReadInWindow, Kinds
<1>5. ASSUME NEW k, Write(c, k)
      PROVE  Promise!Next
  BY <1>2, <1>5 DEF Write, Kinds
<1>6. \A e \in Endpoints : <<e, acc>> \in Keys
  BY <1>1 DEF TypeOK, Keys
<1> QED
  BY <1>3, <1>4, <1>5, <1>6 DEF apiRequest

\* A write is applied once, while its call is pending or after it was given up.
LEMMA ServeMaps ==
    ASSUME PromiseInv, NEW c \in Calls, Serve(c)
    PROVE  [Promise!Next]_(Promise!vars)
<1>1. TypeOK /\ CallInv(c) /\ UNCHANGED <<st, kind, floor, got>>
  BY DEF PromiseInv, Serve, callVars
<1>2. CASE UNCHANGED <<effect, db>>
  BY <1>1, <1>2, UnchangedMaps
<1>3. CASE kind[c] # "read" /\ db' = db + 1 /\ effect' = [effect EXCEPT ![c] = @ + 1]
  <2>1. wire[c] \in {"sent", "orphan"} /\ st[c] # "refresh"
    BY DEF Serve
  <2>2. effect[c] = 0 /\ st[c] \notin {"idle", "joined", "window", "ok"}
    BY <1>1, <1>3, <2>1 DEF CallInv
  <2>3. effect' = [effect EXCEPT ![c] = 1]
    BY <1>3, <2>2
  <2>4. callerStatus' = callerStatus /\ callerStatus[c] \in {"pending", "error"}
    BY <1>1, <2>2 DEF callerStatus, Settled
  <2>5. Promise!Apply(c)
    BY <1>1, <1>3, <2>2, <2>3, <2>4 DEF Promise!Apply
  <2> QED
    BY <2>5 DEF Promise!Next
<1> QED
  BY <1>2, <1>3 DEF Serve

LEMMA ConsumeMaps ==
    ASSUME TypeOK, NEW c \in Calls, Consume(c)
    PROVE  Promise!Next
<1>1. \A d \in Calls : st'[d] = IF d = c THEN "idle" ELSE st[d]
  BY DEF Consume, TypeOK
<1>2. callerStatus' = [callerStatus EXCEPT ![c] = "idle"]
  BY <1>1 DEF callerStatus, Settled
<1>3. callerStatus[c] \in {"ok", "error"}
  BY DEF Consume, callerStatus, Settled
<1>4. Promise!Consume(c)
  BY <1>2, <1>3 DEF Promise!Consume, Consume
<1> QED
  BY <1>4 DEF Promise!Next

LEMMA PromiseInit == Init => Promise!Init
BY DEF Init, Promise!Init, callerStatus, Settled

LEMMA PromiseStep == PromiseInv /\ ReadsInv /\ [Next]_vars => [Promise!Next]_(Promise!vars)
<1> SUFFICES ASSUME PromiseInv, ReadsInv, [Next]_vars
             PROVE  [Promise!Next]_(Promise!vars)
  OBVIOUS
<1>1. TypeOK /\ \A c \in Calls : CallInv(c)
  BY DEF PromiseInv
<1>2. CASE SocketOpens \/ SocketCloses \/ TokenExpires \/ SignOut \/ UNCHANGED vars
  BY <1>2, UnchangedMaps
     DEF SocketOpens, SocketCloses, TokenExpires, SignOut, vars, callVars, wireVars
<1>3. CASE rejectAllWsApiRequests
  <2>1. \A c \in pending : st[c] \notin Settled
    BY DEF ReadsInv, BridgeIsAwaited, Settled
  <2>2. pending \in SUBSET Calls
    BY <1>1 DEF TypeOK
  <2> QED
    BY <1>1, <1>3, <2>1, <2>2, RejectMaps DEF rejectAllWsApiRequests
<1>4. ASSUME NEW c \in Calls, NEW r \in {"ok", "error"}, Settle({c}, r), st[c] \notin Settled,
             r = "ok" => st[c] \in Carried /\ wire[c] = "ok",
             UNCHANGED <<effect, db>>
      PROVE  Promise!Next
  BY <1>1, <1>4, ResolveMaps, RejectMaps
<1>5. ASSUME NEW c \in Calls, WsTimeout(c) \/ resolveWsApiResponse(c)
      PROVE  [Promise!Next]_(Promise!vars)
  <2>1. CASE c \in pending
    <3>1. st[c] = "ws"
      BY <2>1 DEF ReadsInv, BridgeIsAwaited
    <3>2. PICK r \in {"ok", "error"} : Settle({c}, r) /\ (r = "ok" => wire[c] = "ok")
      BY <1>5, <2>1 DEF WsTimeout, resolveWsApiResponse
    <3> QED
      BY <1>4, <1>5, <3>1, <3>2 DEF WsTimeout, resolveWsApiResponse, wireVars, Settled, Carried
  <2>2. CASE c \notin pending
    BY <1>5, <2>2, UnchangedMaps DEF WsTimeout, resolveWsApiResponse, callVars
  <2> QED
    BY <2>1, <2>2
<1>6. ASSUME NEW c \in Calls, FetchAnswered(c)
      PROVE  [Promise!Next]_(Promise!vars)
  <2>1. st[c] = "fetch" /\ UNCHANGED <<effect, db>>
    BY <1>6 DEF FetchAnswered
  <2>2. CASE st' = [st EXCEPT ![c] = "refresh"] /\ UNCHANGED <<kind, floor, got>>
    BY <1>1, <2>1, <2>2, HiddenMaps DEF Settled
  <2>3. CASE Settle({c}, IF wire[c] = "ok" THEN "ok" ELSE "error")
    BY <1>4, <2>1, <2>3 DEF Settled, Carried
  <2> QED
    BY <1>6, <2>2, <2>3 DEF FetchAnswered
<1>7. ASSUME NEW c \in Calls, RefreshAnswered(c)
      PROVE  [Promise!Next]_(Promise!vars)
  <2>1. st[c] = "refresh" /\ UNCHANGED <<effect, db>>
    BY <1>7 DEF RefreshAnswered
  <2>2. CASE st' = [st EXCEPT ![c] = "retry"] /\ UNCHANGED <<kind, floor, got>>
    BY <1>1, <2>1, <2>2, HiddenMaps DEF Settled
  <2>3. CASE Settle({c}, "error")
    BY <1>4, <2>1, <2>3 DEF Settled
  <2> QED
    BY <1>7, <2>2, <2>3 DEF RefreshAnswered
<1>8. ASSUME NEW c \in Calls, RetryAnswered(c)
      PROVE  [Promise!Next]_(Promise!vars)
  <2>1. /\ st[c] = "retry" /\ UNCHANGED <<effect, db>>
        /\ Settle({c}, IF wire[c] = "ok" THEN "ok" ELSE "error")
    BY <1>8 DEF RetryAnswered
  <2> QED
    BY <1>4, <2>1 DEF Settled, Carried
<1>9. ASSUME NEW c \in Calls, FetchFails(c)
      PROVE  [Promise!Next]_(Promise!vars)
  <2>1. st[c] \in {"fetch", "refresh", "retry"} /\ Settle({c}, "error") /\ UNCHANGED <<effect, db>>
    BY <1>9 DEF FetchFails
  <2> QED
    BY <1>4, <2>1 DEF Settled
<1>10. ASSUME NEW c \in Calls, CoalesceTimer(c)
       PROVE  [Promise!Next]_(Promise!vars)
  <2>1. CASE window[c] = "http"
    <3>1. st[c] = "window"
      BY <2>1 DEF ReadsInv, WindowIsAwaited
    <3>2. st' = [st EXCEPT ![c] = "fetch"] /\ UNCHANGED <<kind, effect, floor, got, db>>
      BY <1>10, <2>1 DEF CoalesceTimer
    <3> QED
      BY <1>1, <3>1, <3>2, HiddenMaps DEF Settled
  <2>2. CASE window[c] # "http"
    BY <1>10, <2>2, UnchangedMaps DEF CoalesceTimer
  <2> QED
    BY <2>1, <2>2
<1>11. ASSUME NEW c \in Calls, ServeRefresh(c)
       PROVE  [Promise!Next]_(Promise!vars)
  BY <1>11, UnchangedMaps DEF ServeRefresh, callVars
<1>12. ASSUME NEW c \in Calls, Consume(c)
       PROVE  Promise!Next
  BY <1>1, <1>12, ConsumeMaps
<1> QED
  BY <1>2, <1>3, <1>5, <1>6, <1>7, <1>8, <1>9, <1>10, <1>11, <1>12, StartMaps, ServeMaps DEF Next

-----------------------------------------------------------------------------
\* Calls, carriers, windows, tokens and the server's data stay well-typed, for
\* any number of calls: in particular every token stored is one that the server
\* has issued (performApiRequest, storing the refreshed token).
THEOREM TypeCorrect == Spec => []TypeOK
<1>1. PromiseInv => TypeOK
  BY DEF PromiseInv
<1> QED
  BY <1>1, ReadsInvInit, ReadsInvStep, PromiseInvInit, PromiseInvStep, PTL DEF Spec

\* apiRequest keeps its promise: a call settles once, together with those that
\* share it; a write is applied at most once, and was when it is reported as
\* done; a read is no older than the moment it was collected.  Whatever carries
\* the request, and through refresh, retry, timeout, loss and disconnection
\* (apiRequest, performApiRequest, queueWsRequest of utils/api.ts).
THEOREM PromiseKept == Spec => KeepsPromise
<1>1. Spec => [](PromiseInv /\ ReadsInv)
  BY ReadsInvInit, ReadsInvStep, PromiseInvInit, PromiseInvStep, PTL DEF Spec
<1>2. Spec => Promise!Init /\ [][Promise!Next]_(Promise!vars)
  BY <1>1, PromiseInit, PromiseStep, PTL DEF Spec
<1> QED
  BY <1>2 DEF KeepsPromise, Promise!Spec

-----------------------------------------------------------------------------
(* The socket.                                                             *)

\* The states of a socket, and what the guards of setupWebSocket read.
SockStates == {"closed", "connecting", "open", "closing"}
SockTypes ==
    /\ DOMAIN sk = SockIds
    /\ \A i \in SockIds : sk[i].st \in SockStates
    /\ globalWs \in SockIds \cup {NoSock}
    /\ connecting \in BOOLEAN

\* A socket that is not CLOSED is the global one, or is being opened with the
\* flag _globalConnecting set and no global one there; and there is only one.
Claimed ==
    \A i \in SockIds : sk[i].st # "closed" =>
        globalWs = i \/ (sk[i].st = "connecting" /\ connecting /\ globalWs = NoSock)
Alone == \A i, j \in SockIds : sk[i].st # "closed" /\ sk[j].st # "closed" => i = j
GlobalIsUp == globalWs # NoSock => sk[globalWs].st \in {"open", "closing"}

SocketInv == SockTypes /\ Claimed /\ Alone /\ GlobalIsUp

WsSafety == WsInit /\ [][WsNext]_wsVars

-----------------------------------------------------------------------------
\* No socket is open when the client starts.
LEMMA SocketInvInit == WsInit => SocketInv
<1> SUFFICES ASSUME WsInit PROVE SocketInv
  OBVIOUS
<1>1. DOMAIN sk = SockIds /\ \A i \in SockIds : sk[i].st = "closed"
  BY DEF WsInit, Closed
<1>2. globalWs = NoSock /\ connecting = FALSE
  BY DEF WsInit
<1>3. SockTypes
  BY <1>1, <1>2 DEF SockTypes, SockStates
<1>4. Claimed /\ Alone /\ GlobalIsUp
  BY <1>1, <1>2 DEF Claimed, Alone, GlobalIsUp
<1> QED
  BY <1>3, <1>4 DEF SocketInv

\* setupWebSocket opens a socket only when every one is CLOSED.
LEMMA SetupKeeps ==
    ASSUME SocketInv, Setup(sk, globalWs, connecting), globalWs' = globalWs
    PROVE  SocketInv'
<1> USE WsAssumption DEF SocketInv
<1>1. CASE (globalWs # NoSock /\ sk[globalWs].st # "closed") \/ connecting \/ ~\E i \in SockIds : sk[i].st = "closed"
  <2>1. sk' = sk /\ connecting' = connecting
    BY <1>1 DEF Setup
  <2> QED
    BY <2>1 DEF SockTypes, Claimed, Alone, GlobalIsUp
<1>2. CASE ~((globalWs # NoSock /\ sk[globalWs].st # "closed") \/ connecting \/ ~\E i \in SockIds : sk[i].st = "closed")
  <2> DEFINE i == CHOOSE j \in SockIds : sk[j].st = "closed"
  <2>1. i \in SockIds /\ sk[i].st = "closed"
    BY <1>2
  <2>2. globalWs = NoSock /\ ~connecting
    BY <1>2 DEF GlobalIsUp
  <2>3. \A j \in SockIds : sk[j].st = "closed"
    BY <2>2 DEF Claimed, SockTypes
  <2>4. /\ sk' = [sk EXCEPT ![i] = [Closed EXCEPT !.st = "connecting", !.tok = accessToken]]
        /\ connecting' = TRUE
    BY <1>2 DEF Setup
  <2> HIDE DEF i
  <2>5. /\ DOMAIN sk' = SockIds
        /\ sk'[i].st = "connecting"
        /\ \A j \in SockIds : j # i => sk'[j] = sk[j]
    BY <2>1, <2>4 DEF SockTypes, Closed
  <2> QED
    BY <2>1, <2>2, <2>3, <2>4, <2>5 DEF SockTypes, SockStates, Claimed, Alone, GlobalIsUp
<1> QED
  BY <1>1, <1>2

\* Every step of the client, the network and the server keeps the invariant.
LEMMA SocketInvStep == SocketInv /\ [WsNext]_wsVars => SocketInv'
<1> SUFFICES ASSUME SocketInv, [WsNext]_wsVars
             PROVE  SocketInv'
  OBVIOUS
<1> USE WsAssumption
<1>1. CASE Heartbeat
  BY <1>1, SetupKeeps DEF Heartbeat
<1>2. CASE ReconnectTimer
  BY <1>2, SetupKeeps DEF ReconnectTimer
<1>3. ASSUME NEW i \in SockIds, OnOpen(i)
      PROVE  SocketInv'
  <2>1. \A j \in SockIds : j # i => sk[j].st = "closed"
    BY <1>3 DEF OnOpen, SocketInv, Alone
  <2>2. /\ DOMAIN sk' = SockIds
        /\ sk'[i].st = "open"
        /\ \A j \in SockIds : j # i => sk'[j] = sk[j]
    BY <1>3 DEF OnOpen, SocketInv, SockTypes
  <2>3. globalWs' = i /\ connecting' = FALSE
    BY <1>3 DEF OnOpen
  <2> QED
    BY ZenonT(30), <2>1, <2>2, <2>3 DEF SocketInv, SockTypes, SockStates, Claimed, Alone, GlobalIsUp
<1>4. ASSUME NEW i \in SockIds, OnClose(i)
      PROVE  SocketInv'
  <2>1. \A j \in SockIds : j # i => sk[j].st = "closed"
    BY <1>4 DEF OnClose, SocketInv, Alone
  <2>2. /\ DOMAIN sk' = SockIds
        /\ sk'[i].st = "closed"
        /\ \A j \in SockIds : j # i => sk'[j] = sk[j]
    BY <1>4 DEF OnClose, SocketInv, SockTypes, Closed
  <2>3. globalWs' = NoSock /\ connecting' = FALSE
    BY <1>4 DEF OnClose
  <2> QED
    BY <2>1, <2>2, <2>3 DEF SocketInv, SockTypes, SockStates, Claimed, Alone, GlobalIsUp
<1>5. ASSUME NEW i \in SockIds, ServerReads(i)
      PROVE  SocketInv'
  <2>1. /\ DOMAIN sk' = SockIds
        /\ \A j \in SockIds : sk'[j].st = sk[j].st
    BY <1>5 DEF ServerReads, SocketInv, SockTypes
  <2> QED
    BY <1>5, <2>1 DEF ServerReads, SocketInv, SockTypes, Claimed, Alone, GlobalIsUp
<1>6. ASSUME NEW t \in 0..MaxToken, TokenChanges(t)
      PROVE  SocketInv'
  <2>1. CASE globalWs = NoSock
    BY <1>6, <2>1 DEF TokenChanges, SocketInv, SockTypes, Claimed, Alone, GlobalIsUp
  <2>2. CASE globalWs # NoSock
    <3>1. /\ DOMAIN sk' = SockIds
          /\ sk'[globalWs].st = "closing"
          /\ \A j \in SockIds : j # globalWs => sk'[j] = sk[j]
      BY <1>6, <2>2 DEF TokenChanges, SocketInv, SockTypes
    <3> QED
      BY <1>6, <2>2, <3>1 DEF TokenChanges, SocketInv, SockTypes, SockStates, Claimed, Alone, GlobalIsUp
  <2> QED
    BY <2>1, <2>2
<1>7. ASSUME NEW drop \in SUBSET Resources, NEW add \in SUBSET Resources, Resubscribe(drop, add)
      PROVE  SocketInv'
  <2>1. /\ DOMAIN sk' = SockIds
        /\ \A j \in SockIds : sk'[j].st = sk[j].st
    BY <1>7 DEF Resubscribe, SocketInv, SockTypes, IsOpen
  <2> QED
    BY <1>7, <2>1 DEF Resubscribe, SocketInv, SockTypes, Claimed, Alone, GlobalIsUp
<1>8. CASE UNCHANGED wsVars
  BY <1>8 DEF wsVars, SocketInv, SockTypes, Claimed, Alone, GlobalIsUp
<1> QED
  BY <1>1, <1>2, <1>3, <1>4, <1>5, <1>6, <1>7, <1>8 DEF WsNext

\* The invariant says what OneSocket counts.
LEMMA SocketInvCounts == SocketInv => OneSocket
<1> SUFFICES ASSUME SocketInv PROVE OneSocket
  OBVIOUS
<1> DEFINE up == {i \in SockIds : sk[i].st # "closed"}
<1>1. Cardinality(up) <= 1
  <2>1. CASE up = {}
    BY <2>1, FS_EmptySet
  <2>2. ASSUME NEW i \in up
        PROVE  Cardinality(up) <= 1
    <3>1. up = {i}
      BY DEF SocketInv, Alone
    <3> HIDE DEF up
    <3> QED
      BY <3>1, FS_Singleton
  <2> QED
    BY <2>1, <2>2
<1> QED
  BY <1>1 DEF OneSocket, SocketInv, GlobalIsUp

\* In every behaviour of the client at most one browser socket is not CLOSED, and
\* the global one is open or closing (setupWebSocket, onopen, onclose and the
\* token effect of useWebSocketSync.ts).
THEOREM OneSocketAlways == WsSafety => []OneSocket
<1>1. WsSafety => []SocketInv
  BY SocketInvInit, SocketInvStep, PTL DEF WsSafety
<1> QED
  BY <1>1, SocketInvCounts, PTL
-----------------------------------------------------------------------------
\* What the browser tracks and the server has, the frames on their way, and a
\* connection not yet open, of which the server knows nothing.
Frames == [drop : SUBSET Resources, add : SUBSET Resources]
Socket == [st : SockStates, tok : 0..MaxToken, subs : SUBSET Resources, up : Seq(Frames)]
Tracking ==
    /\ subscriptions \subseteq Resources /\ accessToken \in 0..MaxToken
    /\ \A i \in SockIds : sk[i] \in Socket
    /\ \A i \in SockIds : sk[i].st = "connecting" => sk[i].subs = {}

SubsInv == SocketInv /\ Tracking /\ SubscriptionsAgree

\* One frame more: its drops are taken away and its adds included.
LEMMA ToldAppend ==
    ASSUME NEW subs, NEW up \in Seq(Frames), NEW f \in Frames
    PROVE  Told(subs, Append(up, f)) = (Told(subs, up) \ f.drop) \cup f.add
<1> DEFINE longer == Append(up, f)
<1>1. /\ Len(up) \in Nat /\ Len(longer) = Len(up) + 1
      /\ longer[Len(up) + 1] = f
      /\ \A n \in 1..Len(up) : longer[n] = up[n]
  OBVIOUS
<1> HIDE DEF longer
<1>2. ASSUME NEW r \in Resources
      PROVE  r \in Told(subs, longer) <=> r \in (Told(subs, up) \ f.drop) \cup f.add
  <2>1. CASE r \in f.add
    <3>1. /\ Len(up) + 1 \in 1..Len(longer) /\ r \in longer[Len(up) + 1].add
          /\ \A m \in 1..Len(longer) : m > Len(up) + 1 => r \notin longer[m].drop
      BY <1>1, <2>1
    <3> QED
      BY <2>1, <3>1 DEF Told
  <2>2. CASE r \notin f.add /\ r \in f.drop
    <3>1. \A n \in 0..Len(up) : ~\A m \in 1..Len(longer) : m > n => r \notin longer[m].drop
      BY <1>1, <2>2
    <3> QED
      BY <1>1, <2>2, <3>1 DEF Told
  <2>3. CASE r \notin f.add /\ r \notin f.drop
    <3>1. \A n \in 0..Len(up) : (\A m \in 1..Len(longer) : m > n => r \notin longer[m].drop)
                               <=> (\A m \in 1..Len(up) : m > n => r \notin up[m].drop)
      BY <1>1, <2>3
    <3>2. (\E n \in 1..Len(longer) : r \in longer[n].add /\ \A m \in 1..Len(longer) : m > n => r \notin longer[m].drop)
          <=> (\E n \in 1..Len(up) : r \in up[n].add /\ \A m \in 1..Len(up) : m > n => r \notin up[m].drop)
      BY <1>1, <2>3, <3>1
    <3> QED
      BY <1>1, <2>3, <3>1, <3>2 DEF Told
  <2> QED
    BY <2>1, <2>2, <2>3
<1>3. Told(subs, longer) \subseteq Resources /\ Told(subs, up) \subseteq Resources /\ f.add \subseteq Resources
  BY DEF Told, Frames
<1> QED
  BY <1>2, <1>3 DEF longer

\* A frame read changes nothing of what the connection ends up with.
LEMMA ToldRead ==
    ASSUME NEW subs \in SUBSET Resources, NEW up \in Seq(Frames), up # <<>>
    PROVE  Told((subs \ Head(up).drop) \cup Head(up).add, Tail(up)) = Told(subs, up)
<1> DEFINE rest == Tail(up)
           read == (subs \ Head(up).drop) \cup Head(up).add
<1>1. /\ Len(up) \in Nat \ {0} /\ Len(rest) = Len(up) - 1
      /\ Head(up) = up[1]
      /\ \A n \in 1..Len(rest) : rest[n] = up[n + 1]
  OBVIOUS
<1>2. read = (subs \ up[1].drop) \cup up[1].add
  BY <1>1
<1> HIDE DEF rest, read
<1>3. ASSUME NEW r \in Resources
      PROVE  r \in Told(read, rest) <=> r \in Told(subs, up)
  <2>1. \A n \in 0..Len(rest) : (\A m \in 1..Len(rest) : m > n => r \notin rest[m].drop)
                              <=> (\A m \in 1..Len(up) : m > n + 1 => r \notin up[m].drop)
    <3> SUFFICES ASSUME NEW n \in 0..Len(rest)
                 PROVE  (\A m \in 1..Len(rest) : m > n => r \notin rest[m].drop)
                        <=> (\A m \in 1..Len(up) : m > n + 1 => r \notin up[m].drop)
      OBVIOUS
    <3>1. \A m \in 1..Len(up) : m > n + 1 => m - 1 \in 1..Len(rest) /\ m - 1 > n /\ rest[m - 1] = up[m]
      BY <1>1
    <3>2. \A m \in 1..Len(rest) : m > n => m + 1 \in 1..Len(up) /\ m + 1 > n + 1 /\ rest[m] = up[m + 1]
      BY <1>1
    <3> QED
      BY <3>1, <3>2
  <2>2. (\E n \in 1..Len(rest) : r \in rest[n].add /\ \A m \in 1..Len(rest) : m > n => r \notin rest[m].drop)
        <=> (\E n \in 1..Len(up) : n > 1 /\ r \in up[n].add /\ \A m \in 1..Len(up) : m > n => r \notin up[m].drop)
    <3>1. \A n \in 1..Len(up) : n > 1 => n - 1 \in 1..Len(rest) /\ n - 1 \in 0..Len(rest) /\ (n - 1) + 1 = n /\ rest[n - 1] = up[n]
      BY <1>1
    <3>2. \A n \in 1..Len(rest) : n + 1 \in 1..Len(up) /\ n + 1 > 1 /\ n \in 0..Len(rest) /\ rest[n] = up[n + 1]
      BY <1>1
    <3>3. ASSUME NEW n \in 1..Len(rest), r \in rest[n].add,
                 \A m \in 1..Len(rest) : m > n => r \notin rest[m].drop
          PROVE  \E k \in 1..Len(up) : k > 1 /\ r \in up[k].add /\ \A m \in 1..Len(up) : m > k => r \notin up[m].drop
      <4>1. \A m \in 1..Len(up) : m > n + 1 => r \notin up[m].drop
        BY <2>1, <3>2, <3>3
      <4> QED
        BY <3>2, <3>3, <4>1
    <3>4. ASSUME NEW n \in 1..Len(up), n > 1, r \in up[n].add,
                 \A m \in 1..Len(up) : m > n => r \notin up[m].drop
          PROVE  \E k \in 1..Len(rest) : r \in rest[k].add /\ \A m \in 1..Len(rest) : m > k => r \notin rest[m].drop
      <4>1. \A m \in 1..Len(rest) : m > n - 1 => r \notin rest[m].drop
        BY <2>1, <3>1, <3>4
      <4> QED
        BY <3>1, <3>4, <4>1
    <3> QED
      BY <3>3, <3>4
  <2>3. (\A m \in 1..Len(rest) : m > 0 => r \notin rest[m].drop)
        <=> (\A m \in 1..Len(up) : m > 1 => r \notin up[m].drop)
    <3>1. 0 \in 0..Len(rest) /\ 0 + 1 = 1
      BY <1>1
    <3> QED
      BY <2>1, <3>1
  <2>4. (\A m \in 1..Len(up) : m > 0 => r \notin up[m].drop)
        <=> r \notin up[1].drop /\ (\A m \in 1..Len(up) : m > 1 => r \notin up[m].drop)
    BY <1>1
  <2>5. r \in Told(subs, up)
        <=> \/ r \in subs /\ r \notin up[1].drop /\ (\A m \in 1..Len(up) : m > 1 => r \notin up[m].drop)
            \/ r \in up[1].add /\ (\A m \in 1..Len(up) : m > 1 => r \notin up[m].drop)
            \/ \E n \in 1..Len(up) : n > 1 /\ r \in up[n].add /\ \A m \in 1..Len(up) : m > n => r \notin up[m].drop
    BY <1>1, <2>4 DEF Told
  <2>6. r \in Told(read, rest)
        <=> \/ r \in read /\ (\A m \in 1..Len(rest) : m > 0 => r \notin rest[m].drop)
            \/ \E n \in 1..Len(rest) : r \in rest[n].add /\ \A m \in 1..Len(rest) : m > n => r \notin rest[m].drop
    BY DEF Told
  <2> QED
    BY <1>2, <2>2, <2>3, <2>5, <2>6
<1> QED
  <2>1. Told(read, rest) \subseteq Resources /\ Told(subs, up) \subseteq Resources
    BY DEF Told
  <2> QED
    BY <1>3, <2>1 DEF rest, read

\* A new connection's first frame says all that is tracked.
LEMMA ToldFirst ==
    ASSUME NEW subs \in SUBSET Resources
    PROVE  /\ Told(subs, <<>>) = subs
           /\ Told({}, <<[drop |-> {}, add |-> subs]>>) = subs
<1>1. Told(subs, <<>>) = subs /\ Told({}, <<>>) = {}
  BY DEF Told
<1>2. [drop |-> {}, add |-> subs] \in Frames /\ <<>> \in Seq(Frames)
  BY DEF Frames
<1>3. Append(<<>>, [drop |-> {}, add |-> subs]) = <<[drop |-> {}, add |-> subs]>>
  OBVIOUS
<1> DEFINE f == [drop |-> {}, add |-> subs]
<1>4. f.drop = {} /\ f.add = subs
  OBVIOUS
<1>5. Told({}, Append(<<>>, f)) = (Told({}, <<>>) \ f.drop) \cup f.add
  <2>1. f \in Frames
    BY <1>2
  <2> HIDE DEF f
  <2> QED
    BY <1>2, <2>1, ToldAppend
<1>6. Told({}, Append(<<>>, f)) = subs
  BY <1>1, <1>4, <1>5
<1> QED
  BY <1>1, <1>3, <1>6

LEMMA ClosedIsSocket == Closed \in Socket
<1>1. <<>> \in Seq(Frames)
  OBVIOUS
<1> QED
  BY <1>1, WsAssumption DEF Closed, Socket, SockStates

\* Nothing is tracked and nothing connected when the client starts.
LEMMA SubsInvInit == WsInit => SubsInv
<1> SUFFICES ASSUME WsInit PROVE SubsInv
  OBVIOUS
<1>1. Tracking
  <2>1. \A i \in SockIds : sk[i] = Closed
    BY DEF WsInit
  <2>2. Closed.st = "closed"
    BY DEF Closed
  <2>3. subscriptions = {} /\ accessToken = 0
    BY DEF WsInit
  <2> QED
    BY <2>1, <2>2, <2>3, ClosedIsSocket, WsAssumption DEF Tracking
<1>2. SubscriptionsAgree
  BY DEF WsInit, SubscriptionsAgree, Closed
<1> QED
  BY <1>1, <1>2, SocketInvInit DEF SubsInv

\* setupWebSocket makes a socket the server has not heard of.
LEMMA SetupKeepsSubs ==
    ASSUME SubsInv, Setup(sk, globalWs, connecting), subscriptions' = subscriptions, accessToken' = accessToken
    PROVE  Tracking' /\ SubscriptionsAgree'
<1>1. CASE sk' = sk
  BY <1>1 DEF SubsInv, Tracking, SubscriptionsAgree
<1>2. ASSUME NEW i \in SockIds,
             sk' = [sk EXCEPT ![i] = [Closed EXCEPT !.st = "connecting", !.tok = accessToken]]
      PROVE  Tracking' /\ SubscriptionsAgree'
  <2>1. /\ DOMAIN sk' = SockIds
        /\ sk'[i] = [st |-> "connecting", tok |-> accessToken, subs |-> {}, up |-> <<>>]
        /\ \A j \in SockIds : j # i => sk'[j] = sk[j]
    BY <1>2 DEF SubsInv, SocketInv, SockTypes, Closed
  <2>2. sk'[i] \in Socket
    <3>1. <<>> \in Seq(Frames) /\ accessToken \in 0..MaxToken
      BY DEF SubsInv, Tracking
    <3> QED
      BY <2>1, <3>1 DEF Socket, SockStates
  <2>3. sk'[i].st = "connecting" /\ sk'[i].subs = {}
    BY <2>1
  <2>4. Tracking'
    BY <2>1, <2>2, <2>3 DEF SubsInv, Tracking
  <2>5. SubscriptionsAgree'
    BY <2>1, <2>3 DEF SubsInv, SubscriptionsAgree
  <2> QED
    BY <2>4, <2>5
<1> DEFINE i == CHOOSE j \in SockIds : sk[j].st = "closed"
<1>3. CASE (globalWs # NoSock /\ sk[globalWs].st # "closed") \/ connecting \/ ~\E j \in SockIds : sk[j].st = "closed"
  BY <1>1, <1>3 DEF Setup
<1>4. CASE ~((globalWs # NoSock /\ sk[globalWs].st # "closed") \/ connecting \/ ~\E j \in SockIds : sk[j].st = "closed")
  <2>1. i \in SockIds
    BY <1>4
  <2>2. sk' = [sk EXCEPT ![i] = [Closed EXCEPT !.st = "connecting", !.tok = accessToken]]
    BY <1>4 DEF Setup
  <2> HIDE DEF i
  <2> QED
    BY <1>2, <2>1, <2>2
<1> QED
  BY <1>3, <1>4

\* A socket changes, and the sets of what is subscribed with it.
LEMMA SocketChanges ==
    ASSUME SubsInv, NEW i \in SockIds, NEW s \in Socket, sk' = [sk EXCEPT ![i] = s],
           subscriptions' \subseteq Resources, accessToken' \in 0..MaxToken,
           s.st = "connecting" => s.subs = {},
           s.st = "open" => Told(s.subs, s.up) = subscriptions',
           \A j \in SockIds : j # i /\ sk[j].st = "open" => subscriptions' = subscriptions
    PROVE  Tracking' /\ SubscriptionsAgree'
<1>1. /\ DOMAIN sk' = SockIds
      /\ sk'[i] = s
      /\ \A j \in SockIds : j # i => sk'[j] = sk[j]
  BY DEF SubsInv, SocketInv, SockTypes
<1> QED
  BY <1>1 DEF SubsInv, Tracking, SubscriptionsAgree

\* The subscriptions agree after every step.
LEMMA SubsInvStep == SubsInv /\ [WsNext]_wsVars => SubsInv'
<1> SUFFICES ASSUME SubsInv, [WsNext]_wsVars
             PROVE  Tracking' /\ SubscriptionsAgree'
  BY SocketInvStep DEF SubsInv
<1> USE WsAssumption
<1>0. \A i \in SockIds : sk[i] \in Socket
  BY DEF SubsInv, Tracking
<1>1. CASE Heartbeat \/ ReconnectTimer
  BY <1>1, SetupKeepsSubs DEF Heartbeat, ReconnectTimer
<1>2. ASSUME NEW i \in SockIds, OnOpen(i)
      PROVE  Tracking' /\ SubscriptionsAgree'
  <2> DEFINE s == [sk[i] EXCEPT !.st = "open", !.up = <<[drop |-> {}, add |-> subscriptions]>>]
  <2>1. <<[drop |-> {}, add |-> subscriptions]>> \in Seq(Frames)
    BY DEF SubsInv, Tracking, Frames
  <2>2. s \in Socket /\ s.st = "open" /\ s.subs = sk[i].subs /\ s.up = <<[drop |-> {}, add |-> subscriptions]>>
    BY <1>0, <2>1 DEF Socket, SockStates
  <2>3. sk[i].subs = {} /\ subscriptions \in SUBSET Resources
    BY <1>2 DEF OnOpen, SubsInv, Tracking
  <2>4. Told(s.subs, s.up) = subscriptions
    BY <2>2, <2>3, ToldFirst
  <2>5. sk' = [sk EXCEPT ![i] = s] /\ UNCHANGED <<subscriptions, accessToken>>
    BY <1>2 DEF OnOpen
  <2> HIDE DEF s
  <2> QED
    BY <2>2, <2>3, <2>4, <2>5, SocketChanges DEF SubsInv, Tracking
<1>3. ASSUME NEW i \in SockIds, OnClose(i)
      PROVE  Tracking' /\ SubscriptionsAgree'
  <2>1. Closed \in Socket /\ Closed.st = "closed"
    BY ClosedIsSocket DEF Closed
  <2>2. sk' = [sk EXCEPT ![i] = Closed] /\ UNCHANGED <<subscriptions, accessToken>>
    BY <1>3 DEF OnClose
  <2> QED
    BY <2>1, <2>2, SocketChanges DEF SubsInv, Tracking
<1>4. ASSUME NEW i \in SockIds, ServerReads(i)
      PROVE  Tracking' /\ SubscriptionsAgree'
  <2> DEFINE m == Head(sk[i].up)
             s == [sk[i] EXCEPT !.up = Tail(sk[i].up), !.subs = (sk[i].subs \ m.drop) \cup m.add]
  <2>1. sk[i].up \in Seq(Frames) /\ sk[i].up # <<>> /\ sk[i].subs \in SUBSET Resources
    BY <1>0, <1>4 DEF ServerReads, Socket
  <2>2. m \in Frames /\ Tail(sk[i].up) \in Seq(Frames)
    BY <2>1
  <2>3. /\ s \in Socket /\ s.st = sk[i].st
        /\ s.up = Tail(sk[i].up) /\ s.subs = (sk[i].subs \ m.drop) \cup m.add
    <3> HIDE DEF m
    <3> QED
      BY <1>0, <2>1, <2>2 DEF Socket, Frames
  <2>4. Told(s.subs, s.up) = subscriptions
    BY <1>4, <2>1, <2>3, ToldRead DEF ServerReads, SubsInv, SubscriptionsAgree
  <2>5. sk' = [sk EXCEPT ![i] = s] /\ UNCHANGED <<subscriptions, accessToken>> /\ s.st = "open"
    BY <1>4, <2>3 DEF ServerReads
  <2> HIDE DEF s, m
  <2> QED
    BY <2>3, <2>4, <2>5, SocketChanges DEF SubsInv, Tracking
<1>5. ASSUME NEW t \in 0..MaxToken, TokenChanges(t)
      PROVE  Tracking' /\ SubscriptionsAgree'
  <2>1. CASE globalWs = NoSock
    BY <1>5, <2>1 DEF TokenChanges, SubsInv, Tracking, SubscriptionsAgree
  <2>2. CASE globalWs # NoSock
    <3> DEFINE s == [sk[globalWs] EXCEPT !.st = "closing"]
    <3>1. globalWs \in SockIds
      BY <2>2 DEF SubsInv, SocketInv, SockTypes
    <3>2. s \in Socket /\ s.st = "closing"
      BY <1>0, <3>1 DEF Socket, SockStates
    <3>3. sk' = [sk EXCEPT ![globalWs] = s] /\ accessToken' = t /\ subscriptions' = subscriptions
      BY <1>5, <2>2 DEF TokenChanges
    <3> HIDE DEF s
    <3> QED
      BY <3>1, <3>2, <3>3, SocketChanges DEF SubsInv, Tracking
  <2> QED
    BY <2>1, <2>2
<1>6. ASSUME NEW drop \in SUBSET Resources, NEW add \in SUBSET Resources, Resubscribe(drop, add)
      PROVE  Tracking' /\ SubscriptionsAgree'
  <2>1. /\ subscriptions' = (subscriptions \ drop) \cup add
        /\ subscriptions' \subseteq Resources
        /\ accessToken' = accessToken
    BY <1>6 DEF Resubscribe, SubsInv, Tracking
  <2>2. \A j \in SockIds : sk[j].st = "open" => IsOpen /\ j = globalWs
    BY DEF SubsInv, SocketInv, Claimed, IsOpen
  <2>3. CASE IsOpen /\ drop \cup add # {}
    <3> DEFINE f == [drop |-> drop, add |-> add]
               s == [sk[globalWs] EXCEPT !.up = Append(sk[globalWs].up, f)]
    <3>1. globalWs \in SockIds /\ sk[globalWs].st = "open"
      BY <2>3 DEF IsOpen, SubsInv, SocketInv, SockTypes
    <3>2. f \in Frames /\ sk[globalWs].up \in Seq(Frames) /\ f.drop = drop /\ f.add = add
      BY <1>0, <3>1 DEF Frames, Socket
    <3>3. Append(sk[globalWs].up, f) \in Seq(Frames)
      BY <3>2
    <3>4. s \in Socket /\ s.st = "open" /\ s.subs = sk[globalWs].subs /\ s.up = Append(sk[globalWs].up, f)
      <4> HIDE DEF f
      <4> QED
        BY <1>0, <3>1, <3>3 DEF Socket
    <3>5. sk' = [sk EXCEPT ![globalWs] = s]
      BY <1>6, <2>3 DEF Resubscribe
    <3> HIDE DEF s, f
    <3>6. Told(s.subs, s.up) = subscriptions'
      BY <2>1, <3>1, <3>2, <3>4, ToldAppend DEF SubsInv, SubscriptionsAgree
    <3> QED
      BY <2>1, <2>2, <3>1, <3>4, <3>5, <3>6, SocketChanges DEF SubsInv, Tracking
  <2>4. CASE ~(IsOpen /\ drop \cup add # {})
    <3>1. sk' = sk
      BY <1>6, <2>4 DEF Resubscribe
    <3>2. CASE ~IsOpen
      BY <2>1, <2>2, <3>1, <3>2 DEF SubsInv, Tracking, SubscriptionsAgree
    <3>3. CASE drop \cup add = {}
      <4>1. subscriptions' = subscriptions
        BY <2>1, <3>3
      <4> QED
        BY <2>1, <3>1, <4>1 DEF SubsInv, Tracking, SubscriptionsAgree
    <3> QED
      BY <2>4, <3>2, <3>3
  <2> QED
    BY <2>3, <2>4
<1>7. CASE UNCHANGED wsVars
  BY <1>7 DEF wsVars, SubsInv, Tracking, SubscriptionsAgree
<1> QED
  BY <1>1, <1>2, <1>3, <1>4, <1>5, <1>6, <1>7 DEF WsNext

\* Whatever was subscribed or given up before, while or after a connection was
\* lost, an open connection ends up with what the browser tracks (subscribe,
\* unsubscribe and the replay of onopen in useWebSocketSync.ts).
THEOREM SubscriptionsAgreeAlways == WsSafety => []SubscriptionsAgree
<1>1. WsSafety => []SubsInv
  BY SubsInvInit, SubsInvStep, PTL DEF WsSafety
<1>2. SubsInv => SubscriptionsAgree
  BY DEF SubsInv
<1> QED
  BY <1>1, <1>2, PTL
=============================================================================
