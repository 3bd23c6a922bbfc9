----------------------------- MODULE ApiClient -----------------------------
(***************************************************************************)
(* The browser's request layer: apiRequest of utils/api.ts over the        *)
(* WebSocket bridge or over fetch, the 8 ms collection of equal reads, the *)
(* 15 s bridge timeout, the rejection of bridge requests when the socket   *)
(* closes, and the token refresh after a 401.  The socket is seen as       *)
(* closed, open or closing; WsClient says when.                            *)
(***************************************************************************)
EXTENDS Naturals, FiniteSets

CONSTANTS
    Calls,          \* slots for concurrent calls of apiRequest
    Endpoints,      \* read endpoints
    MaxGen,         \* bound: access-token generations the server issues
    MaxVersion,     \* bound: writes the server applies
    None

ASSUME ApiAssumption ==
    /\ MaxGen \in Nat \ {0}
    /\ MaxVersion \in Nat
    /\ None \notin Calls
    /\ IsFiniteSet(Calls)

Gens == 0..MaxGen                    \* 0: no access token
Keys == Endpoints \X Gens            \* requestCoalesceKey: endpoint and token
Kinds == {"read", "write", "form"}

VARIABLES
    sock,       \* the global socket: "closed" (or none), "open", "closing"
    st,         \* st[c]: where the call is
    kind,       \* kind[c]: GET, a JSON write, or a FormData write
    key,        \* key[c]: the coalesce key of a collected read
    owner,      \* owner[c]: the call whose promise c awaits
    entry,      \* pendingAPIReads: key to owner
    window,     \* window[c]: the coalesce timer of owner c, "off", "ws", "http"
    pending,    \* pendingWsRequests
    wire,       \* wire[c]: the request or its reply on the way
    tok,        \* tok[c]: the token generation the request carries
    acc,        \* localStorage auth.accessToken
    ref,        \* localStorage auth.refreshToken is present
    live,       \* the token generation the server accepts
    db,         \* version of the server's data
    val,        \* val[c]: the version the reply carries
    effect,     \* effect[c]: how often the server applied the write
    floor,      \* floor[c]: data version when the request of c was collected
    got         \* got[c]: version handed to the caller

callVars == <<st, kind, key, owner, floor, got>>
readVars == <<entry, window>>
authVars == <<acc, ref, live>>
wireVars == <<wire, tok, val, effect, db>>
vars == <<sock, callVars, readVars, pending, wireVars, authVars>>

open == sock = "open"
Settled == {"idle", "ok", "error"}
Replies == {"ok", "bad", "denied"}

Init ==
    /\ sock = "closed"
    /\ st = [c \in Calls |-> "idle"]
    /\ kind = [c \in Calls |-> "read"]
    /\ key = [c \in Calls |-> None]
    /\ owner = [c \in Calls |-> c]
    /\ entry = [k \in Keys |-> None]
    /\ window = [c \in Calls |-> "off"]
    /\ pending = {}
    /\ wire = [c \in Calls |-> "none"]
    /\ tok = [c \in Calls |-> 0]
    /\ acc = 1 /\ ref = TRUE /\ live = 1
    /\ db = 0
    /\ val = [c \in Calls |-> 0]
    /\ effect = [c \in Calls |-> 0]
    /\ floor = [c \in Calls |-> 0]
    /\ got = [c \in Calls |-> 0]

-----------------------------------------------------------------------------
(* apiRequest.                                                             *)

\* getAuthHeaders: the request carries whatever token is stored now.
SendWith(c) ==
    /\ wire' = [wire EXCEPT ![c] = "sent"]
    /\ tok' = [tok EXCEPT ![c] = acc]

Begin(c, k, where) ==
    /\ st[c] = "idle" /\ wire[c] = "none" /\ window[c] = "off"
    /\ st' = [st EXCEPT ![c] = where]
    /\ kind' = [kind EXCEPT ![c] = k]
    /\ UNCHANGED <<got, val, effect, db, authVars>>

\* A bridge request: queueWsRequest registers it and sends it.
QueueWs(c) ==
    /\ pending' = pending \cup {c}
    /\ SendWith(c)

\* shouldCoalesceRead with an entry under the key: the call shares its promise.
\* A read still waiting for its window has sent nothing yet, so the answer is
\* as fresh as the newcomer; one already on the bridge is as old as its sender.
JoinRead(c, k) ==
    /\ entry[k] # None
    /\ Begin(c, "read", "joined")
    /\ owner' = [owner EXCEPT ![c] = entry[k]]
    /\ floor' = [floor EXCEPT ![c] = IF st[entry[k]] = "window" THEN db ELSE floor[entry[k]]]
    /\ UNCHANGED <<sock, key, entry, window, pending, wire, tok>>

\* A collected read on the bridge: sent at once, shared for the window.
ReadOnBridge(c, k) ==
    /\ entry[k] = None /\ open
    /\ Begin(c, "read", "ws")
    /\ QueueWs(c)
    /\ key' = [key EXCEPT ![c] = k]
    /\ floor' = [floor EXCEPT ![c] = db]
    /\ entry' = [entry EXCEPT ![k] = c]
    /\ window' = [window EXCEPT ![c] = "ws"]
    /\ UNCHANGED <<sock, owner>>

\* A collected read over fetch: the window passes before it is sent.
ReadInWindow(c, k) ==
    /\ entry[k] = None /\ ~open
    /\ Begin(c, "read", "window")
    /\ key' = [key EXCEPT ![c] = k]
    /\ floor' = [floor EXCEPT ![c] = db]
    /\ entry' = [entry EXCEPT ![k] = c]
    /\ window' = [window EXCEPT ![c] = "http"]
    /\ UNCHANGED <<sock, owner, pending, wire, tok>>

\* Anything else goes straight out; a form never takes the bridge.
Write(c, k) ==
    /\ k \in {"write", "form"}
    /\ Begin(c, k, IF open /\ k = "write" THEN "ws" ELSE "fetch")
    /\ IF open /\ k = "write" THEN QueueWs(c) ELSE SendWith(c) /\ UNCHANGED pending
    /\ floor' = [floor EXCEPT ![c] = db]
    /\ UNCHANGED <<sock, key, owner, entry, window>>

apiRequest(c) ==
    \/ \E e \in Endpoints : \/ JoinRead(c, <<e, acc>>)
                            \/ ReadOnBridge(c, <<e, acc>>)
                            \/ ReadInWindow(c, <<e, acc>>)
    \/ \E k \in {"write", "form"} : Write(c, k)

-----------------------------------------------------------------------------
(* Settling.                                                               *)

\* The calls that await the promise of c.
Sharers(c) == {d \in Calls : d = c \/ (st[d] = "joined" /\ owner[d] = c)}

\* A mutant of Settle: the entry of a settled read stays until its timer.
SettleKeepsEntry(P, result) ==
    LET all == UNION {Sharers(c) : c \in P}
    IN  /\ st' = [d \in Calls |-> IF d \in all THEN result ELSE st[d]]
        /\ got' = [d \in Calls |-> IF d \in all /\ result = "ok" THEN val[owner[d]] ELSE got[d]]
        /\ floor' = [d \in Calls |-> IF d \in all THEN 0 ELSE floor[d]]
        /\ UNCHANGED <<entry, kind, key, owner>>

\* Everyone who awaits a promise of the set P learns the result; a shared
\* bridge read also removes whatever entry its key has by now.
Settle(P, result) ==
    LET all == UNION {Sharers(c) : c \in P}
        keys == {key[c] : c \in {d \in P : st[d] = "ws"}}
    IN  /\ st' = [d \in Calls |-> IF d \in all THEN result ELSE st[d]]
        /\ got' = [d \in Calls |-> IF d \in all /\ result = "ok" THEN val[owner[d]] ELSE got[d]]
        /\ entry' = [k \in Keys |-> IF k \in keys THEN None ELSE entry[k]]
        /\ floor' = [d \in Calls |-> IF d \in all THEN 0 ELSE floor[d]]
        /\ UNCHANGED <<kind, key, owner>>

\* A mutant of resolveWsApiResponse: the status of the answer is not looked at.
resolveUnchecked(c) ==
    /\ open /\ wire[c] \in Replies /\ c \in pending
    /\ pending' = pending \ {c}
    /\ Settle({c}, "ok")
    /\ wire' = [wire EXCEPT ![c] = "none"]
    /\ UNCHANGED <<sock, window, tok, val, effect, db, authVars>>

\* resolveWsApiResponse; an answer nobody waits for any more is dropped.
resolveWsApiResponse(c) ==
    /\ open /\ wire[c] \in Replies
    /\ \/ /\ c \in pending
          /\ pending' = pending \ {c}
          /\ Settle({c}, IF wire[c] = "ok" THEN "ok" ELSE "error")
       \/ /\ c \notin pending
          /\ st[c] \in {"ok", "error", "idle"}
          /\ UNCHANGED <<callVars, entry, pending>>
    /\ wire' = [wire EXCEPT ![c] = "none"]
    /\ UNCHANGED <<sock, window, tok, val, effect, db, authVars>>

\* A mutant of WsTimeout: the request is forgotten, its promise not rejected.
WsTimeoutForgets(c) ==
    /\ c \in pending
    /\ pending' = pending \ {c}
    /\ UNCHANGED <<sock, callVars, readVars, wireVars, authVars>>

\* The 15 s timer of queueWsRequest.
WsTimeout(c) ==
    /\ c \in pending
    /\ pending' = pending \ {c}
    /\ Settle({c}, "error")
    /\ UNCHANGED <<sock, window, wireVars, authVars>>

\* ws.onclose: rejectAllWsApiRequests.  What the server had received may still
\* be carried out, but its answer has nowhere to go.
rejectAllWsApiRequests ==
    /\ sock # "closed" /\ sock' = "closed"
    /\ Settle(pending, "error")
    /\ pending' = {}
    /\ wire' = [c \in Calls |-> IF st[c] \in {"fetch", "refresh", "retry"} THEN wire[c]
                                ELSE IF wire[c] = "sent" THEN "orphan"
                                ELSE IF wire[c] = "orphan" THEN "orphan" ELSE "none"]
    /\ UNCHANGED <<window, tok, val, effect, db, authVars>>

SocketOpens ==
    /\ sock = "closed" /\ sock' = "open"
    /\ UNCHANGED <<callVars, readVars, pending, wireVars, authVars>>

\* ws.close(): no frame is sent or taken any more; onclose comes later.
SocketCloses ==
    /\ open /\ sock' = "closing"
    /\ UNCHANGED <<callVars, readVars, pending, wireVars, authVars>>

\* The coalesce timer: a bridge read stops being shared, a fetch read is sent.
CoalesceTimer(c) ==
    /\ window[c] # "off"
    /\ window' = [window EXCEPT ![c] = "off"]
    /\ entry' = [entry EXCEPT ![key[c]] = None]
    /\ IF window[c] = "http"
       THEN /\ st' = [st EXCEPT ![c] = "fetch"]
            /\ SendWith(c)
       ELSE UNCHANGED <<st, wire, tok>>
    /\ UNCHANGED <<sock, kind, key, owner, floor, got, pending, val, effect, db, authVars>>

-----------------------------------------------------------------------------
(* performApiRequest: fetch, and one refresh and one retry after a 401.    *)

\* localStorage is emptied and auth:unauthorized makes Layout empty the atoms.
ClearAuth == acc' = 0 /\ ref' = FALSE /\ UNCHANGED live

\* The first answer.  A 401 with a refresh token starts a refresh; a 401
\* without one ends the session; any other failure is the caller's.
FetchAnswered(c) ==
    /\ st[c] = "fetch" /\ wire[c] \in Replies
    /\ \/ /\ wire[c] = "denied" /\ ref
          /\ st' = [st EXCEPT ![c] = "refresh"]
          /\ wire' = [wire EXCEPT ![c] = "sent"]
          /\ UNCHANGED <<kind, key, owner, floor, got, entry, authVars>>
       \/ /\ wire[c] = "denied" => ~ref
          /\ Settle({c}, IF wire[c] = "ok" THEN "ok" ELSE "error")
          /\ wire' = [wire EXCEPT ![c] = "none"]
          /\ IF wire[c] = "denied" THEN ClearAuth ELSE UNCHANGED authVars
    /\ UNCHANGED <<sock, window, pending, tok, val, effect, db>>

\* The refresh answer: store the new token and send the request again with it,
\* or fall through and end the session.
RefreshAnswered(c) ==
    /\ st[c] = "refresh" /\ wire[c] \in Replies
    /\ \/ /\ wire[c] = "ok"
          /\ acc' = val[c]
          /\ st' = [st EXCEPT ![c] = "retry"]
          /\ wire' = [wire EXCEPT ![c] = "sent"]
          /\ tok' = [tok EXCEPT ![c] = val[c]]
          /\ UNCHANGED <<kind, key, owner, floor, got, entry, ref, live>>
       \/ /\ wire[c] # "ok"
          /\ Settle({c}, "error")
          /\ wire' = [wire EXCEPT ![c] = "none"]
          /\ ClearAuth
          /\ UNCHANGED tok
    /\ UNCHANGED <<sock, window, pending, val, effect, db>>

\* The second answer: anything but success ends the session.
RetryAnswered(c) ==
    /\ st[c] = "retry" /\ wire[c] \in Replies
    /\ Settle({c}, IF wire[c] = "ok" THEN "ok" ELSE "error")
    /\ wire' = [wire EXCEPT ![c] = "none"]
    /\ IF wire[c] = "ok" THEN UNCHANGED authVars ELSE ClearAuth
    /\ UNCHANGED <<sock, window, pending, tok, val, effect, db>>

\* fetch rejects: the network failed before or after the server acted.  In the
\* refresh and the retry the surrounding catch ends the session.
FetchFails(c) ==
    /\ st[c] \in {"fetch", "refresh", "retry"}
    /\ Settle({c}, "error")
    /\ wire' = [wire EXCEPT ![c] = IF @ = "sent" /\ st[c] # "refresh" THEN "orphan" ELSE "none"]
    /\ IF st[c] = "fetch" THEN UNCHANGED authVars ELSE ClearAuth
    /\ UNCHANGED <<sock, window, pending, tok, val, effect, db>>

-----------------------------------------------------------------------------
(* The server, and the user's session.                                     *)

Reply(c, r) == wire' = [wire EXCEPT ![c] = IF @ = "orphan" THEN "none" ELSE r]

\* A request reaches its handler: its token is checked, a write is applied.
Serve(c) ==
    /\ wire[c] \in {"sent", "orphan"} /\ st[c] # "refresh"
    /\ \/ /\ tok[c] = live
          /\ Reply(c, "ok")
          /\ val' = [val EXCEPT ![c] = db]
          /\ IF kind[c] = "read" THEN UNCHANGED <<effect, db>>
             ELSE /\ db < MaxVersion /\ db' = db + 1
                  /\ effect' = [effect EXCEPT ![c] = @ + 1]
       \/ /\ Reply(c, IF tok[c] = live THEN "bad" ELSE "denied")
          /\ UNCHANGED <<val, effect, db>>
    /\ UNCHANGED <<sock, callVars, readVars, pending, tok, authVars>>

\* POST /auth/refresh: the refresh token is not rotated; it may have expired.
ServeRefresh(c) ==
    /\ wire[c] = "sent" /\ st[c] = "refresh"
    /\ \E r \in {"ok", "bad"} : Reply(c, r)
    /\ val' = [val EXCEPT ![c] = live]
    /\ UNCHANGED <<sock, callVars, readVars, pending, tok, effect, db, authVars>>

TokenExpires ==
    /\ live < MaxGen /\ live' = live + 1
    /\ UNCHANGED <<sock, callVars, readVars, pending, wireVars, acc, ref>>

\* handleLogout in the header: both tokens are removed.
SignOut ==
    /\ acc # 0 /\ acc' = 0 /\ ref' = FALSE
    /\ UNCHANGED <<sock, callVars, readVars, pending, wireVars, live>>

-----------------------------------------------------------------------------
\* A caller has used its result; its slot stands for a later call.
Consume(c) ==
    /\ st[c] \in {"ok", "error"} /\ wire[c] = "none" /\ window[c] = "off"
    /\ \A d \in Calls : st[d] = "joined" => owner[d] # c
    /\ st' = [st EXCEPT ![c] = "idle"]
    /\ kind' = [kind EXCEPT ![c] = "read"]
    /\ key' = [key EXCEPT ![c] = None]
    /\ owner' = [owner EXCEPT ![c] = c]
    /\ tok' = [tok EXCEPT ![c] = 0]
    /\ val' = [val EXCEPT ![c] = 0]
    /\ effect' = [effect EXCEPT ![c] = 0]
    /\ floor' = [floor EXCEPT ![c] = 0]
    /\ got' = [got EXCEPT ![c] = 0]
    /\ UNCHANGED <<sock, readVars, pending, wire, db, authVars>>

-----------------------------------------------------------------------------
Next ==
    \/ SocketOpens \/ SocketCloses \/ rejectAllWsApiRequests
    \/ TokenExpires \/ SignOut
    \/ \E c \in Calls :
          \/ apiRequest(c) \/ CoalesceTimer(c) \/ WsTimeout(c) \/ resolveWsApiResponse(c)
          \/ FetchAnswered(c) \/ RefreshAnswered(c) \/ RetryAnswered(c) \/ FetchFails(c)
          \/ Serve(c) \/ ServeRefresh(c)
          \/ Consume(c)

Spec == Init /\ [][Next]_vars

\* Browser timers fire and a fetch ends, with an answer or by failing; promise
\* callbacks run.  Nothing is assumed of the server, the socket or the user.
Fairness ==
    \A c \in Calls :
        /\ WF_vars(CoalesceTimer(c))
        /\ WF_vars(WsTimeout(c))
        /\ WF_vars(FetchAnswered(c) \/ RefreshAnswered(c) \/ RetryAnswered(c) \/ FetchFails(c))

FairSpec == Spec /\ Fairness

-----------------------------------------------------------------------------
TypeOK ==
    /\ sock \in {"closed", "open", "closing"}
    /\ st \in [Calls -> {"idle", "joined", "window", "ws", "fetch", "refresh", "retry", "ok", "error"}]
    /\ kind \in [Calls -> Kinds]
    /\ key \in [Calls -> Keys \cup {None}]
    /\ owner \in [Calls -> Calls]
    /\ entry \in [Keys -> Calls \cup {None}]
    /\ window \in [Calls -> {"off", "ws", "http"}]
    /\ pending \subseteq Calls
    /\ wire \in [Calls -> {"none", "sent", "orphan"} \cup Replies]
    /\ tok \in [Calls -> Gens] /\ acc \in Gens /\ live \in Gens
    /\ ref \in BOOLEAN
    /\ db \in Nat /\ val \in [Calls -> Nat] /\ effect \in [Calls -> Nat]
    /\ floor \in [Calls -> Nat] /\ got \in [Calls -> Nat]

\* "No resolved value is cached" (utils/api.ts, apiRequestLazy): a read found in
\* pendingAPIReads is one whose promise is still pending, however the windows,
\* timeouts, answers and disconnections of several reads interleave.
NoCachedResult == \A k \in Keys : entry[k] # None => st[entry[k]] \in {"window", "ws"}

\* The status a caller of apiRequest can see.
callerStatus == [c \in Calls |-> IF st[c] \in Settled THEN st[c] ELSE "pending"]

Promise == INSTANCE ApiPromise WITH status <- callerStatus

\* apiRequest keeps its promise to the callers (ApiPromise) over both carriers,
\* through refresh, retry, sharing, timeout and disconnection.
KeepsPromise == Promise!Spec

\* Every promise apiRequest returns settles: on the bridge by the answer, the
\* timeout or the disconnection, over fetch by the answer or the failure.
EveryCallSettles == \A c \in Calls : (st[c] \notin Settled) ~> (st[c] \in Settled)
=============================================================================
