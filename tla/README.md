# Formal models of skaia

Skaia is a multi-tenant community and shop platform: a Go backend (`src/backend`),
a React frontend (`src/frontend`), the `grengo` host tooling (`src/internal`,
`src/cmd`) and integrations of other systems (`src/pkg`). This directory holds
TLA+ models of the parts in which concurrent requests, goroutines, browsers and
failures meet, TLC configurations that check them on small instances, and TLAPS
proofs of the main safety properties for every instance.

Every definition is translated from the source; `PROJECT.json` names, for each
one, the lines it stands for, and lists hazards, findings and theorems. A helper
whose lines lie within those of another definition is listed with that one.

## 1. The system

### Backend

| Component | State | Operations | Hard behaviour |
|---|---|---|---|
| Store (`backend/internal/store`) | products with stock, Redis copies of products, orders and their lines, payments, wallet ledger, reference codes and payouts, carts | checkout, `POST /orders`, status changes by managers and vendors, product edits, trash and restore | a checkout is some fifteen separate statements; others change stock, orders and codes between any two of them, statements fail, the process may stop |
| WebSocket hub (`backend/internal/ws`) | client table, connection counter, sessions, chat rings, two subscription indexes, channels, dirty flag, media queues per route | register, unregister, subscribe, chat, history, presence, shared videos | three locks, a loop, a ticker, a worker pool and two pumps per connection; bounded channels that block or drop |
| Conveyor (`backend/pkg/conveyor`) | belt, workers | push, take, scale | back-pressure into the hub |
| Logger (`backend/pkg/grouplogs`) | subscribers, buffers | log, broadcast, subscribe | blocking sends under a lock, also used by the hub |
| Sessions, auth, tokens (`internal/session`, `auth`, `jwt`) | sessions, refresh tokens, caches | login, refresh, revoke | revocation against cached state |
| Rate limiter and DEFCON (`backend/middleware/ratelimit.go`) | counters, jail, trust, pressure | allow, jail, release, reset | shared counters, expiry |
| Uploads (`internal/upload`) | chunks of unfinished uploads | start, chunk, finish, cancel, expire | repeated and reordered chunks |
| Pages and interactive sections (`internal/page`, `customsection`) | documents, responses | edit, submit | several editors of one document |
| Data sources, provisioning, grengo client | sources, instances, jobs | run, start, stop, report | long jobs, ends that overtake answers |
| Forum, documentation, inbox, notifications, users, configuration, trash | rows | create, edit, delete, restore | mostly one transaction each |
| Media workers, SEO, e-mail, LiveKit, Frappe, Superset | external | - | calls to other systems |

The store tells the hub about changes through the event dispatcher; the hub's own
jobs run on a conveyor pool; both log through grouplogs, whose output the hub
streams to subscribers. HTTP handlers run one goroutine per request and share
state only through PostgreSQL, Redis and the hub. Transactions are
`database.TransactionalExecutor` (READ COMMITTED with row locks).

### Frontend

| Component | State | Operations | Hard behaviour |
|---|---|---|---|
| Request layer (`utils/api.ts`) | table of pending reads, table of bridge requests, tokens | `apiRequest` over the bridge or fetch, collection of equal reads, refresh and retry | timeouts race answers, the socket closes under requests, several 401 at once |
| Socket (`hooks/useWebSocketSync.ts`) | one global socket, tracked subscriptions, timers | connect, reconnect, heartbeat, replay of subscriptions, token change | many components run the hook, timers and closes overlap |
| Voice mesh (`lib/webrtc`) | a session, a signal queue and timers per peer | hello, offer, answer, heal, close | offers cross, signals are lost, presence flaps |
| Media: LiveKit, devices, recording | streams, rooms, recorders | toggle, publish, switch device, record | permissions and devices change while a stream is opened |
| Shared videos (`voice/MediaSection.tsx` with the hub) | queue, transition, timers per browser | add, skip, fade, end | every browser reports the same end |
| Page editor and sections (`components/page`) | draft, timers, saves in flight | edit, save, reorder, sync | other editors, an open editor holds saves back |
| Content blocks | rows, forms, embeds, albums, narration | load, submit, vote, speak | answers out of order, lost answers |
| Store, forum, account, admin, library, inbox pages and the shell | component state and atoms | load, edit, delete, page, upload, sign in | requests outlive components, pushes cross replies |

A page talks to the server only through the request layer and receives pushes
only through the socket. Component state dies with the component; jotai atoms and
tracked subscriptions outlive it, and so do requests.

### What makes it correct

* store - stock is never negative and is exactly what accepted lines hold; a
  wallet is never overdrawn; a charged checkout either holds its stock or is
  undone; refunds and rewards happen at most once; an order's status follows its
  lines;
* hub - counters equal the tables they count; limits hold; both subscription
  indexes agree and hold no dead connection; a session's slots and ring live
  exactly as long as the session; chat stays in its session and reaches
  newcomers; presence lists converge; a closed connection is forgotten;
* transport - a call settles once and always; a write is applied at most once and
  has been applied when it is reported as done; a read is never older than its
  request; one socket; the server's subscriptions are the browser's; a steady
  client gets connected;
* mesh - negotiation ends in agreement; two browsers that stay connect; no
  session outlives the other's presence;
* pages - nothing is shown as under way when nothing is; no edit and no update
  of another user waits without a timer or an open editor; only the verse shown is
  spoken; a retried submission counts once; a saved design keeps responses; an
  upload queue never stalls; an indicator has a stream behind it.

## 2. Modules

| Module | Models | Used by |
|---|---|---|
| `StoreOrders` | the order subsystem of the store, with the product cache | `MCStoreOrders`, proofs |
| `MCStoreOrders` | small instances; the property that sums over acceptances | runs `checkout` ... `double_reserve` |
| `StoreOrdersProofs` | types, stock levels, wallets; refunds, settlement, rewards; held lines, order statuses, the balance of the stock | - |
| `Hub`, `MCHub` | the hub's loop, ticker, workers and pumps | runs `hub_*`, proofs |
| `HubProofs` | types, accounting, subscriptions, fresh sessions; chat and its ring | - |
| `ApiPromise` | abstract: what `apiRequest` promises | refined by `ApiClient` |
| `ApiClient` | the request layer and the refinement mapping | `MCTransport` |
| `WsClient` | the socket | `MCTransport` |
| `MCTransport` | both | run `transport` |
| `TransportProofs` | no stale read, the refinement; one socket, what it is subscribed to | - |
| `PeerMesh`, `PeerMeshProofs` | the voice mesh of two browsers; that negotiation ends in agreement | run `mesh` |
| `RoomMedia` | shared videos: two or more browsers and the hub | run `room_media` |
| `Spa` | what every page is written in: component state, atoms, requests in flight, server data, subscriptions, pushes | the page modules |
| `PageEditor`, `SectionControls`, `ContentPages` | pages, their sections and blocks | `MCPages` |
| `StorePages`, `ForumPages`, `AccountPages`, `AdminPages`, `LibraryPages`, `InboxPage`, `GrengoPage`, `ShellPages` | the other pages | `MCPages` |
| `RtcMedia`, `RoomPanel` | devices, LiveKit, recording; the panel beside every route | `MCPages` |
| `MCPages` | all pages, one at a time | run `pages`, proofs |
| `PagesProofs` | what six pages promise | - |
| `SpinnersProofs`, `SpinnersPagesProofs`, `SpinnersEndProofs` | that no page is left waiting for nothing | - |

Definitions preceded by a comment that calls them a mutant are wrong variants of
the definition that follows. They are used by no specification; substituting them
shows that the properties notice such an error.

### StoreOrders

Processes are HTTP requests: `Checkouts` (also `POST /orders`), `StatusRequests`
and `Editors`. A step is one SQL statement outside a transaction, one whole
transaction, or one cache access. `pc` says where a handler stands; `req`, `total`,
`pay`, `before`, `job`, `todo`, `cur`, `seen` are its locals. An order is identified
with the checkout that creates it.

* `Begin` ... `EndActions` are `Service.Checkout` in source order: price and stock
  validation through the cache (`CacheHit`, `CacheMiss`, `CacheFill`), reference
  code, `orders.Create`, charge, `payments.Create`, settlement, `ClearCart`,
  acceptance, or refund with failed payment and order, then paid or completed
  with special actions.
* `StartStatus`, `ReadBefore`, `UpdateFails/Accepts/Sets`, `AwardCheck`, `PayPayout`,
  `StartActions`, `GrantAction`, `EndActions` are `updateOrderStatus` and
  `Service.UpdateOrderStatus`; `VendorUpdate` and `InvalidateLines` the vendor path.
* `AcceptWithStockCheck`, `UpdateStatus`, `UpdateVendorStatus`, `Aggregate` are the
  repository's transactions.
* `StartEdit`, `UpdateProduct`, `RereadProduct`, `DeleteProduct`, `ForgetProduct`,
  `RestoreProduct`, `CacheExpires`, cart, trash and code actions are what happens
  meanwhile.
* `PersistFails`, `RefundFails`, `AcceptAborts`, `AcceptUnseen`, `Restart` are failures,
  together at most `MaxFaults`.

Abstractions: an amount is a number, a product has one price; a provider answers
any payment status; card payments take the provider's path; a special action is
a wallet credit (roles are left out); `EditStocks` are natural numbers, because the
form offers no others (the column itself has no constraint); inactive products,
which the code treats as unavailable, are not distinguished from deleted ones
at validation. A loop that only invalidates cache entries is one step, and so is
each lookup of a special action's product in the manager's handler; the window
between reading a row and filling the cache is modelled where its result is
used (`CacheMiss`, `CacheFill`). Notifications and inbox messages change nothing
modelled.

### Hub

Processes are the `Run` loop (`run`), the presence ticker (`ticker`), the conveyor
workers (`work`) and the pumps of each connection (`conn`). A step is one critical
section, one channel operation or one atomic store. `handleUnregister` is four
steps (`ForgetClient`, `LeaveSession`, `DropSubscriptions`, `Leave`), because it takes
its locks one after the other; `handleRegister` holds the hub's lock throughout
and is one (`Register`), followed by the join message and the reply (`Announce`) and
the dispatch of the welcome job. `NumberChat` and `FanOut`, `CopyHistory` and
`SendHistory` are the two halves of `handleGlobalChat` and `sendChatHistory`. `belt`
blocks when full; `globalChat` and `Send` drop.

A chat message is its number; `chats[n]` is the session it was written in. `shown`,
`view`, `lost` and `welcomed` record what was queued to a client. `Ticking` switches the
ticker off for runs that do not ask about presence.

Left out: the API bridge, guest recovery, cursors, teleport, voice, the
notification frame, message broadcasts other than chat and presence, rate
buckets, authorisation of subscriptions. Register and unregister channels
(capacity 2048) are unbounded. Each connection stands for a user of its own, and
a session is assumed not to exceed the 100 users a presence frame lists.

### ApiPromise, ApiClient, WsClient, MCTransport

`ApiClient` follows a call of `apiRequest` through the 8 ms window in which equal
reads are collected, the bridge with its 15 s timeout and the rejection of its
requests when the socket closes, or fetch, the refresh after a 401 and the one
retry. `entry` is `pendingAPIReads`, `pending` is `pendingWsRequests`, `acc` and `ref`
the tokens in storage; `wire` is where the request or its reply is, so that replies
arrive after their timeout and writes are applied after they were reported as
failed. The socket is an input here (`closed`, `open`, `closing`). Data is a version
number: `val` is what a reply carries, `floor` the version at the collection of the
request.

`ApiPromise` says what a caller may rely on and nothing of carriers, windows or
tokens: `Start`, `Apply`, `Resolve` of all calls that share a promise, `Reject`,
`Consume`. `ApiClient` maps every internal stage of a call to "pending";
`KeepsPromise == Promise!Spec` is checked by `transport` and proved.

`WsClient` is `setupWebSocket` with its guards, `onopen` with the replay of tracked
subscriptions, `onclose` with the reconnect timer, the heartbeat, subscribe and
unsubscribe on an open or absent socket, the token change, and the server's reading
of frames. A socket is a record of its ready state, its token, the frames on their
way and what the server has it subscribed to.

A behaviour of `MCTransport` is one of the request layer's or one of the socket's:
neither reads the other's variables except for the socket's state, which `ApiClient`
lets change in every order.

### PeerMesh, RoomMedia

`PeerMesh` has two browsers, each with a presence list, a session, the session's
`SignalQueue` and its pending-close timer, and the wire between them. `triggerNegotiation`,
`OnOffer`, `OnAnswer` are the tasks of `PeerSession`; `ensureConnection`, `handleSignal`,
`syncActivePeers`, `Heal`, `handlePendingCloseTimeout`, `broadcastTracks`, `dropGuests` are the
manager's operations. The `RTCPeerConnection` is external: it connects when the
descriptions of both ends name each other's session, and fails when they no longer
do. Timers are longer than the signals under way (2 s and 5 s against
milliseconds), which the guards `Calm` and `Quiet` say.

`RoomMedia` is `handleMediaUpdate` and the `MediaSection` of every browser: each plays
the head of the queue as it knows it, each reports ends and transitions on its own,
and `completeTransition` reads the head again after it has waited for the player.

### Spa and the page modules

A page is its component state `ui`, the atoms, refs and storage `atom`, the requests
in flight `net`, the server's data `db` behind it, subscriptions `subs` and pushes on
their way `push`. `Call`, `Write`, `Done`, `Goes`, `Answer`, `Fail`, `Takes`, `Leave`, `Enter` are the
shapes a handler, a continuation, the server, a push and the router have. Requests
are answered in any order or fail at any time; a continuation of an unmounted
component no longer reaches component state. Boolean `useState`s are members of
`ui.on`, loading and saving flags members of `ui.busy`.

Each page has `XInit`, its handlers and continuations under the names of the source,
the server's answers (`XServer`, `XServes`, `XAnswer`) and `XNext`. Views (`ToolBar`,
`MenuView`, `RowView`...) say which controls are rendered, that is, enabled. Texts,
numbers typed and documents are versions or marks; lists hold as many rows as
the bound says.

`MCPages` takes one page per behaviour: component state is local, so two pages
meet only in the server's data and in atoms, and what another page or user does to
those is an action of the page that watches (`Changes`, `OthersEdit`, `OthersChat`...).

## 3. Runs

| Run | Instance | Distinct states | Shows |
|---|---|---|---|
| `checkout` | 2 checkouts by one buyer, 2 products with 2 and 1 units, a wallet that pays for one full basket, all payment methods | 175,960 | `NoOverdraft`, `MoneySettled`, `SuccessHoldsStock`, `StockFollowsLines` |
| `fulfilment` | one order, one manager or vendor request, one edit, code, trash, one failure or restart | 2,938,974 | `TypeOK`, `NoOversell`, `PayoutOncePerOrder`, `RefundBacked` |
| `vendors` | 2 orders over 2 vendors' products, 3 vendor requests | 1,188,616 | `OrderStatusAggregates`, `StockFollowsLines` |
| `hub_tables` | 3 connections, limit 2, 2 keys, limit 1 | 59,418 | `TypeOK`, `ConnectionsCounted`, `SubscriptionsMatch`, `NoStaleSubscriber` |
| `hub_chat` | 3 connections, sessions of 2, 2 workers, ring of 2 | 1,955,941 | `SessionsAccounted`, `RingsFollowSessions`, `SessionIsolation`, `RingIsRecentChat`, `ChatComplete`, `SessionsNeverReopened` |
| `hub_presence` | 2 connections, ticker on, 1 worker; fair | 97,465 | `PresenceConverges`, `ClosedIsForgotten` |
| `transport` | 2 calls, one endpoint, 2 token generations, one write; 2 socket names, 2 resources, 2 timers, one sign-in; fair | 446,840 | `KeepsPromise`, `EveryCallSettles`, `NoCachedResult`, `OneSocket`, `SubscriptionsAgree`, `Reconnects` |
| `mesh` | 2 browsers, one change of tracks each, one lost signal, move or barring; fair | 634,385 | `NegotiationAgrees`, `EventuallyConnected`, `SessionsFollowPresence` |
| `pages` | every page, 2 requests in flight, one push, one change by others, one open editor | 4,046,507 | `SpinnersEnd` (all pages), `NoJobMissed`, `HeldWhileEditing`, `RecordedOnce`, `ResponsesKept`, `NarratesWhatIsShown`, `NoIdleQueue`, `ActiveHasStream` |

Three runs end in a counterexample to something the repository says of itself:

| Run | Claim | What the code does |
|---|---|---|
| `actions_once` | "execute special actions now (only once)" (`store/handler.go:1138`) | the decision rests on an order read before the update; two overlapping completions both run them |
| `double_reserve` | "stock reservation/release follows those lines only" (`.specs/backend_spec:181`) | accepting an order in `vendor_review` reserves accepted lines again |
| `room_media` | several clients that report one end "don't double-pop" (`ws/hub_media.go:113-114`) | a browser that ends a transition reads the head after waiting for its player; if the other's pop was synchronised meanwhile, it names, and pops, the next video (16 steps) |

### Bounds

Store: the conflicts are between two requests about one order, product or wallet;
two checkouts, or one with a status request and an edit, contain every pair, and
three vendor requests allow accept, reject, accept again on one line while the other
vendor acts. Stock levels are chosen so that the second basket fails in some
interleavings and not in others. Hub: three connections and sessions of two make
sessions fill, be left, end and be followed by new ones; a ring of two wraps with
the join messages alone; capacities of one and two make every channel full in some
state. `MaxChats` bounds what users write, `MaxFaults` failures.

Transport: slots of calls and names of sockets are used again, so that any number
of them follow each other; two at one time let reads join, a 401 meet another's
refresh, and a new socket open while an old one closes. `MaxUp` frames on their way,
`MaxTimers` timers and `MaxGen` tokens are the least at which frames are lost behind
others, two timers race, and a refreshed token is not the first. Mesh: sessions are
numbered modulo `Generations` = 3, enough to tell an old session's signals from the two that may be
current (with `Generations` = 0 they are never reused, as in the code, where a session
is an object; that is the case the theorem is about); one loss, move or barring with one change of tracks each is one fault in
every position of the negotiation. Pages: two requests in flight are overtaken
answers; one change by others is a push or a reply that is stale in every
position; `MaxKeys`, `MaxItems`, `MaxIds`, `MaxStreams`, `MaxSpoken` bound what a page lists,
`MaxEditors` how many editors of one page are open: one, which is either kind of
editor and may be a colour picker that is lost; several that close one after another
multiply the states of the editor and are left to the theorem `NothingIsHeldIdly`,
which is about any number. In `mesh`, an arrival, a
departure and a lost signal are one fault in all, so a peer that leaves and returns
within its delayed close is not explored.
Slugs and sites are interchangeable, hence the symmetry of `pages`.

Deadlock is checked in `transport`; elsewhere it is not, because requests end, users
stop and peers may stay silent.

`StockFollowsLines` is checked, and proved, without edits, a manager's other statuses and
vendor completions: an edit overwrites stock by design, a manager's cancellation and
a vendor's completion of an unaccepted line move no stock, and a manager's acceptance
after a vendor's reserves twice (run `double_reserve`). In stores that charge, it is
about behaviours without failures, since an acceptance that commits but is reported
as failed keeps its stock. These cases are in the model, are covered by the weaker
properties of `fulfilment`, and are listed under the hazards. `OrderStatusAggregates` is
about orders only vendors work on.

### Fairness

Nothing is assumed of the store's requests: no property says that one ends. The
presence run assumes the Go scheduler runs the loop, the ticker and
the workers; nothing is assumed of peers, so a client whose `Send` overflowed is
exempt from `PresenceConverges`. `EveryCallSettles` assumes that browser timers fire and
that a fetch ends, with an answer or by failing; nothing of the server, the socket
or the user. `Reconnects` assumes timers and the events of sockets that are opening or
closing, and says something only of behaviours in which network and session are
steady from some moment on. The mesh's properties assume the browsers' timers,
tasks and deliveries, and strongly that a session that stays unconnected is
replaced: its age only grows, while the guard that signals have been read may
come and go.

## 4. Proofs

All theorems hold for every value of the constants that satisfies the named
assumptions (`StoreAssumption`, `HubAssumption`, `ApiAssumption`, `WsAssumption`,
`MeshAssumption`, `PagesAssumption`: kinds of requests are disjoint, prices, stocks and
capacities are numbers in their ranges, `Clients` and `Calls` are finite, `None` is none of
the things it may stand in for), for every interleaving, and with any number of
failures.

* `StoreOrdersProofs`:
  * `TypeCorrect`, `NeverOversold`, `NeverOverdrawn`. `TypeOK` is not inductive: an action
    that uses what a lookup found, or the order a status request is about, needs
    `LookupInv` (what a lookup in flight has read) and `JobInv` (a status request is
    about an order that exists, whose request no longer changes). `NoOversell` needs
    `StockInv`: cached and remembered stock levels are not negative either, since an
    edit writes them back.
  * `RefundsBacked`, `MoneyIsSettled`, `PayoutsOnce`. `MoneyAt` and `SettledAt` tie the debit,
    refund, payment row and answer of a checkout to its position; `PayoutInv` ties the
    credit to the payout row and remembers, between check and insert, that the
    reward was earned.
  * `PaidHoldsStock`, `VendorsGiveTheStatus`, `OrdersFollowTheirLines`. The first two say on
    which traffic they depend, and the code is why: a manager's cancellation, or a
    vendor's rejection, takes lines back from a checkout that has been answered, so
    `PaidHoldsStock` is for stores in which nobody sends such a status
    (`NobodyTakesBack`); a manager's status replaces the one that lines aggregate to,
    so `VendorsGiveTheStatus` is for stores without manager statuses.
    `OrdersFollowTheirLines` is the property of the run `vendors` as it stands, whose
    store takes `POST /orders` only and trashes nothing. `HoldInv` says that lines are
    held from the reservation on, not only once the answer is given; `AggregateInv`
    that an order from `POST /orders` is never charged, so that no step of a checkout
    writes its status again, and is the aggregate of its lines.
  * `CheckoutsKeepTheStock`, `OrdersKeepTheStock`: `StockFollowsLines`, for the traffic under
    which it is true. The first is the run `checkout` (every method of payment; the
    claim holds until a statement fails). The second is about `POST /orders` with
    vendors who accept, reject and reset, as in `vendors`, or with managers who accept,
    and holds through failures and restarts. What an order holds of a product is a
    set of units (`Units`), one for each piece, so that a transaction adds or takes
    away disjoint sets and the sum is a cardinality: lemmas say how `Held` changes when
    the lines of one order do. `BalanceInv` adds what makes the sum move once
    (`LinesAt`): where no vendor acts, an order that is not accepted holds nothing,
    which is why its acceptance may reserve every line, and an accepted one all of its
    lines, which is why it reserves none again; a checkout that charges reaches its
    acceptance unreserved.
* `HubProofs`:
  * `TypeCorrect`, `ConnectionsAreCounted`, `SessionsAreAccounted`, `RingsAreNotLeaked`,
    `IndexesAgree`, `SubscribersAreConnected`, `SessionsAreFresh`, all from `HubInv`.
    `LifeInv` says that a connection is in at most one channel, once, and known to the
    hub exactly between registration and removal; without it a second
    unregistration could free a slot twice. `SlotInv` adds that every known client
    occupies an existing session and that session numbers stay below `nextSession`.
  * `ChatStaysInItsSession`, `RingsHoldTheLatest`, `NoChatIsMissed`, from `ChatHubInv`.
    `JobsInv` says that jobs, channels and numbered messages name sessions that have
    begun. `RingsHoldTheLatest` rests on lemmas about the circular buffer: `HistorySlots`
    (which slot the i-th message is in, across the wrap), `HistoryPush` (push appends,
    and drops the oldest of a full buffer). `CompleteInv` follows a message from its
    number to the clients it is due to: it has been shown to them, a worker is
    fanning it out, or a worker is about to send them the history it is in. Between
    `NumberChat` and `FanOut`, and between `CopyHistory` and `SendHistory`, those are
    different clauses, which is where a lost or crossed message would slip through.
* `TransportProofs`:
  * `OneSocketAlways`, from `SocketInv`. That at most one socket is not closed does not
    survive a step by itself: `Claimed` says that such a socket is the global one, or
    is connecting with `_globalConnecting` set and no global one there; `GlobalIsUp`
    that the global slot holds an open or closing socket, and `Alone` that any two
    sockets that are not closed are the same. Together they are what the guards of
    `setupWebSocket` test.
  * `SubscriptionsAgreeAlways`, from `SubsInv`: `Told` says what a connection is subscribed
    to once its frames are read, by what the last frame about each resource says, and
    lemmas say how reading the first frame and sending another change it.
  * `NoCachedResultAlways`, from `ReadsInv`. `EntryIsPending` is the property with the key
    the entry stands under; `BridgeIsAwaited` and `WindowIsAwaited` say that a request in
    `pendingWsRequests`, and a collection window that will lead to a fetch, belong to a
    call that still waits for them, so that settling through a timeout, an answer or a
    disconnection removes the entry of exactly that call. `TypeCorrect`.
  * `PromiseKept`: every step of the request layer is a step of `ApiPromise` under the
    refinement mapping, or leaves what it says unchanged. `PromiseInv` holds what the
    steps need: a request that may still be carried out, or is asked again with a new
    token, has had no effect; a good answer is no older than any of the requests that
    share it.
* `PeerMeshProofs`: `MeshAgrees`, from `MeshInv`, which relates the two browsers as a pair:
  each one's session, tracks, queue of tasks and the signals on their way to it. A
  wish to negotiate is remembered by a task or by the offer it waits for (`Wants`);
  without one, the offers have carried the present tracks (`Carried`), and the last
  description on its way is of them (`Latest`); answers given before an open offer come
  before it (`Opens`), so that they cannot close it; an open offer is on its way, or
  its answer is, or the offer that crossed it and wins (`Hoped`); and a stable side
  knows the other's tracks or an offer is coming (`Heard`). `polite` enters in `Hoped`
  only: without exactly one side that gives in, an open offer could be ignored by
  both. A step is a composition of moves of one browser, each with a lemma, so that
  the six clauses are shown to survive moves rather than handlers.
* `PagesProofs`: seven theorems, each about a page's own specification
  `XInit /\ [][XNext \/ Fails]_spaVars`, in which any request may fail at any time; the
  bounds (`MaxKeys`, `MaxStreams`, the requests in flight, the changes by others) are
  any numbers. A behaviour of `MCPages` is one page's, so these are the behaviours
  the run `pages` explores. They assume `PagesAssumption` (bounds are numbers; `None` is no
  stream, kind of job or submission).
  * `NothingIsHeldIdly`, from `EditorInv`: a draft without a timer, or an update held
    back, has an open editor or a lost colour picker (section 5). `Timed` says that
    the count of editors is not below the editors that are there, and above zero
    wherever something is held back. The effects after a handler are part
    of the step, so lemmas say which of them leave the timer alone and that closing
    the last editor starts it and lets the update in.
  * `SubmissionsRecordedOnce`, from `InteractiveInv`: a key is drawn for answers that
    were entered and have none yet, what is sent or recorded bears a drawn key, and
    no two records bear the same one; counting keys bounds the records.
    `ResponsesAreKept`, the action property, from the same invariant.
  * `NoEndMissed`, from `JobsInv`: a promise knows its job, or a request that will name
    it is under way; an end the browser has not seen is a push on its way or is in
    the list of ends seen early. The spinner of each kind has one owner
    (`FlagsOwned`).
  * `VerseShownIsSpoken`, from `BibleInv`: handlers leave the verse shown and the one
    spoken apart, and the effect after them brings them together, so the
    invariant has a form for each (`Unrendered`, `Narrated`). Utterances that were
    cancelled stay in the synthesizer until their end is reported; `Current` are those
    of the present generation, the only ones whose events count.
  * `IndicatorsHaveStreams`, from `DevicesInv`: no stream belongs to two kinds, and the
    streams used and the opens under way are no more than have been counted
    (`StreamsLeft`), without which the next might have no name left; and a captured
    screen is referred to as the screen only (`ScreensApart`), so that the end of one
    the browser reports takes no stream from the microphone or the camera.
  * `QueueNeverStalls`, from `UploadInv`: every handler and continuation that frees the
    run goes through `processQueue`, whose lemma `QueueProcessed` is cited by each; a run
    that is on has a request, although requests of earlier runs still come back.

* `SpinnersProofs`, `SpinnersPagesProofs`, `SpinnersEndProofs`: `EveryPageSettles`, the property
  `SpinnersEnd` of the whole specification of `MCPages`, every page of it. One invariant serves all pages,
  `Steady(p, l)`: each flag that page `p` shows is held by a request under way of the
  mounted component. A rule `l` says which flags those are and which requests hold
  them: mostly the flags in `busy` and a set of pairs of operation and flag
  (`FlagsHeld`), else flags that bear the argument of their request (a row), that are
  held by the newest of several only, or are about to be asked for by an effect, a
  timer or a promise. Lemmas carry a rule over the four ways in which requests change
  (one is sent, answered, comes back, is followed by the next); a step lemma of each
  page says that its handlers are such changes, and that a continuation which
  clears no flag belongs to a request that holds none, or is overtaken. A reply of a
  component that has been left, or of a selection that has changed, is where a flag
  could be cleared by nobody. `GrengoInv` and `InboxInv` add what their flags depend on
  besides.

Only model-checked: liveness (`PresenceConverges`, `ClosedIsForgotten`,
`EveryCallSettles`, `Reconnects`, `EventuallyConnected`, `SessionsFollowPresence`), since
fairness and ENABLED are out of the prover's reach, as are facts by induction over
data and RECURSIVE operators; `NegotiationAgrees` with session numbers that are used
again; and the three claims that do not hold.

## 5. Disagreements met and not run

While translating, these were met as well; they are in the models where their code
is, or concern code that is not modelled:

* store: `payments.user_id` references a user, so a guest's payment is rejected after
  the charge, though guests can check out (`.specs/backend_spec:157`); an order
  completed through its vendors' lines never runs special actions
  (`.specs/backend_spec:164`, `store/handler.go:1139`); a pending checkout may overwrite the
  aggregate a vendor wrote (`store/service.go:512`); only wallet payments are refunded
  when an acceptance fails (`:529`); `ClearCart` also empties what was added meanwhile
  (`:521`); `Subscribe` checks, asks the provider and then creates (`:644`);
* hub: the pool's scale-up threshold exceeds the belt's capacity (`ws/hub.go:274`); a
  subscription outlives the permission it was granted by (`:551`);
* transport: a refresh that fails for want of a network clears the session
  (`utils/api.ts:524-526`); a token that changes while a socket is connecting leaves the
  connection with the old identity, against the comment at
  `useWebSocketSync.ts:265-266`;
* page editor: an editor that a refresh takes away leaves in its cleanup
  (`CodeEditorBlock.tsx:130-136`, `RichTextBlock.tsx:35-41`, `DataSourcesBlock.tsx:39-44`), but a
  colour picker leaves only when it is blurred (`EditControls.tsx:1072-1081`; the cleanup at
  1048 cancels its debounce), which does not happen to an input that is removed with
  the focus. The count of editors then stays above zero: later drafts are saved by the
  next structural change or on leaving the page and not by a timer, and updates of others are
  held back, against "restarted 800 ms after the last editor is released"
  (`PageBuilder.tsx:407-409`). `HeldWhileEditing` names the case (`LostPicker`) and is about
  all others;
* narration: pause, stop (or a move) and play leave the synthesizer paused
  (`useBibleSpeech.ts:68-75` and 77-114 cancel and do not resume; 118-120 resumes only what is
  paused), so the reader says that it is playing while its verse waits unheard; and
  an utterance whose start is reported after the pause (92-95) turns "paused" into
  "playing". `NarratesWhatIsShown` therefore speaks of the utterance that is spoken or
  waits, not of what is heard;
* devices: overlapping toggles leave a stream open behind a dark indicator
  (`useMediaDevices.ts:137`); `ActiveHasStream` is about the other direction;
* pages: removing an album's image may remove another (`ImageGalleryBlock.tsx:190-203`
  against its comment at 192); live feed events of `atoms/forum.ts:283-301` against 96-99;
  badges of `DeploymentsPage.tsx:196-197` against 363-392; a page's content after an
  overtaken load (`PageBuilder.tsx:338`) and deletion of items by id (`:630-631`); the feed of
  an inbox conversation (`atoms/inbox.ts:46`); a muted speaker cannot switch the
  microphone off (`WebRTCPanel.tsx:674-676`); buttons without a `type` inside the SEO form
  submit it (`PageManagePanel.tsx:234-248`, `PageOwnershipPanel.tsx:120-200`); the offset of the
  trash's next page counts filtered rows (`TrashPage.tsx:103-108`); stale replies of the
  person search and of the guide editor's overlapping loads.

## 6. Not modelled

* The rest of the backend's own processes: the log stream and grouplogs, the
  conveyor's manager, event dispatcher, rate limiter and DEFCON, session caches,
  assembly and expiry of uploads, store subscriptions. Handlers that are one
  transaction are modelled as the server side of the page that calls them.
* Middleware and permission checks (stateless), migrations, SEO, analytics, e-mail,
  media workers, the grengo command line, Frappe and Superset: formatting, files and
  calls to other programs.
* The user interface kit, particles, flow and visualizer pages (presentation and
  floating point), the clip maker (external recorders), the opt-in `lib/webrtc/v2`
  managers, readers that load once and render, and, inside modelled pages, layout,
  wording and styles.

## 7. Plan

Done: orders and hub, transport with its abstract specification, mesh and pages,
checked, and all their invariants and action properties proved; shared videos,
checked. Next:

1. `LogStream`: the logger's bounded, blocking broadcast composed with the hub's
   lock; is a state reachable in which everyone waits for everyone?
2. `Conveyor`: the pool's manager and thresholds; the API bridge's semaphores and
   guest recovery; rate limiter; session caches; assembly of uploads.
3. Abstract specifications: a purchase that happens at once or not at all, refined
   by the checkout; a session registry refined by the hub.
