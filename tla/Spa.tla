-------------------------------- MODULE Spa --------------------------------
(***************************************************************************)
(* The single-page shell the page modules are written in.  A behaviour is  *)
(* about one page: its component state lives and dies with the mounted     *)
(* component, jotai atoms and tracked subscriptions do not; a request      *)
(* outlives the component that made it, and its continuation then no       *)
(* longer reaches component state.  Requests are answered in any order, or *)
(* fail; pushes arrive in the order the server sent them (the socket       *)
(* itself is WsClient).  Boolean useStates are kept as the set ui.on of    *)
(* those that are true, loading and saving flags as the set ui.busy.       *)
(***************************************************************************)
EXTENDS Naturals, Sequences, FiniteSets

CONSTANTS
    MaxFlight,      \* bound: requests in flight at one time
    MaxPush,        \* bound: pushes on their way
    MaxChanges,     \* bound: changes of the server's data
    None

VARIABLES
    page,   \* the page, and whether it is mounted
    ui,     \* the component state of the mounted page
    atom,   \* the jotai atoms, refs and storage the page uses
    net,    \* requests in flight: [id, op, arg, live, rep]
    db,     \* the server's data behind the page; db.n counts its changes
    subs,   \* resources the browser is subscribed to
    push    \* pushes on their way to the browser

spaVars == <<page, ui, atom, net, db, subs, push>>

On(p) == page = <<p, "mounted">>

\* n with a request for operation op; the id keeps equal requests apart.
Add(n, op, arg) ==
    LET ids == {r.id : r \in {q \in n : q.op = op /\ q.arg = arg}}
        i == CHOOSE x \in 1..MaxFlight : x \notin ids /\ \A y \in 1..(x - 1) : y \in ids
    IN  n \cup {[id |-> i, op |-> op, arg |-> arg, live |-> TRUE, rep |-> None]}

Room(k) == Cardinality(net) + k <= MaxFlight

Begins(p, u, a, n, d) ==
    page = <<p, "mounted">> /\ ui = u /\ atom = a /\ net = n /\ db = d /\ subs = {} /\ push = <<>>

\* Handlers: that change component state, atoms too, or also call the server.
Set(u) == ui' = u /\ UNCHANGED <<page, atom, net, db, subs, push>>
SetAtom(u, a) == ui' = u /\ atom' = a /\ UNCHANGED <<page, net, db, subs, push>>
Call(u, op, arg) ==
    Room(1) /\ ui' = u /\ net' = Add(net, op, arg) /\ UNCHANGED <<page, atom, db, subs, push>>
CallAtom(u, a, op, arg) ==
    Room(1) /\ ui' = u /\ atom' = a /\ net' = Add(net, op, arg) /\ UNCHANGED <<page, db, subs, push>>

\* A request that changes the server's data, as long as the bound allows one.
Write(u, op, arg) == db.n < MaxChanges /\ Call(u, op, arg)

\* Continuations after the reply r: they end, or go on with another request.
Replied(r, ops) == r.op \in ops /\ r.rep # None
Reach(r, u) == ui' = IF r.live THEN u ELSE ui
Done(r, u) == Reach(r, u) /\ net' = net \ {r} /\ UNCHANGED <<page, atom, db, subs, push>>
DoneAtom(r, u, a) ==
    Reach(r, u) /\ atom' = a /\ net' = net \ {r} /\ UNCHANGED <<page, db, subs, push>>
Onward(r, op, arg) ==
    {IF q.live = r.live THEN q ELSE [q EXCEPT !.live = r.live] : q \in Add(net \ {r}, op, arg) \ net}
    \cup (net \ {r})
Goes(r, u, op, arg) ==
    Reach(r, u) /\ net' = Onward(r, op, arg) /\ UNCHANGED <<page, atom, db, subs, push>>

\* The server answers r with val, having brought its data to d and sent ps.
Sent(ps) == Len(push \o ps) <= MaxPush /\ push' = push \o ps
Reply(r, ok, val) == (net \ {r}) \cup {[r EXCEPT !.rep = [ok |-> ok, val |-> val]]}
AnswerPush(r, d, val, ps) ==
    r.rep = None /\ db' = d /\ net' = Reply(r, TRUE, val) /\ Sent(ps) /\ UNCHANGED <<page, ui, atom, subs>>
Answer(r, d, val) == AnswerPush(r, d, val, <<>>)
Read(r, val) == Answer(r, db, val)
Fail(r) ==
    r.rep = None /\ net' = Reply(r, FALSE, None) /\ UNCHANGED <<page, ui, atom, db, subs, push>>
Fails == \E r \in net : Fail(r)

\* The server's data changes for another user's or process's doing.
Changes(d, ps) ==
    /\ db.n < MaxChanges /\ db' = [d EXCEPT !.n = db.n + 1] /\ Sent(ps)
    /\ UNCHANGED <<page, ui, atom, net, subs>>

\* The browser takes the next push.
Takes(a) ==
    push' = Tail(push) /\ atom' = a /\ UNCHANGED <<page, ui, net, db, subs>>

\* Another route is rendered: the component goes, its requests go on.
Orphaned == {[r EXCEPT !.live = FALSE] : r \in net}
Leave(p, a, s) ==
    /\ On(p) /\ page' = <<p, "away">> /\ ui' = [busy |-> {}]
    /\ atom' = a /\ subs' = s /\ net' = Orphaned /\ UNCHANGED <<db, push>>
\* A page without atoms is left for good: nothing of it is reached any more.
Quit(p) ==
    /\ On(p) /\ page' = <<p, "away">> /\ ui' = [busy |-> {}] /\ net' = {} /\ push' = <<>>
    /\ UNCHANGED <<atom, db, subs>>
Enter(p, u, a, s, op, arg) ==
    /\ page = <<p, "away">> /\ page' = <<p, "mounted">> /\ Room(1)
    /\ ui' = u /\ atom' = a /\ subs' = s /\ net' = Add(net, op, arg) /\ UNCHANGED <<db, push>>

Busy(u, f) == [u EXCEPT !.busy = @ \cup {f}]
Idle(u, f) == [u EXCEPT !.busy = @ \ {f}]
Open(u, f) == [u EXCEPT !.on = @ \cup {f}]
Close(u, f) == [u EXCEPT !.on = @ \ {f}]
Toggle(u, f) == IF f \in u.on THEN Close(u, f) ELSE Open(u, f)
=============================================================================
