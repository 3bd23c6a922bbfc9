--------------------------- MODULE SpinnersProofs ---------------------------
(***************************************************************************)
(* No page is left loading, saving or busy with a row: each flag a page    *)
(* shows is held by a request of the mounted page that is still under way, *)
(* and the continuation of the last of them clears it.  One invariant      *)
(* serves every page; what differs is which flags a page shows, and which  *)
(* requests hold them.                                                     *)
(*                                                                         *)
(* The lemmas are named alike.  Of a page N of the specification NNext,    *)
(* NStep shows that its steps keep its invariant.  Of a module X of pages, *)
(* XSteady is the disjunction of its pages' invariants: XBegins says that  *)
(* its initial states satisfy it, XTurns that a step on one of them is a   *)
(* step of its specification, XKept that every step keeps it, and XEnds    *)
(* that it implies the property.  SpinnersPagesProofs and                  *)
(* SpinnersEndProofs have the other modules, the latter the theorem.       *)
(***************************************************************************)
EXTENDS MCPages, TLAPS

-----------------------------------------------------------------------------
(* Flags and the requests that hold them.                                  *)

RequestFields == {"id", "op", "arg", "live", "rep"}
Requests(n) == \A r \in n : DOMAIN r = RequestFields

\* A rule l: the flags of a page it is about and the fields they are read from, and
\* which requests hold a flag.  Of most pages these are the flags in ui.busy, held
\* by the operations op of which <<op, flag>> is in l[2].
FlagsOf(l, u, a) ==
    CASE l[1] = "plain" -> u.busy
      [] l[1] \in {"set", "arg", "args"} -> u[l[3]]
      [] l[1] = "field" -> IF u[l[3]] = l[4] THEN {} ELSE {l[3]}
      [] l[1] \in {"first", "later"} -> u.busy
      [] l[1] = "now" -> IF l[3] \in u.busy THEN {u[l[4]]} ELSE {}
      [] l[1] = "due" -> u.busy \ u.due
      [] l[1] = "timer" -> IF "timer" \in u.on THEN u.busy \ l[3] ELSE u.busy
      [] l[1] = "waits" -> u.busy \ {Grengo!FlagOf(w.kind) : w \in u.waits}
      [] l[1] = "active" -> IF a.active = None THEN u.busy \ {"msgs"} ELSE u.busy
      [] l[1] = "none" -> u.busy \ l[3]
      [] l[1] = "picker" -> IF "picker" \in u.on THEN u.busy \ l[3] ELSE u.busy
FieldsOf(l) ==
    CASE l[1] = "plain" -> {"busy"}
      [] l[1] \in {"set", "arg", "args", "field"} -> {"busy", l[3]}
      [] l[1] \in {"first", "later", "active", "none"} -> {"busy"}
      [] l[1] = "now" -> {"busy", l[4]}
      [] l[1] = "due" -> {"busy", "due"}
      [] l[1] \in {"timer", "picker"} -> {"busy", "on"}
      [] l[1] = "waits" -> {"busy", "waits"}
Holds(l, op, arg, f) ==
    CASE l[1] = "plain" -> <<op, f>> \in l[2]
      [] l[1] \in {"set", "field", "due", "timer", "active", "none", "picker"} -> <<op,
        f>> \in l[2]
      [] l[1] = "arg" -> op \in l[2] /\ arg = f
      [] l[1] = "args" -> op \in l[2] /\ f \in arg
      [] l[1] = "first" -> <<op, f>> \in l[2] /\ (op = l[3] => arg[l[4]] = 0)
      [] l[1] = "later" -> <<op, f>> \in l[2] /\ arg > 0
      [] l[1] = "now" -> op \in l[2] /\ (IF l[5] = 0 THEN arg ELSE arg[l[5]]) = f
      [] l[1] = "waits" -> op = "sites" /\ f = IF arg = None THEN "load" ELSE Grengo!FlagOf(arg)
\* The requests of n hold the flags F.
HeldBy(l, F, n) == \A f \in F : \E r \in n : r.live /\ Holds(l, r.op, r.arg, f)

\* The invariant of page p under rule l.
Shown(l) == FlagsOf(l, ui, atom)
Whole(l) == FieldsOf(l) \subseteq DOMAIN ui
Steady(p, l) ==
    /\ page = <<p, "mounted">> \/ page = <<p, "away">>
    /\ Requests(net)
    /\ page = <<p, "mounted">> => Whole(l) /\ HeldBy(l, Shown(l), net)

\* What becomes of a flag: a request for op holds it, or it was there before and
\* none of the requests that are no longer there held it.
Carried(l, n, op, arg) ==
    /\ Whole(l)'
    /\ \A f \in Shown(l)' :
          \/ Holds(l, op, arg, f)
          \/ f \in Shown(l) /\ \A q \in net \ n : q.live => ~Holds(l, q.op, q.arg, f)
Spared(l, n) ==
    /\ Whole(l)'
    /\ \A f \in Shown(l)' : f \in Shown(l) /\ \A q \in net \ n : q.live
          => ~Holds(l, q.op, q.arg, f)

LEMMA AddIs ==
  \A n, op, arg : \E i :
     Add(n, op, arg) = n \cup {[id |-> i, op |-> op, arg |-> arg, live |-> TRUE, rep |-> None]}
BY DEF Add

\* A request is added.
LEMMA Added ==
  ASSUME NEW n, Requests(n), NEW op, NEW arg, NEW m, m = Add(n, op, arg)
  PROVE  /\ Requests(m) /\ n \subseteq m
         /\ \E r \in m : r.live /\ r.op = op /\ r.arg = arg
<1>1. PICK i : m = n \cup {[id |-> i, op |-> op, arg |-> arg, live |-> TRUE, rep |-> None]}
  BY AddIs
<1> DEFINE q == [id |-> i, op |-> op, arg |-> arg, live |-> TRUE, rep |-> None]
<1>2. DOMAIN q = RequestFields /\ q.live = TRUE /\ q.op = op /\ q.arg = arg
  BY DEF RequestFields
<1> HIDE DEF q
<1>3. m = n \cup {q}
  BY <1>1 DEF q
<1> QED
  BY <1>2, <1>3 DEF Requests

\* Requests are taken away.
LEMMA SubSteady ==
  ASSUME NEW p, NEW l, Steady(p, l), page = <<p, "mounted">>, UNCHANGED page,
         NEW n, n \subseteq net, net' = n, Spared(l, n)
  PROVE  Steady(p, l)'
<1>1. Requests(net') /\ HeldBy(l, Shown(l), net)
  BY DEF Steady, Requests
<1>2. ASSUME NEW f \in Shown(l)' PROVE \E r \in n : r.live /\ Holds(l, r.op, r.arg, f)
  BY <1>1 DEF HeldBy, Spared
<1>3. HeldBy(l, Shown(l), net)'
  BY <1>2 DEF HeldBy
<1> QED
  BY <1>1, <1>3 DEF Steady, Spared

\* Requests are taken away and one is added.
LEMMA AddSteady ==
  ASSUME NEW p, NEW l, Steady(p, l), page = <<p, "mounted">>, UNCHANGED page,
         NEW n, n \subseteq net, NEW op, NEW arg, net' = Add(n, op, arg), Carried(l, n, op, arg)
  PROVE  Steady(p, l)'
<1>1. Requests(n) /\ HeldBy(l, Shown(l), net)
  BY DEF Steady, Requests
<1>2. /\ Requests(net') /\ n \subseteq net'
      /\ \E r \in net' : r.live /\ r.op = op /\ r.arg = arg
  BY <1>1, Added
<1>3. ASSUME NEW f \in Shown(l)' PROVE \E r \in net' : r.live /\ Holds(l, r.op, r.arg, f)
  <2>1. CASE Holds(l, op, arg, f)
    BY <1>2, <2>1
  <2>2. CASE ~Holds(l, op, arg, f)
    BY <1>1, <1>2, <2>2 DEF HeldBy, Carried
  <2> QED
    BY <2>1, <2>2
<1>4. HeldBy(l, Shown(l), net)'
  BY <1>3 DEF HeldBy
<1> QED
  BY <1>2, <1>4 DEF Steady, Carried

\* A request is answered.
LEMMA ReplySteady ==
  ASSUME NEW p, NEW l, Steady(p, l), UNCHANGED <<page, ui, atom>>,
         NEW r \in net, NEW ok, NEW val, net' = Reply(r, ok, val)
  PROVE  Steady(p, l)'
<1> DEFINE q == [r EXCEPT !.rep = [ok |-> ok, val |-> val]]
<1>1. Requests(net)
  BY DEF Steady
<1>2. DOMAIN q = RequestFields /\ q.live = r.live /\ q.op = r.op /\ q.arg = r.arg
  BY <1>1 DEF Requests, RequestFields
<1> HIDE DEF q
<1>3. net' = (net \ {r}) \cup {q}
  BY DEF Reply, q
<1>4. Requests(net')
  BY <1>1, <1>2, <1>3 DEF Requests
<1>5. Shown(l)' = Shown(l) /\ Whole(l)' = Whole(l)
  BY DEF Shown, Whole
<1>6. ASSUME HeldBy(l, Shown(l), net) PROVE HeldBy(l, Shown(l)', net')
  <2> SUFFICES ASSUME NEW f \in Shown(l)
               PROVE  \E s \in net' : s.live /\ Holds(l, s.op, s.arg, f)
    BY <1>5 DEF HeldBy
  <2>1. PICK s \in net : s.live /\ Holds(l, s.op, s.arg, f)
    BY <1>6 DEF HeldBy
  <2> QED
    BY <1>2, <1>3, <2>1
<1> QED
  BY <1>4, <1>5, <1>6 DEF Steady

\* r goes on with another request, which reaches the page where r did.
OnwardCarried(l, r, op, arg) ==
    IF r.live THEN Carried(l, net \ {r}, op, arg) ELSE Spared(l, net \ {r})
LEMMA OnwardSteady ==
  ASSUME NEW p, NEW l, Steady(p, l), page = <<p, "mounted">>, UNCHANGED page,
         NEW r \in net, r.rep # None, NEW op, NEW arg, net' = Onward(r, op, arg),
         OnwardCarried(l, r, op, arg)
  PROVE  Steady(p, l)'
<1> DEFINE n == net \ {r}
<1>1. PICK i : Add(n, op, arg)
                 = n \cup {[id |-> i, op |-> op, arg |-> arg, live |-> TRUE, rep |-> None]}
  BY AddIs
<1> DEFINE q0 == [id |-> i, op |-> op, arg |-> arg, live |-> TRUE, rep |-> None]
           q1 == IF q0.live = r.live THEN q0 ELSE [q0 EXCEPT !.live = r.live]
           m == {IF q.live = r.live THEN q ELSE [q EXCEPT !.live = r.live] :
                   q \in Add(n, op, arg) \ net} \cup n
<1>2. net' = m
  BY DEF Onward
<1>3. /\ DOMAIN q0 = RequestFields /\ q0.live = TRUE /\ q0.op = op /\ q0.arg = arg
            /\ q0.rep = None
      /\ DOMAIN q1 = RequestFields /\ q1.op = op /\ q1.arg = arg /\ q1.live = r.live
  BY DEF RequestFields
<1>4. (\A q \in m : q \in n \/ q = q1) /\ (q0 \notin net => q1 \in m) /\ n \subseteq m
  BY <1>1
<1>5. q0 # r
  BY <1>3
<1> HIDE DEF q0, q1, m
<1>6. Requests(net) /\ HeldBy(l, Shown(l), net)
  BY DEF Steady
<1>7. Requests(m)
  BY <1>3, <1>4, <1>6 DEF Requests
<1>8. Whole(l)'
  BY DEF OnwardCarried, Carried, Spared
<1>9. CASE r.live
  <2>1. \E s \in m : s.live /\ s.op = op /\ s.arg = arg
    <3>1. CASE q0 \in net
      BY <1>3, <1>4, <1>5, <3>1
    <3>2. CASE q0 \notin net
      BY <1>3, <1>4, <1>9, <3>2
    <3> QED
      BY <3>1, <3>2
  <2>2. ASSUME NEW f \in Shown(l)' PROVE \E s \in m : s.live /\ Holds(l, s.op, s.arg, f)
    <3>1. CASE Holds(l, op, arg, f)
      BY <2>1, <3>1
    <3>2. CASE ~Holds(l, op, arg, f)
      <4>1. f \in Shown(l) /\ \A q \in net \ n : q.live => ~Holds(l, q.op, q.arg, f)
        BY <1>9, <3>2 DEF OnwardCarried, Carried
      <4>2. PICK s \in net : s.live /\ Holds(l, s.op, s.arg, f)
        BY <1>6, <4>1 DEF HeldBy
      <4> QED
        BY <1>4, <4>1, <4>2
    <3> QED
      BY <3>1, <3>2
  <2>3. HeldBy(l, Shown(l), net)'
    BY <1>2, <2>2 DEF HeldBy
  <2> QED
    BY <1>2, <1>7, <1>8, <2>3 DEF Steady
<1>10. CASE ~r.live
  <2>1. ASSUME NEW f \in Shown(l)' PROVE \E s \in m : s.live /\ Holds(l, s.op, s.arg, f)
    <3>1. f \in Shown(l)
      BY <1>10 DEF OnwardCarried, Spared
    <3>2. PICK s \in net : s.live /\ Holds(l, s.op, s.arg, f)
      BY <1>6, <3>1 DEF HeldBy
    <3> QED
      BY <1>4, <1>10, <3>2
  <2>2. HeldBy(l, Shown(l), net)'
    BY <1>2, <2>1 DEF HeldBy
  <2> QED
    BY <1>2, <1>7, <1>8, <2>2 DEF Steady
<1> QED
  BY <1>9, <1>10

\* The component goes.
LEMMA AwaySteady ==
  ASSUME NEW p, NEW l, Steady(p, l), page' = <<p, "away">>, Requests(net')
  PROVE  Steady(p, l)'
<1>1. <<p, "away">> # <<p, "mounted">>
  OBVIOUS
<1> QED
  BY <1>1 DEF Steady

LEMMA GoneRequests == Requests(net) => Requests({}) /\ Requests(Orphaned)
<1>1. ASSUME Requests(net), NEW r \in net PROVE DOMAIN [r EXCEPT !.live = FALSE] = RequestFields
  BY <1>1 DEF Requests
<1> QED
  BY <1>1 DEF Requests, Orphaned

\* Any request may fail.
LEMMA FailsSteady ==
  ASSUME NEW p, NEW l, Steady(p, l), Fails \/ UNCHANGED spaVars
  PROVE  Steady(p, l)'
<1>1. CASE Fails
  BY <1>1, ReplySteady DEF Fails, Fail
<1>2. CASE UNCHANGED spaVars
  BY <1>2 DEF spaVars, Steady, Shown, Whole
<1> QED
  BY <1>1, <1>2

\* What a step may do to the flags of l: a handler; one that begins a request; the
\* end of r; r's going on with another request, which reaches the page where r
\* did, or always does.
Fades(l) == Whole(l)' /\ Shown(l)' \subseteq Shown(l)
Begun(l, op, arg) == Whole(l)' /\ \A f \in Shown(l)' : f \in Shown(l) \/ Holds(l, op, arg, f)
Spent(l, r, f) == f \in Shown(l) /\ (r.live => ~Holds(l, r.op, r.arg, f))
Closed(l, r) == Whole(l)' /\ \A f \in Shown(l)' : Spent(l, r, f)
Handed(l, r, op, arg) ==
    Whole(l)' /\ \A f \in Shown(l)' : Spent(l, r, f) \/ (r.live /\ Holds(l, op, arg, f))
Renewed(l, r, op, arg) ==
    Whole(l)' /\ \A f \in Shown(l)' : Spent(l, r, f) \/ Holds(l, op, arg, f)

LEMMA SetSteady ==
  ASSUME NEW p, NEW l, Steady(p, l), page = <<p, "mounted">>, UNCHANGED <<page, net>>, Fades(l)
  PROVE  Steady(p, l)'
<1>1. Spared(l, net) /\ net \subseteq net /\ net' = net
  BY DEF Fades, Spared
<1> QED
  BY <1>1, SubSteady

LEMMA CallSteady ==
  ASSUME NEW p, NEW l, Steady(p, l), page = <<p, "mounted">>, UNCHANGED page,
         NEW op, NEW arg, net' = Add(net, op, arg), Begun(l, op, arg)
  PROVE  Steady(p, l)'
<1>1. Carried(l, net, op, arg) /\ net \subseteq net
  BY DEF Begun, Carried
<1> QED
  BY <1>1, AddSteady

LEMMA DoneSteady ==
  ASSUME NEW p, NEW l, Steady(p, l), page = <<p, "mounted">>, UNCHANGED page,
         NEW r \in net, net' = net \ {r}, Closed(l, r)
  PROVE  Steady(p, l)'
<1> DEFINE n == net \ {r}
<1>1. n \subseteq net /\ net' = n /\ \A q \in net \ n : q = r
  OBVIOUS
<1> HIDE DEF n
<1>2. Spared(l, n)
  BY <1>1 DEF Closed, Spent, Spared
<1> QED
  BY <1>1, <1>2, SubSteady

LEMMA SwapSteady ==
  ASSUME NEW p, NEW l, Steady(p, l), page = <<p, "mounted">>, UNCHANGED page,
         NEW r \in net, NEW op, NEW arg, net' = Add(net \ {r}, op, arg), Renewed(l, r, op, arg)
  PROVE  Steady(p, l)'
<1> DEFINE n == net \ {r}
<1>1. n \subseteq net /\ net' = Add(n, op, arg) /\ \A q \in net \ n : q = r
  OBVIOUS
<1> HIDE DEF n
<1>2. Carried(l, n, op, arg)
  BY <1>1 DEF Renewed, Spent, Carried
<1> QED
  BY <1>1, <1>2, AddSteady

LEMMA GoesSteady ==
  ASSUME NEW p, NEW l, Steady(p, l), page = <<p, "mounted">>, UNCHANGED page,
         NEW r \in net, r.rep # None, NEW op, NEW arg, net' = Onward(r, op, arg),
         Handed(l, r, op, arg)
  PROVE  Steady(p, l)'
<1> DEFINE n == net \ {r}
<1>1. \A q \in net \ n : q = r
  OBVIOUS
<1> HIDE DEF n
<1>2. IF r.live THEN Carried(l, n, op, arg) ELSE Spared(l, n)
  BY <1>1 DEF Handed, Spent, Carried, Spared
<1>3. OnwardCarried(l, r, op, arg)
  BY <1>2 DEF OnwardCarried, n
<1> QED
  BY <1>3, OnwardSteady

\* Two requests are made at once, of which the second may hold flags.
LEMMA TwiceSteady ==
  ASSUME NEW p, NEW l, Steady(p, l), page = <<p, "mounted">>, UNCHANGED page,
         NEW o, NEW x, NEW op, NEW arg, net' = Add(Add(net, o, x), op, arg), Begun(l, op, arg)
  PROVE  Steady(p, l)'
<1> DEFINE m == Add(net, o, x)
<1>1. Requests(net) /\ HeldBy(l, Shown(l), net)
  BY DEF Steady
<1>2. Requests(m) /\ net \subseteq m
  BY <1>1, Added
<1>3. net' = Add(m, op, arg)
  OBVIOUS
<1> HIDE DEF m
<1>4. /\ Requests(net') /\ m \subseteq net'
      /\ \E r \in net' : r.live /\ r.op = op /\ r.arg = arg
  BY <1>2, <1>3, Added
<1>5. ASSUME NEW f \in Shown(l)' PROVE \E r \in net' : r.live /\ Holds(l, r.op, r.arg, f)
  <2>1. CASE Holds(l, op, arg, f)
    BY <1>4, <2>1
  <2>2. CASE ~Holds(l, op, arg, f)
    BY <1>1, <1>2, <1>4, <2>2 DEF HeldBy, Begun
  <2> QED
    BY <2>1, <2>2
<1>6. HeldBy(l, Shown(l), net)'
  BY <1>5 DEF HeldBy
<1> QED
  BY <1>4, <1>6 DEF Steady, Begun

\* While the component is away only its requests matter.
LEMMA StaysSteady ==
  ASSUME NEW p, NEW l, Steady(p, l), page = <<p, "away">>, UNCHANGED page, Requests(net')
  PROVE  Steady(p, l)'
<1>1. <<p, "away">> # <<p, "mounted">>
  OBVIOUS
<1> QED
  BY <1>1 DEF Steady

-----------------------------------------------------------------------------
(* The pages whose flags are ui.busy, held by operations.                  *)

FlagsHeld(p, holds) == Steady(p, <<"plain", holds>>)

LEMMA PlainRule ==
  ASSUME NEW holds
  PROVE  LET l == <<"plain", holds>> IN
         /\ Shown(l) = ui.busy /\ Shown(l)' = ui'.busy
         /\ Whole(l) = ("busy" \in DOMAIN ui) /\ Whole(l)' = ("busy" \in DOMAIN ui')
         /\ \A op, arg, f : Holds(l, op, arg, f) <=> <<op, f>> \in holds
<1> SUFFICES ASSUME NEW l, l = <<"plain", holds>>
             PROVE  /\ Shown(l) = ui.busy /\ Shown(l)' = ui'.busy
                    /\ Whole(l) = ("busy" \in DOMAIN ui) /\ Whole(l)' = ("busy" \in DOMAIN ui')
                    /\ \A op, arg, f : Holds(l, op, arg, f) <=> <<op, f>> \in holds
  OBVIOUS
<1>1. l[1] = "plain" /\ l[2] = holds
  OBVIOUS
<1>2. \A u, a : FlagsOf(l, u, a) = u.busy
  BY <1>1 DEF FlagsOf
<1>4. FieldsOf(l) = {"busy"}
  BY <1>1 DEF FieldsOf
<1>3. \A op, arg, f : Holds(l, op, arg, f) <=> <<op, f>> \in holds
  BY <1>1 DEF Holds
<1> QED
  BY <1>2, <1>3, <1>4 DEF Shown, Whole

\* What a step may do to the flags: a handler; one that begins a request for op;
\* the end of r, wherever or where it still reaches the page; r's going on with
\* another request for op, likewise.
Fewer == "busy" \in DOMAIN ui' /\ ui'.busy \subseteq ui.busy
Covered(holds, op) ==
    "busy" \in DOMAIN ui' /\ \A f \in ui'.busy : f \in ui.busy \/ <<op, f>> \in holds
Dropped(holds, r) ==
    "busy" \in DOMAIN ui' /\ \A f \in ui'.busy : f \in ui.busy /\ <<r.op, f>> \notin holds
Ended(holds, r) == IF r.live THEN Dropped(holds, r) ELSE ui' = ui
Swapped(holds, r, op) ==
    "busy" \in DOMAIN ui'
    /\ \A f \in ui'.busy : <<op, f>> \in holds \/ (f \in ui.busy /\ <<r.op, f>> \notin holds)
Passed(holds, r, op) == IF r.live THEN Swapped(holds, r, op) ELSE ui' = ui

LEMMA Mounted ==
  ASSUME NEW p, NEW holds, FlagsHeld(p, holds), page = <<p, "mounted">>
  PROVE  "busy" \in DOMAIN ui
BY PlainRule DEF FlagsHeld, Steady

LEMMA SetHeld ==
  ASSUME NEW p, NEW holds, FlagsHeld(p, holds), UNCHANGED <<page, net>>, ui' = ui \/ Fewer
  PROVE  FlagsHeld(p, holds)'
BY PlainRule DEF FlagsHeld, Steady, HeldBy, Fewer

LEMMA CallHeld ==
  ASSUME NEW p, NEW holds, FlagsHeld(p, holds), page = <<p, "mounted">>, UNCHANGED page,
         NEW op, NEW arg, net' = Add(net, op, arg), Covered(holds, op)
  PROVE  FlagsHeld(p, holds)'
<1>1. Begun(<<"plain", holds>>, op, arg)
  BY PlainRule DEF Begun, Covered
<1> QED
  BY <1>1, CallSteady DEF FlagsHeld

LEMMA DoneHeld ==
  ASSUME NEW p, NEW holds, FlagsHeld(p, holds), page = <<p, "mounted">>, UNCHANGED page,
         NEW r \in net, net' = net \ {r}, Ended(holds, r) \/ Dropped(holds, r)
  PROVE  FlagsHeld(p, holds)'
<1>1. "busy" \in DOMAIN ui
  BY Mounted
<1>2. Closed(<<"plain", holds>>, r)
  BY ZenonT(30), <1>1, PlainRule DEF Closed, Spent, Ended, Dropped
<1> QED
  BY <1>2, DoneSteady DEF FlagsHeld

LEMMA DropHeld ==
  ASSUME NEW p, NEW holds, FlagsHeld(p, holds), page = <<p, "mounted">>, UNCHANGED page,
         NEW r \in net, net' = net \ {r}, Dropped(holds, r)
  PROVE  FlagsHeld(p, holds)'
BY DoneHeld

LEMMA ReplyHeld ==
  ASSUME NEW p, NEW holds, FlagsHeld(p, holds), UNCHANGED <<page, ui, atom>>,
         NEW r \in net, NEW ok, NEW val, net' = Reply(r, ok, val)
  PROVE  FlagsHeld(p, holds)'
BY ReplySteady DEF FlagsHeld

LEMMA GoesHeld ==
  ASSUME NEW p, NEW holds, FlagsHeld(p, holds), page = <<p, "mounted">>, UNCHANGED page,
         NEW r \in net, r.rep # None, NEW op, NEW arg, net' = Onward(r, op, arg),
         Passed(holds, r, op)
  PROVE  FlagsHeld(p, holds)'
<1>1. "busy" \in DOMAIN ui
  BY Mounted
<1>2. Handed(<<"plain", holds>>, r, op, arg)
  BY <1>1, PlainRule DEF Handed, Spent, Passed, Swapped
<1> QED
  BY <1>2, GoesSteady DEF FlagsHeld

\* A continuation that goes on at once with another request, of the page itself.
LEMMA SwapHeld ==
  ASSUME NEW p, NEW holds, FlagsHeld(p, holds), page = <<p, "mounted">>, UNCHANGED page,
         NEW r \in net, NEW op, NEW arg, net' = Add(net \ {r}, op, arg),
         Swapped(holds, r, op) \/ Passed(holds, r, op)
  PROVE  FlagsHeld(p, holds)'
<1>1. "busy" \in DOMAIN ui
  BY Mounted
<1>2. Renewed(<<"plain", holds>>, r, op, arg)
  BY <1>1, PlainRule DEF Renewed, Spent, Passed, Swapped
<1> QED
  BY <1>2, SwapSteady DEF FlagsHeld

\* Requests are taken away, none of which holds a flag, and one may be added.
LEMMA KeepHeld ==
  ASSUME NEW p, NEW holds, FlagsHeld(p, holds), page = <<p, "mounted">>, UNCHANGED page,
         ui' = ui \/ Fewer, NEW n, n \subseteq net,
         \A q \in net : q \in n \/ ~q.live \/ \A f : <<q.op, f>> \notin holds,
         net' = n \/ \E op, arg : net' = Add(n, op, arg)
  PROVE  FlagsHeld(p, holds)'
<1>1. Spared(<<"plain", holds>>, n) /\ \A op, arg : Carried(<<"plain", holds>>, n, op, arg)
  BY PlainRule, Mounted DEF Spared, Carried, Fewer
<1> QED
  BY <1>1, AddSteady, SubSteady DEF FlagsHeld

LEMMA AwayHeld ==
  ASSUME NEW p, NEW holds, FlagsHeld(p, holds), page' = <<p, "away">>,
         net' = {} \/ net' = Orphaned
  PROVE  FlagsHeld(p, holds)'
<1>1. Requests(net')
  BY GoneRequests DEF FlagsHeld, Steady
<1> QED
  BY <1>1, AwaySteady DEF FlagsHeld

\* A page whose rows have no flags of their own, and that waits for nothing else.
LEMMA HeldEnds ==
  ASSUME NEW p, NEW holds, FlagsHeld(p, holds),
         p \notin {"uploads", "roles", "person", "customPages", "recovery"}
  PROVE  SpinnersEnd
<1>1. page[1] = p
  BY DEF FlagsHeld, Steady
<1>2. ~RowBusy
  BY <1>1 DEF RowBusy
<1>3. page[2] = "mounted" => page = <<p, "mounted">>
  BY DEF FlagsHeld, Steady
<1>4. page[2] = "mounted" /\ ui.busy # {} => net # {}
  BY <1>3, PlainRule DEF FlagsHeld, Steady, HeldBy
<1> QED
  BY <1>2, <1>4 DEF SpinnersEnd

-----------------------------------------------------------------------------
(* The first state of a page, and a state with nothing under way.          *)

LEMMA BornSteady ==
  ASSUME NEW p, NEW l, page = <<p, "mounted">>, Whole(l)
  PROVE  /\ net = {} /\ Shown(l) = {} => Steady(p, l)
         /\ \A op, arg : net = Add({}, op, arg) /\ (\A f \in Shown(l) : Holds(l, op, arg, f))
                           => Steady(p, l)
<1>1. Requests({})
  BY DEF Requests
<1>2. CASE net = {} /\ Shown(l) = {}
  BY <1>1, <1>2 DEF Steady, HeldBy
<1>3. ASSUME NEW op, NEW arg, net = Add({}, op, arg), \A f \in Shown(l) : Holds(l, op, arg, f)
      PROVE  Steady(p, l)
  <2>1. Requests(net) /\ \E r \in net : r.live /\ r.op = op /\ r.arg = arg
    BY <1>1, <1>3, Added
  <2> QED
    BY <1>3, <2>1 DEF Steady, HeldBy
<1> QED
  BY <1>2, <1>3

LEMMA BornHeld ==
  ASSUME NEW p, NEW holds, page = <<p, "mounted">>, "busy" \in DOMAIN ui
  PROVE  /\ net = {} /\ ui.busy = {} => FlagsHeld(p, holds)
         /\ \A op, arg : net = Add({}, op, arg) /\ (\A f \in ui.busy : <<op, f>> \in holds)
                           => FlagsHeld(p, holds)
<1> DEFINE l == <<"plain", holds>>
<1>1. /\ net = {} /\ Shown(l) = {} => Steady(p, l)
      /\ \A op, arg : net = Add({}, op, arg) /\ (\A f \in Shown(l) : Holds(l, op, arg, f))
                        => Steady(p, l)
  <2>1. Whole(l)
    BY PlainRule
  <2> HIDE DEF l
  <2> QED
    BY <2>1, BornSteady
<1> QED
  BY <1>1, PlainRule DEF FlagsHeld

LEMMA NothingShown ==
  ASSUME NEW p, NEW l, Steady(p, l), page[2] = "mounted"
  PROVE  /\ page = <<p, "mounted">>
         /\ Shown(l) # {} => net # {} /\ \E op, arg, f : Holds(l, op, arg, f)
BY DEF Steady, HeldBy

-----------------------------------------------------------------------------
(* Pages that show no flags.                                               *)

\* A page without flags.
Quiet(p) ==
    /\ page = <<p, "mounted">> \/ page = <<p, "away">>
    /\ "busy" \in DOMAIN ui /\ ui.busy = {}

LEMMA UploaderStep ==
  ASSUME Quiet("uploader"), Shell!UploaderNext PROVE Quiet("uploader")'
<1> DEFINE Inv == Quiet("uploader")
<1>1. "busy" \in DOMAIN ui /\ ui.busy = {}
        /\ (page = <<"uploader", "mounted">> \/ page = <<"uploader", "away">>)
  BY DEF Quiet
<1>2. "busy" \in DOMAIN ui' /\ ui'.busy = {} /\ (page' = page \/ page' = <<"uploader", "away">>)
        => Inv'
  BY <1>1 DEF Quiet
<1> USE <1>1, <1>2
<1>a. \A u, a, n : Shell!processQueue(u, a, n) => ui' = u /\ UNCHANGED page
  BY DEF Shell!processQueue
<1>b. \A a, j, n : Shell!finishRun(a, j, n) => UNCHANGED <<ui, page>>
  BY <1>a DEF Shell!finishRun
<1>c. \A a, j, n : Shell!failRun(a, j, n) => UNCHANGED <<ui, page>>
  BY <1>b DEF Shell!failRun
<1>d. \A a, j, k, n : Shell!workersDone(a, j, k, n) => UNCHANGED <<ui, page>>
  <2> SUFFICES ASSUME NEW a, NEW j, NEW k, NEW n, Shell!workersDone(a, j, k, n)
               PROVE  UNCHANGED <<ui, page>>
    OBVIOUS
  <2>1. CASE a.job[j].status = "paused"
    BY <1>b, <2>1 DEF Shell!workersDone
  <2>2. CASE a.job[j].status = "error"
    BY <1>c, <2>2 DEF Shell!workersDone
  <2> QED
    BY <2>1, <2>2 DEF Shell!workersDone
<1>e. \A a, j, k, w, n : Shell!uploadWorkers(a, j, k, w, n) => UNCHANGED <<ui, page>>
  BY <1>d DEF Shell!uploadWorkers
<1>f. UNCHANGED <<ui, page>> => Inv'
  BY <1>1 DEF Quiet
<1>g. ASSUME NEW a, NEW j, NEW n, Shell!completed(a, j, n) PROVE Inv'
  BY <1>b, <1>f, <1>g DEF Shell!completed
<1>h. ASSUME NEW a, NEW j, NEW u, Shell!doRetry(a, j, u), "busy" \in DOMAIN u, u.busy = {}
      PROVE  Inv'
  BY <1>a, <1>h DEF Shell!doRetry

<1>3. Shell!upload => Inv'
  BY <1>a DEF Shell!upload
<1>4. Shell!clickUploads => Inv'
  BY DEF Shell!clickUploads, Shell!pauseAll, Shell!pauseUpload, Shell!removeUpload,
         Shell!resumeAll, Shell!resumeUpload, Shell!retryUpload, Shell!processQueue,
         Shell!doRetry, Shell!Set, Shell!SetAtom, Shell!CallAtom, Shell!Open, Shell!Close,
         Shell!Toggle
<1>5. \A same : Shell!fileChosen(same) => Inv'
  BY DEF Shell!fileChosen, Shell!doRetry, Shell!processQueue, Shell!Set, Shell!Close
<1>6. \A j : Shell!cleanupJob(j) => Inv'
  BY DEF Shell!cleanupJob, Shell!SetAtom
<1>7. \A r \in net : Shell!initDone(r) => Inv'
  BY <1>c, <1>e, <1>f DEF Shell!initDone
<1>8. \A r \in net : Shell!chunkDone(r) => Inv'
  <2> SUFFICES ASSUME NEW r \in net, Shell!chunkDone(r) PROVE Inv'
    OBVIOUS
  <2>1. CASE r.rep.ok
    BY <1>e, <1>f, <2>1 DEF Shell!chunkDone
  <2>2. CASE ~r.rep.ok /\ r.arg[2] = atom.cur
    BY <1>c, <1>f, <2>2 DEF Shell!chunkDone
  <2>3. CASE ~r.rep.ok /\ r.arg[2] # atom.cur
    BY <2>3 DEF Shell!chunkDone, Shell!DoneAtom, Shell!Reach
  <2> QED
    BY <2>1, <2>2, <2>3
<1>9. \A r \in net : Shell!completeDone(r) => Inv'
  <2> SUFFICES ASSUME NEW r \in net, Shell!completeDone(r) PROVE Inv'
    OBVIOUS
  <2>1. CASE ~r.rep.ok
    BY <1>c, <1>f, <2>1 DEF Shell!completeDone
  <2>2. CASE r.rep.ok /\ r.arg[1] = "a" /\ atom.conv
    BY <2>2 DEF Shell!completeDone, Shell!Goes, Shell!Reach
  <2>3. CASE r.rep.ok /\ ~(r.arg[1] = "a" /\ atom.conv)
    BY <1>g, <2>3 DEF Shell!completeDone
  <2> QED
    BY <2>1, <2>2, <2>3
<1>10. \A r \in net : Shell!inboxSent(r) => Inv'
  BY <1>g DEF Shell!inboxSent
<1>11. \A r \in net : Shell!loadIncompleteUploads(r) => Inv'
  BY DEF Shell!loadIncompleteUploads, Shell!DoneAtom, Shell!Reach
<1>12. \A r \in net : Shell!removeDone(r) => Inv'
  BY DEF Shell!removeDone, Shell!Done, Shell!Reach
<1>13. \A r \in net : Shell!UploadServer(r) => Inv'
  BY DEF Shell!UploadServer, Shell!Answer, Shell!AnswerPush, Shell!Read
<1> QED
  BY <1>3, <1>4, <1>5, <1>6, <1>7, <1>8, <1>9, <1>10, <1>11, <1>12, <1>13 DEF Shell!UploaderNext

LEMMA DrawerStep ==
  ASSUME Quiet("drawer"), Shell!DrawerNext PROVE Quiet("drawer")'
<1> DEFINE Inv == Quiet("drawer")
<1>1. "busy" \in DOMAIN ui /\ ui.busy = {}
        /\ (page = <<"drawer", "mounted">> \/ page = <<"drawer", "away">>)
  BY DEF Quiet
<1>2. "busy" \in DOMAIN ui' /\ ui'.busy = {} /\ (page' = page \/ page' = <<"drawer", "away">>)
        => Inv'
  BY <1>1 DEF Quiet
<1> USE <1>1, <1>2
<1>3. Shell!mouseEnter => Inv'
  BY DEF Shell!mouseEnter, Shell!Set, Shell!Open
<1>4. Shell!focusCapture => Inv'
  BY DEF Shell!focusCapture, Shell!Shown, Shell!Set, Shell!Open
<1>5. Shell!scheduleClose => Inv'
  BY DEF Shell!scheduleClose, Shell!Set
<1>6. Shell!closeTimer => Inv'
  BY DEF Shell!closeTimer, Shell!Shown, Shell!Set, Shell!Close
<1>7. Shell!handlePointerDown => Inv'
  BY DEF Shell!handlePointerDown, Shell!Closed, Shell!Shown, Shell!Set, Shell!Close
<1>8. Shell!altArrow => Inv'
  BY DEF Shell!altArrow, Shell!Shown, Shell!focusApp, Shell!Set, Shell!Open
<1>9. Shell!arrow => Inv'
  BY DEF Shell!arrow, Shell!focusApp, Shell!Set
<1>10. Shell!escape => Inv'
  BY DEF Shell!escape, Shell!Closed, Shell!Shown, Shell!Set, Shell!Close
<1>11. Shell!clickLauncher => Inv'
  BY DEF Shell!clickLauncher, Shell!Launcher, Shell!Shown, Shell!Closed, Shell!Set, Shell!Open,
         Shell!Close
<1>12. Shell!closeAfterAction => Inv'
  BY DEF Shell!closeAfterAction, Shell!Closed, Shell!Shown, Shell!Set, Shell!Close
<1>13. Shell!searchDrawer => Inv'
  BY DEF Shell!searchDrawer, Shell!Set
<1>14. Shell!backToRoot => Inv'
  BY DEF Shell!backToRoot, Shell!Shown, Shell!Set
<1>15. \A k : Shell!setColumns(k) => Inv'
  BY DEF Shell!setColumns, Shell!Write, Shell!Call
<1>16. \A v : Shell!openPanel(v) => Inv'
  BY DEF Shell!openPanel, Shell!Shown, Shell!Set, Shell!Open
<1>17. \A t, visible : Shell!setAppVisible(t, visible) => Inv'
  BY DEF Shell!setAppVisible, Shell!Write, Shell!Call
<1>18. \A v : Shell!SoundPanel(v) => Inv'
  BY DEF Shell!SoundPanel, Shell!SetAtom
<1>19. \A r \in net : Shell!saveBranding(r) => Inv'
  BY DEF Shell!saveBranding, Shell!DoneAtom, Shell!Reach
<1>20. \A r \in net : Shell!DrawerServer(r) => Inv'
  BY DEF Shell!DrawerServer, Shell!Answer, Shell!AnswerPush
<1> QED
  BY <1>3, <1>4, <1>5, <1>6, <1>7, <1>8, <1>9, <1>10, <1>11, <1>12, <1>13, <1>14, <1>15, <1>16,
         <1>17, <1>18, <1>19, <1>20
     DEF Shell!DrawerNext

LEMMA CodesStep ==
  ASSUME Quiet("codes"), Store!CodesNext PROVE Quiet("codes")'
<1> DEFINE Inv == Quiet("codes")
<1>1. "busy" \in DOMAIN ui /\ ui.busy = {}
        /\ (page = <<"codes", "mounted">> \/ page = <<"codes", "away">>)
  BY DEF Quiet
<1>2. "busy" \in DOMAIN ui' /\ ui'.busy = {} /\ (page' = page \/ page' = <<"codes", "away">>)
        => Inv'
  BY <1>1 DEF Quiet
<1> USE <1>1, <1>2
<1>3. Store!fillReferenceForm => Inv'
  BY DEF Store!fillReferenceForm, Store!Set
<1>4. Store!cancelReferenceForm => Inv'
  BY DEF Store!cancelReferenceForm, Store!resetReferenceForm, Store!Set
<1>5. Store!submitReferenceCode => Inv'
  BY DEF Store!submitReferenceCode, Store!Call
<1>6. \A c : Store!editReferenceCode(c) => Inv'
  BY DEF Store!editReferenceCode, Store!Set
<1>7. \A c : Store!deleteReferenceCode(c) => Inv'
  BY DEF Store!deleteReferenceCode, Store!Call
<1>8. \A r \in net : Store!gotCodes(r) => Inv'
  BY DEF Store!gotCodes, Store!Done, Store!Reach
<1>9. \A r \in net : Store!codeDone(r) => Inv'
  BY DEF Store!codeDone, Store!resetReferenceForm, Store!Done, Store!Reach, Store!Goes
<1>10. \A r \in net : Store!CodesServer(r) => Inv'
  BY DEF Store!CodesServer, Store!Answer, Store!AnswerPush, Store!Read
<1> QED
  BY <1>3, <1>4, <1>5, <1>6, <1>7, <1>8, <1>9, <1>10 DEF Store!CodesNext

LEMMA GalleryStep ==
  ASSUME Quiet("gallery"), Content!GalleryNext PROVE Quiet("gallery")'
<1> DEFINE Inv == Quiet("gallery")
<1>1. "busy" \in DOMAIN ui /\ ui.busy = {}
        /\ (page = <<"gallery", "mounted">> \/ page = <<"gallery", "away">>)
  BY DEF Quiet
<1>2. "busy" \in DOMAIN ui' /\ ui'.busy = {} /\ (page' = page \/ page' = <<"gallery", "away">>)
        => Inv'
  BY <1>1 DEF Quiet
<1> USE <1>1, <1>2
<1>3. \A k : Content!setActiveAlbum(k) => Inv'
  BY DEF Content!setActiveAlbum, Content!Set
<1>4. \A k : Content!setEditingAlbum(k) => Inv'
  BY DEF Content!setEditingAlbum, Content!Set
<1>5. \A k : Content!addAlbum(k) => Inv'
  BY DEF Content!addAlbum, Content!updateAlbums, Content!Set
<1>6. \A k : Content!removeAlbum(k) => Inv'
  BY DEF Content!removeAlbum, Content!setItemMeta, Content!updateAlbums, Content!Set
<1>7. Content!renameAlbum => Inv'
  BY DEF Content!renameAlbum, Content!Set
<1>8. Content!addImage => Inv'
  BY DEF Content!addImage, Content!Set
<1>9. \A w : Content!setSectionCardWidth(w) => Inv'
  BY DEF Content!setSectionCardWidth, Content!Set
<1>10. \A i, w : Content!setItemWidth(i, w) => Inv'
  BY DEF Content!setItemWidth, Content!setItemMeta, Content!Set
<1>11. \A i : Content!deleteImage(i) => Inv'
  BY DEF Content!deleteImage, Content!Set
<1> QED
  BY <1>3, <1>4, <1>5, <1>6, <1>7, <1>8, <1>9, <1>10, <1>11 DEF Content!GalleryNext

LEMMA BibleStep ==
  ASSUME Quiet("bible"), Content!BibleNext PROVE Quiet("bible")'
<1> DEFINE Inv == Quiet("bible")
<1>1. "busy" \in DOMAIN ui /\ ui.busy = {}
        /\ (page = <<"bible", "mounted">> \/ page = <<"bible", "away">>)
  BY DEF Quiet
<1>2. "busy" \in DOMAIN ui' /\ ui'.busy = {} /\ (page' = page \/ page' = <<"bible", "away">>)
        => Inv'
  BY <1>1 DEF Quiet
<1> USE <1>1, <1>2
<1>3. \A v : Content!move(v) => Inv'
  BY DEF Content!move, Content!Rendered, Content!narrate, Content!speakCurrent, Content!stop,
         Content!Generation, Content!Set
<1>4. Content!toggleReader => Inv'
  BY DEF Content!toggleReader, Content!Rendered, Content!narrate, Content!speakCurrent,
         Content!stop, Content!Generation, Content!Set, Content!Open
<1>5. Content!setSpeechEnabled => Inv'
  BY DEF Content!setSpeechEnabled, Content!Rendered, Content!narrate, Content!speakCurrent,
         Content!stop, Content!Generation, Content!Set, Content!Open, Content!Close,
         Content!Toggle
<1>6. Content!toggleFullscreen => Inv'
  BY DEF Content!toggleFullscreen, Content!Rendered, Content!narrate, Content!speakCurrent,
         Content!stop, Content!Generation, Content!Set, Content!Close
<1>7. Content!play => Inv'
  BY DEF Content!play, Content!speakCurrent, Content!Generation, Content!Set
<1>8. Content!pause => Inv'
  BY DEF Content!pause, Content!Set
<1>9. Content!stopNarration => Inv'
  BY DEF Content!stopNarration, Content!stop, Content!Generation, Content!Set
<1>10. Content!addFavorite => Inv'
  BY DEF Content!addFavorite, Content!SetAtom
<1>11. \A f : Content!setPickerOpen(f) => Inv'
  BY DEF Content!setPickerOpen, Content!Set, Content!Open, Content!Close, Content!Toggle
<1>12. \A b : Content!selectBook(b) => Inv'
  BY DEF Content!selectBook, Content!Rendered, Content!narrate, Content!speakCurrent,
         Content!stop, Content!Generation, Content!Set, Content!Close
<1>13. \A v : Content!openFavorite(v) => Inv'
  BY DEF Content!openFavorite, Content!Rendered, Content!narrate, Content!speakCurrent,
         Content!stop, Content!Generation, Content!Set
<1>14. \A v : Content!removeFavorite(v) => Inv'
  BY DEF Content!removeFavorite, Content!SetAtom
<1>15. \A x : Content!onstart(x) \/ Content!onend(x) => Inv'
  BY DEF Content!onstart, Content!onend, Content!Rendered, Content!Spoken, Content!goneQuiet, Content!narrate,
         Content!speakCurrent, Content!stop, Content!Generation, Content!Set
<1>16. \A x : Content!onerror(x) => Inv'
  BY DEF Content!onerror, Content!Spoken, Content!goneQuiet, Content!Set
<1> QED
  BY <1>3, <1>4, <1>5, <1>6, <1>7, <1>8, <1>9, <1>10, <1>11, <1>12, <1>13, <1>14, <1>15, <1>16
     DEF Content!BibleNext

LEMMA StreamStep ==
  ASSUME Quiet("stream"), Meeting!StreamNext PROVE Quiet("stream")'
<1> DEFINE Inv == Quiet("stream")
<1>1. "busy" \in DOMAIN ui /\ ui.busy = {}
        /\ (page = <<"stream", "mounted">> \/ page = <<"stream", "away">>)
  BY DEF Quiet
<1>2. "busy" \in DOMAIN ui' /\ ui'.busy = {} /\ (page' = page \/ page' = <<"stream", "away">>)
        => Inv'
  BY <1>1 DEF Quiet
<1> USE <1>1, <1>2
<1>3. Meeting!StreamEffects => Inv'
  BY DEF Meeting!StreamEffects, Meeting!FromAddress, Meeting!ToAddress, Meeting!VideoToAddress,
         Meeting!Set, Meeting!Open
<1>4. \A s : Meeting!setEnlargedStreamId(s) => Inv'
  BY DEF Meeting!setEnlargedStreamId
<1>5. \A v : Meeting!mediaSync(v) => Inv'
  BY DEF Meeting!mediaSync
<1>6. \A force : Meeting!streamArrives(force) => Inv'
  BY DEF Meeting!streamArrives, Meeting!openFirstVideoStream, Meeting!Set, Meeting!Open
<1> QED
  BY <1>3, <1>4, <1>5, <1>6 DEF Meeting!StreamNext

LEMMA VoiceStep ==
  ASSUME Quiet("voice"), Meeting!VoiceNext PROVE Quiet("voice")'
<1> DEFINE Inv == Quiet("voice")
<1>1. "busy" \in DOMAIN ui /\ ui.busy = {}
        /\ (page = <<"voice", "mounted">> \/ page = <<"voice", "away">>)
  BY DEF Quiet
<1>2. "busy" \in DOMAIN ui' /\ ui'.busy = {} /\ (page' = page \/ page' = <<"voice", "away">>)
        => Inv'
  BY <1>1 DEF Quiet
<1> USE <1>1, <1>2
<1>3. \A r : Meeting!voiceNavigate(r) => Inv'
  BY DEF Meeting!voiceNavigate, Meeting!Call
<1>4. Meeting!permissionsChange => Inv'
  BY DEF Meeting!permissionsChange, Meeting!Changes
<1>5. \A r \in net : Meeting!gotPermissions(r) => Inv'
  BY DEF Meeting!gotPermissions, Meeting!DoneAtom, Meeting!Reach
<1>6. Meeting!permissionsPushed => Inv'
  BY DEF Meeting!permissionsPushed, Meeting!Takes
<1>7. Meeting!switchCamera => Inv'
  BY DEF Meeting!switchCamera, Meeting!Set, Meeting!Open, Meeting!Close, Meeting!Toggle
<1>8. Meeting!toggleShare => Inv'
  BY DEF Meeting!toggleShare, Meeting!Set, Meeting!Open
<1>9. Meeting!recordLocally => Inv'
  BY DEF Meeting!recordLocally, Meeting!Set, Meeting!Open, Meeting!Close, Meeting!Toggle
<1>10. \A f : Meeting!switchAudio(f) => Inv'
  BY DEF Meeting!switchAudio, Meeting!Set, Meeting!Open, Meeting!Close, Meeting!Toggle
<1> QED
  BY <1>3, <1>4, <1>5, <1>6, <1>7, <1>8, <1>9, <1>10
     DEF Meeting!VoiceNext, Meeting!Read, Meeting!Answer, Meeting!AnswerPush

LEMMA PresenceStep ==
  ASSUME Quiet("presence"), Meeting!PresenceNext PROVE Quiet("presence")'
<1> DEFINE Inv == Quiet("presence")
<1>1. "busy" \in DOMAIN ui /\ ui.busy = {}
        /\ (page = <<"presence", "mounted">> \/ page = <<"presence", "away">>)
  BY DEF Quiet
<1>2. "busy" \in DOMAIN ui' /\ ui'.busy = {} /\ (page' = page \/ page' = <<"presence", "away">>)
        => Inv'
  BY <1>1 DEF Quiet
<1> USE <1>1, <1>2
<1>3. \A t : Meeting!setActiveTab(t) => Inv'
  BY DEF Meeting!setActiveTab, Meeting!Set
<1>4. Meeting!handleLauncherPointerDown => Inv'
  BY DEF Meeting!handleLauncherPointerDown, Meeting!Set, Meeting!Open
<1>5. Meeting!handleLauncherPointerMove => Inv'
  BY DEF Meeting!handleLauncherPointerMove, Meeting!Set, Meeting!Open
<1>6. Meeting!handleLauncherPointerUp => Inv'
  BY DEF Meeting!handleLauncherPointerUp, Meeting!Set
<1>7. Meeting!launcherClick => Inv'
  BY DEF Meeting!launcherClick, Meeting!Set, Meeting!Close
<1>8. Meeting!toggleExpanded => Inv'
  BY DEF Meeting!toggleExpanded, Meeting!Set, Meeting!Open, Meeting!Close, Meeting!Toggle
<1>9. Meeting!openStreamRoute => Inv'
  BY DEF Meeting!openStreamRoute, Meeting!Set, Meeting!Open
<1>10. \A k : Meeting!chatArrives(k) => Inv'
  BY DEF Meeting!chatArrives, Meeting!SetAtom
<1> QED
  BY <1>3, <1>4, <1>5, <1>6, <1>7, <1>8, <1>9, <1>10 DEF Meeting!PresenceNext

LEMMA DevicesStep ==
  ASSUME Quiet("devices"), Rtc!DevicesNext PROVE Quiet("devices")'
<1> DEFINE Inv == Quiet("devices")
<1>1. "busy" \in DOMAIN ui /\ ui.busy = {}
        /\ (page = <<"devices", "mounted">> \/ page = <<"devices", "away">>)
  BY DEF Quiet
<1>2. "busy" \in DOMAIN ui' /\ ui'.busy = {} /\ (page' = page \/ page' = <<"devices", "away">>)
        => Inv'
  BY <1>1 DEF Quiet
<1> USE <1>1, <1>2
<1>3. Rtc!toggleMic => Inv'
  BY DEF Rtc!toggleMic, Rtc!toggleOff, Rtc!toggleOn, Rtc!Off, Rtc!Stopped, Rtc!SetAtom,
         Rtc!CallAtom
<1>4. Rtc!toggleCamera => Inv'
  BY DEF Rtc!toggleCamera, Rtc!toggleOff, Rtc!toggleOn, Rtc!Off, Rtc!Stopped, Rtc!SetAtom,
         Rtc!CallAtom
<1>5. Rtc!toggleScreen => Inv'
  BY DEF Rtc!toggleScreen, Rtc!toggleOff, Rtc!toggleOn, Rtc!Off, Rtc!Stopped, Rtc!SetAtom,
         Rtc!CallAtom
<1>6. Rtc!handleAudioDeviceChange => Inv'
  BY DEF Rtc!handleAudioDeviceChange, Rtc!handleDeviceChange, Rtc!Stopped, Rtc!CallAtom
<1>7. Rtc!handleVideoDeviceChange => Inv'
  BY DEF Rtc!handleVideoDeviceChange, Rtc!handleDeviceChange, Rtc!Stopped, Rtc!CallAtom
<1>8. \A r \in net : Rtc!gotMedia(r) => Inv'
  BY DEF Rtc!gotMedia
<1>9. \A r \in net : Rtc!published(r) => Inv'
  BY DEF Rtc!published, Rtc!DoneAtom, Rtc!Reach
<1>10. \A r \in net : Rtc!mediaFailed(r) => Inv'
  BY DEF Rtc!mediaFailed, Rtc!Off, Rtc!Stopped, Rtc!DoneAtom, Rtc!Reach
<1>11. \A s : Rtc!screenEnded(s) => Inv'
  BY DEF Rtc!screenEnded, Rtc!Off, Rtc!Stopped, Rtc!SetAtom
<1>12. Rtc!canSpeakLost => Inv'
  BY DEF Rtc!canSpeakLost, Rtc!Set
<1>13. Rtc!devicesUnmount => Inv'
  BY DEF Rtc!devicesUnmount, Rtc!Leave
<1>14. \A r \in net : Rtc!gotMediaLate(r) => Inv'
  BY DEF Rtc!gotMediaLate, Rtc!DoneAtom, Rtc!Reach
<1> QED
  BY <1>3, <1>4, <1>5, <1>6, <1>7, <1>8, <1>9, <1>10, <1>11, <1>12, <1>13, <1>14
     DEF Rtc!DevicesNext, Rtc!Read, Rtc!Answer, Rtc!AnswerPush

LEMMA LiveKitStep ==
  ASSUME Quiet("livekit"), Rtc!LiveKitNext PROVE Quiet("livekit")'
<1> DEFINE Inv == Quiet("livekit")
<1>1. "busy" \in DOMAIN ui /\ ui.busy = {}
        /\ (page = <<"livekit", "mounted">> \/ page = <<"livekit", "away">>)
  BY DEF Quiet
<1>2. "busy" \in DOMAIN ui' /\ ui'.busy = {} /\ (page' = page \/ page' = <<"livekit", "away">>)
        => Inv'
  BY <1>1 DEF Quiet
<1> USE <1>1, <1>2
<1>3. Rtc!ensureConnection => Inv'
  BY DEF Rtc!ensureConnection, Rtc!ensureConnected, Rtc!Connected, Rtc!joined, Rtc!SetAtom,
         Rtc!CallAtom, Rtc!DoneAtom, Rtc!Reach
<1>4. Rtc!closeAll => Inv'
  BY DEF Rtc!closeAll, Rtc!LiveKitRTC, Rtc!joined, Rtc!published, Rtc!SetAtom, Rtc!DoneAtom,
         Rtc!Reach
<1>5. Rtc!handleDisconnected => Inv'
  BY DEF Rtc!handleDisconnected, Rtc!Connected, Rtc!joined, Rtc!SetAtom, Rtc!DoneAtom, Rtc!Reach
<1>6. Rtc!syncActivePeers => Inv'
  BY DEF Rtc!syncActivePeers, Rtc!Connected, Rtc!joined, Rtc!SetAtom, Rtc!DoneAtom, Rtc!Reach
<1>7. \A t : Rtc!broadcastTracks(t) => Inv'
  BY DEF Rtc!broadcastTracks, Rtc!ensureConnected, Rtc!Connected, Rtc!joined, Rtc!SetAtom,
         Rtc!CallAtom, Rtc!DoneAtom, Rtc!Reach
<1>8. \A t : Rtc!Publishes(t) => Inv'
  BY DEF Rtc!Publishes, Rtc!Connected, Rtc!published, Rtc!joined, Rtc!CallAtom, Rtc!DoneAtom,
         Rtc!Reach
<1>9. \A t : Rtc!removeTracks(t) => Inv'
  BY DEF Rtc!removeTracks, Rtc!published, Rtc!SetAtom, Rtc!DoneAtom, Rtc!Reach
<1>10. \A t : Rtc!handleTrackSubscribed(t) => Inv'
  BY DEF Rtc!handleTrackSubscribed, Rtc!Connected, Rtc!joined, Rtc!SetAtom, Rtc!DoneAtom,
         Rtc!Reach
<1>11. \A t : Rtc!handleTrackUnpublished(t) => Inv'
  BY DEF Rtc!handleTrackUnpublished, Rtc!Connected, Rtc!removeRemoteTrack, Rtc!joined,
         Rtc!SetAtom, Rtc!DoneAtom, Rtc!Reach
<1>12. \A t : Rtc!RemotePublishes(t) => Inv'
  BY DEF Rtc!RemotePublishes, Rtc!Changes
<1>13. \A p : Rtc!handleParticipantDisconnected(p) => Inv'
  BY DEF Rtc!handleParticipantDisconnected, Rtc!Connected, Rtc!removeRemoteTrack, Rtc!joined,
         Rtc!SetAtom, Rtc!DoneAtom, Rtc!Reach
<1>14. \A r \in net : Rtc!PublishedTo(r) => Inv'
  BY DEF Rtc!PublishedTo, Rtc!published, Rtc!DoneAtom, Rtc!Reach
<1>15. \A r \in net : Rtc!gotToken(r) => Inv'
  BY DEF Rtc!gotToken
<1>16. \A r \in net : Rtc!joined(r) => Inv'
  BY DEF Rtc!joined, Rtc!DoneAtom, Rtc!Reach
<1>17. \A r \in net : Rtc!connectFailed(r) => Inv'
  BY DEF Rtc!connectFailed, Rtc!DoneAtom, Rtc!Reach
<1> QED
  BY <1>3, <1>4, <1>5, <1>6, <1>7, <1>8, <1>9, <1>10, <1>11, <1>12, <1>13, <1>14, <1>15, <1>16,
         <1>17
     DEF Rtc!LiveKitNext, Rtc!Read, Rtc!Answer, Rtc!AnswerPush

LEMMA RecordingStep ==
  ASSUME Quiet("recording"), Rtc!RecordingNext PROVE Quiet("recording")'
<1> DEFINE Inv == Quiet("recording")
<1>1. "busy" \in DOMAIN ui /\ ui.busy = {}
        /\ (page = <<"recording", "mounted">> \/ page = <<"recording", "away">>)
  BY DEF Quiet
<1>2. "busy" \in DOMAIN ui' /\ ui'.busy = {} /\ (page' = page \/ page' = <<"recording", "away">>)
        => Inv'
  BY <1>1 DEF Quiet
<1> USE <1>1, <1>2
<1>3. Rtc!toggleRecording => Inv'
  BY DEF Rtc!toggleRecording, Rtc!Effects, Rtc!CameraEffect, Rtc!RecorderEffect, Rtc!SourceEffect,
         Rtc!SetAtom
<1>4. Rtc!toggleScreenShare => Inv'
  BY DEF Rtc!toggleScreenShare, Rtc!Effects, Rtc!CameraEffect, Rtc!RecorderEffect,
         Rtc!SourceEffect, Rtc!SetAtom
<1>5. Rtc!recordingUnmount => Inv'
  BY DEF Rtc!recordingUnmount, Rtc!Leave
<1>6. \A i \in {"camera", "mic"} : Rtc!toggleInput(i) => Inv'
  <2> SUFFICES ASSUME NEW i \in {"camera", "mic"}, Rtc!toggleInput(i) PROVE Inv'
    OBVIOUS
  <2>1. i # "busy"
    OBVIOUS
  <2>2. "busy" \in DOMAIN [ui EXCEPT ![i] = ~@] /\ [ui EXCEPT ![i] = ~@].busy = {}
    BY <2>1
  <2> QED
    BY <2>2
       DEF Rtc!toggleInput, Rtc!Effects, Rtc!CameraEffect, Rtc!RecorderEffect, Rtc!SetAtom
<1>7. \A p : Rtc!peerSpeaks(p) => Inv'
  BY DEF Rtc!peerSpeaks, Rtc!Effects, Rtc!CameraEffect, Rtc!RecorderEffect, Rtc!SourceEffect,
         Rtc!SetAtom
<1> QED
  BY <1>3, <1>4, <1>5, <1>6, <1>7 DEF Rtc!RecordingNext

LEMMA SectionsStep ==
  ASSUME Quiet("sections"), Section!SectionsNext PROVE Quiet("sections")'
<1> DEFINE Inv == Quiet("sections")
<1>1. "busy" \in DOMAIN ui /\ ui.busy = {}
        /\ (page = <<"sections", "mounted">> \/ page = <<"sections", "away">>)
  BY DEF Quiet
<1>2. "busy" \in DOMAIN ui' /\ ui'.busy = {} /\ (page' = page \/ page' = <<"sections", "away">>)
        => Inv'
  BY <1>1 DEF Quiet
<1> USE <1>1, <1>2
<1>3. Section!addSection => Inv'
  BY DEF Section!addSection, Section!createSectionWrapper, Section!Set
<1>4. Section!handlePaste => Inv'
  BY DEF Section!handlePaste, Section!createSectionWrapper, Section!Set
<1>5. \A i : Section!renderAddSectionTrigger(i) => Inv'
  BY DEF Section!renderAddSectionTrigger, Section!Set
<1>6. \A i : Section!onCopy(i) => Inv'
  BY DEF Section!onCopy, Section!Set
<1>7. \A i : Section!onCut(i) => Inv'
  BY DEF Section!onCut, Section!Set
<1>8. \A i : Section!deleteSectionWrapper(i) => Inv'
  BY DEF Section!deleteSectionWrapper, Section!Set
<1>9. \A i : Section!createItemWrapper(i) => Inv'
  BY DEF Section!createItemWrapper, Section!Set
<1>10. \A i, j : Section!handleMove(i, j) => Inv'
  BY DEF Section!handleMove, Section!Set
<1>11. \A i, k : Section!deleteItemWrapper(i, k) => Inv'
  BY DEF Section!deleteItemWrapper, Section!Set
<1> QED
  BY <1>3, <1>4, <1>5, <1>6, <1>7, <1>8, <1>9, <1>10, <1>11 DEF Section!SectionsNext

LEMMA FrameStep ==
  ASSUME Quiet("frame"), Section!FrameNext PROVE Quiet("frame")'
<1> DEFINE Inv == Quiet("frame")
<1>1. "busy" \in DOMAIN ui /\ ui.busy = {}
        /\ (page = <<"frame", "mounted">> \/ page = <<"frame", "away">>)
  BY DEF Quiet
<1>2. "busy" \in DOMAIN ui' /\ ui'.busy = {} /\ (page' = page \/ page' = <<"frame", "away">>)
        => Inv'
  BY <1>1 DEF Quiet
<1> USE <1>1, <1>2
<1>3. \A l : Section!SectionLayoutControls(l) => Inv'
  BY DEF Section!SectionLayoutControls, Section!setSectionLayout, Section!updateShell,
         Section!Rerendered, Section!Set
<1>4. Section!SectionAnimationControl => Inv'
  BY DEF Section!SectionAnimationControl, Section!updateShell, Section!Rerendered, Section!Set
<1>5. Section!ApplySpacing => Inv'
  BY DEF Section!ApplySpacing, Section!updateShell, Section!Rerendered, Section!Set
<1>6. Section!SectionShellControls => Inv'
  BY DEF Section!SectionShellControls, Section!updateShell, Section!Rerendered, Section!Set
<1>7. \A m : Section!SectionSpacingControls(m) => Inv'
  BY DEF Section!SectionSpacingControls, Section!Set
<1>8. Section!ToggleCollapsed => Inv'
  BY DEF Section!ToggleCollapsed, Section!Rerendered, Section!Set
<1>9. Section!useViewportActivation => Inv'
  BY DEF Section!useViewportActivation, Section!Rerendered, Section!Set
<1> QED
  BY <1>3, <1>4, <1>5, <1>6, <1>7, <1>8, <1>9 DEF Section!FrameNext

LEMMA LikeStep ==
  ASSUME Quiet("likes"), Editor!LikeNext PROVE Quiet("likes")'
<1> DEFINE Inv == Quiet("likes")
<1>1. "busy" \in DOMAIN ui /\ ui.busy = {}
        /\ (page = <<"likes", "mounted">> \/ page = <<"likes", "away">>)
  BY DEF Quiet
<1>2. "busy" \in DOMAIN ui' /\ ui'.busy = {} /\ (page' = page \/ page' = <<"likes", "away">>)
        => Inv'
  BY <1>1 DEF Quiet
<1> USE <1>1, <1>2
<1>3. Editor!handleLikePage => Inv'
  BY DEF Editor!handleLikePage, Editor!Write, Editor!Call
<1>4. \A r \in net : Editor!LikeServes(r) => Inv'
  BY DEF Editor!LikeServes, Editor!Answer, Editor!AnswerPush
<1>5. \A r \in net : Editor!LikeReplied(r) => Inv'
  BY DEF Editor!LikeReplied, Editor!Done, Editor!Reach
<1> QED
  BY <1>3, <1>4, <1>5 DEF Editor!LikeNext

LEMMA QuietStays ==
  ASSUME NEW p, Quiet(p), Fails \/ UNCHANGED spaVars PROVE Quiet(p)'
BY DEF Quiet, Fails, Fail, spaVars

-----------------------------------------------------------------------------
(* The blocks and content pages.                                           *)

LEMMA ContentOps ==
  /\ \A n, op, arg : Content!Add(n, op, arg) = Add(n, op, arg)
  /\ \A r, op, arg : Content!Onward(r, op, arg) = Onward(r, op, arg)
  /\ \A r, ok, val : Content!Reply(r, ok, val) = Reply(r, ok, val)
  /\ Content!Orphaned = Orphaned
<1>1. \A n, op, arg : Content!Add(n, op, arg) = Add(n, op, arg)
  BY DEF Content!Add, Add
<1> QED
  BY <1>1 DEF Content!Onward, Onward, Content!Reply, Reply, Content!Orphaned, Orphaned

RowsHolds == {<<"list", "list">>, <<"components", "components">>, <<"evaluate", "eval">>}

LEMMA RowsStep ==
  ASSUME FlagsHeld("rows", RowsHolds), Content!RowsNext
  PROVE  FlagsHeld("rows", RowsHolds)'
<1> DEFINE Inv == FlagsHeld("rows", RowsHolds)
<1>1. page = <<"rows", "mounted">> /\ "busy" \in DOMAIN ui
  BY Mounted DEF Content!RowsNext, Content!On
<1>set. UNCHANGED <<page, net>> /\ (ui' = ui \/ Fewer) => Inv'
  BY SetHeld
<1>call. \A op, arg : net' = Content!Add(net, op, arg) /\ UNCHANGED page
          /\ Covered(RowsHolds, op) => Inv'
  BY <1>1, CallHeld, ContentOps
<1>done. \A r \in net : net' = net \ {r} /\ UNCHANGED page /\ Ended(RowsHolds, r) => Inv'
  BY <1>1, DoneHeld
<1>goes. \A r \in net : \A op, arg :
          net' = Content!Onward(r, op, arg) /\ UNCHANGED page /\ r.rep # None
          /\ Passed(RowsHolds, r, op) => Inv'
  BY <1>1, GoesHeld, ContentOps
<1>answer. \A r \in net : \A ok, val : net' = Content!Reply(r, ok, val)
          /\ UNCHANGED <<page, ui, atom>> => Inv'
  BY ReplyHeld, ContentOps
<1>away. page' = <<"rows", "away">> /\ (net' = {} \/ net' = Content!Orphaned) => Inv'
  BY AwayHeld, ContentOps
<1> USE <1>1 DEF RowsHolds
<1>2. Content!refresh => Inv'
  BY <1>set, <1>call
     DEF Content!refresh, Content!runEvaluation, Content!Evaluating, Content!Set, Content!Call,
         Fewer, Covered, Content!Busy
<1>3. Content!handleComponentChange => Inv'
  BY <1>set
     DEF Content!handleComponentChange, Content!Set, Fewer, Content!Open, Content!Close,
         Content!Toggle
<1>4. Content!handleBindingsChange => Inv'
  BY <1>set DEF Content!handleBindingsChange, Content!Set, Fewer, Content!Open
<1>5. Content!handleColumnMapChange => Inv'
  BY <1>set
     DEF Content!handleColumnMapChange, Content!Set, Fewer, Content!Open, Content!Close,
         Content!Toggle
<1>6. Content!handleCardTemplateChange => Inv'
  BY <1>set DEF Content!handleCardTemplateChange, Content!Set, Fewer, Content!Open
<1>7. Content!toLogin => Inv'
  BY <1>away DEF Content!toLogin, Content!Quit
<1>8. \A s : Content!handleSourceChange(s) => Inv'
  <2> SUFFICES ASSUME NEW s, Content!handleSourceChange(s) PROVE Inv'
    OBVIOUS
  <2>1. ASSUME Content!Set([ui EXCEPT !.src = None]) PROVE Inv'
    BY <2>1, <1>set DEF Content!Set, Fewer
  <2>2. ASSUME Content!Call(Content!Evaluating([ui EXCEPT !.src = s]), "evaluate", s) PROVE Inv'
    BY <2>2, <1>call DEF Content!Evaluating, Content!Call, Covered, Content!Busy
  <2> QED
    BY <2>1, <2>2 DEF Content!handleSourceChange
<1>9. \A r \in net : Content!listLoaded(r) => Inv'
  <2> SUFFICES ASSUME NEW r \in net, Content!listLoaded(r) PROVE Inv'
    OBVIOUS
  <2>1. r.op = "list" /\ r.rep # None
    BY DEF Content!listLoaded, Content!Replied
  <2>2. ASSUME Content!Goes(r, Content!Evaluating(Content!Idle(ui, "list")), "evaluate", ui.src)
        PROVE  Inv'
    BY <2>1, <2>2, <1>goes
       DEF Content!Evaluating, Content!Goes, Content!Reach, Passed, Swapped, Content!Busy,
         Content!Idle
  <2>3. ASSUME NEW e, Content!Done(r, Content!Idle([ui EXCEPT !.err = e], "list")) PROVE Inv'
    BY <2>1, <2>3, <1>done DEF Content!Done, Content!Reach, Ended, Dropped, Content!Idle
  <2> QED
    BY <2>2, <2>3 DEF Content!listLoaded, Content!Replied
<1>10. \A r \in net : Content!componentsLoaded(r) => Inv'
  BY <1>done
     DEF Content!componentsLoaded, Content!Done, Content!Reach, Ended, Dropped, Content!Idle,
         Content!Open, Content!Replied
<1>11. \A r \in net : Content!evaluateDataSource(r) => Inv'
  <2> SUFFICES ASSUME NEW r \in net, Content!evaluateDataSource(r) PROVE Inv'
    OBVIOUS
  <2>1. r.op = "evaluate"
    BY DEF Content!evaluateDataSource, Content!Replied
  <2>2. ASSUME Content!Done(r, Content!Idle([ui EXCEPT !.rows = r.arg], "eval")) PROVE Inv'
    BY <2>1, <2>2, <1>done DEF Content!Done, Content!Reach, Ended, Dropped, Content!Idle
  <2>3. ASSUME NEW e, Content!Done(r, Content!Idle([ui EXCEPT !.rows = None, !.err = e], "eval"))
        PROVE  Inv'
    BY <2>1, <2>3, <1>done DEF Content!Done, Content!Reach, Ended, Dropped, Content!Idle
  <2> QED
    BY <2>2, <2>3 DEF Content!evaluateDataSource, Content!Replied
<1> QED
  BY <1>2, <1>3, <1>4, <1>5, <1>6, <1>7, <1>8, <1>9, <1>10, <1>11, <1>answer
     DEF Content!RowsNext, Content!Read, Content!Answer, Content!AnswerPush

InteractiveHolds == {<<"submit", "submit">>}

LEMMA InteractiveStep ==
  ASSUME FlagsHeld("interactive", InteractiveHolds), Content!InteractiveNext
  PROVE  FlagsHeld("interactive", InteractiveHolds)'
<1> DEFINE Inv == FlagsHeld("interactive", InteractiveHolds)
<1>1. page = <<"interactive", "mounted">> /\ "busy" \in DOMAIN ui
  BY Mounted DEF Content!InteractiveNext, Content!On
<1>set. UNCHANGED <<page, net>> /\ (ui' = ui \/ Fewer) => Inv'
  BY SetHeld
<1>call. \A op, arg : net' = Content!Add(net, op, arg) /\ UNCHANGED page
          /\ Covered(InteractiveHolds, op) => Inv'
  BY <1>1, CallHeld, ContentOps
<1>done. \A r \in net : net' = net \ {r} /\ UNCHANGED page /\ Ended(InteractiveHolds, r) => Inv'
  BY <1>1, DoneHeld
<1>answer. \A r \in net : \A ok, val : net' = Content!Reply(r, ok, val)
          /\ UNCHANGED <<page, ui, atom>> => Inv'
  BY ReplyHeld, ContentOps
<1> USE <1>1 DEF InteractiveHolds
<1>2. \A t : Content!setTab(t) => Inv'
  BY <1>set DEF Content!setTab, Content!Set, Fewer
<1>3. \A a : Content!FieldControl(a) => Inv'
  BY <1>set DEF Content!FieldControl, Content!SetAtom, Fewer
<1>4. \A x : Content!setExpanded(x) => Inv'
  BY <1>set DEF Content!setExpanded, Content!Set, Fewer
<1>5. \A x : Content!deleteRecord(x) => Inv'
  BY <1>call DEF Content!deleteRecord, Content!Write, Content!Call, Covered
<1>6. \A x : Content!QAAnswerForm(x) => Inv'
  BY <1>call DEF Content!QAAnswerForm, Content!Write, Content!Call, Covered
<1>7. Content!submit => Inv'
  BY <1>call DEF Content!submit, Content!CallAtom, Covered, Content!Busy
<1>8. Content!persistDesign => Inv'
  BY <1>call DEF Content!persistDesign, Content!Write, Content!Call, Covered
<1>9. \A r \in net : Content!submitted(r) => Inv'
  BY <1>done
     DEF Content!submitted, Content!replaceRuntimeConfig, Content!Done, Content!Reach, Ended,
         Dropped, Content!Idle, Content!Replied
<1>10. \A r \in net : Content!recordDeleted(r) => Inv'
  BY <1>done
     DEF Content!recordDeleted, Content!replaceRuntimeConfig, Content!Done, Content!Reach, Ended,
         Dropped, Content!Replied
<1>11. \A r \in net : Content!moderated(r) => Inv'
  BY <1>done
     DEF Content!moderated, Content!replaceRuntimeConfig, Content!Done, Content!Reach, Ended,
         Dropped, Content!Replied
<1>12. \A r \in net : Content!pageSaved(r) => Inv'
  BY <1>done DEF Content!pageSaved, Content!Done, Content!Reach, Ended, Dropped, Content!Replied
<1>13. \A r \in net : Content!InteractiveServer(r) => Inv'
  BY <1>answer
     DEF Content!InteractiveServer, Content!SubmitInteractive, Content!mergeInteractiveRecords,
         Content!Answer, Content!AnswerPush
<1>14. \A r \in net : Content!answerLost(r) => Inv'
  BY <1>answer DEF Content!answerLost, Content!SubmitInteractive
<1> QED
  BY <1>2, <1>3, <1>4, <1>5, <1>6, <1>7, <1>8, <1>9, <1>10, <1>11, <1>12, <1>13, <1>14
     DEF Content!InteractiveNext

SourcesHolds == {<<"list", "load">>, <<"create", "save">>, <<"update", "save">>}

LEMMA SourcesStep ==
  ASSUME FlagsHeld("sources", SourcesHolds), Content!SourcesNext
  PROVE  FlagsHeld("sources", SourcesHolds)'
<1> DEFINE Inv == FlagsHeld("sources", SourcesHolds)
<1>1. page = <<"sources", "mounted">> /\ "busy" \in DOMAIN ui
  BY Mounted DEF Content!SourcesNext, Content!On
<1>set. UNCHANGED <<page, net>> /\ (ui' = ui \/ Fewer) => Inv'
  BY SetHeld
<1>call. \A op, arg : net' = Content!Add(net, op, arg) /\ UNCHANGED page
          /\ Covered(SourcesHolds, op) => Inv'
  BY <1>1, CallHeld, ContentOps
<1>done. \A r \in net : net' = net \ {r} /\ UNCHANGED page /\ Ended(SourcesHolds, r) => Inv'
  BY <1>1, DoneHeld
<1>goes. \A r \in net : \A op, arg :
          net' = Content!Onward(r, op, arg) /\ UNCHANGED page /\ r.rep # None
          /\ Passed(SourcesHolds, r, op) => Inv'
  BY <1>1, GoesHeld, ContentOps
<1>swap. \A r \in net : \A op, arg :
          net' = Content!Add(net \ {r}, op, arg) /\ UNCHANGED page
          /\ (Swapped(SourcesHolds, r, op) \/ Passed(SourcesHolds, r, op)) => Inv'
  BY <1>1, SwapHeld, ContentOps
<1>answer. \A r \in net : \A ok, val : net' = Content!Reply(r, ok, val)
          /\ UNCHANGED <<page, ui, atom>> => Inv'
  BY ReplyHeld, ContentOps
<1>away. page' = <<"sources", "away">> /\ (net' = {} \/ net' = Content!Orphaned) => Inv'
  BY AwayHeld, ContentOps
<1> USE <1>1 DEF SourcesHolds
<1>2. Content!startNew => Inv'
  BY <1>set DEF Content!startNew, Content!Editing, Content!Edits, Content!SetAtom, Fewer
<1>3. Content!cancelEdit => Inv'
  BY <1>set DEF Content!cancelEdit, Content!Editing, Content!SetAtom, Fewer
<1>4. Content!editSourceName => Inv'
  BY <1>set
     DEF Content!editSourceName, Content!Set, Fewer, Content!Open, Content!Close, Content!Toggle
<1>5. Content!saveSource => Inv'
  BY <1>call DEF Content!saveSource, Content!Call, Covered, Content!Busy
<1>6. Content!signIn => Inv'
  BY <1>away DEF Content!signIn, Content!Quit
<1>7. \A x : Content!startEdit(x) => Inv'
  BY <1>call DEF Content!startEdit, Content!Editing, Content!Edits, Content!CallAtom, Covered
<1>8. \A x : Content!deleteSource(x) => Inv'
  BY <1>call DEF Content!deleteSource, Content!Write, Content!Call, Covered
<1>9. \A r \in net : Content!listed(r) => Inv'
  <2> SUFFICES ASSUME NEW r \in net, Content!listed(r) PROVE Inv'
    OBVIOUS
  <2>1. r.op = "list"
    BY DEF Content!listed, Content!Replied
  <2>2. ASSUME Content!Done(r,
               Content!Idle([ui EXCEPT !.list = r.rep.val, !.auth = FALSE], "load"))
        PROVE  Inv'
    BY <2>1, <2>2, <1>done DEF Content!Done, Content!Reach, Ended, Dropped, Content!Idle
  <2>3. ASSUME NEW a, Content!Done(r, Content!Idle([ui EXCEPT !.auth = a], "load")) PROVE Inv'
    BY <2>1, <2>3, <1>done DEF Content!Done, Content!Reach, Ended, Dropped, Content!Idle
  <2> QED
    BY <2>2, <2>3 DEF Content!listed, Content!Replied
<1>10. \A r \in net : Content!envLoaded(r) => Inv'
  BY <1>done DEF Content!envLoaded, Content!Done, Content!Reach, Ended, Dropped, Content!Replied
<1>11. \A r \in net : Content!sourceSaved(r) => Inv'
  <2> SUFFICES ASSUME NEW r \in net, Content!sourceSaved(r) PROVE Inv'
    OBVIOUS
  <2>1. r.op \in {"create", "update"}
    BY DEF Content!sourceSaved, Content!Editing, Content!Replied
  <2>2. ASSUME ui' = Content!Idle([ui EXCEPT !.edit = None], "save")
               /\ net' = Content!Add(net \ {r}, "list", None) /\ UNCHANGED page
        PROVE  Inv'
    BY <2>1, <2>2, <1>swap DEF Swapped, Passed, Content!Idle
  <2>3. ASSUME NEW a, Content!Done(r, Content!Idle([ui EXCEPT !.auth = a], "save")) PROVE Inv'
    BY <2>1, <2>3, <1>done DEF Content!Done, Content!Reach, Ended, Dropped, Content!Idle
  <2> QED
    BY <2>2, <2>3 DEF Content!sourceSaved, Content!Editing, Content!Replied
<1>12. \A r \in net : Content!sourceDeleted(r) => Inv'
  BY <1>done, <1>goes
     DEF Content!sourceDeleted, Content!Done, Content!Reach, Content!Goes, Ended, Dropped, Passed,
         Swapped, Content!Replied
<1>13. \A r \in net : Content!SourcesServer(r) => Inv'
  BY <1>answer DEF Content!SourcesServer, Content!Answer, Content!AnswerPush, Content!Read
<1> QED
  BY <1>2, <1>3, <1>4, <1>5, <1>6, <1>7, <1>8, <1>9, <1>10, <1>11, <1>12, <1>13
     DEF Content!SourcesNext

CustomPagesFlags == <<"timer",
  {<<"browse", "load">>, <<"browse", "more">>, <<"browseMore", "load">>, <<"browseMore", "more">>,
                  <<"claim", "claim">>, <<"rename", "rename">>, <<"duplicate", "dup">>},
                    {"load", "more"}>>

LEMMA CustomPagesFlagsRule ==
  /\ Shown(CustomPagesFlags) = (IF "timer" \in ui.on THEN ui.busy \ {"load", "more"} ELSE ui.busy)
  /\ Shown(CustomPagesFlags)' = (IF "timer" \in ui'.on THEN ui'.busy \ {"load", "more"}
        ELSE ui'.busy)
  /\ (Whole(CustomPagesFlags) <=> "busy" \in DOMAIN ui /\ "on" \in DOMAIN ui)
  /\ (Whole(CustomPagesFlags)' <=> "busy" \in DOMAIN ui' /\ "on" \in DOMAIN ui')
  /\ \A op, arg, f : Holds(CustomPagesFlags, op, arg, f)
        <=> (op \in {"browse", "browseMore"} /\ f \in {"load", "more"})
          \/ (op = "claim" /\ f = "claim")
          \/ (op = "rename" /\ f = "rename") \/ (op = "duplicate" /\ f = "dup")
<1>1. Shown(CustomPagesFlags) = (IF "timer" \in ui.on THEN ui.busy \ {"load", "more"}
        ELSE ui.busy) /\ Shown(CustomPagesFlags)' = (IF "timer" \in ui'.on
          THEN ui'.busy \ {"load", "more"} ELSE ui'.busy)
  BY DEF Shown, FlagsOf, CustomPagesFlags
<1>2. (Whole(CustomPagesFlags) <=> "busy" \in DOMAIN ui /\ "on" \in DOMAIN ui)
        /\ (Whole(CustomPagesFlags)' <=> "busy" \in DOMAIN ui' /\ "on" \in DOMAIN ui')
  BY DEF Whole, FieldsOf, CustomPagesFlags
<1>3. \A op, arg, f : Holds(CustomPagesFlags, op, arg, f)
        <=> (op \in {"browse", "browseMore"} /\ f \in {"load", "more"})
          \/ (op = "claim" /\ f = "claim")
          \/ (op = "rename" /\ f = "rename") \/ (op = "duplicate" /\ f = "dup")
  BY DEF Holds, CustomPagesFlags
<1> QED
  BY <1>1, <1>2, <1>3

LEMMA CustomPagesFlagsStep ==
  ASSUME Steady("customPages", CustomPagesFlags), Content!CustomPagesNext
  PROVE  Steady("customPages", CustomPagesFlags)'
<1> DEFINE Inv == Steady("customPages", CustomPagesFlags)
<1>1. page = <<"customPages", "mounted">> /\ Whole(CustomPagesFlags)
  BY DEF Steady, Content!CustomPagesNext, Content!On
<1>set. UNCHANGED <<page, net>> /\ Fades(CustomPagesFlags) => Inv'
  BY <1>1, SetSteady
<1>call. \A op, arg : net' = Content!Add(net, op, arg) /\ UNCHANGED page
          /\ Begun(CustomPagesFlags, op, arg) => Inv'
  BY <1>1, CallSteady, ContentOps
<1>done. \A r \in net : net' = net \ {r} /\ UNCHANGED page /\ Closed(CustomPagesFlags, r) => Inv'
  BY <1>1, DoneSteady
<1>goes. \A r \in net : \A op, arg :
          net' = Content!Onward(r, op, arg) /\ UNCHANGED page /\ r.rep # None
          /\ Handed(CustomPagesFlags, r, op, arg) => Inv'
  BY <1>1, GoesSteady, ContentOps
<1>answer. \A r \in net : \A ok, val : net' = Content!Reply(r, ok, val)
          /\ UNCHANGED <<page, ui, atom>> => Inv'
  BY ReplySteady, ContentOps
<1>away. page' = <<"customPages", "away">> /\ (net' = {} \/ net' = Content!Orphaned) => Inv'
  BY AwaySteady, GoneRequests, ContentOps DEF Steady
<1>abort. \A n, op, arg : n \subseteq net /\ net' = Content!Add(n, op, arg) /\ UNCHANGED page
          /\ Carried(CustomPagesFlags, n, op, arg) => Inv'
  BY <1>1, AddSteady, ContentOps
<1>stop. \A n : n \subseteq net /\ net' = n /\ UNCHANGED page /\ Spared(CustomPagesFlags, n)
           => Inv'
  BY <1>1, SubSteady
<1> USE <1>1, CustomPagesFlagsRule
<1>2. Content!setSearch => Inv'
  <2> SUFFICES ASSUME Content!setSearch PROVE Inv'
    OBVIOUS
  <2> DEFINE n == Content!Aborted(net)
  <2>1. n \subseteq net /\ \A q \in net \ n : q.op \in {"browse", "browseMore"}
    BY DEF Content!Aborted
  <2>2. UNCHANGED page /\ net' = n
    BY DEF Content!setSearch
  <2> HIDE DEF n
  <2>3. Spared(CustomPagesFlags, n)
    BY <2>1 DEF Content!setSearch, Content!Open, Spared
  <2> QED
    BY <1>stop, <2>1, <2>2, <2>3
<1>3. Content!searchTimer => Inv'
  <2> SUFFICES ASSUME Content!searchTimer PROVE Inv'
    OBVIOUS
  <2> DEFINE n == Content!Aborted(net)
  <2>1. n \subseteq net /\ \A q \in net \ n : q.op \in {"browse", "browseMore"}
    BY DEF Content!Aborted
  <2>2. UNCHANGED page /\ \E arg : net' = Content!Add(n, "browse", arg)
    BY DEF Content!searchTimer, Content!loadPages
  <2> HIDE DEF n
  <2>3. \A arg : Carried(CustomPagesFlags, n, "browse", arg)
    BY <2>1 DEF Content!searchTimer, Content!loadPages, Content!Busy, Content!Close, Carried
  <2> QED
    BY <1>abort, <2>1, <2>2, <2>3
<1>4. Content!pageLiveEvent => Inv'
  <2> SUFFICES ASSUME Content!pageLiveEvent PROVE Inv'
    OBVIOUS
  <2> DEFINE n == Content!Aborted(net)
  <2>1. n \subseteq net /\ \A q \in net \ n : q.op \in {"browse", "browseMore"}
    BY DEF Content!Aborted
  <2>2. UNCHANGED page /\ \E arg : net' = Content!Add(n, "browse", arg)
    BY DEF Content!pageLiveEvent
  <2> HIDE DEF n
  <2>3. \A arg : Carried(CustomPagesFlags, n, "browse", arg)
    BY <2>1 DEF Content!pageLiveEvent, Content!Busy, Content!Close, Carried
  <2> QED
    BY <1>abort, <2>1, <2>2, <2>3
<1>5. Content!LoadMoreSentinel => Inv'
  <2> SUFFICES ASSUME Content!LoadMoreSentinel PROVE Inv'
    OBVIOUS
  <2> DEFINE n == Content!Aborted(net)
  <2>1. n \subseteq net /\ \A q \in net \ n : q.op \in {"browse", "browseMore"}
    BY DEF Content!Aborted
  <2>2. UNCHANGED page /\ \E arg : net' = Content!Add(n, "browseMore", arg)
    BY DEF Content!LoadMoreSentinel, Content!loadPages
  <2> HIDE DEF n
  <2>3. \A arg : Carried(CustomPagesFlags, n, "browseMore", arg)
    BY <2>1 DEF Content!LoadMoreSentinel, Content!loadPages, Content!Busy, Carried
  <2> QED
    BY <1>abort, <2>1, <2>2, <2>3
<1>6. Content!setViewMode => Inv'
  BY <1>set DEF Content!setViewMode, Content!Set, Fades, Content!Close
<1>7. Content!retryLoad => Inv'
  <2> SUFFICES ASSUME Content!retryLoad PROVE Inv'
    OBVIOUS
  <2> DEFINE n == Content!Aborted(net)
  <2>1. n \subseteq net /\ \A q \in net \ n : q.op \in {"browse", "browseMore"}
    BY DEF Content!Aborted
  <2>2. UNCHANGED page /\ \E arg : net' = Content!Add(n, "browse", arg)
    BY DEF Content!retryLoad, Content!loadPages
  <2> HIDE DEF n
  <2>3. \A arg : Carried(CustomPagesFlags, n, "browse", arg)
    BY <2>1 DEF Content!retryLoad, Content!loadPages, Content!Busy, Carried
  <2> QED
    BY <1>abort, <2>1, <2>2, <2>3
<1>8. Content!handleClaimPage => Inv'
  BY <1>call DEF Content!handleClaimPage, Content!Write, Content!Call, Begun, Content!Busy
<1>9. Content!closeModals => Inv'
  BY <1>set DEF Content!closeModals, Content!Set, Fades
<1>10. Content!handleRename => Inv'
  BY <1>call DEF Content!handleRename, Content!Write, Content!Call, Begun, Content!Busy
<1>11. Content!handleDuplicate => Inv'
  BY <1>call DEF Content!handleDuplicate, Content!Write, Content!Call, Begun, Content!Busy
<1>12. Content!pageChanges => Inv'
  BY <1>set DEF Content!pageChanges, Content!Changes, Fades
<1>13. \A p : Content!openRename(p) => Inv'
  BY <1>set DEF Content!openRename, Content!Set, Fades
<1>14. \A p : Content!openDuplicate(p) => Inv'
  BY <1>set DEF Content!openDuplicate, Content!Set, Fades
<1>15. \A p : Content!handleDeletePage(p) => Inv'
  BY <1>call DEF Content!handleDeletePage, Content!Write, Content!Call, Begun
<1>16. \A p : Content!handleSetHomepage(p) => Inv'
  BY <1>call DEF Content!handleSetHomepage, Content!Write, Content!Call, Begun
<1>17. \A p : Content!openPage(p) => Inv'
  BY <1>away DEF Content!openPage, Content!Quit
<1>18. \A r \in net : Content!pagesLoaded(r) => Inv'
  BY <1>done
     DEF Content!pagesLoaded, Content!Loaded, Content!Done, Content!Reach, Closed, Spent,
         Content!Open, Content!Replied
<1>19. \A r \in net : Content!renamed(r) => Inv'
  BY <1>done
     DEF Content!renamed, Content!Done, Content!Reach, Closed, Spent, Content!Idle,
         Content!Replied
<1>20. \A r \in net : Content!pageMade(r) => Inv'
  <2> SUFFICES ASSUME NEW r \in net, Content!pageMade(r) PROVE Inv'
    OBVIOUS
  <2>1. r.op \in {"claim", "duplicate"}
    BY DEF Content!pageMade, Content!Replied
  <2>2. ASSUME page' = <<"customPages", "away">> /\ net' = {} PROVE Inv'
    BY <2>1, <2>2, <1>away
  <2>3. ASSUME r.op = "claim" /\ Content!Done(r, Content!Idle(ui, "claim")) PROVE Inv'
    BY <2>1, <2>3, <1>done DEF Content!Done, Content!Reach, Closed, Spent, Content!Idle
  <2>4. ASSUME r.op = "duplicate" /\ Content!Done(r, Content!Idle(ui, "dup")) PROVE Inv'
    BY <2>1, <2>4, <1>done DEF Content!Done, Content!Reach, Closed, Spent, Content!Idle
  <2> QED
    BY <2>2, <2>3, <2>4 DEF Content!pageMade, Content!Replied, Content!Quit
<1>21. \A r \in net : Content!pageDeleted(r) => Inv'
  <2> SUFFICES ASSUME NEW r \in net, Content!pageDeleted(r) PROVE Inv'
    OBVIOUS
  <2>1. r.op = "delete" /\ r.rep # None
    BY DEF Content!pageDeleted, Content!Replied
  <2>2. ASSUME NEW v, Content!Goes(r, [ui EXCEPT !.pages = v, !.deleting = None], "allocation",
               <<>>)
        PROVE  Inv'
    BY <2>1, <2>2, <1>goes DEF Content!Goes, Content!Reach, Handed, Spent
  <2>3. ASSUME Content!Done(r, [ui EXCEPT !.deleting = None]) PROVE Inv'
    BY <2>1, <2>3, <1>done DEF Content!Done, Content!Reach, Closed, Spent
  <2> QED
    BY <2>2, <2>3 DEF Content!pageDeleted, Content!Replied
<1>22. \A r \in net : Content!gotAllocation(r) => Inv'
  BY <1>done
     DEF Content!gotAllocation, Content!Done, Content!Reach, Closed, Spent, Content!Replied
<1>23. \A r \in net : Content!homepageSet(r) => Inv'
  BY <1>done DEF Content!homepageSet, Content!Done, Content!Reach, Closed, Spent, Content!Replied
<1>24. \A r \in net : Content!CustomPagesServer(r) => Inv'
  <2> SUFFICES ASSUME NEW r \in net, Content!CustomPagesServer(r) PROVE Inv'
    OBVIOUS
  <2>1. ASSUME NEW d, NEW v, NEW ps, Content!AnswerPush(r, d, v, ps) PROVE Inv'
    BY <1>answer, <2>1 DEF Content!AnswerPush
  <2> QED
    BY <2>1 DEF Content!CustomPagesServer, Content!Read, Content!Answer
<1> QED
  BY <1>2, <1>3, <1>4, <1>5, <1>6, <1>7, <1>8, <1>9, <1>10, <1>11, <1>12, <1>13, <1>14, <1>15,
         <1>16, <1>17, <1>18, <1>19, <1>20, <1>21, <1>22, <1>23, <1>24
     DEF Content!CustomPagesNext

CustomPagesDeleting == <<"field", {<<"delete", "deleting">>}, "deleting", None>>

LEMMA CustomPagesDeletingRule ==
  /\ Shown(CustomPagesDeleting) = (IF ui.deleting = None THEN {} ELSE {"deleting"})
  /\ Shown(CustomPagesDeleting)' = (IF ui'.deleting = None THEN {} ELSE {"deleting"})
  /\ (Whole(CustomPagesDeleting) <=> "busy" \in DOMAIN ui /\ "deleting" \in DOMAIN ui)
  /\ (Whole(CustomPagesDeleting)' <=> "busy" \in DOMAIN ui' /\ "deleting" \in DOMAIN ui')
  /\ \A op, arg, f : Holds(CustomPagesDeleting, op, arg, f) <=> op = "delete" /\ f = "deleting"
<1>1. Shown(CustomPagesDeleting) = (IF ui.deleting = None THEN {} ELSE {"deleting"})
        /\ Shown(CustomPagesDeleting)' = (IF ui'.deleting = None THEN {} ELSE {"deleting"})
  BY DEF Shown, FlagsOf, CustomPagesDeleting
<1>2. (Whole(CustomPagesDeleting) <=> "busy" \in DOMAIN ui /\ "deleting" \in DOMAIN ui)
        /\ (Whole(CustomPagesDeleting)' <=> "busy" \in DOMAIN ui' /\ "deleting" \in DOMAIN ui')
  BY DEF Whole, FieldsOf, CustomPagesDeleting
<1>3. \A op, arg, f : Holds(CustomPagesDeleting, op, arg, f) <=> op = "delete" /\ f = "deleting"
  BY DEF Holds, CustomPagesDeleting
<1> QED
  BY <1>1, <1>2, <1>3

LEMMA CustomPagesDeletingStep ==
  ASSUME Steady("customPages", CustomPagesDeleting), Content!CustomPagesNext
  PROVE  Steady("customPages", CustomPagesDeleting)'
<1> DEFINE Inv == Steady("customPages", CustomPagesDeleting)
<1>1. page = <<"customPages", "mounted">> /\ Whole(CustomPagesDeleting)
  BY DEF Steady, Content!CustomPagesNext, Content!On
<1>set. UNCHANGED <<page, net>> /\ Fades(CustomPagesDeleting) => Inv'
  BY <1>1, SetSteady
<1>call. \A op, arg : net' = Content!Add(net, op, arg) /\ UNCHANGED page
          /\ Begun(CustomPagesDeleting, op, arg) => Inv'
  BY <1>1, CallSteady, ContentOps
<1>done. \A r \in net : net' = net \ {r} /\ UNCHANGED page
          /\ Closed(CustomPagesDeleting, r) => Inv'
  BY <1>1, DoneSteady
<1>goes. \A r \in net : \A op, arg :
          net' = Content!Onward(r, op, arg) /\ UNCHANGED page /\ r.rep # None
          /\ Handed(CustomPagesDeleting, r, op, arg) => Inv'
  BY <1>1, GoesSteady, ContentOps
<1>answer. \A r \in net : \A ok, val : net' = Content!Reply(r, ok, val)
          /\ UNCHANGED <<page, ui, atom>> => Inv'
  BY ReplySteady, ContentOps
<1>away. page' = <<"customPages", "away">> /\ (net' = {} \/ net' = Content!Orphaned) => Inv'
  BY AwaySteady, GoneRequests, ContentOps DEF Steady
<1>abort. \A n, op, arg : n \subseteq net /\ net' = Content!Add(n, op, arg) /\ UNCHANGED page
          /\ Carried(CustomPagesDeleting, n, op, arg) => Inv'
  BY <1>1, AddSteady, ContentOps
<1>stop. \A n : n \subseteq net /\ net' = n /\ UNCHANGED page /\ Spared(CustomPagesDeleting, n)
           => Inv'
  BY <1>1, SubSteady
<1> USE <1>1, CustomPagesDeletingRule
<1>2. Content!setSearch => Inv'
  <2> SUFFICES ASSUME Content!setSearch PROVE Inv'
    OBVIOUS
  <2> DEFINE n == Content!Aborted(net)
  <2>1. n \subseteq net /\ \A q \in net \ n : q.op \in {"browse", "browseMore"}
    BY DEF Content!Aborted
  <2>2. UNCHANGED page /\ net' = n
    BY DEF Content!setSearch
  <2> HIDE DEF n
  <2>3. Spared(CustomPagesDeleting, n)
    BY <2>1 DEF Content!setSearch, Content!Open, Spared
  <2> QED
    BY <1>stop, <2>1, <2>2, <2>3
<1>3. Content!searchTimer => Inv'
  <2> SUFFICES ASSUME Content!searchTimer PROVE Inv'
    OBVIOUS
  <2> DEFINE n == Content!Aborted(net)
  <2>1. n \subseteq net /\ \A q \in net \ n : q.op \in {"browse", "browseMore"}
    BY DEF Content!Aborted
  <2>2. UNCHANGED page /\ \E arg : net' = Content!Add(n, "browse", arg)
    BY DEF Content!searchTimer, Content!loadPages
  <2> HIDE DEF n
  <2>3. \A arg : Carried(CustomPagesDeleting, n, "browse", arg)
    BY <2>1 DEF Content!searchTimer, Content!loadPages, Content!Busy, Content!Close, Carried
  <2> QED
    BY <1>abort, <2>1, <2>2, <2>3
<1>4. Content!pageLiveEvent => Inv'
  <2> SUFFICES ASSUME Content!pageLiveEvent PROVE Inv'
    OBVIOUS
  <2> DEFINE n == Content!Aborted(net)
  <2>1. n \subseteq net /\ \A q \in net \ n : q.op \in {"browse", "browseMore"}
    BY DEF Content!Aborted
  <2>2. UNCHANGED page /\ \E arg : net' = Content!Add(n, "browse", arg)
    BY DEF Content!pageLiveEvent
  <2> HIDE DEF n
  <2>3. \A arg : Carried(CustomPagesDeleting, n, "browse", arg)
    BY <2>1 DEF Content!pageLiveEvent, Content!Busy, Content!Close, Carried
  <2> QED
    BY <1>abort, <2>1, <2>2, <2>3
<1>5. Content!LoadMoreSentinel => Inv'
  <2> SUFFICES ASSUME Content!LoadMoreSentinel PROVE Inv'
    OBVIOUS
  <2> DEFINE n == Content!Aborted(net)
  <2>1. n \subseteq net /\ \A q \in net \ n : q.op \in {"browse", "browseMore"}
    BY DEF Content!Aborted
  <2>2. UNCHANGED page /\ \E arg : net' = Content!Add(n, "browseMore", arg)
    BY DEF Content!LoadMoreSentinel, Content!loadPages
  <2> HIDE DEF n
  <2>3. \A arg : Carried(CustomPagesDeleting, n, "browseMore", arg)
    BY <2>1 DEF Content!LoadMoreSentinel, Content!loadPages, Content!Busy, Carried
  <2> QED
    BY <1>abort, <2>1, <2>2, <2>3
<1>6. Content!setViewMode => Inv'
  BY <1>set DEF Content!setViewMode, Content!Set, Fades, Content!Close
<1>7. Content!retryLoad => Inv'
  <2> SUFFICES ASSUME Content!retryLoad PROVE Inv'
    OBVIOUS
  <2> DEFINE n == Content!Aborted(net)
  <2>1. n \subseteq net /\ \A q \in net \ n : q.op \in {"browse", "browseMore"}
    BY DEF Content!Aborted
  <2>2. UNCHANGED page /\ \E arg : net' = Content!Add(n, "browse", arg)
    BY DEF Content!retryLoad, Content!loadPages
  <2> HIDE DEF n
  <2>3. \A arg : Carried(CustomPagesDeleting, n, "browse", arg)
    BY <2>1 DEF Content!retryLoad, Content!loadPages, Content!Busy, Carried
  <2> QED
    BY <1>abort, <2>1, <2>2, <2>3
<1>8. Content!handleClaimPage => Inv'
  BY <1>call DEF Content!handleClaimPage, Content!Write, Content!Call, Begun, Content!Busy
<1>9. Content!closeModals => Inv'
  BY <1>set DEF Content!closeModals, Content!Set, Fades
<1>10. Content!handleRename => Inv'
  BY <1>call DEF Content!handleRename, Content!Write, Content!Call, Begun, Content!Busy
<1>11. Content!handleDuplicate => Inv'
  BY <1>call DEF Content!handleDuplicate, Content!Write, Content!Call, Begun, Content!Busy
<1>12. Content!pageChanges => Inv'
  BY <1>set DEF Content!pageChanges, Content!Changes, Fades
<1>13. \A p : Content!openRename(p) => Inv'
  BY <1>set DEF Content!openRename, Content!Set, Fades
<1>14. \A p : Content!openDuplicate(p) => Inv'
  BY <1>set DEF Content!openDuplicate, Content!Set, Fades
<1>15. \A p : Content!handleDeletePage(p) => Inv'
  BY <1>call DEF Content!handleDeletePage, Content!Write, Content!Call, Begun
<1>16. \A p : Content!handleSetHomepage(p) => Inv'
  BY <1>call DEF Content!handleSetHomepage, Content!Write, Content!Call, Begun
<1>17. \A p : Content!openPage(p) => Inv'
  BY <1>away DEF Content!openPage, Content!Quit
<1>18. \A r \in net : Content!pagesLoaded(r) => Inv'
  BY <1>done
     DEF Content!pagesLoaded, Content!Loaded, Content!Done, Content!Reach, Closed, Spent,
         Content!Open, Content!Replied
<1>19. \A r \in net : Content!renamed(r) => Inv'
  BY <1>done
     DEF Content!renamed, Content!Done, Content!Reach, Closed, Spent, Content!Idle,
         Content!Replied
<1>20. \A r \in net : Content!pageMade(r) => Inv'
  <2> SUFFICES ASSUME NEW r \in net, Content!pageMade(r) PROVE Inv'
    OBVIOUS
  <2>1. r.op \in {"claim", "duplicate"}
    BY DEF Content!pageMade, Content!Replied
  <2>2. ASSUME page' = <<"customPages", "away">> /\ net' = {} PROVE Inv'
    BY <2>1, <2>2, <1>away
  <2>3. ASSUME r.op = "claim" /\ Content!Done(r, Content!Idle(ui, "claim")) PROVE Inv'
    BY <2>1, <2>3, <1>done DEF Content!Done, Content!Reach, Closed, Spent, Content!Idle
  <2>4. ASSUME r.op = "duplicate" /\ Content!Done(r, Content!Idle(ui, "dup")) PROVE Inv'
    BY <2>1, <2>4, <1>done DEF Content!Done, Content!Reach, Closed, Spent, Content!Idle
  <2> QED
    BY <2>2, <2>3, <2>4 DEF Content!pageMade, Content!Replied, Content!Quit
<1>21. \A r \in net : Content!pageDeleted(r) => Inv'
  <2> SUFFICES ASSUME NEW r \in net, Content!pageDeleted(r) PROVE Inv'
    OBVIOUS
  <2>1. r.op = "delete" /\ r.rep # None
    BY DEF Content!pageDeleted, Content!Replied
  <2>2. ASSUME NEW v, Content!Goes(r, [ui EXCEPT !.pages = v, !.deleting = None], "allocation",
               <<>>)
        PROVE  Inv'
    BY <2>1, <2>2, <1>goes DEF Content!Goes, Content!Reach, Handed, Spent
  <2>3. ASSUME Content!Done(r, [ui EXCEPT !.deleting = None]) PROVE Inv'
    BY <2>1, <2>3, <1>done DEF Content!Done, Content!Reach, Closed, Spent
  <2> QED
    BY <2>2, <2>3 DEF Content!pageDeleted, Content!Replied
<1>22. \A r \in net : Content!gotAllocation(r) => Inv'
  BY <1>done
     DEF Content!gotAllocation, Content!Done, Content!Reach, Closed, Spent, Content!Replied
<1>23. \A r \in net : Content!homepageSet(r) => Inv'
  BY <1>done DEF Content!homepageSet, Content!Done, Content!Reach, Closed, Spent, Content!Replied
<1>24. \A r \in net : Content!CustomPagesServer(r) => Inv'
  <2> SUFFICES ASSUME NEW r \in net, Content!CustomPagesServer(r) PROVE Inv'
    OBVIOUS
  <2>1. ASSUME NEW d, NEW v, NEW ps, Content!AnswerPush(r, d, v, ps) PROVE Inv'
    BY <1>answer, <2>1 DEF Content!AnswerPush
  <2> QED
    BY <2>1 DEF Content!CustomPagesServer, Content!Read, Content!Answer
<1> QED
  BY <1>2, <1>3, <1>4, <1>5, <1>6, <1>7, <1>8, <1>9, <1>10, <1>11, <1>12, <1>13, <1>14, <1>15,
         <1>16, <1>17, <1>18, <1>19, <1>20, <1>21, <1>22, <1>23, <1>24
     DEF Content!CustomPagesNext

CustomPagesSetting == <<"field", {<<"home", "setting">>}, "setting", None>>

LEMMA CustomPagesSettingRule ==
  /\ Shown(CustomPagesSetting) = (IF ui.setting = None THEN {} ELSE {"setting"})
  /\ Shown(CustomPagesSetting)' = (IF ui'.setting = None THEN {} ELSE {"setting"})
  /\ (Whole(CustomPagesSetting) <=> "busy" \in DOMAIN ui /\ "setting" \in DOMAIN ui)
  /\ (Whole(CustomPagesSetting)' <=> "busy" \in DOMAIN ui' /\ "setting" \in DOMAIN ui')
  /\ \A op, arg, f : Holds(CustomPagesSetting, op, arg, f) <=> op = "home" /\ f = "setting"
<1>1. Shown(CustomPagesSetting) = (IF ui.setting = None THEN {} ELSE {"setting"})
        /\ Shown(CustomPagesSetting)' = (IF ui'.setting = None THEN {} ELSE {"setting"})
  BY DEF Shown, FlagsOf, CustomPagesSetting
<1>2. (Whole(CustomPagesSetting) <=> "busy" \in DOMAIN ui /\ "setting" \in DOMAIN ui)
        /\ (Whole(CustomPagesSetting)' <=> "busy" \in DOMAIN ui' /\ "setting" \in DOMAIN ui')
  BY DEF Whole, FieldsOf, CustomPagesSetting
<1>3. \A op, arg, f : Holds(CustomPagesSetting, op, arg, f) <=> op = "home" /\ f = "setting"
  BY DEF Holds, CustomPagesSetting
<1> QED
  BY <1>1, <1>2, <1>3

LEMMA CustomPagesSettingStep ==
  ASSUME Steady("customPages", CustomPagesSetting), Content!CustomPagesNext
  PROVE  Steady("customPages", CustomPagesSetting)'
<1> DEFINE Inv == Steady("customPages", CustomPagesSetting)
<1>1. page = <<"customPages", "mounted">> /\ Whole(CustomPagesSetting)
  BY DEF Steady, Content!CustomPagesNext, Content!On
<1>set. UNCHANGED <<page, net>> /\ Fades(CustomPagesSetting) => Inv'
  BY <1>1, SetSteady
<1>call. \A op, arg : net' = Content!Add(net, op, arg) /\ UNCHANGED page
          /\ Begun(CustomPagesSetting, op, arg) => Inv'
  BY <1>1, CallSteady, ContentOps
<1>done. \A r \in net : net' = net \ {r} /\ UNCHANGED page
          /\ Closed(CustomPagesSetting, r) => Inv'
  BY <1>1, DoneSteady
<1>goes. \A r \in net : \A op, arg :
          net' = Content!Onward(r, op, arg) /\ UNCHANGED page /\ r.rep # None
          /\ Handed(CustomPagesSetting, r, op, arg) => Inv'
  BY <1>1, GoesSteady, ContentOps
<1>answer. \A r \in net : \A ok, val : net' = Content!Reply(r, ok, val)
          /\ UNCHANGED <<page, ui, atom>> => Inv'
  BY ReplySteady, ContentOps
<1>away. page' = <<"customPages", "away">> /\ (net' = {} \/ net' = Content!Orphaned) => Inv'
  BY AwaySteady, GoneRequests, ContentOps DEF Steady
<1>abort. \A n, op, arg : n \subseteq net /\ net' = Content!Add(n, op, arg) /\ UNCHANGED page
          /\ Carried(CustomPagesSetting, n, op, arg) => Inv'
  BY <1>1, AddSteady, ContentOps
<1>stop. \A n : n \subseteq net /\ net' = n /\ UNCHANGED page /\ Spared(CustomPagesSetting, n)
           => Inv'
  BY <1>1, SubSteady
<1> USE <1>1, CustomPagesSettingRule
<1>2. Content!setSearch => Inv'
  <2> SUFFICES ASSUME Content!setSearch PROVE Inv'
    OBVIOUS
  <2> DEFINE n == Content!Aborted(net)
  <2>1. n \subseteq net /\ \A q \in net \ n : q.op \in {"browse", "browseMore"}
    BY DEF Content!Aborted
  <2>2. UNCHANGED page /\ net' = n
    BY DEF Content!setSearch
  <2> HIDE DEF n
  <2>3. Spared(CustomPagesSetting, n)
    BY <2>1 DEF Content!setSearch, Content!Open, Spared
  <2> QED
    BY <1>stop, <2>1, <2>2, <2>3
<1>3. Content!searchTimer => Inv'
  <2> SUFFICES ASSUME Content!searchTimer PROVE Inv'
    OBVIOUS
  <2> DEFINE n == Content!Aborted(net)
  <2>1. n \subseteq net /\ \A q \in net \ n : q.op \in {"browse", "browseMore"}
    BY DEF Content!Aborted
  <2>2. UNCHANGED page /\ \E arg : net' = Content!Add(n, "browse", arg)
    BY DEF Content!searchTimer, Content!loadPages
  <2> HIDE DEF n
  <2>3. \A arg : Carried(CustomPagesSetting, n, "browse", arg)
    BY <2>1 DEF Content!searchTimer, Content!loadPages, Content!Busy, Content!Close, Carried
  <2> QED
    BY <1>abort, <2>1, <2>2, <2>3
<1>4. Content!pageLiveEvent => Inv'
  <2> SUFFICES ASSUME Content!pageLiveEvent PROVE Inv'
    OBVIOUS
  <2> DEFINE n == Content!Aborted(net)
  <2>1. n \subseteq net /\ \A q \in net \ n : q.op \in {"browse", "browseMore"}
    BY DEF Content!Aborted
  <2>2. UNCHANGED page /\ \E arg : net' = Content!Add(n, "browse", arg)
    BY DEF Content!pageLiveEvent
  <2> HIDE DEF n
  <2>3. \A arg : Carried(CustomPagesSetting, n, "browse", arg)
    BY <2>1 DEF Content!pageLiveEvent, Content!Busy, Content!Close, Carried
  <2> QED
    BY <1>abort, <2>1, <2>2, <2>3
<1>5. Content!LoadMoreSentinel => Inv'
  <2> SUFFICES ASSUME Content!LoadMoreSentinel PROVE Inv'
    OBVIOUS
  <2> DEFINE n == Content!Aborted(net)
  <2>1. n \subseteq net /\ \A q \in net \ n : q.op \in {"browse", "browseMore"}
    BY DEF Content!Aborted
  <2>2. UNCHANGED page /\ \E arg : net' = Content!Add(n, "browseMore", arg)
    BY DEF Content!LoadMoreSentinel, Content!loadPages
  <2> HIDE DEF n
  <2>3. \A arg : Carried(CustomPagesSetting, n, "browseMore", arg)
    BY <2>1 DEF Content!LoadMoreSentinel, Content!loadPages, Content!Busy, Carried
  <2> QED
    BY <1>abort, <2>1, <2>2, <2>3
<1>6. Content!setViewMode => Inv'
  BY <1>set DEF Content!setViewMode, Content!Set, Fades, Content!Close
<1>7. Content!retryLoad => Inv'
  <2> SUFFICES ASSUME Content!retryLoad PROVE Inv'
    OBVIOUS
  <2> DEFINE n == Content!Aborted(net)
  <2>1. n \subseteq net /\ \A q \in net \ n : q.op \in {"browse", "browseMore"}
    BY DEF Content!Aborted
  <2>2. UNCHANGED page /\ \E arg : net' = Content!Add(n, "browse", arg)
    BY DEF Content!retryLoad, Content!loadPages
  <2> HIDE DEF n
  <2>3. \A arg : Carried(CustomPagesSetting, n, "browse", arg)
    BY <2>1 DEF Content!retryLoad, Content!loadPages, Content!Busy, Carried
  <2> QED
    BY <1>abort, <2>1, <2>2, <2>3
<1>8. Content!handleClaimPage => Inv'
  BY <1>call DEF Content!handleClaimPage, Content!Write, Content!Call, Begun, Content!Busy
<1>9. Content!closeModals => Inv'
  BY <1>set DEF Content!closeModals, Content!Set, Fades
<1>10. Content!handleRename => Inv'
  BY <1>call DEF Content!handleRename, Content!Write, Content!Call, Begun, Content!Busy
<1>11. Content!handleDuplicate => Inv'
  BY <1>call DEF Content!handleDuplicate, Content!Write, Content!Call, Begun, Content!Busy
<1>12. Content!pageChanges => Inv'
  BY <1>set DEF Content!pageChanges, Content!Changes, Fades
<1>13. \A p : Content!openRename(p) => Inv'
  BY <1>set DEF Content!openRename, Content!Set, Fades
<1>14. \A p : Content!openDuplicate(p) => Inv'
  BY <1>set DEF Content!openDuplicate, Content!Set, Fades
<1>15. \A p : Content!handleDeletePage(p) => Inv'
  BY <1>call DEF Content!handleDeletePage, Content!Write, Content!Call, Begun
<1>16. \A p : Content!handleSetHomepage(p) => Inv'
  BY <1>call DEF Content!handleSetHomepage, Content!Write, Content!Call, Begun
<1>17. \A p : Content!openPage(p) => Inv'
  BY <1>away DEF Content!openPage, Content!Quit
<1>18. \A r \in net : Content!pagesLoaded(r) => Inv'
  BY <1>done
     DEF Content!pagesLoaded, Content!Loaded, Content!Done, Content!Reach, Closed, Spent,
         Content!Open, Content!Replied
<1>19. \A r \in net : Content!renamed(r) => Inv'
  BY <1>done
     DEF Content!renamed, Content!Done, Content!Reach, Closed, Spent, Content!Idle,
         Content!Replied
<1>20. \A r \in net : Content!pageMade(r) => Inv'
  <2> SUFFICES ASSUME NEW r \in net, Content!pageMade(r) PROVE Inv'
    OBVIOUS
  <2>1. r.op \in {"claim", "duplicate"}
    BY DEF Content!pageMade, Content!Replied
  <2>2. ASSUME page' = <<"customPages", "away">> /\ net' = {} PROVE Inv'
    BY <2>1, <2>2, <1>away
  <2>3. ASSUME r.op = "claim" /\ Content!Done(r, Content!Idle(ui, "claim")) PROVE Inv'
    BY <2>1, <2>3, <1>done DEF Content!Done, Content!Reach, Closed, Spent, Content!Idle
  <2>4. ASSUME r.op = "duplicate" /\ Content!Done(r, Content!Idle(ui, "dup")) PROVE Inv'
    BY <2>1, <2>4, <1>done DEF Content!Done, Content!Reach, Closed, Spent, Content!Idle
  <2> QED
    BY <2>2, <2>3, <2>4 DEF Content!pageMade, Content!Replied, Content!Quit
<1>21. \A r \in net : Content!pageDeleted(r) => Inv'
  <2> SUFFICES ASSUME NEW r \in net, Content!pageDeleted(r) PROVE Inv'
    OBVIOUS
  <2>1. r.op = "delete" /\ r.rep # None
    BY DEF Content!pageDeleted, Content!Replied
  <2>2. ASSUME NEW v, Content!Goes(r, [ui EXCEPT !.pages = v, !.deleting = None], "allocation",
               <<>>)
        PROVE  Inv'
    BY <2>1, <2>2, <1>goes DEF Content!Goes, Content!Reach, Handed, Spent
  <2>3. ASSUME Content!Done(r, [ui EXCEPT !.deleting = None]) PROVE Inv'
    BY <2>1, <2>3, <1>done DEF Content!Done, Content!Reach, Closed, Spent
  <2> QED
    BY <2>2, <2>3 DEF Content!pageDeleted, Content!Replied
<1>22. \A r \in net : Content!gotAllocation(r) => Inv'
  BY <1>done
     DEF Content!gotAllocation, Content!Done, Content!Reach, Closed, Spent, Content!Replied
<1>23. \A r \in net : Content!homepageSet(r) => Inv'
  BY <1>done DEF Content!homepageSet, Content!Done, Content!Reach, Closed, Spent, Content!Replied
<1>24. \A r \in net : Content!CustomPagesServer(r) => Inv'
  <2> SUFFICES ASSUME NEW r \in net, Content!CustomPagesServer(r) PROVE Inv'
    OBVIOUS
  <2>1. ASSUME NEW d, NEW v, NEW ps, Content!AnswerPush(r, d, v, ps) PROVE Inv'
    BY <1>answer, <2>1 DEF Content!AnswerPush
  <2> QED
    BY <2>1 DEF Content!CustomPagesServer, Content!Read, Content!Answer
<1> QED
  BY <1>2, <1>3, <1>4, <1>5, <1>6, <1>7, <1>8, <1>9, <1>10, <1>11, <1>12, <1>13, <1>14, <1>15,
         <1>16, <1>17, <1>18, <1>19, <1>20, <1>21, <1>22, <1>23, <1>24
     DEF Content!CustomPagesNext

EmbedFlags == <<"plain", {<<"resource", "load">>, <<"article", "load">>}>>

LEMMA EmbedFlagsRule ==
  /\ Shown(EmbedFlags) = ui.busy
  /\ Shown(EmbedFlags)' = ui'.busy
  /\ (Whole(EmbedFlags) <=> "busy" \in DOMAIN ui)
  /\ (Whole(EmbedFlags)' <=> "busy" \in DOMAIN ui')
  /\ \A op, arg, f : Holds(EmbedFlags, op, arg, f)
        <=> op \in {"resource", "article"} /\ f = "load"
<1>1. Shown(EmbedFlags) = ui.busy /\ Shown(EmbedFlags)' = ui'.busy
  BY DEF Shown, FlagsOf, EmbedFlags
<1>2. (Whole(EmbedFlags) <=> "busy" \in DOMAIN ui)
        /\ (Whole(EmbedFlags)' <=> "busy" \in DOMAIN ui')
  BY DEF Whole, FieldsOf, EmbedFlags
<1>3. \A op, arg, f : Holds(EmbedFlags, op, arg, f)
        <=> op \in {"resource", "article"} /\ f = "load"
  BY DEF Holds, EmbedFlags
<1> QED
  BY <1>1, <1>2, <1>3

LEMMA EmbedFlagsStep ==
  ASSUME Steady("embed", EmbedFlags), Content!EmbedNext
  PROVE  Steady("embed", EmbedFlags)'
<1> DEFINE Inv == Steady("embed", EmbedFlags)
<1>1. page = <<"embed", "mounted">> /\ Whole(EmbedFlags)
  BY DEF Steady, Content!EmbedNext, Content!On
<1>set. UNCHANGED <<page, net>> /\ Fades(EmbedFlags) => Inv'
  BY <1>1, SetSteady
<1>done. \A r \in net : net' = net \ {r} /\ UNCHANGED page /\ Closed(EmbedFlags, r) => Inv'
  BY <1>1, DoneSteady
<1>drop. \A r \in net : net' = net \ {r} /\ UNCHANGED page /\ Closed(EmbedFlags, r) => Inv'
  BY <1>1, DoneSteady
<1>goes. \A r \in net : \A op, arg :
          net' = Content!Onward(r, op, arg) /\ UNCHANGED page /\ r.rep # None
          /\ Handed(EmbedFlags, r, op, arg) => Inv'
  BY <1>1, GoesSteady, ContentOps
<1>answer. \A r \in net : \A ok, val : net' = Content!Reply(r, ok, val)
          /\ UNCHANGED <<page, ui, atom>> => Inv'
  BY ReplySteady, ContentOps
<1>away. page' = <<"embed", "away">> /\ (net' = {} \/ net' = Content!Orphaned) => Inv'
  BY AwaySteady, GoneRequests, ContentOps DEF Steady
<1>abort. \A n, op, arg : n \subseteq net /\ net' = Content!Add(n, op, arg) /\ UNCHANGED page
          /\ Carried(EmbedFlags, n, op, arg) => Inv'
  BY <1>1, AddSteady, ContentOps
<1>stop. \A n : n \subseteq net /\ net' = n /\ UNCHANGED page /\ Spared(EmbedFlags, n) => Inv'
  BY <1>1, SubSteady
<1> USE <1>1, EmbedFlagsRule
<1>2. Content!retryEmbed => Inv'
  <2> SUFFICES ASSUME UNCHANGED page, Content!loadAborting(ui) PROVE Inv'
    BY DEF Content!retryEmbed
  <2> DEFINE n == Content!Without({"resource", "article"})
  <2>1. n \subseteq net /\ \A q \in net \ n : q.op \in {"resource", "article"}
    BY DEF Content!Without
  <2>2. UNCHANGED page /\ net' = IF ui.ref = None THEN n
          ELSE Content!Add(n, "resource", <<ui.kind, ui.ref>>)
    BY DEF Content!loadAborting, Content!loadResource
  <2>3. "busy" \in DOMAIN ui' /\ \A f \in ui'.busy : f = "load" => ui.ref # None
    BY DEF Content!loadAborting, Content!loadResource, Content!Busy, Content!Idle
  <2>4. \A f \in ui'.busy : f = "load" \/ f \in ui.busy
    BY DEF Content!loadAborting, Content!loadResource, Content!Busy, Content!Idle
  <2> HIDE DEF n
  <2>5. CASE ui.ref = None
    <3>1. Spared(EmbedFlags, n)
      BY <2>1, <2>3, <2>4, <2>5 DEF Spared
    <3> QED
      BY <1>stop, <2>1, <2>2, <2>5, <3>1
  <2>6. CASE ui.ref # None
    <3>1. \A arg : Carried(EmbedFlags, n, "resource", arg)
      BY <2>1, <2>3, <2>4 DEF Carried
    <3> QED
      BY <1>abort, <2>1, <2>2, <2>6, <3>1
  <2> QED
    BY <2>5, <2>6
<1>3. Content!openResource => Inv'
  BY <1>away DEF Content!openResource, Content!Leave
<1>4. Content!refreshEmbed => Inv'
  <2> SUFFICES ASSUME UNCHANGED page, Content!loadAborting(ui) PROVE Inv'
    BY <1>set DEF Content!refreshEmbed, Fades
  <2> DEFINE n == Content!Without({"resource", "article"})
  <2>1. n \subseteq net /\ \A q \in net \ n : q.op \in {"resource", "article"}
    BY DEF Content!Without
  <2>2. UNCHANGED page /\ net' = IF ui.ref = None THEN n
          ELSE Content!Add(n, "resource", <<ui.kind, ui.ref>>)
    BY DEF Content!loadAborting, Content!loadResource
  <2>3. "busy" \in DOMAIN ui' /\ \A f \in ui'.busy : f = "load" => ui.ref # None
    BY DEF Content!loadAborting, Content!loadResource, Content!Busy, Content!Idle
  <2>4. \A f \in ui'.busy : f = "load" \/ f \in ui.busy
    BY DEF Content!loadAborting, Content!loadResource, Content!Busy, Content!Idle
  <2> HIDE DEF n
  <2>5. CASE ui.ref = None
    <3>1. Spared(EmbedFlags, n)
      BY <2>1, <2>3, <2>4, <2>5 DEF Spared
    <3> QED
      BY <1>stop, <2>1, <2>2, <2>5, <3>1
  <2>6. CASE ui.ref # None
    <3>1. \A arg : Carried(EmbedFlags, n, "resource", arg)
      BY <2>1, <2>3, <2>4 DEF Carried
    <3> QED
      BY <1>abort, <2>1, <2>2, <2>6, <3>1
  <2> QED
    BY <2>5, <2>6
<1>5. Content!resourceChanges => Inv'
  BY <1>set DEF Content!resourceChanges, Content!Changes, Fades
<1>6. \A x : Content!updateReference(x) => Inv'
  <2> SUFFICES ASSUME NEW x, UNCHANGED page, Content!loadAborting([ui EXCEPT !.ref = x])
               PROVE Inv'
    BY DEF Content!updateReference
  <2> DEFINE n == Content!Without({"resource", "article"})
  <2>1. n \subseteq net /\ \A q \in net \ n : q.op \in {"resource", "article"}
    BY DEF Content!Without
  <2>2. UNCHANGED page /\ net' = IF [ui EXCEPT !.ref = x].ref = None THEN n
          ELSE Content!Add(n, "resource",
            <<[ui EXCEPT !.ref = x].kind, [ui EXCEPT !.ref = x].ref>>)
    BY DEF Content!loadAborting, Content!loadResource
  <2>3. "busy" \in DOMAIN ui' /\ \A f \in ui'.busy : f = "load"
          => [ui EXCEPT !.ref = x].ref # None
    BY DEF Content!loadAborting, Content!loadResource, Content!Busy, Content!Idle
  <2>4. \A f \in ui'.busy : f = "load" \/ f \in ui.busy
    BY DEF Content!loadAborting, Content!loadResource, Content!Busy, Content!Idle
  <2> HIDE DEF n
  <2>5. CASE [ui EXCEPT !.ref = x].ref = None
    <3>1. Spared(EmbedFlags, n)
      BY <2>1, <2>3, <2>4, <2>5 DEF Spared
    <3> QED
      BY <1>stop, <2>1, <2>2, <2>5, <3>1
  <2>6. CASE [ui EXCEPT !.ref = x].ref # None
    <3>1. \A arg : Carried(EmbedFlags, n, "resource", arg)
      BY <2>1, <2>3, <2>4 DEF Carried
    <3> QED
      BY <1>abort, <2>1, <2>2, <2>6, <3>1
  <2> QED
    BY <2>5, <2>6
<1>7. \A k : Content!updateResourceType(k) => Inv'
  <2> SUFFICES ASSUME NEW k, Content!updateResourceType(k) PROVE Inv'
    OBVIOUS
  <2> DEFINE n == Content!Without({"resource", "article", "options"})
  <2>1. n \subseteq net /\ \A q \in net \ n : q.op \in {"resource", "article", "options"}
    BY DEF Content!Without
  <2>2. UNCHANGED page /\ net' = Content!Add(n, "options", <<k>>)
    BY DEF Content!updateResourceType
  <2>3. "busy" \in DOMAIN ui' /\ \A f \in ui'.busy : f # "load" /\ f \in ui.busy
    BY DEF Content!updateResourceType, Content!Idle
  <2> HIDE DEF n
  <2>4. Carried(EmbedFlags, n, "options", <<k>>)
    BY <2>1, <2>3 DEF Carried
  <2> QED
    BY <1>abort, <2>1, <2>2, <2>4
<1>8. \A r \in net : Content!loadOptions(r) => Inv'
  BY <1>done DEF Content!loadOptions, Content!Done, Content!Reach, Closed, Spent, Content!Replied
<1>9. \A r \in net : Content!resourceLoaded(r) => Inv'
  <2> SUFFICES ASSUME NEW r \in net, Content!resourceLoaded(r) PROVE Inv'
    OBVIOUS
  <2>1. r.op \in {"resource", "article"} /\ r.rep # None
    BY DEF Content!resourceLoaded, Content!ShowResource, Content!Replied
  <2>2. ASSUME Content!Goes(r, ui, "article", r.arg) PROVE Inv'
    BY <2>1, <2>2, <1>goes DEF Content!Goes, Content!Reach, Handed, Spent
  <2>3. ASSUME NEW v, ui' = Content!Idle([ui EXCEPT !.res = v], "load") /\ net' = net \ {r}
               /\ UNCHANGED page
        PROVE  Inv'
    BY <2>1, <2>3, <1>drop DEF Closed, Spent, Content!Idle
  <2>4. ASSUME Content!Done(r, Content!Idle([ui EXCEPT !.err = TRUE], "load")) PROVE Inv'
    BY <2>1, <2>4, <1>done DEF Content!Done, Content!Reach, Closed, Spent, Content!Idle
  <2> QED
    BY <2>2, <2>3, <2>4 DEF Content!resourceLoaded, Content!ShowResource, Content!Replied
<1> QED
  BY <1>2, <1>3, <1>4, <1>5, <1>6, <1>7, <1>8, <1>9, <1>answer
     DEF Content!EmbedNext, Content!Read, Content!Answer, Content!AnswerPush

ContentSteady ==
    \/ FlagsHeld("rows", RowsHolds)
    \/ FlagsHeld("interactive", InteractiveHolds)
    \/ FlagsHeld("sources", SourcesHolds)
    \/ /\ Steady("customPages", CustomPagesFlags)
       /\ Steady("customPages", CustomPagesDeleting)
       /\ Steady("customPages", CustomPagesSetting)
    \/ Steady("embed", EmbedFlags)
    \/ Quiet("gallery")
    \/ Quiet("bible")

LEMMA ContentBegins ==
  ASSUME Content!RowsInit \/ Content!InteractiveInit \/ Content!SourcesInit
         \/ Content!CustomPagesInit
         \/ Content!EmbedInit \/ Content!GalleryInit \/ Content!BibleInit
  PROVE  ContentSteady
<1>1. CASE Content!RowsInit
  <2>1. /\ page = <<"rows", "mounted">> /\ "busy" \in DOMAIN ui
              /\ ui.busy = {"list", "components"}
        /\ \E a, f : LET n == Add(Add({}, "list", None), "components", None)
                    IN  /\ net \subseteq Add(n, "evaluate", a)
                        /\ \A r \in Add(n, "evaluate", a) : r.op # "evaluate" => r \in net
    BY <1>1, ContentOps DEF Content!RowsInit, Content!Begins, Content!mountRows
  <2>2. PICK m, n, a : /\ m = Add({}, "list", None) /\ n = Add(m, "components", None)
                       /\ net \subseteq Add(n, "evaluate", a)
                       /\ \A r \in Add(n, "evaluate", a) : r.op # "evaluate" => r \in net
    BY <2>1
  <2> DEFINE k == Add(n, "evaluate", a)
  <2>3. Requests({})
    BY DEF Requests
  <2>4. Requests(m) /\ \E r \in m : r.live /\ r.op = "list"
    BY <2>2, <2>3, Added
  <2>5. Requests(n) /\ m \subseteq n /\ \E r \in n : r.live /\ r.op = "components"
    BY <2>2, <2>4, Added
  <2>6. k = Add(n, "evaluate", a) /\ net \subseteq k /\ \A r \in k : r.op # "evaluate"
          => r \in net
    BY <2>2
  <2> HIDE DEF k
  <2>7. Requests(k) /\ n \subseteq k
    BY <2>5, <2>6, Added
  <2>8. Requests(net)
    BY <2>6, <2>7 DEF Requests
  <2>9. \A f \in ui.busy : \E r \in net : r.live /\ <<r.op, f>> \in RowsHolds
    BY <2>1, <2>4, <2>5, <2>6, <2>7 DEF RowsHolds
  <2>10. FlagsHeld("rows", RowsHolds)
    BY <2>1, <2>8, <2>9, PlainRule DEF FlagsHeld, Steady, HeldBy
  <2> QED
    BY <2>10 DEF ContentSteady
<1>2. CASE Content!InteractiveInit
  <2>1. FlagsHeld("interactive", InteractiveHolds)
    BY <1>2, BornHeld, ContentOps DEF Content!InteractiveInit, Content!Begins, InteractiveHolds
  <2> QED
    BY <2>1 DEF ContentSteady
<1>3. CASE Content!SourcesInit
  <2>1. FlagsHeld("sources", SourcesHolds)
    BY <1>3, BornHeld, ContentOps DEF Content!SourcesInit, Content!Begins, SourcesHolds
  <2> QED
    BY <2>1 DEF ContentSteady
<1>4. CASE Content!CustomPagesInit
  <2>1. Steady("customPages", CustomPagesFlags)
    BY <1>4, BornSteady, CustomPagesFlagsRule, ContentOps
       DEF Content!CustomPagesInit, Content!Begins
  <2>2. Steady("customPages", CustomPagesDeleting)
    BY <1>4, BornSteady, CustomPagesDeletingRule, ContentOps
       DEF Content!CustomPagesInit, Content!Begins
  <2>3. Steady("customPages", CustomPagesSetting)
    BY <1>4, BornSteady, CustomPagesSettingRule, ContentOps
       DEF Content!CustomPagesInit, Content!Begins
  <2> QED
    BY <2>1, <2>2, <2>3 DEF ContentSteady
<1>5. CASE Content!EmbedInit
  <2>1. /\ page = <<"embed", "mounted">> /\ "busy" \in DOMAIN ui /\ ui.busy = {"load"}
        /\ net = Add(Add({}, "options", <<"product">>), "resource", <<"product", 1>>)
    BY <1>5, ContentOps DEF Content!EmbedInit, Content!Begins
  <2>2. PICK m : m = Add({}, "options", <<"product">>)
             /\ net = Add(m, "resource", <<"product", 1>>)
    BY <2>1
  <2>3. Requests({})
    BY DEF Requests
  <2>4. Requests(m)
    BY <2>2, <2>3, Added
  <2>5. Requests(net) /\ \E r \in net : r.live /\ r.op = "resource"
    BY <2>2, <2>4, Added
  <2>6. Steady("embed", EmbedFlags)
    BY <2>1, <2>5, EmbedFlagsRule DEF Steady, HeldBy
  <2> QED
    BY <2>6 DEF ContentSteady
<1>6. CASE Content!GalleryInit
  <2>1. Quiet("gallery")
    BY <1>6 DEF Content!GalleryInit, Content!Begins, Quiet
  <2> QED
    BY <2>1 DEF ContentSteady
<1>7. CASE Content!BibleInit
  <2>1. Quiet("bible")
    BY <1>7 DEF Content!BibleInit, Content!Begins, Quiet
  <2> QED
    BY <2>1 DEF ContentSteady
<1> QED
  BY <1>1, <1>2, <1>3, <1>4, <1>5, <1>6, <1>7

LEMMA ContentTurns ==
  ASSUME Next
  PROVE  /\ page[1] = "rows" => Content!RowsNext \/ Fails
         /\ page[1] = "interactive" => Content!InteractiveNext \/ Fails
         /\ page[1] = "sources" => Content!SourcesNext \/ Fails
         /\ page[1] = "customPages" => Content!CustomPagesNext \/ Fails
         /\ page[1] = "embed" => Content!EmbedNext \/ Fails
         /\ page[1] = "gallery" => Content!GalleryNext \/ Fails
         /\ page[1] = "bible" => Content!BibleNext \/ Fails
<1>1. Content!RowsNext => page[1] = "rows"
  BY DEF Content!RowsNext, Content!On
<1>2. Content!InteractiveNext => page[1] = "interactive"
  BY DEF Content!InteractiveNext, Content!On
<1>3. Content!SourcesNext => page[1] = "sources"
  BY DEF Content!SourcesNext, Content!On
<1>4. Content!CustomPagesNext => page[1] = "customPages"
  BY DEF Content!CustomPagesNext, Content!On
<1>5. Content!EmbedNext => page[1] = "embed"
  BY DEF Content!EmbedNext, Content!On
<1>6. Content!GalleryNext => page[1] = "gallery"
  BY DEF Content!GalleryNext, Content!On
<1>7. Content!BibleNext => page[1] = "bible"
  BY DEF Content!BibleNext, Content!On
<1> QED
  BY <1>1, <1>2, <1>3, <1>4, <1>5, <1>6, <1>7 DEF Next

LEMMA ContentKept ==
  ASSUME ContentSteady, [Next]_spaVars PROVE ContentSteady'
<1>1. CASE FlagsHeld("rows", RowsHolds)
  <2>1. page[1] = "rows"
    BY <1>1 DEF FlagsHeld, Steady
  <2>2. CASE Content!RowsNext
    BY <1>1, <2>2, RowsStep DEF ContentSteady
  <2>3. CASE Fails \/ UNCHANGED spaVars
    BY <1>1, <2>3, FailsSteady DEF FlagsHeld, ContentSteady
  <2> QED
    BY <2>1, <2>2, <2>3, ContentTurns
<1>2. CASE FlagsHeld("interactive", InteractiveHolds)
  <2>1. page[1] = "interactive"
    BY <1>2 DEF FlagsHeld, Steady
  <2>2. CASE Content!InteractiveNext
    BY <1>2, <2>2, InteractiveStep DEF ContentSteady
  <2>3. CASE Fails \/ UNCHANGED spaVars
    BY <1>2, <2>3, FailsSteady DEF FlagsHeld, ContentSteady
  <2> QED
    BY <2>1, <2>2, <2>3, ContentTurns
<1>3. CASE FlagsHeld("sources", SourcesHolds)
  <2>1. page[1] = "sources"
    BY <1>3 DEF FlagsHeld, Steady
  <2>2. CASE Content!SourcesNext
    BY <1>3, <2>2, SourcesStep DEF ContentSteady
  <2>3. CASE Fails \/ UNCHANGED spaVars
    BY <1>3, <2>3, FailsSteady DEF FlagsHeld, ContentSteady
  <2> QED
    BY <2>1, <2>2, <2>3, ContentTurns
<1>4. CASE /\ Steady("customPages", CustomPagesFlags)
           /\ Steady("customPages", CustomPagesDeleting)
           /\ Steady("customPages", CustomPagesSetting)
  <2>1. page[1] = "customPages"
    BY <1>4 DEF Steady
  <2>2. CASE Content!CustomPagesNext
    BY <1>4, <2>2, CustomPagesFlagsStep, CustomPagesDeletingStep, CustomPagesSettingStep
       DEF ContentSteady
  <2>3. CASE Fails \/ UNCHANGED spaVars
    BY <1>4, <2>3, FailsSteady DEF ContentSteady
  <2> QED
    BY <2>1, <2>2, <2>3, ContentTurns
<1>5. CASE Steady("embed", EmbedFlags)
  <2>1. page[1] = "embed"
    BY <1>5 DEF Steady
  <2>2. CASE Content!EmbedNext
    BY <1>5, <2>2, EmbedFlagsStep DEF ContentSteady
  <2>3. CASE Fails \/ UNCHANGED spaVars
    BY <1>5, <2>3, FailsSteady DEF ContentSteady
  <2> QED
    BY <2>1, <2>2, <2>3, ContentTurns
<1>6. CASE Quiet("gallery")
  <2>1. page[1] = "gallery"
    BY <1>6 DEF Quiet
  <2>2. CASE Content!GalleryNext
    BY <1>6, <2>2, GalleryStep DEF ContentSteady
  <2>3. CASE Fails \/ UNCHANGED spaVars
    BY <1>6, <2>3, QuietStays DEF ContentSteady
  <2> QED
    BY <2>1, <2>2, <2>3, ContentTurns
<1>7. CASE Quiet("bible")
  <2>1. page[1] = "bible"
    BY <1>7 DEF Quiet
  <2>2. CASE Content!BibleNext
    BY <1>7, <2>2, BibleStep DEF ContentSteady
  <2>3. CASE Fails \/ UNCHANGED spaVars
    BY <1>7, <2>3, QuietStays DEF ContentSteady
  <2> QED
    BY <2>1, <2>2, <2>3, ContentTurns
<1> QED
  BY <1>1, <1>2, <1>3, <1>4, <1>5, <1>6, <1>7 DEF ContentSteady

LEMMA ContentEnds == ContentSteady => SpinnersEnd
<1>1. ASSUME FlagsHeld("rows", RowsHolds) PROVE SpinnersEnd
  BY <1>1, HeldEnds
<1>2. ASSUME FlagsHeld("interactive", InteractiveHolds) PROVE SpinnersEnd
  BY <1>2, HeldEnds
<1>3. ASSUME FlagsHeld("sources", SourcesHolds) PROVE SpinnersEnd
  BY <1>3, HeldEnds
<1>4. ASSUME Steady("customPages", CustomPagesFlags),
             Steady("customPages", CustomPagesDeleting),
             Steady("customPages", CustomPagesSetting)
      PROVE  SpinnersEnd
  BY <1>4, NothingShown, CustomPagesFlagsRule, CustomPagesDeletingRule, CustomPagesSettingRule
     DEF SpinnersEnd, RowBusy, AwaitsElse
<1>5. ASSUME Steady("embed", EmbedFlags) PROVE SpinnersEnd
  BY <1>5, NothingShown, EmbedFlagsRule DEF SpinnersEnd, RowBusy, AwaitsElse
<1>6. ASSUME Quiet("gallery") PROVE SpinnersEnd
  BY <1>6 DEF Quiet, SpinnersEnd, RowBusy
<1>7. ASSUME Quiet("bible") PROVE SpinnersEnd
  BY <1>7 DEF Quiet, SpinnersEnd, RowBusy
<1> QED
  BY <1>1, <1>2, <1>3, <1>4, <1>5, <1>6, <1>7 DEF ContentSteady

-----------------------------------------------------------------------------
(* Devices and media of a call.                                            *)

RtcSteady ==
    \/ Quiet("devices")
    \/ Quiet("livekit")
    \/ Quiet("recording")

LEMMA RtcBegins ==
  ASSUME Rtc!DevicesInit \/ Rtc!LiveKitInit \/ Rtc!RecordingInit
  PROVE  RtcSteady
<1>1. CASE Rtc!DevicesInit
  <2>1. Quiet("devices")
    BY <1>1 DEF Rtc!DevicesInit, Rtc!Begins, Rtc!mountDevices, Quiet
  <2> QED
    BY <2>1 DEF RtcSteady
<1>2. CASE Rtc!LiveKitInit
  <2>1. Quiet("livekit")
    BY <1>2 DEF Rtc!LiveKitInit, Rtc!Begins, Quiet
  <2> QED
    BY <2>1 DEF RtcSteady
<1>3. CASE Rtc!RecordingInit
  <2>1. Quiet("recording")
    BY <1>3 DEF Rtc!RecordingInit, Rtc!Begins, Quiet
  <2> QED
    BY <2>1 DEF RtcSteady
<1> QED
  BY <1>1, <1>2, <1>3

LEMMA RtcTurns ==
  ASSUME Next
  PROVE  /\ page[1] = "devices" => Rtc!DevicesNext \/ Fails
         /\ page[1] = "livekit" => Rtc!LiveKitNext \/ Fails
         /\ page[1] = "recording" => Rtc!RecordingNext \/ Fails
<1>1. Rtc!DevicesNext => page = <<"devices", "mounted">> \/ page = <<"devices", "away">>
                        \/ page[1] = "devices"
  BY Zenon
     DEF Rtc!DevicesNext, Rtc!screenEnded, Rtc!On, Rtc!devicesUnmount, Rtc!Leave, Rtc!gotMediaLate
<1>2. Rtc!LiveKitNext => page[1] = "livekit"
  BY DEF Rtc!LiveKitNext, Rtc!On
<1>3. Rtc!RecordingNext => page[1] = "recording"
  BY DEF Rtc!RecordingNext, Rtc!On
<1> QED
  BY <1>1, <1>2, <1>3 DEF Next

LEMMA RtcKept ==
  ASSUME RtcSteady, [Next]_spaVars PROVE RtcSteady'
<1>1. CASE Quiet("devices")
  <2>1. page[1] = "devices"
    BY <1>1 DEF Quiet
  <2>2. CASE Rtc!DevicesNext
    BY <1>1, <2>2, DevicesStep DEF RtcSteady
  <2>3. CASE Fails \/ UNCHANGED spaVars
    BY <1>1, <2>3, QuietStays DEF RtcSteady
  <2> QED
    BY <2>1, <2>2, <2>3, RtcTurns
<1>2. CASE Quiet("livekit")
  <2>1. page[1] = "livekit"
    BY <1>2 DEF Quiet
  <2>2. CASE Rtc!LiveKitNext
    BY <1>2, <2>2, LiveKitStep DEF RtcSteady
  <2>3. CASE Fails \/ UNCHANGED spaVars
    BY <1>2, <2>3, QuietStays DEF RtcSteady
  <2> QED
    BY <2>1, <2>2, <2>3, RtcTurns
<1>3. CASE Quiet("recording")
  <2>1. page[1] = "recording"
    BY <1>3 DEF Quiet
  <2>2. CASE Rtc!RecordingNext
    BY <1>3, <2>2, RecordingStep DEF RtcSteady
  <2>3. CASE Fails \/ UNCHANGED spaVars
    BY <1>3, <2>3, QuietStays DEF RtcSteady
  <2> QED
    BY <2>1, <2>2, <2>3, RtcTurns
<1> QED
  BY <1>1, <1>2, <1>3 DEF RtcSteady

LEMMA RtcEnds == RtcSteady => SpinnersEnd
<1>1. ASSUME Quiet("devices") PROVE SpinnersEnd
  BY <1>1 DEF Quiet, SpinnersEnd, RowBusy
<1>2. ASSUME Quiet("livekit") PROVE SpinnersEnd
  BY <1>2 DEF Quiet, SpinnersEnd, RowBusy
<1>3. ASSUME Quiet("recording") PROVE SpinnersEnd
  BY <1>3 DEF Quiet, SpinnersEnd, RowBusy
<1> QED
  BY <1>1, <1>2, <1>3 DEF RtcSteady

-----------------------------------------------------------------------------
(* Controls of a section.                                                  *)

LEMMA SectionOps ==
  /\ \A n, op, arg : Section!Add(n, op, arg) = Add(n, op, arg)
  /\ \A r, op, arg : Section!Onward(r, op, arg) = Onward(r, op, arg)
  /\ \A r, ok, val : Section!Reply(r, ok, val) = Reply(r, ok, val)
  /\ Section!Orphaned = Orphaned
<1>1. \A n, op, arg : Section!Add(n, op, arg) = Add(n, op, arg)
  BY DEF Section!Add, Add
<1> QED
  BY <1>1 DEF Section!Onward, Onward, Section!Reply, Reply, Section!Orphaned, Orphaned

InputHolds == {<<"upload", "upload">>}

LEMMA InputStep ==
  ASSUME FlagsHeld("input", InputHolds), Section!InputNext
  PROVE  FlagsHeld("input", InputHolds)'
<1> DEFINE Inv == FlagsHeld("input", InputHolds)
<1>1. page = <<"input", "mounted">> /\ "busy" \in DOMAIN ui
  BY Mounted
     DEF Section!InputNext, Section!EditableText, Section!ColorFocus, Section!ColorDebounced,
         Section!ColorBlur, Section!ImagePickerButton, Section!ColorPick, Section!ColorPushed,
         Section!PickerUploaded, Section!On
<1>set. UNCHANGED <<page, net>> /\ (ui' = ui \/ Fewer) => Inv'
  BY SetHeld
<1>call. \A op, arg : net' = Section!Add(net, op, arg) /\ UNCHANGED page
          /\ Covered(InputHolds, op) => Inv'
  BY <1>1, CallHeld, SectionOps
<1>done. \A r \in net : net' = net \ {r} /\ UNCHANGED page /\ Ended(InputHolds, r) => Inv'
  BY <1>1, DoneHeld
<1>answer. \A r \in net : \A ok, val : net' = Section!Reply(r, ok, val)
          /\ UNCHANGED <<page, ui, atom>> => Inv'
  BY ReplyHeld, SectionOps
<1> USE <1>1 DEF InputHolds
<1>2. Section!EditableText => Inv'
  BY <1>set DEF Section!EditableText, Section!Set, Fewer
<1>3. Section!ColorFocus => Inv'
  BY <1>set DEF Section!ColorFocus, Section!Set, Fewer
<1>4. Section!ColorDebounced => Inv'
  BY <1>set DEF Section!ColorDebounced, Section!Set, Fewer
<1>5. Section!ColorBlur => Inv'
  BY <1>set DEF Section!ColorBlur, Section!Set, Fewer
<1>6. Section!ImagePickerButton => Inv'
  BY <1>call DEF Section!ImagePickerButton, Section!Call, Covered, Section!Busy
<1>7. \A c : Section!ColorPick(c) => Inv'
  BY <1>set DEF Section!ColorPick, Section!Set, Fewer
<1>8. \A c : Section!ColorPushed(c) => Inv'
  BY <1>set DEF Section!ColorPushed, Fewer
<1>9. \A r \in net : Section!PickerUploaded(r) => Inv'
  BY <1>done
     DEF Section!PickerUploaded, Section!Done, Section!Reach, Ended, Dropped, Section!Idle,
         Section!Replied
<1> QED
  BY <1>2, <1>3, <1>4, <1>5, <1>6, <1>7, <1>8, <1>9, <1>answer
     DEF Section!InputNext, Section!Read, Section!Answer, Section!AnswerPush

SectionSteady ==
    \/ Quiet("sections")
    \/ Quiet("frame")
    \/ FlagsHeld("input", InputHolds)

LEMMA SectionBegins ==
  ASSUME Section!SectionsInit \/ Section!FrameInit \/ Section!InputInit
  PROVE  SectionSteady
<1>1. CASE Section!SectionsInit
  <2>1. Quiet("sections")
    BY <1>1 DEF Section!SectionsInit, Section!Begins, Quiet
  <2> QED
    BY <2>1 DEF SectionSteady
<1>2. CASE Section!FrameInit
  <2>1. Quiet("frame")
    BY <1>2 DEF Section!FrameInit, Section!Begins, Quiet
  <2> QED
    BY <2>1 DEF SectionSteady
<1>3. CASE Section!InputInit
  <2>1. FlagsHeld("input", InputHolds)
    BY <1>3, BornHeld, SectionOps DEF Section!InputInit, Section!Begins, InputHolds
  <2> QED
    BY <2>1 DEF SectionSteady
<1> QED
  BY <1>1, <1>2, <1>3

LEMMA SectionTurns ==
  ASSUME Next
  PROVE  /\ page[1] = "sections" => Section!SectionsNext \/ Fails
         /\ page[1] = "frame" => Section!FrameNext \/ Fails
         /\ page[1] = "input" => Section!InputNext \/ Fails
<1>1. Section!SectionsNext => page = <<"sections", "mounted">>
  BY Zenon
     DEF Section!SectionsNext, Section!addSection, Section!On, Section!handlePaste,
         Section!renderAddSectionTrigger, Section!onCopy, Section!onCut,
         Section!deleteSectionWrapper, Section!createItemWrapper, Section!handleMove,
         Section!deleteItemWrapper
<1>2. Section!FrameNext => page = <<"frame", "mounted">>
  BY Zenon
     DEF Section!FrameNext, Section!SectionLayoutControls, Section!On,
         Section!SectionAnimationControl, Section!ApplySpacing, Section!SectionShellControls,
         Section!SectionSpacingControls, Section!ToggleCollapsed, Section!useViewportActivation
<1>3. Section!InputNext => page = <<"input", "mounted">>
  BY Zenon
     DEF Section!InputNext, Section!EditableText, Section!On, Section!ColorFocus,
         Section!ColorDebounced, Section!ColorBlur, Section!ImagePickerButton, Section!ColorPick,
         Section!ColorPushed, Section!PickerUploaded
<1> QED
  BY <1>1, <1>2, <1>3 DEF Next

LEMMA SectionKept ==
  ASSUME SectionSteady, [Next]_spaVars PROVE SectionSteady'
<1>1. CASE Quiet("sections")
  <2>1. page[1] = "sections"
    BY <1>1 DEF Quiet
  <2>2. CASE Section!SectionsNext
    BY <1>1, <2>2, SectionsStep DEF SectionSteady
  <2>3. CASE Fails \/ UNCHANGED spaVars
    BY <1>1, <2>3, QuietStays DEF SectionSteady
  <2> QED
    BY <2>1, <2>2, <2>3, SectionTurns
<1>2. CASE Quiet("frame")
  <2>1. page[1] = "frame"
    BY <1>2 DEF Quiet
  <2>2. CASE Section!FrameNext
    BY <1>2, <2>2, FrameStep DEF SectionSteady
  <2>3. CASE Fails \/ UNCHANGED spaVars
    BY <1>2, <2>3, QuietStays DEF SectionSteady
  <2> QED
    BY <2>1, <2>2, <2>3, SectionTurns
<1>3. CASE FlagsHeld("input", InputHolds)
  <2>1. page[1] = "input"
    BY <1>3 DEF FlagsHeld, Steady
  <2>2. CASE Section!InputNext
    BY <1>3, <2>2, InputStep DEF SectionSteady
  <2>3. CASE Fails \/ UNCHANGED spaVars
    BY <1>3, <2>3, FailsSteady DEF FlagsHeld, SectionSteady
  <2> QED
    BY <2>1, <2>2, <2>3, SectionTurns
<1> QED
  BY <1>1, <1>2, <1>3 DEF SectionSteady

LEMMA SectionEnds == SectionSteady => SpinnersEnd
<1>1. ASSUME Quiet("sections") PROVE SpinnersEnd
  BY <1>1 DEF Quiet, SpinnersEnd, RowBusy
<1>2. ASSUME Quiet("frame") PROVE SpinnersEnd
  BY <1>2 DEF Quiet, SpinnersEnd, RowBusy
<1>3. ASSUME FlagsHeld("input", InputHolds) PROVE SpinnersEnd
  BY <1>3, HeldEnds
<1> QED
  BY <1>1, <1>2, <1>3 DEF SectionSteady

-----------------------------------------------------------------------------
(* The page editor.                                                        *)

LEMMA EditorOps ==
  \A n, op, arg : Editor!Add(n, op, arg) = Add(n, op, arg)
BY DEF Editor!Add, Add

\* What the editor's helpers do to a page leaves the flags alone.
Flagged(u, F) == "busy" \in DOMAIN u /\ u.busy = F

LEMMA SyncedFlags == \A u, F : Flagged(u, F) => Flagged(Editor!Synced(u), F)
<1> SUFFICES ASSUME NEW u, NEW F, Flagged(u, F) PROVE Flagged(Editor!Synced(u), F)
  OBVIOUS
<1>1. \A v : Flagged([u EXCEPT !.sections = v, !.sourced = TRUE], F)
  BY DEF Flagged
<1> QED
  BY <1>1 DEF Editor!Synced

LEMMA AppliedFlags == \A u, d, F : Flagged(u, F) => Flagged(Editor!applyIncomingData(u, d), F)
<1> SUFFICES ASSUME NEW u, NEW d, NEW F, Flagged(u, F)
             PROVE  Flagged(Editor!applyIncomingData(u, d), F)
  OBVIOUS
<1>1. Flagged([u EXCEPT !.page.content = d.content], F)
  BY DEF Flagged
<1> QED
  BY <1>1, SyncedFlags DEF Editor!applyIncomingData

LEMMA RefreshFlags == \A u, n, s, F : Flagged(u, F) => Flagged(Editor!refresh(u, n, s).u, F)
<1> SUFFICES ASSUME NEW u, NEW n, NEW s, NEW F, Flagged(u, F)
             PROVE  Flagged(Editor!refresh(u, n, s).u, F)
  OBVIOUS
<1> DEFINE left == u.editing - u.open
           v == [u EXCEPT !.editing = left, !.open = 0, !.pick = FALSE,
                          !.timer = @ \/ (u.open > 0 /\ left = 0 /\ u.pending # None)]
           y == [v EXCEPT !.held = None]
           w == Editor!Unrendered(u)
           x == [w EXCEPT !.loading = TRUE, !.err = FALSE,
                          !.page = IF s # u.asked THEN None ELSE @, !.asked = s]
<1>1. Flagged(v, F) /\ Flagged(y, F)
  BY DEF Flagged
<1>2. Flagged(w, F)
  <2> HIDE DEF v, y
  <2>1. w = v \/ w = y \/ w = Editor!applyIncomingData(y, u.held)
    BY Zenon DEF Editor!Unrendered, v, y, left
  <2> HIDE DEF w
  <2> QED
    BY <1>1, <2>1, AppliedFlags
<1>3. Flagged(x, F)
  <2> HIDE DEF w
  <2> QED
    BY <1>2 DEF Flagged
<1>4. Editor!refresh(u, n, s).u = Editor!Synced(x)
  BY DEF Editor!refresh
<1> HIDE DEF x
<1> QED
  BY <1>3, <1>4, SyncedFlags

EditorHolds == {<<"reset", "reset">>}

LEMMA EditorStep ==
  ASSUME FlagsHeld("editor", EditorHolds), Editor!EditorNext
  PROVE  FlagsHeld("editor", EditorHolds)'
<1> DEFINE Inv == FlagsHeld("editor", EditorHolds)
           Here == page = <<"editor", "mounted">> /\ UNCHANGED page
           Kept(n) == n \subseteq net /\ \A q \in net : q \in n \/ q.op # "reset"
<1>held. Here => "busy" \in DOMAIN ui /\ Flagged(ui, ui.busy)
  BY Mounted DEF Flagged
<1>set. Here /\ UNCHANGED net /\ (ui' = ui \/ Fewer) => Inv'
  BY SetHeld
<1>keep. ASSUME NEW n, Here, Kept(n), ui' = ui \/ Fewer,
                net' = n \/ \E op, arg : net' = Editor!Add(n, op, arg)
         PROVE  Inv'
  <2>1. \A q \in net : q \in n \/ ~q.live \/ \A f : <<q.op, f>> \notin EditorHolds
    BY <1>keep DEF EditorHolds
  <2>2. net' = n \/ \E op, arg : net' = Add(n, op, arg)
    BY <1>keep, EditorOps
  <2> QED
    BY <1>keep, <2>1, <2>2, KeepHeld
<1>fewer. \A u : Flagged(u, ui.busy) /\ ui' = u => Fewer
  BY DEF Flagged, Fewer
<1>refresh. ASSUME NEW u, NEW n, NEW s, Here, Kept(n), Flagged(u, ui.busy),
                   ui' = Editor!refresh(u, n, s).u, net' = Editor!refresh(u, n, s).n
            PROVE  Inv'
  <2> DEFINE m == Editor!Superseded(n)
  <2>1. net' = Editor!Add(m, "load", s)
    BY <1>refresh DEF Editor!refresh
  <2>2. Kept(m)
    BY <1>refresh DEF Editor!Superseded
  <2>3. Fewer
    BY <1>refresh, <1>fewer, RefreshFlags
  <2> HIDE DEF m, Kept
  <2> QED
    BY <1>refresh, <1>keep, <2>1, <2>2, <2>3
<1>all. Kept(net) /\ \A r \in net : r.op # "reset" => Kept(net \ {r})
  OBVIOUS
<1>away. ASSUME page = <<"editor", "mounted">>, page' = <<"editor", "away">>,
                net' = {} \/ \E op, arg : net' = Editor!Add({}, op, arg)
         PROVE  Inv'
  <2>1. CASE net' = {}
    BY <1>away, <2>1, AwayHeld
  <2>2. ASSUME NEW op, NEW arg, net' = Editor!Add({}, op, arg) PROVE Inv'
    <3>1. Requests(net')
      <4>1. Requests({}) /\ net' = Add({}, op, arg)
        BY <2>2, EditorOps DEF Requests
      <4> QED
        BY <4>1, Added
    <3> QED
      BY <1>away, <3>1, AwaySteady DEF FlagsHeld
  <2> QED
    BY <1>away, <2>1, <2>2
<1>save. \A u, n, c : \E op, arg : Editor!savePageContent(u, n, c) = Editor!Add(n, op, arg)
  BY DEF Editor!savePageContent
<1> HIDE DEF Kept, Inv
<1>1. ASSUME NEW s, Editor!Navigate(s) PROVE Inv'
  <2> DEFINE u == [ui EXCEPT !.slug = s, !.sections = {}, !.sourced = FALSE]
  <2>1. /\ Here /\ ui' = Editor!refresh(u, net, s).u /\ net' = Editor!refresh(u, net, s).n
    BY <1>1 DEF Editor!Navigate, Editor!On, Editor!Refreshes
  <2>2. Flagged(u, ui.busy)
    BY <1>held, <2>1 DEF Flagged
  <2> HIDE DEF u
  <2> QED
    BY <1>all, <1>refresh, <2>1, <2>2
<1>2. ASSUME NEW s, Editor!OthersEdit(s) PROVE Inv'
  BY <1>2, <1>set DEF Editor!OthersEdit, Editor!On, Editor!Changes
<1>3. ASSUME Editor!LiveEvent PROVE Inv'
  <2> DEFINE e == Head(push)
  <2>1. Here
    BY <1>3 DEF Editor!LiveEvent, Editor!On
  <2>2. \/ ui' = ui /\ net' = net
        \/ (\E v : ui' = [ui EXCEPT !.held = v]) /\ net' = net
        \/ ui' = Editor!applyIncomingData(ui, e) /\ net' = net
        \/ ui' = Editor!refresh(ui, net, e.slug).u /\ net' = Editor!refresh(ui, net, e.slug).n
    BY <1>3 DEF Editor!LiveEvent
  <2>3. CASE ui' = ui /\ net' = net
    BY <1>set, <2>1, <2>3
  <2>4. ASSUME NEW v, ui' = [ui EXCEPT !.held = v], net' = net PROVE Inv'
    BY <1>held, <1>set, <2>1, <2>4 DEF Fewer
  <2>5. CASE ui' = Editor!applyIncomingData(ui, e) /\ net' = net
    BY <1>held, <1>set, <1>fewer, <2>1, <2>5, AppliedFlags
  <2>6. CASE ui' = Editor!refresh(ui, net, e.slug).u /\ net' = Editor!refresh(ui, net, e.slug).n
    BY <1>all, <1>held, <1>refresh, <2>1, <2>6
  <2> QED
    BY <2>2, <2>3, <2>4, <2>5, <2>6
<1>4. ASSUME Editor!Reconnected PROVE Inv'
  <2>1. Here
    BY <1>4 DEF Editor!Reconnected, Editor!On, Editor!Set, Editor!Refreshes
  <2>2. CASE ui.editing > 0
    BY <1>4, <1>held, <1>set, <2>1, <2>2 DEF Editor!Reconnected, Editor!Set, Fewer
  <2>3. CASE ~(ui.editing > 0)
    <3>1. /\ ui' = Editor!refresh(ui, net, ui.page.slug).u
          /\ net' = Editor!refresh(ui, net, ui.page.slug).n
      BY <1>4, <2>3 DEF Editor!Reconnected, Editor!Refreshes
    <3> QED
      BY <1>all, <1>held, <1>refresh, <2>1, <3>1
  <2> QED
    BY <2>2, <2>3
<1>5. ASSUME NEW k, Editor!updateSectionWrapper \/ Editor!enterEdit(k) PROVE Inv'
  <2>1. Here /\ net' = net
    BY <1>5 DEF Editor!updateSectionWrapper, Editor!enterEdit, Editor!ContextView,
                Editor!Rendered, Editor!On, Editor!Set
  <2>2. Fewer
    BY <1>5, <1>held, <2>1
       DEF Editor!updateSectionWrapper, Editor!enterEdit, Editor!scheduleSave, Editor!Set, Fewer
  <2> QED
    BY <1>set, <2>1, <2>2
<1>6. ASSUME Editor!StructuralChange PROVE Inv'
  <2>1. Here /\ \E c : net' = Editor!savePageContent(ui, net, c)
    BY <1>6 DEF Editor!StructuralChange, Editor!ContextView, Editor!Rendered, Editor!On
  <2>2. Fewer
    BY <1>6, <1>held, <2>1 DEF Editor!StructuralChange, Editor!immediateSave, Fewer
  <2> QED
    BY <1>all, <1>keep, <1>save, <2>1, <2>2
<1>7. ASSUME NEW k, Editor!leaveEdit(k) PROVE Inv'
  <2> DEFINE g == Editor!Left(k)
             u == [g EXCEPT !.timer = g.timer \/ (ui.editing = 1 /\ ui.pending # None)]
             v == [u EXCEPT !.held = None]
  <2>1. Here
    BY <1>7 DEF Editor!leaveEdit, Editor!IsOpen, Editor!On, Editor!Set, Editor!Refreshes
  <2>2. Flagged(u, ui.busy) /\ Flagged(v, ui.busy)
    <3>1. Flagged(g, ui.busy)
      BY <1>held, <2>1 DEF Flagged, Editor!Left
    <3> HIDE DEF g
    <3> QED
      BY <3>1 DEF Flagged
  <2>3. \/ ui' = u /\ net' = net
        \/ /\ ui' = Editor!refresh(v, net, ui.page.slug).u
           /\ net' = Editor!refresh(v, net, ui.page.slug).n
        \/ ui' = Editor!applyIncomingData(v, u.held) /\ net' = net
    BY <1>7 DEF Editor!leaveEdit, Editor!Set, Editor!Refreshes
  <2> HIDE DEF u, v
  <2>4. CASE ui' = u /\ net' = net
    BY <1>set, <1>fewer, <2>1, <2>2, <2>4
  <2>5. CASE /\ ui' = Editor!refresh(v, net, ui.page.slug).u
             /\ net' = Editor!refresh(v, net, ui.page.slug).n
    BY <1>all, <1>refresh, <2>1, <2>2, <2>5
  <2>6. CASE ui' = Editor!applyIncomingData(v, u.held) /\ net' = net
    BY <1>set, <1>fewer, <2>1, <2>2, <2>6, AppliedFlags
  <2> QED
    BY <2>3, <2>4, <2>5, <2>6
<1>8. ASSUME Editor!runSave PROVE Inv'
  <2>1. Here /\ (net' = net \/ \E c : net' = Editor!savePageContent(ui, net, c))
    BY <1>8 DEF Editor!runSave, Editor!On
  <2>2. Fewer
    BY <1>8, <1>held, <2>1 DEF Editor!runSave, Fewer
  <2> QED
    BY <1>all, <1>keep, <1>save, <2>1, <2>2
<1>9. ASSUME Editor!Flush PROVE Inv'
  <2>1. /\ page = <<"editor", "mounted">> /\ page' = <<"editor", "away">>
        /\ net' = {} \/ \E c : net' = Editor!savePageContent(ui, {}, c)
    BY <1>9 DEF Editor!Flush, Editor!On
  <2> QED
    BY <1>away, <1>save, <2>1
<1>10. ASSUME Editor!ChangeVisibility \/ Editor!handleDeletePage PROVE Inv'
  <2>1. Here /\ ui' = ui /\ \E op, arg : net' = Editor!Add(net, op, arg)
    BY <1>10 DEF Editor!ChangeVisibility, Editor!handleDeletePage, Editor!MoreMenuView,
                 Editor!Rendered, Editor!On, Editor!Write, Editor!Call
  <2> QED
    BY <1>all, <1>keep, <2>1
<1>11. ASSUME Editor!handleFactoryReset PROVE Inv'
  <2>1. Here /\ net' = Add(net, "reset", None)
    BY <1>11, EditorOps DEF Editor!handleFactoryReset, Editor!MoreMenuView, Editor!Rendered,
       Editor!On,
                 Editor!Write, Editor!Call
  <2>2. Covered(EditorHolds, "reset")
    BY <1>11, <1>held, <2>1
       DEF Editor!handleFactoryReset, Editor!Write, Editor!Call, Editor!Busy, Covered, EditorHolds
  <2> QED
    BY <2>1, <2>2, CallHeld DEF Inv
<1>12. ASSUME NEW r \in net, Editor!PageServes(r), page = <<"editor", "mounted">> PROVE Inv'
  <2>1. UNCHANGED <<page, ui, atom>> /\ \E ok, val : net' = Editor!Reply(r, ok, val)
    BY <1>12 DEF Editor!PageServes, Editor!Read, Editor!Answer, Editor!AnswerPush, Editor!Fail
  <2>2. \E ok, val : net' = Reply(r, ok, val)
    BY <2>1 DEF Editor!Reply, Reply
  <2> QED
    BY <2>1, <2>2, ReplyHeld DEF Inv
<1>13. ASSUME NEW r \in net, Editor!PageLoaded(r), page = <<"editor", "mounted">> PROVE Inv'
  <2> DEFINE u == [ui EXCEPT !.loading = FALSE, !.err = ~r.rep.ok,
                             !.page = IF r.rep.ok THEN [slug |-> r.arg, content |-> r.rep.val]
                               ELSE None]
  <2>1. /\ Here /\ r.op = "load" /\ net' = net \ {r}
        /\ ui' = ui \/ ui' = Editor!Synced(u)
    BY <1>13 DEF Editor!PageLoaded, Editor!Replied, Editor!Done, Editor!Reach
  <2>2. Flagged(u, ui.busy)
    BY <1>held, <2>1 DEF Flagged
  <2> HIDE DEF u
  <2>3. ui' = ui \/ Fewer
    BY <1>fewer, <2>1, <2>2, SyncedFlags
  <2> QED
    BY <1>all, <1>keep, <2>1, <2>3
<1>14. ASSUME NEW r \in net, Editor!PageSaved(r), page = <<"editor", "mounted">> PROVE Inv'
  <2> DEFINE u == [ui EXCEPT !.page = [slug |-> r.arg[1], content |-> r.rep.val]]
  <2>1. /\ Here /\ r.op = "save"
        /\ \/ net' = net \ {r} /\ (ui' = ui \/ ui' = Editor!Synced(u))
           \/ /\ ui' = Editor!refresh(ui, net \ {r}, ui.slug).u
              /\ net' = Editor!refresh(ui, net \ {r}, ui.slug).n
    BY <1>14 DEF Editor!PageSaved, Editor!Replied, Editor!Done, Editor!Reach, Editor!Refreshes
  <2>2. Flagged(u, ui.busy)
    BY <1>held, <2>1 DEF Flagged
  <2> HIDE DEF u
  <2>3. ui' = ui \/ ui' = Editor!Synced(u) => ui' = ui \/ Fewer
    BY <1>fewer, <2>2, SyncedFlags
  <2>4. Kept(net \ {r})
    BY <1>all, <2>1
  <2>5. CASE net' = net \ {r} /\ (ui' = ui \/ ui' = Editor!Synced(u))
    BY <1>keep, <2>1, <2>3, <2>4, <2>5
  <2>6. CASE /\ ui' = Editor!refresh(ui, net \ {r}, ui.slug).u
             /\ net' = Editor!refresh(ui, net \ {r}, ui.slug).n
    BY <1>held, <1>refresh, <2>1, <2>4, <2>6
  <2> QED
    BY <2>1, <2>5, <2>6
<1>15. ASSUME NEW r \in net, Editor!PageCreated(r) \/ Editor!VisibilityReplied(r),
              page = <<"editor", "mounted">>
       PROVE  Inv'
  <2>1. /\ Here /\ r.op \in {"create", "visibility"}
        /\ \/ net' = net \ {r} /\ ui' = ui
           \/ /\ ui' = Editor!refresh(ui, net \ {r}, ui.slug).u
              /\ net' = Editor!refresh(ui, net \ {r}, ui.slug).n
    BY <1>15 DEF Editor!PageCreated, Editor!VisibilityReplied, Editor!Replied, Editor!Done,
                 Editor!Reach, Editor!Refreshes
  <2>2. Kept(net \ {r})
    BY <1>all, <2>1
  <2> QED
    BY <1>held, <1>keep, <1>refresh, <2>1, <2>2
<1>16. ASSUME NEW r \in net, Editor!PageGone(r), page = <<"editor", "mounted">> PROVE Inv'
  <2>1. CASE page' = <<"editor", "away">> /\ net' = {}
    BY <1>16, <1>away, <2>1
  <2>2. CASE Here /\ r.op = "delete" /\ net' = net \ {r} /\ ui' = ui
    BY <1>all, <1>keep, <2>2
  <2>3. CASE Here /\ r.op = "reset" /\ net' = net \ {r}
             /\ Editor!Reach(r, Editor!Idle(ui, "reset"))
    <3>1. Ended(EditorHolds, r)
      BY <1>held, <2>3 DEF Editor!Reach, Editor!Idle, Ended, Dropped, EditorHolds
    <3> QED
      BY <2>3, <3>1, DoneHeld DEF Inv
  <2> QED
    BY <1>16, <2>1, <2>2, <2>3
       DEF Editor!PageGone, Editor!Replied, Editor!Done, Editor!Reach, Editor!Quit
<1> QED
  BY <1>1, <1>2, <1>3, <1>4, <1>5, <1>6, <1>7, <1>8, <1>9, <1>10, <1>11, <1>12, <1>13, <1>14,
     <1>15, <1>16
     DEF Editor!EditorNext, Editor!EditorReplies, Editor!On, Inv

EditorSteady ==
    \/ FlagsHeld("editor", EditorHolds)
    \/ Quiet("likes")

LEMMA EditorBegins ==
  ASSUME Editor!EditorInit \/ Editor!LikeInit
  PROVE  EditorSteady
<1>1. CASE Editor!EditorInit
  <2>1. FlagsHeld("editor", EditorHolds)
    BY <1>1, BornHeld, EditorOps
       DEF Editor!EditorInit, Editor!Begins, Editor!EditorMounted, EditorHolds
  <2> QED
    BY <2>1 DEF EditorSteady
<1>2. CASE Editor!LikeInit
  <2>1. Quiet("likes")
    BY <1>2 DEF Editor!LikeInit, Editor!Begins, Quiet
  <2> QED
    BY <2>1 DEF EditorSteady
<1> QED
  BY <1>1, <1>2

LEMMA EditorTurns ==
  ASSUME Next
  PROVE  /\ page[1] = "editor" => Editor!EditorNext \/ Fails
         /\ page[1] = "likes" => Editor!LikeNext \/ Fails
<1>1. Editor!EditorNext => page = <<"editor", "mounted">>
  BY Zenon
     DEF Editor!EditorNext, Editor!ChangeVisibility, Editor!Flush, Editor!LiveEvent,
         Editor!Navigate, Editor!On, Editor!OthersEdit, Editor!Reconnected,
         Editor!StructuralChange, Editor!enterEdit, Editor!handleDeletePage,
         Editor!handleFactoryReset, Editor!leaveEdit, Editor!IsOpen, Editor!runSave,
         Editor!updateSectionWrapper, Editor!MoreMenuView, Editor!ContextView, Editor!Rendered
<1>2. Editor!LikeNext => page[1] = "likes"
  BY DEF Editor!LikeNext, Editor!handleLikePage, Editor!On
<1> QED
  BY <1>1, <1>2 DEF Next

LEMMA EditorKept ==
  ASSUME EditorSteady, [Next]_spaVars PROVE EditorSteady'
<1>1. CASE FlagsHeld("editor", EditorHolds)
  <2>1. page[1] = "editor"
    BY <1>1 DEF FlagsHeld, Steady
  <2>2. CASE Editor!EditorNext
    BY <1>1, <2>2, EditorStep DEF EditorSteady
  <2>3. CASE Fails \/ UNCHANGED spaVars
    BY <1>1, <2>3, FailsSteady DEF FlagsHeld, EditorSteady
  <2> QED
    BY <2>1, <2>2, <2>3, EditorTurns
<1>2. CASE Quiet("likes")
  <2>1. page[1] = "likes"
    BY <1>2 DEF Quiet
  <2>2. CASE Editor!LikeNext
    BY <1>2, <2>2, LikeStep DEF EditorSteady
  <2>3. CASE Fails \/ UNCHANGED spaVars
    BY <1>2, <2>3, QuietStays DEF EditorSteady
  <2> QED
    BY <2>1, <2>2, <2>3, EditorTurns
<1> QED
  BY <1>1, <1>2 DEF EditorSteady

LEMMA EditorEnds == EditorSteady => SpinnersEnd
<1>1. ASSUME FlagsHeld("editor", EditorHolds) PROVE SpinnersEnd
  BY <1>1, HeldEnds
<1>2. ASSUME Quiet("likes") PROVE SpinnersEnd
  BY <1>2 DEF Quiet, SpinnersEnd, RowBusy
<1> QED
  BY <1>1, <1>2 DEF EditorSteady
=============================================================================
