--------------------------- MODULE PeerMeshProofs ---------------------------
(***************************************************************************)
(* Proofs about the WebRTC mesh: whatever offers and answers cross, a      *)
(* connected pair that is calm, and of which no signal was lost, agrees on *)
(* the tracks.  Two browsers are compared as records of what each has      *)
(* (Browser); every step of the mesh is a composition of moves of one of   *)
(* them, and each move has a lemma.                                        *)
(***************************************************************************)
EXTENDS PeerMesh, SequenceTheorems, TLAPS

Signals == [kind : {"hello", "offer", "answer"}, gen : Nat, ver : Nat]
Items == Signals \cup {Negotiate}

-----------------------------------------------------------------------------
(* Signals and tasks that wait in a sequence.                              *)

Kinds(s) == {s[i].kind : i \in 1..Len(s)}

\* Every answer of s comes before an offer.
Followed(s) ==
    \A i \in 1..Len(s) : s[i].kind = "answer" => \E j \in i + 1..Len(s) : s[j].kind = "offer"

\* The last offer of session g in s, and the answers after it, are of tracks v.
Current(s, g, v) ==
    \A i \in 1..Len(s) :
        /\ s[i].kind \in {"offer", "answer"} /\ s[i].gen = g
        /\ \A j \in i + 1..Len(s) : s[j].kind # "offer"
        => s[i].ver = v

\* The signals of s are of the first n sessions.
Below(s, n) == \A i \in 1..Len(s) : s[i].kind # "negotiate" => s[i].gen <= n

LEMMA NegotiateKind == Negotiate.kind = "negotiate"
BY DEF Negotiate

LEMMA ItemKinds ==
  ASSUME NEW m \in Items
  PROVE  /\ m.kind \in {"hello", "offer", "answer", "negotiate"}
         /\ m.kind # "negotiate" => m \in Signals /\ m.gen \in Nat /\ m.ver \in Nat
         /\ m.kind = "negotiate" => m = Negotiate
BY NegotiateKind DEF Items, Signals

\* What an appended item is to the sequence.
LEMMA Appended ==
  ASSUME NEW S, NEW s \in Seq(S), NEW m \in S, NEW r, r = Append(s, m)
  PROVE  /\ r \in Seq(S) /\ Len(r) = Len(s) + 1 /\ r[Len(s) + 1] = m
         /\ \A i \in 1..Len(s) : r[i] = s[i]
BY AppendProperties, LenProperties

\* What is left of a sequence without its head.
LEMMA Shortened ==
  ASSUME NEW S, NEW s \in Seq(S), s # <<>>, NEW r, r = Tail(s)
  PROVE  /\ r \in Seq(S) /\ Len(s) \in Nat \ {0} /\ Len(r) = Len(s) - 1 /\ Head(s) = s[1]
         /\ Head(s) \in S
         /\ \A i \in 1..Len(r) : r[i] = s[i + 1]
BY HeadTailProperties, EmptySeq, LenProperties

\* A signal or task at the end of a sequence.
LEMMA LastItem ==
  ASSUME NEW s \in Seq(Items), NEW m \in Items, NEW r, r = Append(s, m)
  PROVE  /\ r \in Seq(Items)
         /\ Kinds(r) = Kinds(s) \cup {m.kind}
         /\ m.kind = "offer" \/ (m.kind # "answer" /\ Followed(s)) => Followed(r)
         /\ \A n : Below(s, n) /\ (m.kind # "negotiate" => m.gen <= n) => Below(r, n)
<1>1. /\ r \in Seq(Items) /\ Len(r) = Len(s) + 1 /\ r[Len(s) + 1] = m
      /\ \A i \in 1..Len(s) : r[i] = s[i]
  BY Appended
<1>2. Len(s) \in Nat
  BY LenProperties
<1>3. Kinds(r) = Kinds(s) \cup {m.kind}
  <2>1. 1..Len(r) = (1..Len(s)) \cup {Len(s) + 1}
    BY <1>1, <1>2
  <2> QED
    BY <1>1, <1>2, <2>1, SMTT(30) DEF Kinds
<1>4. ASSUME m.kind = "offer" \/ (m.kind # "answer" /\ Followed(s))
      PROVE  Followed(r)
  <2> SUFFICES ASSUME NEW i \in 1..Len(r), r[i].kind = "answer"
               PROVE  \E j \in i + 1..Len(r) : r[j].kind = "offer"
    BY DEF Followed
  <2>1. m.kind # "answer"
    BY <1>4
  <2>2. i \in 1..Len(s) /\ s[i].kind = "answer"
    BY <1>1, <1>2, <2>1
  <2>3. CASE m.kind = "offer"
    <3>1. Len(s) + 1 \in i + 1..Len(r)
      BY <1>1, <1>2, <2>2
    <3> QED
      BY <1>1, <2>3, <3>1
  <2>4. CASE Followed(s)
    <3>1. PICK j \in i + 1..Len(s) : s[j].kind = "offer"
      BY <2>2, <2>4 DEF Followed
    <3>2. j \in 1..Len(s) /\ j \in i + 1..Len(r)
      BY <1>1, <1>2, <2>2, <3>1
    <3> QED
      BY <1>1, <3>1, <3>2
  <2> QED
    BY <1>4, <2>3, <2>4
<1>5. ASSUME NEW n, Below(s, n), m.kind # "negotiate" => m.gen <= n
      PROVE  Below(r, n)
  <2> SUFFICES ASSUME NEW i \in 1..Len(r), r[i].kind # "negotiate"
               PROVE  r[i].gen <= n
    BY DEF Below
  <2>1. CASE i \in 1..Len(s)
    BY <1>1, <1>5, <2>1 DEF Below
  <2>2. CASE i = Len(s) + 1
    BY <1>1, <1>5, <2>2
  <2> QED
    BY <1>1, <1>2, <2>1, <2>2
<1> QED
  BY <1>1, <1>3, <1>4, <1>5

LEMMA LastCurrent ==
  ASSUME NEW s \in Seq(Items), NEW m \in Items, NEW r, r = Append(s, m), NEW g, NEW v,
         m.kind \in {"offer", "answer"} => m.gen # g \/ m.ver = v,
         m.kind = "offer" \/ Current(s, g, v)
  PROVE  Current(r, g, v)
<1>1. /\ r \in Seq(Items) /\ Len(r) = Len(s) + 1 /\ r[Len(s) + 1] = m
      /\ \A i \in 1..Len(s) : r[i] = s[i]
  BY Appended
<1>2. Len(s) \in Nat
  BY LenProperties
<1> SUFFICES ASSUME NEW i \in 1..Len(r), r[i].kind \in {"offer", "answer"}, r[i].gen = g,
                    \A j \in i + 1..Len(r) : r[j].kind # "offer"
             PROVE  r[i].ver = v
  BY DEF Current
<1>3. CASE i = Len(s) + 1
  BY <1>1, <1>3
<1>4. CASE i \in 1..Len(s)
  <2>1. Len(s) + 1 \in i + 1..Len(r)
    BY <1>1, <1>2, <1>4
  <2>2. m.kind # "offer"
    BY <1>1, <2>1
  <2>3. s[i].kind \in {"offer", "answer"} /\ s[i].gen = g
    BY <1>1, <1>4
  <2>4. ASSUME NEW j \in i + 1..Len(s)
        PROVE  s[j].kind # "offer"
    <3>1. j \in 1..Len(s) /\ j \in i + 1..Len(r)
      BY <1>1, <1>2, <1>4
    <3> QED
      BY <1>1, <3>1
  <2>5. s[i].ver = v
    BY <1>4, <2>2, <2>3, <2>4 DEF Current
  <2> QED
    BY <1>1, <1>4, <2>5
<1> QED
  BY <1>1, <1>2, <1>3, <1>4

\* A signal or task taken from the head of a sequence.
LEMMA FirstItem ==
  ASSUME NEW s \in Seq(Items), s # <<>>, NEW r, r = Tail(s), NEW m, m = Head(s)
  PROVE  /\ r \in Seq(Items) /\ m \in Items
         /\ Kinds(s) = Kinds(r) \cup {m.kind}
         /\ Followed(s) => Followed(r) /\ (m.kind = "answer" => "offer" \in Kinds(r))
         /\ \A n : Below(s, n) => Below(r, n) /\ (m.kind # "negotiate" => m.gen <= n)
<1>1. /\ r \in Seq(Items) /\ Len(s) \in Nat \ {0} /\ Len(r) = Len(s) - 1 /\ m = s[1] /\ m \in Items
      /\ \A i \in 1..Len(r) : r[i] = s[i + 1]
  BY Shortened
<1>2. ASSUME NEW j \in 2..Len(s)
      PROVE  j - 1 \in 1..Len(r) /\ r[j - 1] = s[j]
  BY <1>1
<1>3. Kinds(s) = Kinds(r) \cup {m.kind}
  <2>1. ASSUME NEW i \in 1..Len(s) PROVE s[i].kind \in Kinds(r) \cup {m.kind}
    <3>1. CASE i = 1
      BY <1>1, <3>1
    <3>2. CASE i \in 2..Len(s)
      BY <1>2, <3>2 DEF Kinds
    <3> QED
      BY <1>1, <3>1, <3>2
  <2>2. ASSUME NEW i \in 1..Len(r) PROVE r[i].kind \in Kinds(s)
    <3>1. i + 1 \in 1..Len(s)
      BY <1>1
    <3> QED
      BY <1>1, <3>1 DEF Kinds
  <2>3. m.kind \in Kinds(s)
    <3>1. 1 \in 1..Len(s)
      BY <1>1
    <3> QED
      BY <1>1, <3>1 DEF Kinds
  <2>4. Kinds(s) \subseteq Kinds(r) \cup {m.kind}
    BY <2>1 DEF Kinds
  <2>5. Kinds(r) \subseteq Kinds(s)
    BY <2>2 DEF Kinds
  <2> QED
    BY <2>3, <2>4, <2>5
<1>4. ASSUME Followed(s) PROVE Followed(r)
  <2> SUFFICES ASSUME NEW i \in 1..Len(r), r[i].kind = "answer"
               PROVE  \E j \in i + 1..Len(r) : r[j].kind = "offer"
    BY DEF Followed
  <2>1. i + 1 \in 1..Len(s) /\ s[i + 1].kind = "answer"
    BY <1>1
  <2>2. PICK j \in (i + 1) + 1..Len(s) : s[j].kind = "offer"
    BY <1>4, <2>1 DEF Followed
  <2>3. j \in 2..Len(s) /\ j - 1 \in i + 1..Len(r)
    BY <1>1, <2>1, <2>2
  <2> QED
    BY <1>2, <2>2, <2>3
<1>5. ASSUME Followed(s), m.kind = "answer" PROVE "offer" \in Kinds(r)
  <2>1. 1 \in 1..Len(s)
    BY <1>1
  <2>2. PICK j \in 1 + 1..Len(s) : s[j].kind = "offer"
    BY <1>1, <1>5, <2>1 DEF Followed
  <2>3. j - 1 \in 1..Len(r) /\ r[j - 1] = s[j]
    BY <1>2, <2>2
  <2> QED
    BY <2>2, <2>3 DEF Kinds
<1>6. ASSUME NEW n, Below(s, n) PROVE Below(r, n) /\ (m.kind # "negotiate" => m.gen <= n)
  <2>1. \A i \in 1..Len(r) : i + 1 \in 1..Len(s)
    BY <1>1
  <2>2. 1 \in 1..Len(s)
    BY <1>1
  <2> QED
    BY <1>1, <1>6, <2>1, <2>2 DEF Below
<1> QED
  BY <1>1, <1>3, <1>4, <1>5, <1>6

LEMMA FirstCurrent ==
  ASSUME NEW s \in Seq(Items), s # <<>>, NEW r, r = Tail(s), NEW g, NEW v, Current(s, g, v)
  PROVE  Current(r, g, v)
<1>1. /\ Len(s) \in Nat \ {0} /\ Len(r) = Len(s) - 1
      /\ \A i \in 1..Len(r) : r[i] = s[i + 1]
  BY Shortened
<1> SUFFICES ASSUME NEW i \in 1..Len(r), r[i].kind \in {"offer", "answer"}, r[i].gen = g,
                    \A j \in i + 1..Len(r) : r[j].kind # "offer"
             PROVE  r[i].ver = v
  BY DEF Current
<1>2. i + 1 \in 1..Len(s) /\ s[i + 1] = r[i]
  BY <1>1
<1>3. ASSUME NEW j \in (i + 1) + 1..Len(s) PROVE s[j].kind # "offer"
  <2>1. j - 1 \in 1..Len(r) /\ j - 1 \in i + 1..Len(r) /\ (j - 1) + 1 = j
    BY <1>1, <1>2
  <2>2. r[j - 1] = s[j]
    BY <1>1, <2>1
  <2> QED
    BY <2>1, <2>2
<1> QED
  BY <1>2, <1>3 DEF Current

\* Nothing overtakes the head of a sequence that no offer follows.
LEMMA HeadCurrent ==
  ASSUME NEW s \in Seq(Items), s # <<>>, NEW r, r = Tail(s), NEW m, m = Head(s),
         NEW g, NEW v, Current(s, g, v),
         m.kind \in {"offer", "answer"}, m.gen = g, "offer" \notin Kinds(r)
  PROVE  m.ver = v
<1>1. /\ Len(s) \in Nat \ {0} /\ Len(r) = Len(s) - 1 /\ m = s[1]
      /\ \A i \in 1..Len(r) : r[i] = s[i + 1]
  BY Shortened
<1>2. 1 \in 1..Len(s)
  BY <1>1
<1>3. ASSUME NEW j \in 1 + 1..Len(s) PROVE s[j].kind # "offer"
  <2>1. j - 1 \in 1..Len(r) /\ (j - 1) + 1 = j
    BY <1>1
  <2>2. r[j - 1] = s[j]
    BY <1>1, <2>1
  <2> QED
    BY <2>1, <2>2 DEF Kinds
<1> QED
  BY <1>1, <1>2, <1>3 DEF Current

\* A sequence with answers, each followed by an offer, has an offer.
LEMMA FollowedOffer ==
  ASSUME NEW s \in Seq(Items), Followed(s), "answer" \in Kinds(s)
  PROVE  "offer" \in Kinds(s)
<1>1. PICK i \in 1..Len(s) : s[i].kind = "answer"
  BY DEF Kinds
<1>2. PICK j \in i + 1..Len(s) : s[j].kind = "offer"
  BY <1>1 DEF Followed
<1>3. j \in 1..Len(s)
  BY <1>2, LenProperties
<1> QED
  BY <1>2, <1>3 DEF Kinds

\* A session that has just been opened has sent nothing yet.
LEMMA FreshCurrent ==
  ASSUME NEW s \in Seq(Items), NEW n \in Nat, Below(s, n), NEW g \in Nat, g > n, NEW v
  PROVE  Current(s, g, v)
<1> SUFFICES ASSUME NEW i \in 1..Len(s), s[i].kind \in {"offer", "answer"}, s[i].gen = g
             PROVE  FALSE
  BY DEF Current
<1>1. s[i] \in Items
  BY ElementOfSeq
<1>2. s[i].gen <= n
  BY DEF Below
<1> QED
  BY <1>2

LEMMA BelowMore ==
  ASSUME NEW s \in Seq(Items), NEW n \in Nat, Below(s, n), NEW m \in Nat, n <= m
  PROVE  Below(s, m)
<1> SUFFICES ASSUME NEW i \in 1..Len(s), s[i].kind # "negotiate"
             PROVE  s[i].gen <= m
  BY DEF Below
<1>1. s[i].gen \in Nat
  BY ElementOfSeq, ItemKinds
<1> QED
  BY <1>1 DEF Below

LEMMA NothingWaits ==
  /\ <<>> \in Seq(Items) /\ Kinds(<<>>) = {} /\ Followed(<<>>)
  /\ \A n : Below(<<>>, n)
  /\ \A g, v : Current(<<>>, g, v)
BY EmptySeq DEF Kinds, Followed, Below, Current

\* Taking a session of a browser that opens, nothing but its wish may wait.
LEMMA OneWaits ==
  /\ <<Negotiate>> \in Seq(Items) /\ Kinds(<<Negotiate>>) = {"negotiate"} /\ Followed(<<Negotiate>>)
  /\ \A n : Below(<<Negotiate>>, n)
  /\ \A g, v : Current(<<Negotiate>>, g, v)
<1>1. Negotiate \in Items
  BY DEF Items
<1>2. Len(<<Negotiate>>) = 1 /\ <<Negotiate>>[1] = Negotiate
  OBVIOUS
<1> QED
  BY <1>1, <1>2, NegotiateKind DEF Kinds, Followed, Below, Current

-----------------------------------------------------------------------------
(* What the two browsers of a pair hold of each other.                     *)

\* A browser: its session, how many it has opened, its tracks, its queue, and
\* the signals on their way to it.
Browsers ==
    [sess : Sessions \cup {None}, born : Nat, tracks : Nat, queue : Seq(Items), wire : Seq(Signals)]
Coming(a) == Kinds(a.queue) \cup Kinds(a.wire)

\* Sessions are known by numbers already given.
Numbered(a, b) ==
    /\ a.sess # None => a.sess.gen = a.born /\ (a.sess.peer # None => a.sess.peer <= b.born)
    /\ a.sess = None => a.queue = <<>>
    /\ Below(a.wire, b.born) /\ Below(a.queue, b.born)

\* A wish to negotiate is remembered: by a task, or by the offer it waits for.
Wants(a) == a.sess.needs => a.sess.sig = "offering" \/ "negotiate" \in Kinds(a.queue)
\* Without one, the offers have carried the present tracks.
Carried(a) == a.sess.needs \/ a.sess.sent = a.tracks
\* While its offer is open, what it has answered before comes before that offer.
Opens(a, b) ==
    a.sess.sig = "offering" =>
        Followed(b.wire) /\ ("offer" \in Kinds(b.wire) \/ Followed(b.queue))
\* What it last described on the way to the other are its present tracks.
Latest(a, b) ==
    ~a.sess.needs =>
        /\ Current(b.wire, a.sess.gen, a.tracks)
        /\ "offer" \in Kinds(b.wire) \/ Current(b.queue, a.sess.gen, a.tracks)
\* One of the two has a description of the other's session.
Known(a, b) ==
    /\ a.sess # None /\ b.sess # None
    /\ a.sess.peer = b.sess.gen \/ b.sess.peer = a.sess.gen
\* An open offer will be closed: it is on its way, or its answer is, or the
\* offer that crossed it, if it is this side that gives in.
Hoped(p, a, b) ==
    Known(a, b) /\ a.sess.sig = "offering" =>
        "offer" \in Coming(b) \/ "answer" \in Coming(a) \/ (polite(p) /\ "offer" \in Coming(a))
\* It knows the other's present tracks, or an offer of them is coming.
Heard(a, b) ==
    /\ b.sess # None /\ a.sess.peer = b.sess.gen /\ a.sess.sig = "stable" /\ ~b.sess.needs
    => a.sess.got = b.tracks \/ "offer" \in Coming(a)

Side(p, a, b) ==
    /\ Numbered(a, b)
    /\ a.sess # None =>
          Wants(a) /\ Carried(a) /\ Opens(a, b) /\ Latest(a, b) /\ Hoped(p, a, b) /\ Heard(a, b)
Pair(p, a, b) ==
    a \in Browsers /\ b \in Browsers /\ Side(p, a, b) /\ Side(Other(p), b, a)

LEMMA TwoPeers ==
  ASSUME NEW p \in Peers
  PROVE  /\ Other(p) \in Peers /\ Other(Other(p)) = p /\ Other(p) # p
         /\ \A q \in Peers : q = p \/ q = Other(p)
         /\ polite(Other(p)) <=> ~polite(p)
BY DEF Peers, Other, polite

LEMMA PairTurns ==
  ASSUME NEW p \in Peers, NEW a, NEW b, Pair(p, a, b)
  PROVE  Pair(Other(p), b, a)
BY TwoPeers DEF Pair

LEMMA KnownTurns ==
  ASSUME NEW a, NEW b
  PROVE  Known(a, b) <=> Known(b, a)
BY DEF Known

LEMMA SignalItems == ASSUME NEW s \in Seq(Signals) PROVE s \in Seq(Items)
BY SeqMonotonic DEF Items

LEMMA BrowserFields ==
  ASSUME NEW a \in Browsers
  PROVE  /\ a.born \in Nat /\ a.tracks \in Nat /\ a.queue \in Seq(Items)
         /\ a.wire \in Seq(Signals) /\ a.wire \in Seq(Items)
         /\ a.sess # None =>
              /\ a.sess \in Sessions /\ a.sess.gen \in Nat /\ a.sess.sig \in {"stable", "offering"}
              /\ a.sess.needs \in BOOLEAN /\ a.sess.sent \in Nat /\ a.sess.got \in Nat
              /\ a.sess.peer \in Nat \cup {None}
BY SignalItems DEF Browsers, Sessions

-----------------------------------------------------------------------------
(* The moves of a browser a; b is the other.                               *)

\* A session is opened: the other cannot know it yet.
LEMMA MoveOpened ==
  ASSUME NEW p \in Peers, NEW a, NEW b, Pair(p, a, b), NEW c \in Browsers,
         c.sess # None, c.sess.gen = a.born + 1, c.sess.sig = "stable", c.sess.peer = None,
         c.sess.sent = 0, c.sess.needs <=> a.tracks > 0,
         c.born = a.born + 1, c.tracks = a.tracks, c.wire = a.wire,
         c.queue = IF a.tracks > 0 THEN <<Negotiate>> ELSE <<>>
  PROVE  Pair(p, c, b)
<1> DEFINE o == Other(p)
<1>1. /\ a \in Browsers /\ b \in Browsers /\ Side(p, a, b) /\ Side(o, b, a)
  BY DEF Pair
<1>2. /\ Numbered(a, b) /\ Numbered(b, a)
  BY <1>1 DEF Side
<1>3. /\ a.born \in Nat /\ a.tracks \in Nat /\ b.queue \in Seq(Items) /\ b.wire \in Seq(Items)
      /\ b.born \in Nat
      /\ b.sess # None => b.sess.gen \in Nat /\ b.sess.peer \in Nat \cup {None}
  BY <1>1, BrowserFields
<1>4. /\ Followed(c.queue) /\ \A g, v : Current(c.queue, g, v)
      /\ \A n : Below(c.queue, n)
      /\ c.sess.needs => "negotiate" \in Kinds(c.queue)
  BY NothingWaits, OneWaits
<1>5. /\ Below(b.wire, a.born) /\ Below(b.queue, a.born) /\ Below(a.wire, b.born)
  BY <1>2 DEF Numbered
<1>6. /\ Current(b.wire, a.born + 1, a.tracks) /\ Current(b.queue, a.born + 1, a.tracks)
  BY <1>3, <1>5, FreshCurrent
<1>7. Below(b.wire, a.born + 1) /\ Below(b.queue, a.born + 1)
  BY <1>3, <1>5, BelowMore
<1>8. ~Known(c, b) /\ ~Known(b, c) /\ (b.sess # None => b.sess.peer # c.sess.gen)
      /\ (b.sess # None => c.sess.peer # b.sess.gen)
  BY <1>2, <1>3, MeshAssumption DEF Known, Numbered
<1>9. Side(p, c, b)
  <2>1. Numbered(c, b)
    BY <1>4, <1>5 DEF Numbered
  <2>2. Wants(c) /\ Carried(c)
    BY <1>3, <1>4 DEF Wants, Carried
  <2>3. Opens(c, b)
    BY DEF Opens
  <2>4. Latest(c, b)
    BY <1>6 DEF Latest
  <2>5. Hoped(p, c, b) /\ Heard(c, b)
    BY <1>8 DEF Hoped, Heard
  <2> QED
    BY <2>1, <2>2, <2>3, <2>4, <2>5 DEF Side
<1>10. Side(o, b, c)
  <2>1. Numbered(b, c)
    BY <1>2, <1>3, <1>7 DEF Numbered
  <2>2. ASSUME b.sess # None
        PROVE  Opens(b, c) /\ Latest(b, c) /\ Hoped(o, b, c) /\ Heard(b, c)
    BY <1>1, <1>4, <1>8, <2>2 DEF Side, Opens, Latest, Hoped, Heard
  <2> QED
    BY <1>1, <2>1, <2>2 DEF Side
<1> QED
  BY <1>1, <1>9, <1>10 DEF Pair

\* A hello goes to the other.
LEMMA MoveHello ==
  ASSUME NEW p \in Peers, NEW a, NEW b, Pair(p, a, b), NEW d \in Browsers,
         NEW m \in Signals, m.kind = "hello", m.gen <= a.born,
         d.sess = b.sess, d.born = b.born, d.tracks = b.tracks, d.queue = b.queue,
         d.wire = Append(b.wire, m)
  PROVE  Pair(p, a, d)
<1> DEFINE o == Other(p)
<1>1. /\ a \in Browsers /\ b \in Browsers /\ Side(p, a, b) /\ Side(o, b, a)
  BY DEF Pair
<1>2. /\ Kinds(d.wire) = Kinds(b.wire) \cup {"hello"}
      /\ Followed(b.wire) => Followed(d.wire)
      /\ Below(b.wire, a.born) => Below(d.wire, a.born)
      /\ \A g, v : Current(b.wire, g, v) => Current(d.wire, g, v)
  <2>1. b.wire \in Seq(Items) /\ m \in Items
    BY <1>1, BrowserFields DEF Items
  <2>2. \A g, v : Current(b.wire, g, v) => Current(d.wire, g, v)
    BY <2>1, LastCurrent
  <2>3. Kinds(d.wire) = Kinds(b.wire) \cup {m.kind}
    BY <2>1, LastItem, Zenon
  <2>4. Followed(b.wire) => Followed(d.wire)
    BY <2>1, LastItem
  <2>5. Below(b.wire, a.born) => Below(d.wire, a.born)
    BY <2>1, LastItem
  <2> QED
    BY <2>2, <2>3, <2>4, <2>5
<1>3. Side(p, a, d)
  <2>1. Known(a, d) <=> Known(a, b)
    BY DEF Known
  <2>2. Coming(d) = Coming(b) \cup {"hello"}
    BY <1>2 DEF Coming
  <2>3. Numbered(a, d)
    BY <1>1 DEF Side, Numbered
  <2>4. ASSUME a.sess # None
        PROVE  Opens(a, d) /\ Latest(a, d) /\ Hoped(p, a, d) /\ Heard(a, d)
    BY <1>1, <1>2, <2>1, <2>2, <2>4 DEF Side, Opens, Latest, Hoped, Heard
  <2> QED
    BY <1>1, <2>3, <2>4 DEF Side
<1>4. Side(o, d, a)
  <2>1. Known(d, a) <=> Known(b, a)
    BY DEF Known
  <2>2. Coming(d) = Coming(b) \cup {"hello"}
    BY <1>2 DEF Coming
  <2>3. Numbered(d, a)
    BY <1>1, <1>2 DEF Side, Numbered
  <2>4. ASSUME d.sess # None
        PROVE  Wants(d) /\ Carried(d) /\ Opens(d, a) /\ Latest(d, a) /\ Hoped(o, d, a) /\ Heard(d, a)
    BY <1>1, <2>1, <2>2, <2>4 DEF Side, Wants, Carried, Opens, Latest, Hoped, Heard
  <2> QED
    BY <2>3, <2>4 DEF Side
<1> QED
  BY <1>1, <1>3, <1>4 DEF Pair

\* It wishes to negotiate; its tracks may have changed.
LEMMA MoveWishes ==
  ASSUME NEW p \in Peers, NEW a, NEW b, Pair(p, a, b), NEW c \in Browsers, a.sess # None,
         c.sess # None, c.sess.gen = a.sess.gen, c.sess.sig = a.sess.sig, c.sess.needs,
         c.sess.sent = a.sess.sent, c.sess.peer = a.sess.peer, c.sess.got = a.sess.got,
         c.born = a.born, c.wire = a.wire, c.queue = Append(a.queue, Negotiate)
  PROVE  Pair(p, c, b)
<1> DEFINE o == Other(p)
<1>1. /\ a \in Browsers /\ b \in Browsers /\ Side(p, a, b) /\ Side(o, b, a)
  BY DEF Pair
<1>2. a.queue \in Seq(Items) /\ Negotiate \in Items
  BY <1>1, BrowserFields DEF Items
<1>3. Kinds(c.queue) = Kinds(a.queue) \cup {Negotiate.kind}
  BY <1>2, LastItem, Zenon
<1>4. /\ Followed(a.queue) => Followed(c.queue)
      /\ Below(a.queue, b.born) => Below(c.queue, b.born)
  BY <1>2, LastItem, NegotiateKind
<1>5. \A g, v : Current(a.queue, g, v) => Current(c.queue, g, v)
  BY <1>2, LastCurrent, NegotiateKind
<1>6. Coming(c) = Coming(a) \cup {"negotiate"}
  BY <1>3, NegotiateKind DEF Coming
<1>7. (Known(c, b) <=> Known(a, b)) /\ (Known(b, c) <=> Known(b, a))
  BY DEF Known
<1>8. Side(p, c, b)
  <2>1. Numbered(c, b)
    BY <1>1, <1>4 DEF Side, Numbered
  <2>2. Wants(c) /\ Carried(c)
    BY <1>3, NegotiateKind DEF Wants, Carried
  <2>3. Opens(c, b) /\ Latest(c, b) /\ Hoped(p, c, b) /\ Heard(c, b)
    BY <1>1, <1>6, <1>7 DEF Side, Opens, Latest, Hoped, Heard
  <2> QED
    BY <2>1, <2>2, <2>3 DEF Side
<1>9. Side(o, b, c)
  <2>1. Numbered(b, c)
    BY <1>1 DEF Side, Numbered
  <2>2. ASSUME b.sess # None
        PROVE  Opens(b, c) /\ Latest(b, c) /\ Hoped(o, b, c) /\ Heard(b, c)
    BY <1>1, <1>4, <1>5, <1>6, <1>7, <2>2 DEF Side, Opens, Latest, Hoped, Heard
  <2> QED
    BY <1>1, <2>1, <2>2 DEF Side
<1> QED
  BY <1>1, <1>8, <1>9 DEF Pair

\* A hello has arrived.
LEMMA MoveGreeted ==
  ASSUME NEW p \in Peers, NEW a, NEW b, Pair(p, a, b), NEW c \in Browsers,
         a.wire # <<>>, Head(a.wire).kind = "hello",
         c.sess = a.sess, c.born = a.born, c.tracks = a.tracks, c.queue = a.queue,
         c.wire = Tail(a.wire)
  PROVE  Pair(p, c, b)
<1> DEFINE o == Other(p)
<1>1. /\ a \in Browsers /\ b \in Browsers /\ Side(p, a, b) /\ Side(o, b, a)
  BY DEF Pair
<1>2. a.wire \in Seq(Items)
  BY <1>1, BrowserFields
<1>3. Kinds(a.wire) = Kinds(c.wire) \cup {Head(a.wire).kind}
  BY <1>2, FirstItem, Zenon
<1>4. /\ Followed(a.wire) => Followed(c.wire)
      /\ Below(a.wire, b.born) => Below(c.wire, b.born)
  BY <1>2, FirstItem
<1>5. \A g, v : Current(a.wire, g, v) => Current(c.wire, g, v)
  BY <1>2, FirstCurrent
<1>6. Coming(a) = Coming(c) \cup {"hello"}
  BY <1>3 DEF Coming
<1>7. (Known(c, b) <=> Known(a, b)) /\ (Known(b, c) <=> Known(b, a))
  BY DEF Known
<1>8. Side(p, c, b)
  <2>1. Numbered(c, b)
    BY <1>1, <1>4 DEF Side, Numbered
  <2>2. ASSUME a.sess # None
        PROVE  Wants(c) /\ Carried(c) /\ Opens(c, b) /\ Latest(c, b) /\ Hoped(p, c, b) /\ Heard(c, b)
    BY <1>1, <1>6, <1>7, <2>2 DEF Side, Wants, Carried, Opens, Latest, Hoped, Heard
  <2> QED
    BY <2>1, <2>2 DEF Side
<1>9. Side(o, b, c)
  <2>1. Numbered(b, c)
    BY <1>1 DEF Side, Numbered
  <2>2. ASSUME b.sess # None
        PROVE  Opens(b, c) /\ Latest(b, c) /\ Hoped(o, b, c) /\ Heard(b, c)
    BY <1>1, <1>3, <1>4, <1>5, <1>6, <1>7, <2>2 DEF Side, Opens, Latest, Hoped, Heard
  <2> QED
    BY <1>1, <2>1, <2>2 DEF Side
<1> QED
  BY <1>1, <1>8, <1>9 DEF Pair

\* An offer or an answer has arrived, and waits in the queue.
LEMMA MoveDelivered ==
  ASSUME NEW p \in Peers, NEW a, NEW b, Pair(p, a, b), NEW c \in Browsers, a.sess # None,
         a.wire # <<>>, Head(a.wire).kind \in {"offer", "answer"},
         c.sess = a.sess, c.born = a.born, c.tracks = a.tracks,
         c.queue = Append(a.queue, Head(a.wire)), c.wire = Tail(a.wire)
  PROVE  Pair(p, c, b)
<1> DEFINE o == Other(p)
           m == Head(a.wire)
<1>1. /\ a \in Browsers /\ b \in Browsers /\ Side(p, a, b) /\ Side(o, b, a)
  BY DEF Pair
<1>2. a.wire \in Seq(Items) /\ a.queue \in Seq(Items) /\ m \in Items
  BY <1>1, BrowserFields, FirstItem
<1>3. Kinds(a.wire) = Kinds(c.wire) \cup {m.kind}
  BY <1>2, FirstItem, Zenon
<1>4. Kinds(c.queue) = Kinds(a.queue) \cup {m.kind}
  BY <1>2, LastItem, Zenon
<1>5. /\ Followed(a.wire) => Followed(c.wire) /\ (m.kind = "answer" => "offer" \in Kinds(c.wire))
      /\ Below(a.wire, b.born) => Below(c.wire, b.born) /\ m.gen <= b.born
  BY <1>2, FirstItem
<1>6. ASSUME NEW g, NEW v, Current(a.wire, g, v)
      PROVE  /\ Current(c.wire, g, v)
             /\ m.gen = g /\ "offer" \notin Kinds(c.wire) => m.ver = v
  <2>1. Current(c.wire, g, v)
    BY <1>2, <1>6, FirstCurrent
  <2>2. m.gen = g /\ "offer" \notin Kinds(c.wire) => m.ver = v
    BY <1>2, <1>6, HeadCurrent
  <2> QED
    BY <2>1, <2>2
<1>7. /\ m.kind = "offer" \/ (m.kind # "answer" /\ Followed(a.queue)) => Followed(c.queue)
      /\ Below(a.queue, b.born) /\ m.gen <= b.born => Below(c.queue, b.born)
  BY <1>2, LastItem
<1>8. ASSUME NEW g, NEW v, m.gen # g \/ m.ver = v, m.kind = "offer" \/ Current(a.queue, g, v)
      PROVE  Current(c.queue, g, v)
  BY <1>2, <1>8, LastCurrent
<1>9. Coming(c) = Coming(a)
  BY <1>3, <1>4 DEF Coming
<1>10. (Known(c, b) <=> Known(a, b)) /\ (Known(b, c) <=> Known(b, a))
  BY DEF Known
<1> HIDE DEF m
<1>11. Side(p, c, b)
  <2>1. Numbered(c, b)
    BY <1>1, <1>5, <1>7 DEF Side, Numbered
  <2>2. Wants(c)
    BY <1>1, <1>4 DEF Side, Wants
  <2>3. Carried(c) /\ Opens(c, b) /\ Latest(c, b)
    BY <1>1 DEF Side, Carried, Opens, Latest
  <2>4. Hoped(p, c, b) /\ Heard(c, b)
    <3>1. "answer" \in Coming(c) <=> "answer" \in Coming(a)
      BY <1>9
    <3> QED
      BY <1>1, <1>9, <1>10 DEF Side, Hoped, Heard
  <2> QED
    BY <2>1, <2>2, <2>3, <2>4 DEF Side
<1>12. Side(o, b, c)
  <2>1. Numbered(b, c)
    BY <1>1 DEF Side, Numbered
  <2>2. ASSUME b.sess # None PROVE Opens(b, c)
    <3> SUFFICES ASSUME b.sess.sig = "offering"
                 PROVE  Followed(c.wire) /\ ("offer" \in Kinds(c.wire) \/ Followed(c.queue))
      BY DEF Opens
    <3>1. Followed(a.wire) /\ ("offer" \in Kinds(a.wire) \/ Followed(a.queue))
      BY <1>1, <2>2 DEF Side, Opens
    <3>2. CASE m.kind = "offer"
      BY <1>5, <1>7, <3>1, <3>2
    <3>3. CASE m.kind = "answer"
      BY <1>5, <3>1, <3>3
    <3> QED
      BY <3>2, <3>3 DEF m
  <2>3. ASSUME b.sess # None PROVE Latest(b, c)
    <3> SUFFICES ASSUME ~b.sess.needs
                 PROVE  /\ Current(c.wire, b.sess.gen, b.tracks)
                        /\ "offer" \in Kinds(c.wire) \/ Current(c.queue, b.sess.gen, b.tracks)
      BY DEF Latest
    <3>1. /\ Current(a.wire, b.sess.gen, b.tracks)
          /\ "offer" \in Kinds(a.wire) \/ Current(a.queue, b.sess.gen, b.tracks)
      BY <1>1, <2>3 DEF Side, Latest
    <3>2. Current(c.wire, b.sess.gen, b.tracks)
      BY <1>6, <3>1
    <3>3. CASE "offer" \notin Kinds(c.wire)
      <4>1. m.gen # b.sess.gen \/ m.ver = b.tracks
        BY <1>6, <3>1, <3>3
      <4>2. m.kind = "offer" \/ Current(a.queue, b.sess.gen, b.tracks)
        BY <1>3, <3>1, <3>3
      <4> QED
        BY <1>8, <3>2, <4>1, <4>2
    <3> QED
      BY <3>2, <3>3
  <2>4. ASSUME b.sess # None PROVE Hoped(o, b, c) /\ Heard(b, c)
    BY <1>1, <1>9, <1>10, <2>4 DEF Side, Hoped, Heard
  <2> QED
    BY <1>1, <2>1, <2>2, <2>3, <2>4 DEF Side
<1> QED
  BY <1>1, <1>11, <1>12 DEF Pair

\* Without a session it forgets what waits: it has closed, or a signal reaches
\* it after it has gone.
LEMMA MoveForgets ==
  ASSUME NEW p \in Peers, NEW a, NEW b, Pair(p, a, b), NEW c \in Browsers,
         c.sess = None, c.queue = <<>>, c.born = a.born,
         c.wire = a.wire \/ (a.wire # <<>> /\ c.wire = Tail(a.wire))
  PROVE  Pair(p, c, b)
<1> DEFINE o == Other(p)
<1>1. /\ a \in Browsers /\ b \in Browsers /\ Side(p, a, b) /\ Side(o, b, a)
  BY DEF Pair
<1>2. a.wire \in Seq(Items)
  BY <1>1, BrowserFields
<1>3. /\ Followed(a.wire) => Followed(c.wire)
      /\ Below(a.wire, b.born) => Below(c.wire, b.born)
  <2>1. CASE c.wire = a.wire
    BY <2>1
  <2>2. CASE a.wire # <<>> /\ c.wire = Tail(a.wire)
    BY <1>2, <2>2, FirstItem
  <2> QED
    BY <2>1, <2>2
<1>4. \A g, v : Current(a.wire, g, v) => Current(c.wire, g, v)
  <2>1. CASE c.wire = a.wire
    BY <2>1
  <2>2. CASE a.wire # <<>> /\ c.wire = Tail(a.wire)
    BY <1>2, <2>2, FirstCurrent
  <2> QED
    BY <2>1, <2>2
<1>5. /\ Followed(c.queue) /\ Below(c.queue, b.born) /\ \A g, v : Current(c.queue, g, v)
  BY NothingWaits
<1>6. Side(p, c, b)
  BY <1>1, <1>3, <1>5 DEF Side, Numbered
<1>7. Side(o, b, c)
  <2>1. Numbered(b, c)
    BY <1>1 DEF Side, Numbered
  <2>2. ASSUME b.sess # None
        PROVE  Opens(b, c) /\ Latest(b, c) /\ Hoped(o, b, c) /\ Heard(b, c)
    BY <1>1, <1>3, <1>4, <1>5, <2>2 DEF Side, Opens, Latest, Hoped, Heard, Known
  <2> QED
    BY <1>1, <2>1, <2>2 DEF Side
<1> QED
  BY <1>1, <1>6, <1>7 DEF Pair

\* The connection changes its state.
LEMMA MoveConnection ==
  ASSUME NEW p \in Peers, NEW a, NEW b, Pair(p, a, b), NEW c \in Browsers, a.sess # None,
         c.sess # None, c.sess.gen = a.sess.gen, c.sess.sig = a.sess.sig,
         c.sess.needs <=> a.sess.needs,
         c.sess.sent = a.sess.sent, c.sess.peer = a.sess.peer, c.sess.got = a.sess.got,
         c.born = a.born, c.tracks = a.tracks, c.wire = a.wire, c.queue = a.queue
  PROVE  Pair(p, c, b)
<1> DEFINE o == Other(p)
<1>1. /\ a \in Browsers /\ b \in Browsers /\ Side(p, a, b) /\ Side(o, b, a)
  BY DEF Pair
<1>2. (Known(c, b) <=> Known(a, b)) /\ (Known(b, c) <=> Known(b, a)) /\ Coming(c) = Coming(a)
  BY DEF Known, Coming
<1>3. Side(p, c, b)
  BY <1>1, <1>2 DEF Side, Numbered, Wants, Carried, Opens, Latest, Hoped, Heard
<1>4. Side(o, b, c)
  <2>1. Numbered(b, c)
    BY <1>1 DEF Side, Numbered
  <2>2. ASSUME b.sess # None
        PROVE  Opens(b, c) /\ Latest(b, c) /\ Hoped(o, b, c) /\ Heard(b, c)
    BY <1>1, <1>2, <2>2 DEF Side, Opens, Latest, Hoped, Heard
  <2> QED
    BY <1>1, <2>1, <2>2 DEF Side
<1> QED
  BY <1>1, <1>3, <1>4 DEF Pair

\* It takes a task from its queue and sends an offer of its present tracks.
LEMMA MoveOffers ==
  ASSUME NEW p \in Peers, NEW a, NEW b, Pair(p, a, b),
         NEW c \in Browsers, NEW d \in Browsers, a.sess # None,
         a.queue # <<>>, Head(a.queue).kind = "negotiate", a.sess.sig = "stable",
         c.sess # None, c.sess.gen = a.sess.gen, c.sess.sig = "offering", ~c.sess.needs,
         c.sess.sent = a.tracks, c.sess.peer = a.sess.peer, c.sess.got = a.sess.got,
         c.born = a.born, c.tracks = a.tracks, c.wire = a.wire, c.queue = Tail(a.queue),
         d.sess = b.sess, d.born = b.born, d.tracks = b.tracks, d.queue = b.queue,
         NEW m \in Signals, m.kind = "offer", m.gen = a.sess.gen, m.ver = a.tracks,
         d.wire = Append(b.wire, m)
  PROVE  Pair(p, c, d)
<1> DEFINE o == Other(p)
<1>1. /\ a \in Browsers /\ b \in Browsers /\ Side(p, a, b) /\ Side(o, b, a)
  BY DEF Pair
<1>2. a.queue \in Seq(Items) /\ b.wire \in Seq(Items) /\ m \in Items
  BY <1>1, BrowserFields DEF Items
<1>3. Kinds(a.queue) = Kinds(c.queue) \cup {Head(a.queue).kind}
  BY <1>2, FirstItem, Zenon
<1>4. Kinds(d.wire) = Kinds(b.wire) \cup {m.kind}
  BY <1>2, LastItem, Zenon
<1>5. /\ Followed(a.queue) => Followed(c.queue)
      /\ Below(a.queue, b.born) => Below(c.queue, b.born)
  BY <1>2, FirstItem
<1>6. \A g, v : Current(a.queue, g, v) => Current(c.queue, g, v)
  BY <1>2, FirstCurrent
<1>7. Followed(d.wire) /\ Current(d.wire, a.sess.gen, a.tracks)
  <2>1. Followed(d.wire)
    BY <1>2, LastItem
  <2>2. ASSUME NEW g, NEW v, m.ver = v PROVE Current(d.wire, g, v)
    BY ZenonT(30), <1>2, <2>2, LastCurrent
  <2> QED
    BY <2>1, <2>2
<1>8. Below(b.wire, a.born) /\ m.gen <= a.born => Below(d.wire, a.born)
  BY <1>2, LastItem
<1>9. a.sess.gen = a.born /\ m.gen <= a.born
  BY <1>1, BrowserFields DEF Side, Numbered
<1>10. /\ "offer" \in Kinds(d.wire) /\ "offer" \in Coming(d)
       /\ \A k \in {"offer", "answer"} : (k \in Coming(c) <=> k \in Coming(a))
  BY <1>3, <1>4 DEF Coming
<1>11. (Known(c, d) <=> Known(a, b)) /\ (Known(d, c) <=> Known(b, a))
  BY DEF Known
<1>12. Side(p, c, d)
  <2>1. Numbered(c, d)
    BY <1>1, <1>5, <1>9 DEF Side, Numbered
  <2>2. Wants(c) /\ Carried(c) /\ Opens(c, d) /\ Latest(c, d)
    BY <1>7, <1>10 DEF Wants, Carried, Opens, Latest
  <2>3. Hoped(p, c, d) /\ Heard(c, d)
    BY <1>10 DEF Hoped, Heard
  <2> QED
    BY <2>1, <2>2, <2>3 DEF Side
<1>13. Side(o, d, c)
  <2>1. Numbered(d, c)
    BY <1>1, <1>8, <1>9 DEF Side, Numbered
  <2>2. ASSUME d.sess # None
        PROVE  Wants(d) /\ Carried(d) /\ Opens(d, c) /\ Latest(d, c)
    BY <1>1, <1>5, <1>6, <2>2 DEF Side, Wants, Carried, Opens, Latest
  <2>3. ASSUME d.sess # None PROVE Hoped(o, d, c)
    <3>1. "answer" \in Coming(b) => "answer" \in Coming(d)
      BY <1>4 DEF Coming
    <3> QED
      BY <1>1, <1>10, <1>11, <2>3, <3>1 DEF Side, Hoped
  <2>4. Heard(d, c)
    BY <1>10 DEF Heard
  <2> QED
    BY <2>1, <2>2, <2>3, <2>4 DEF Side
<1> QED
  BY <1>12, <1>13 DEF Pair

\* It takes a task or signal from its queue and does nothing: an offer is open
\* or none is wanted; the impolite side drops an offer that crossed its own; an
\* answer to no offer is an error.
LEMMA MoveSkips ==
  ASSUME NEW p \in Peers, NEW a, NEW b, Pair(p, a, b), NEW c \in Browsers, a.sess # None,
         a.queue # <<>>,
         \/ Head(a.queue).kind = "negotiate" /\ ~(a.sess.needs /\ a.sess.sig = "stable")
         \/ Head(a.queue).kind = "offer" /\ ~polite(p) /\ a.sess.sig = "offering"
         \/ Head(a.queue).kind = "answer" /\ a.sess.sig = "stable",
         c.sess = a.sess, c.born = a.born, c.tracks = a.tracks, c.wire = a.wire,
         c.queue = Tail(a.queue)
  PROVE  Pair(p, c, b)
<1> DEFINE o == Other(p)
<1>1. /\ a \in Browsers /\ b \in Browsers /\ Side(p, a, b) /\ Side(o, b, a)
  BY DEF Pair
<1>2. a.queue \in Seq(Items) /\ c.queue \in Seq(Items) /\ a.wire \in Seq(Items)
      /\ a.sess.sig \in {"stable", "offering"}
  BY <1>1, BrowserFields
<1>3. Kinds(a.queue) = Kinds(c.queue) \cup {Head(a.queue).kind}
  BY <1>2, FirstItem, Zenon
<1>4. /\ Followed(a.queue) => Followed(c.queue)
      /\ Below(a.queue, b.born) => Below(c.queue, b.born)
  BY <1>2, FirstItem
<1>5. \A g, v : Current(a.queue, g, v) => Current(c.queue, g, v)
  BY <1>2, FirstCurrent
<1>6. /\ \A k : k # Head(a.queue).kind => (k \in Kinds(c.queue) <=> k \in Kinds(a.queue))
      /\ \A k : k # Head(a.queue).kind => (k \in Coming(c) <=> k \in Coming(a))
  BY <1>3 DEF Coming
<1>7. (Known(c, b) <=> Known(a, b)) /\ (Known(b, c) <=> Known(b, a)) /\ (Known(a, b) <=> Known(b, a))
  BY DEF Known
<1>8. Side(p, c, b)
  <2>1. Numbered(c, b)
    BY <1>1, <1>4 DEF Side, Numbered
  <2>2. Wants(c)
    BY <1>1, <1>2, <1>6 DEF Side, Wants
  <2>3. Carried(c) /\ Opens(c, b) /\ Latest(c, b)
    BY <1>1 DEF Side, Carried, Opens, Latest
  <2>4. Hoped(p, c, b) /\ Heard(c, b)
    BY <1>1, <1>6, <1>7 DEF Side, Hoped, Heard
  <2> QED
    BY <2>1, <2>2, <2>3, <2>4 DEF Side
<1>9. Side(o, b, c)
  <2>1. Numbered(b, c)
    BY <1>1 DEF Side, Numbered
  <2>2. ASSUME b.sess # None PROVE Opens(b, c) /\ Latest(b, c) /\ Heard(b, c)
    BY <1>1, <1>4, <1>5, <2>2 DEF Side, Opens, Latest, Heard
  <2>3. ASSUME b.sess # None PROVE Hoped(o, b, c)
    <3>1. CASE Head(a.queue).kind # "offer"
      BY <1>1, <1>6, <1>7, <2>3, <3>1 DEF Side, Hoped
    <3>2. CASE Head(a.queue).kind = "offer" /\ ~polite(p) /\ a.sess.sig = "offering"
      <4> SUFFICES ASSUME Known(b, c), b.sess.sig = "offering"
                   PROVE  "offer" \in Coming(c) \/ (polite(o) /\ "offer" \in Coming(b))
        BY DEF Hoped
      <4>1. "offer" \in Coming(b) \/ "answer" \in Coming(a)
        BY <1>1, <1>7, <3>2 DEF Side, Hoped
      <4>2. Followed(a.wire) /\ ("offer" \in Kinds(a.wire) \/ Followed(a.queue))
        BY <1>1, <2>3 DEF Side, Opens
      <4>3. ASSUME "answer" \in Coming(a) PROVE "offer" \in Coming(c)
        <5>1. "answer" \in Kinds(c.queue) \/ "answer" \in Kinds(a.wire)
          BY <1>6, <3>2, <4>3 DEF Coming
        <5>2. CASE "answer" \in Kinds(a.wire)
          BY <1>2, <4>2, <5>2, FollowedOffer DEF Coming
        <5>3. CASE "answer" \in Kinds(c.queue) /\ "offer" \notin Kinds(a.wire)
          BY <1>2, <1>4, <4>2, <5>3, FollowedOffer DEF Coming
        <5>4. CASE "offer" \in Kinds(a.wire)
          BY <5>4 DEF Coming
        <5> QED
          BY <5>1, <5>2, <5>3, <5>4
      <4>4. polite(o)
        BY <3>2, TwoPeers
      <4> QED
        BY <4>1, <4>3, <4>4
    <3> QED
      BY <3>1, <3>2
  <2> QED
    BY <1>1, <2>1, <2>2, <2>3 DEF Side
<1> QED
  BY <1>1, <1>8, <1>9 DEF Pair

\* A task that ends, and is queued again while negotiation is wanted.
LEMMA AgainWaits ==
  ASSUME NEW q \in Seq(Items), q # <<>>, NEW t, t = Tail(q), NEW needs \in BOOLEAN,
         NEW r, r = IF needs THEN Append(t, Negotiate) ELSE t
  PROVE  /\ Followed(t) => Followed(r)
         /\ \A n : Below(t, n) => Below(r, n)
         /\ \A g, v : Current(t, g, v) => Current(r, g, v)
         /\ Kinds(r) = Kinds(t) \cup (IF needs THEN {"negotiate"} ELSE {})
<1>1. t \in Seq(Items) /\ Negotiate \in Items
  BY FirstItem DEF Items
<1>2. CASE needs
  <2>1. r = Append(t, Negotiate)
    BY <1>2
  <2>2. Followed(t) => Followed(r)
    BY <1>1, <2>1, LastItem, NegotiateKind
  <2>3. \A n : Below(t, n) => Below(r, n)
    BY <1>1, <2>1, LastItem, NegotiateKind
  <2>4. \A g, v : Current(t, g, v) => Current(r, g, v)
    BY <1>1, <2>1, LastCurrent, NegotiateKind
  <2>5. Kinds(r) = Kinds(t) \cup {Negotiate.kind}
    BY <1>1, <2>1, LastItem, Zenon
  <2> QED
    BY <1>2, <2>2, <2>3, <2>4, <2>5, NegotiateKind
<1>3. CASE ~needs
  <2>1. r = t
    BY <1>3
  <2> QED
    BY <1>3, <2>1
<1> QED
  BY <1>2, <1>3

\* It takes an offer and answers with its tracks, taking its own offer back if
\* one is open.
LEMMA MoveAccepts ==
  ASSUME NEW p \in Peers, NEW a, NEW b, Pair(p, a, b),
         NEW c \in Browsers, NEW d \in Browsers, a.sess # None,
         a.queue # <<>>, Head(a.queue).kind = "offer",
         c.sess # None, c.sess.gen = a.sess.gen, c.sess.sig = "stable",
         c.sess.needs <=> a.sess.needs \/ a.sess.sig # "stable",
         c.sess.sent = a.sess.sent, c.sess.peer = Head(a.queue).gen, c.sess.got = Head(a.queue).ver,
         c.born = a.born, c.tracks = a.tracks, c.wire = a.wire,
         c.queue = IF c.sess.needs THEN Append(Tail(a.queue), Negotiate) ELSE Tail(a.queue),
         d.sess = b.sess, d.born = b.born, d.tracks = b.tracks, d.queue = b.queue,
         NEW m \in Signals, m.kind = "answer", m.gen = a.sess.gen,
         m.ver \in {a.sess.sent, a.tracks},
         d.wire = Append(b.wire, m)
  PROVE  Pair(p, c, d)
<1> DEFINE o == Other(p)
           t == Tail(a.queue)
           h == Head(a.queue)
<1>1. /\ a \in Browsers /\ b \in Browsers /\ Side(p, a, b) /\ Side(o, b, a)
  BY DEF Pair
<1>2. a.queue \in Seq(Items) /\ b.wire \in Seq(Items) /\ m \in Items
  BY <1>1, BrowserFields DEF Items
<1>3. Kinds(a.queue) = Kinds(t) \cup {h.kind}
  BY <1>2, FirstItem, Zenon
<1>4. /\ Followed(a.queue) => Followed(t)
      /\ Below(a.queue, b.born) => Below(t, b.born) /\ h.gen <= b.born
  BY <1>2, FirstItem
<1>5. \A g, v : Current(a.queue, g, v) => Current(t, g, v)
  BY <1>2, FirstCurrent
<1>6. ASSUME Current(a.queue, h.gen, b.tracks), "offer" \notin Kinds(t)
      PROVE  h.ver = b.tracks
  BY <1>2, <1>6, HeadCurrent
<1>7. /\ Followed(t) => Followed(c.queue)
      /\ \A n : Below(t, n) => Below(c.queue, n)
      /\ \A g, v : Current(t, g, v) => Current(c.queue, g, v)
      /\ Kinds(c.queue) = Kinds(t) \cup (IF c.sess.needs THEN {"negotiate"} ELSE {})
  <2>1. c.sess.needs \in BOOLEAN
    BY BrowserFields
  <2> QED
    BY ZenonT(30), <1>2, <2>1, AgainWaits
<1>8. Kinds(d.wire) = Kinds(b.wire) \cup {m.kind}
  BY <1>2, LastItem, Zenon
<1>9. Below(b.wire, a.born) /\ m.gen <= a.born => Below(d.wire, a.born)
  BY <1>2, LastItem
<1>10. a.sess.gen = a.born /\ m.gen <= a.born
  BY <1>1, BrowserFields DEF Side, Numbered
<1>11. \A g, v : m.ver = v /\ Current(b.wire, g, v) => Current(d.wire, g, v)
  BY <1>2, LastCurrent
<1>12. /\ "answer" \in Coming(d)
       /\ \A k : k \in Coming(b) => k \in Coming(d)
       /\ "offer" \in Kinds(d.wire) <=> "offer" \in Kinds(b.wire)
       /\ "offer" \in Kinds(t) \/ "offer" \in Kinds(a.wire) => "offer" \in Coming(c)
  BY <1>7, <1>8 DEF Coming
<1> HIDE DEF t, h
<1>13. Side(p, c, d)
  <2>1. Numbered(c, d)
    BY <1>1, <1>4, <1>7 DEF Side, Numbered, h
  <2>2. Wants(c) /\ Carried(c) /\ Opens(c, d) /\ Hoped(p, c, d)
    BY <1>1, <1>7 DEF Side, Wants, Carried, Opens, Hoped
  <2>3. Latest(c, d)
    <3> SUFFICES ASSUME ~c.sess.needs
                 PROVE  /\ Current(d.wire, a.sess.gen, a.tracks)
                        /\ "offer" \in Kinds(d.wire) \/ Current(d.queue, a.sess.gen, a.tracks)
      BY DEF Latest
    <3>1. ~a.sess.needs /\ m.ver = a.tracks
      BY <1>1 DEF Side, Carried
    <3>2. /\ Current(b.wire, a.sess.gen, a.tracks)
          /\ "offer" \in Kinds(b.wire) \/ Current(b.queue, a.sess.gen, a.tracks)
      BY <1>1, <3>1 DEF Side, Latest
    <3> QED
      BY <1>11, <1>12, <3>1, <3>2
  <2>4. Heard(c, d)
    <3> SUFFICES ASSUME b.sess # None, h.gen = b.sess.gen, ~b.sess.needs,
                        "offer" \notin Coming(c)
                 PROVE  h.ver = b.tracks
      BY DEF Heard, h
    <3>1. "offer" \in Kinds(a.wire) \/ Current(a.queue, b.sess.gen, b.tracks)
      BY <1>1 DEF Side, Latest
    <3> QED
      BY <1>6, <1>12, <3>1
  <2> QED
    BY <2>1, <2>2, <2>3, <2>4 DEF Side
<1>14. Side(o, d, c)
  <2>1. Numbered(d, c)
    BY <1>1, <1>9, <1>10 DEF Side, Numbered
  <2>2. ASSUME d.sess # None
        PROVE  Wants(d) /\ Carried(d) /\ Opens(d, c) /\ Latest(d, c)
    BY <1>1, <1>4, <1>5, <1>7, <2>2 DEF Side, Wants, Carried, Opens, Latest
  <2>3. Hoped(o, d, c)
    BY <1>12 DEF Hoped
  <2>4. ASSUME d.sess # None PROVE Heard(d, c)
    BY <1>1, <1>12, <2>4 DEF Side, Heard
  <2> QED
    BY <2>1, <2>2, <2>3, <2>4 DEF Side
<1> QED
  BY <1>13, <1>14 DEF Pair

\* It takes the answer to its offer.
LEMMA MoveAnswered ==
  ASSUME NEW p \in Peers, NEW a, NEW b, Pair(p, a, b), NEW c \in Browsers, a.sess # None,
         a.queue # <<>>, Head(a.queue).kind = "answer", a.sess.sig = "offering",
         c.sess # None, c.sess.gen = a.sess.gen, c.sess.sig = "stable",
         c.sess.needs <=> a.sess.needs,
         c.sess.sent = a.sess.sent, c.sess.peer = Head(a.queue).gen, c.sess.got = Head(a.queue).ver,
         c.born = a.born, c.tracks = a.tracks, c.wire = a.wire,
         c.queue = IF c.sess.needs THEN Append(Tail(a.queue), Negotiate) ELSE Tail(a.queue)
  PROVE  Pair(p, c, b)
<1> DEFINE o == Other(p)
           t == Tail(a.queue)
           h == Head(a.queue)
<1>1. /\ a \in Browsers /\ b \in Browsers /\ Side(p, a, b) /\ Side(o, b, a)
  BY DEF Pair
<1>2. a.queue \in Seq(Items)
  BY <1>1, BrowserFields
<1>3. Kinds(a.queue) = Kinds(t) \cup {h.kind}
  BY <1>2, FirstItem, Zenon
<1>4. /\ Followed(a.queue) => Followed(t) /\ "offer" \in Kinds(t)
      /\ Below(a.queue, b.born) => Below(t, b.born) /\ h.gen <= b.born
  BY <1>2, FirstItem
<1>5. \A g, v : Current(a.queue, g, v) => Current(t, g, v)
  BY <1>2, FirstCurrent
<1>6. ASSUME Current(a.queue, h.gen, b.tracks), "offer" \notin Kinds(t)
      PROVE  h.ver = b.tracks
  BY <1>2, <1>6, HeadCurrent
<1>7. /\ Followed(t) => Followed(c.queue)
      /\ \A n : Below(t, n) => Below(c.queue, n)
      /\ \A g, v : Current(t, g, v) => Current(c.queue, g, v)
      /\ Kinds(c.queue) = Kinds(t) \cup (IF c.sess.needs THEN {"negotiate"} ELSE {})
  <2>1. c.sess.needs \in BOOLEAN
    BY BrowserFields
  <2> QED
    BY ZenonT(30), <1>2, <2>1, AgainWaits
<1>8. "offer" \in Kinds(t) \/ "offer" \in Kinds(a.wire) => "offer" \in Coming(c)
  BY <1>7 DEF Coming
<1> HIDE DEF t, h
<1>9. Side(p, c, b)
  <2>1. Numbered(c, b)
    BY <1>1, <1>4, <1>7 DEF Side, Numbered, h
  <2>2. Wants(c) /\ Carried(c) /\ Opens(c, b) /\ Latest(c, b) /\ Hoped(p, c, b)
    BY <1>1, <1>7 DEF Side, Wants, Carried, Opens, Latest, Hoped
  <2>3. Heard(c, b)
    <3> SUFFICES ASSUME b.sess # None, h.gen = b.sess.gen, ~b.sess.needs,
                        "offer" \notin Coming(c)
                 PROVE  h.ver = b.tracks
      BY DEF Heard, h
    <3>1. "offer" \in Kinds(a.wire) \/ Current(a.queue, b.sess.gen, b.tracks)
      BY <1>1 DEF Side, Latest
    <3> QED
      BY <1>6, <1>8, <3>1
  <2> QED
    BY <2>1, <2>2, <2>3 DEF Side
<1>10. Side(o, b, c)
  <2>1. Numbered(b, c)
    BY <1>1 DEF Side, Numbered
  <2>2. ASSUME b.sess # None PROVE Opens(b, c) /\ Latest(b, c) /\ Heard(b, c)
    BY <1>1, <1>4, <1>5, <1>7, <2>2 DEF Side, Opens, Latest, Heard
  <2>3. ASSUME b.sess # None PROVE Hoped(o, b, c)
    <3> SUFFICES ASSUME b.sess.sig = "offering" PROVE "offer" \in Coming(c)
      BY DEF Hoped
    <3>1. "offer" \in Kinds(a.wire) \/ Followed(a.queue)
      BY <1>1, <2>3 DEF Side, Opens
    <3> QED
      BY <1>4, <1>8, <3>1
  <2> QED
    BY <1>1, <2>1, <2>2, <2>3 DEF Side
<1> QED
  BY <1>1, <1>9, <1>10 DEF Pair

-----------------------------------------------------------------------------
(* The steps of the mesh, while no signal is lost and guests may speak.    *)

Browser(p) ==
    [sess |-> sess[p], born |-> born[p], tracks |-> tracks[p], queue |-> queue[p], wire |-> wire[p]]

Arrays ==
    /\ here \in [Peers -> BOOLEAN] /\ sess \in [Peers -> Sessions \cup {None}]
    /\ born \in [Peers -> Nat] /\ tracks \in [Peers -> Nat]
    /\ queue \in [Peers -> Seq(Items)] /\ wire \in [Peers -> Seq(Signals)]
Homes == \A p \in Peers : ~here[p] => sess[p] = None
Pairs == \A p \in Peers : Pair(p, Browser(p), Browser(Other(p)))

Fine == lost = 0 /\ guests
Agreed == Arrays /\ Homes /\ Pairs
MeshInv == lost \in Nat /\ (Fine => Agreed)

LEMMA BrowserIs ==
  ASSUME NEW p
  PROVE  /\ Browser(p).sess = sess[p] /\ Browser(p).born = born[p] /\ Browser(p).tracks = tracks[p]
         /\ Browser(p).queue = queue[p] /\ Browser(p).wire = wire[p]
BY DEF Browser

LEMMA BrowserIsNext ==
  ASSUME NEW p
  PROVE  /\ Browser(p)'.sess = sess'[p] /\ Browser(p)'.born = born'[p]
         /\ Browser(p)'.tracks = tracks'[p]
         /\ Browser(p)'.queue = queue'[p] /\ Browser(p)'.wire = wire'[p]
BY DEF Browser

LEMMA NextBrowsers ==
  ASSUME NEW p \in Peers, Arrays'
  PROVE  Browser(p)' \in Browsers
BY DEF Arrays, Browser, Browsers

LEMMA NextPairs ==
  ASSUME NEW p \in Peers, Pair(p, Browser(p)', Browser(Other(p))')
  PROVE  Pairs'
<1> SUFFICES ASSUME NEW q \in Peers PROVE Pair(q, Browser(q), Browser(Other(q)))'
  BY DEF Pairs
<1>1. CASE q = p
  BY <1>1
<1>2. CASE q = Other(p)
  <2>1. Pair(q, Browser(q)', Browser(p)')
    BY <1>2, PairTurns
  <2> QED
    BY <1>2, <2>1, TwoPeers
<1> QED
  BY <1>1, <1>2, TwoPeers

\* Where nothing is lost, what is sent is on its way.
LEMMA SendsFine ==
  ASSUME NEW p \in Peers, Agreed, Fine, Fine', NEW m \in Signals, Sends(p, <<m>>)
  PROVE  /\ wire' \in [Peers -> Seq(Signals)] /\ wire'[p] = wire[p]
         /\ wire'[Other(p)] = Append(wire[Other(p)], m)
<1>1. wire' = [wire EXCEPT ![Other(p)] = @ \o <<m>>]
  BY DEF Sends, Fine
<1>2. wire \in [Peers -> Seq(Signals)] /\ Other(p) \in Peers /\ Other(p) # p
  BY TwoPeers DEF Agreed, Arrays
<1>3. wire[Other(p)] \o <<m>> = Append(wire[Other(p)], m)
  BY <1>2, AppendIsConcat
<1>4. Append(wire[Other(p)], m) \in Seq(Signals)
  BY <1>2, AppendProperties
<1> QED
  BY <1>1, <1>2, <1>3, <1>4

LEMMA OpenedIs ==
  ASSUME NEW p \in Peers, Arrays, Generations = 0
  PROVE  /\ Opened(p) \in Sessions /\ Opened(p) # None
         /\ Opened(p).gen = born[p] + 1 /\ Opened(p).sig = "stable" /\ Opened(p).peer = None
         /\ Opened(p).sent = 0 /\ (Opened(p).needs <=> tracks[p] > 0)
         /\ Opening(p) = IF tracks[p] > 0 THEN <<Negotiate>> ELSE <<>>
         /\ Opening(p) \in Seq(Items)
         /\ NextGen(p) = born[p] + 1 /\ NextGen(p) \in Nat
<1>1. NextGen(p) = born[p] + 1 /\ NextGen(p) \in Nat
  BY DEF NextGen, Arrays
<1>2. NewSession(NextGen(p)) \in Sessions
  BY <1>1 DEF NewSession, Sessions
<1>3. Opened(p) \in Sessions
  BY <1>2 DEF Opened, Negotiates, Sessions
<1>4. Opened(p) # None
  BY <1>3, MeshAssumption
<1>5. /\ Opened(p).gen = born[p] + 1 /\ Opened(p).sig = "stable" /\ Opened(p).peer = None
      /\ Opened(p).sent = 0 /\ (Opened(p).needs <=> tracks[p] > 0)
  BY <1>1 DEF Opened, Negotiates, NewSession
<1>6. /\ Opening(p) = IF tracks[p] > 0 THEN <<Negotiate>> ELSE <<>>
      /\ Opening(p) \in Seq(Items)
  BY NothingWaits, OneWaits DEF Opening
<1> QED
  BY <1>1, <1>3, <1>4, <1>5, <1>6

\* A browser as it is when it has just opened a session.
JustOpened(p) ==
    [sess |-> Opened(p), born |-> born[p] + 1, tracks |-> tracks[p], queue |-> Opening(p),
     wire |-> wire[p]]

LEMMA JustOpenedPair ==
  ASSUME NEW p \in Peers, Agreed, Generations = 0
  PROVE  JustOpened(p) \in Browsers /\ Pair(p, JustOpened(p), Browser(Other(p)))
<1> DEFINE a == Browser(p)
           b == Browser(Other(p))
           c == JustOpened(p)
<1>1. Pair(p, a, b)
  BY DEF Agreed, Pairs
<1>2. /\ c.sess = Opened(p) /\ c.born = born[p] + 1 /\ c.tracks = tracks[p]
      /\ c.queue = Opening(p) /\ c.wire = wire[p]
  BY DEF JustOpened
<1>3. c \in Browsers
  <2>1. Arrays
    BY DEF Agreed
  <2>2. Opened(p) \in Sessions /\ Opening(p) \in Seq(Items)
    BY <2>1, OpenedIs
  <2> QED
    BY <2>1, <2>2 DEF JustOpened, Browsers, Arrays
<1>4. /\ a.born = born[p] /\ a.tracks = tracks[p] /\ a.wire = wire[p]
  BY BrowserIs
<1>5. Arrays
  BY DEF Agreed
<1>6. /\ c.sess # None /\ c.sess.gen = a.born + 1 /\ c.sess.sig = "stable" /\ c.sess.peer = None
      /\ c.sess.sent = 0 /\ (c.sess.needs <=> a.tracks > 0)
      /\ c.born = a.born + 1 /\ c.tracks = a.tracks /\ c.wire = a.wire
      /\ c.queue = IF a.tracks > 0 THEN <<Negotiate>> ELSE <<>>
  BY <1>2, <1>4, <1>5, OpenedIs
<1> HIDE DEF a, b, c
<1>7. Pair(p, c, b)
  BY <1>1, <1>3, <1>6, MoveOpened
<1> QED
  BY <1>3, <1>7 DEF b, c

\* ensureConnection, and the same when a session is replaced.
LEMMA OpeningStep ==
  ASSUME NEW p \in Peers, Agreed, Fine, Fine', Generations = 0, here[p],
         sess' = [sess EXCEPT ![p] = Opened(p)],
         born' = [born EXCEPT ![p] = NextGen(p)],
         queue' = [queue EXCEPT ![p] = Opening(p)],
         Sends(p, <<Signal("hello", NextGen(p), 0)>>),
         UNCHANGED <<here, tracks>>
  PROVE  Agreed'
<1> DEFINE o == Other(p)
           m == Signal("hello", NextGen(p), 0)
           b == Browser(o)
           c == Browser(p)'
           d == Browser(o)'
           e == JustOpened(p)
<1>1. Arrays /\ Homes
  BY DEF Agreed
<1>2. /\ Opened(p) \in Sessions /\ Opening(p) \in Seq(Items)
      /\ NextGen(p) = born[p] + 1 /\ NextGen(p) \in Nat
  BY <1>1, OpenedIs
<1>3. m \in Signals /\ m.kind = "hello" /\ m.gen = NextGen(p)
  BY <1>2 DEF Signal, Signals
<1>4. o \in Peers /\ o # p
  BY TwoPeers
<1>5. /\ wire' \in [Peers -> Seq(Signals)] /\ wire'[p] = wire[p]
      /\ wire'[o] = Append(wire[o], m)
  BY <1>3, SendsFine
<1>6. Arrays'
  BY <1>1, <1>2, <1>5 DEF Arrays
<1>7. Homes'
  BY <1>1 DEF Homes, Arrays
<1>8. c = e
  BY <1>1, <1>2, <1>5 DEF Browser, JustOpened, Arrays
<1>9. Pair(p, e, b)
  BY JustOpenedPair
<1>10. d \in Browsers
  BY <1>4, <1>6, NextBrowsers
<1>11. /\ d.sess = b.sess /\ d.born = b.born /\ d.tracks = b.tracks /\ d.queue = b.queue
       /\ d.wire = Append(b.wire, m)
  BY <1>1, <1>4, <1>5, BrowserIs, BrowserIsNext DEF Arrays
<1>12. m.gen <= e.born
  BY <1>2, <1>3 DEF JustOpened
<1> HIDE DEF m, b, c, d, e
<1>13. Pair(p, e, d)
  BY <1>3, <1>9, <1>10, <1>11, <1>12, MoveHello
<1>14. Pair(p, c, d)
  BY <1>8, <1>13
<1>15. Pairs'
  BY <1>14, NextPairs DEF c, d
<1> QED
  BY <1>6, <1>7, <1>15 DEF Agreed

\* A browser closes its session, changes its tracks without one, or is not on
\* the route when a signal reaches it.
LEMMA ForgettingStep ==
  ASSUME NEW p \in Peers, Agreed, here' \in [Peers -> BOOLEAN],
         \A q \in Peers : q # p => here'[q] = here[q],
         tracks' \in [Peers -> Nat], \A q \in Peers : q # p => tracks'[q] = tracks[q],
         sess' = [sess EXCEPT ![p] = None], queue' = [queue EXCEPT ![p] = <<>>],
         \/ wire' = wire
         \/ wire[p] # <<>> /\ wire' = [wire EXCEPT ![p] = Tail(@)],
         born' = born
  PROVE  Agreed'
<1> DEFINE o == Other(p)
           a == Browser(p)
           b == Browser(o)
           c == Browser(p)'
           d == Browser(o)'
<1>1. Arrays /\ Homes /\ Pair(p, a, b)
  BY DEF Agreed, Pairs
<1>2. o \in Peers /\ o # p
  BY TwoPeers
<1>3. wire[p] # <<>> => Tail(wire[p]) \in Seq(Signals)
  BY <1>1, HeadTailProperties DEF Arrays
<1>4. wire' \in [Peers -> Seq(Signals)]
      /\ wire'[p] \in {wire[p]} \cup (IF wire[p] # <<>> THEN {Tail(wire[p])} ELSE {})
      /\ wire'[o] = wire[o]
  BY <1>1, <1>2, <1>3 DEF Arrays
<1>5. Arrays'
  BY <1>1, <1>4, NothingWaits DEF Arrays
<1>6. Homes'
  BY <1>1 DEF Homes, Arrays
<1>7. d = b
  BY <1>1, <1>2, <1>4 DEF Browser, Arrays
<1>8. c \in Browsers
  BY <1>5, NextBrowsers
<1>9. /\ c.sess = None /\ c.queue = <<>> /\ c.born = a.born
      /\ c.wire = a.wire \/ (a.wire # <<>> /\ c.wire = Tail(a.wire))
  BY ZenonT(30), <1>1, <1>4, BrowserIs, BrowserIsNext DEF Arrays
<1> HIDE DEF a, b, c, d
<1>10. Pair(p, c, b)
  BY <1>1, <1>8, <1>9, MoveForgets
<1>11. Pairs'
  BY <1>7, <1>10, NextPairs DEF c, d
<1> QED
  BY <1>5, <1>6, <1>11 DEF Agreed

\* What a browser does to itself, once the move is known to keep the pair.
LEMMA OwnStep ==
  ASSUME NEW p \in Peers, Agreed, Arrays', here' = here, sess'[p] # None => here[p],
         \A q \in Peers : q # p =>
            /\ sess'[q] = sess[q] /\ born'[q] = born[q] /\ tracks'[q] = tracks[q]
            /\ queue'[q] = queue[q] /\ wire'[q] = wire[q],
         Pair(p, Browser(p)', Browser(Other(p)))
  PROVE  Agreed'
<1>1. Browser(Other(p))' = Browser(Other(p))
  BY TwoPeers DEF Browser
<1>2. Pairs'
  BY <1>1, NextPairs
<1>3. Homes'
  BY DEF Homes, Agreed
<1> QED
  BY <1>2, <1>3 DEF Agreed

\* A browser that holds a signal in its hand, with a session to hand it to.
LEMMA HandleSignalStep ==
  ASSUME NEW p \in Peers, Agreed, Fine, Fine', Generations = 0, handleSignal(p)
  PROVE  Agreed'
<1> DEFINE o == Other(p)
           m == Head(wire[p])
           b == Browser(o)
           c == Browser(p)'
           s == IF sess[p] = None THEN Opened(p) ELSE sess[p]
           q == IF sess[p] = None THEN Opening(p) ELSE queue[p]
           g == IF sess[p] = None THEN NextGen(p) ELSE born[p]
           e == [sess |-> s, born |-> g, tracks |-> tracks[p], queue |-> q, wire |-> wire[p]]
<1>1. Arrays /\ Homes /\ Pairs
  BY DEF Agreed
<1>2. /\ wire[p] # <<>> /\ wire' = [wire EXCEPT ![p] = Tail(@)]
      /\ here' = here /\ tracks' = tracks
  BY DEF handleSignal
<1>3. wire[p] \in Seq(Signals) /\ Tail(wire[p]) \in Seq(Signals) /\ m \in Signals
  BY <1>1, <1>2, HeadTailProperties DEF Arrays
<1>4. CASE ~here[p]
  <2>1. sess[p] = None
    BY <1>1, <1>4 DEF Homes
  <2>2. Numbered(Browser(p), Browser(o))
    BY <1>1 DEF Pairs, Pair, Side
  <2>3. queue[p] = <<>>
    BY <2>1, <2>2, BrowserIs DEF Numbered
  <2>4. sess' = sess /\ born' = born /\ queue' = queue
    BY <1>4 DEF handleSignal
  <2>5. /\ sess' = [sess EXCEPT ![p] = None] /\ queue' = [queue EXCEPT ![p] = <<>>]
        /\ here' \in [Peers -> BOOLEAN] /\ tracks' \in [Peers -> Nat]
    BY <1>1, <1>2, <2>1, <2>3, <2>4 DEF Arrays
  <2> QED
    BY <1>2, <2>4, <2>5, ForgettingStep
<1>5. CASE here[p]
  <2>1. m.kind \in {"hello", "offer", "answer"} /\ m.kind # "leave"
    BY <1>3 DEF Signals
  <2>2. /\ sess' = [sess EXCEPT ![p] = IF m.kind = "hello" THEN Negotiates(s) ELSE s]
        /\ queue' = [queue EXCEPT ![p] = Append(q, IF m.kind = "hello" THEN Negotiate ELSE m)]
        /\ born' = [born EXCEPT ![p] = IF sess[p] = None THEN NextGen(p) ELSE @]
    BY <1>5, <2>1 DEF handleSignal
  <2>3. /\ s \in Sessions /\ s # None /\ q \in Seq(Items) /\ g \in Nat
    BY <1>1, OpenedIs, MeshAssumption DEF Arrays
  <2>4. Negotiate \in Items /\ m \in Items
    BY <1>3 DEF Items
  <2>5. e \in Browsers /\ Pair(p, e, b)
    <3>1. CASE sess[p] = None
      <4>1. e = JustOpened(p)
        BY <1>1, <3>1, OpenedIs DEF JustOpened
      <4> QED
        BY <4>1, JustOpenedPair
    <3>2. CASE sess[p] # None
      <4>1. e = Browser(p)
        BY <3>2 DEF Browser
      <4> QED
        BY <1>1, <4>1 DEF Pairs, Pair
    <3> QED
      BY <3>1, <3>2
  <2>6. /\ e.sess = s /\ e.born = g /\ e.tracks = tracks[p] /\ e.queue = q /\ e.wire = wire[p]
    OBVIOUS
  <2>7. /\ born' \in [Peers -> Nat] /\ born'[p] = g
        /\ wire' \in [Peers -> Seq(Signals)] /\ wire'[p] = Tail(wire[p])
    BY <1>1, <1>2, <1>3, <2>2, <2>3 DEF Arrays
  <2> HIDE DEF s, q, g, e, m
  <2>8. /\ Negotiates(s) \in Sessions /\ Negotiates(s) # None
        /\ Negotiates(s).gen = s.gen /\ Negotiates(s).sig = s.sig /\ Negotiates(s).needs
        /\ Negotiates(s).sent = s.sent /\ Negotiates(s).peer = s.peer /\ Negotiates(s).got = s.got
    <3>1. Negotiates(s) \in Sessions
      BY <2>3 DEF Negotiates, Sessions
    <3> QED
      BY <2>3, <3>1, MeshAssumption DEF Negotiates, Sessions
  <2>9. Append(q, Negotiate) \in Seq(Items) /\ Append(q, m) \in Seq(Items)
    BY <2>3, <2>4, AppendProperties
  <2>10. /\ Arrays' /\ sess'[p] # None
         /\ sess'[p] = IF m.kind = "hello" THEN Negotiates(s) ELSE s
         /\ queue'[p] = Append(q, IF m.kind = "hello" THEN Negotiate ELSE m)
    BY <1>1, <1>2, <2>2, <2>3, <2>7, <2>8, <2>9 DEF Arrays
  <2>11. /\ c \in Browsers /\ c.sess = sess'[p] /\ c.queue = queue'[p]
         /\ c.born = g /\ c.tracks = tracks[p] /\ c.wire = Tail(wire[p])
    BY <1>2, <2>7, <2>10, NextBrowsers, BrowserIsNext
  <2> DEFINE f == [sess |-> Negotiates(s), born |-> g, tracks |-> tracks[p],
                   queue |-> Append(q, Negotiate), wire |-> wire[p]]
  <2>12. /\ f.sess = Negotiates(s) /\ f.born = g /\ f.tracks = tracks[p]
         /\ f.queue = Append(q, Negotiate) /\ f.wire = wire[p]
    OBVIOUS
  <2>13. f \in Browsers
    BY <1>1, <1>3, <2>3, <2>8, <2>9 DEF Browsers, Arrays
  <2> HIDE DEF b, c, f
  <2>14. ASSUME m.kind = "hello" PROVE Pair(p, c, b)
    <3>1. Pair(p, f, b)
      BY <2>3, <2>5, <2>6, <2>8, <2>12, <2>13, MoveWishes
    <3>2. c.sess = f.sess /\ c.born = f.born /\ c.tracks = f.tracks /\ c.queue = f.queue
          /\ c.wire = Tail(f.wire) /\ f.wire # <<>> /\ Head(f.wire).kind = "hello"
      BY <1>2, <2>10, <2>11, <2>12, <2>14 DEF m
    <3> QED
      BY <2>11, <3>1, <3>2, MoveGreeted
  <2>15. ASSUME m.kind # "hello" PROVE Pair(p, c, b)
    <3>1. /\ c.sess = e.sess /\ c.born = e.born /\ c.tracks = e.tracks
          /\ c.queue = Append(e.queue, Head(e.wire)) /\ c.wire = Tail(e.wire)
          /\ e.sess # None /\ e.wire # <<>> /\ Head(e.wire).kind \in {"offer", "answer"}
      BY <1>2, <2>1, <2>3, <2>6, <2>10, <2>11, <2>15 DEF m
    <3> QED
      BY <2>5, <2>11, <3>1, MoveDelivered
  <2>16. Pair(p, c, b)
    BY <2>14, <2>15
  <2> QED
    <3>1. \A r \in Peers : r # p =>
            /\ sess'[r] = sess[r] /\ born'[r] = born[r] /\ tracks'[r] = tracks[r]
            /\ queue'[r] = queue[r] /\ wire'[r] = wire[r]
      BY <1>1, <1>2, <2>2 DEF Arrays
    <3> QED
      BY <1>2, <1>5, <2>10, <2>16, <3>1, OwnStep DEF b, c
<1> QED
  BY <1>1, <1>4, <1>5 DEF Arrays

\* A queue with a task in it is that of a session.
LEMMA QueueHasSession ==
  ASSUME NEW p \in Peers, Agreed, queue[p] # <<>>
  PROVE  /\ sess[p] # None /\ sess[p] \in Sessions /\ here[p]
         /\ queue[p] \in Seq(Items) /\ Tail(queue[p]) \in Seq(Items) /\ Head(queue[p]) \in Items
         /\ Append(Tail(queue[p]), Negotiate) \in Seq(Items)
<1>1. Arrays /\ Homes /\ Pairs
  BY DEF Agreed
<1>2. Numbered(Browser(p), Browser(Other(p)))
  BY <1>1 DEF Pairs, Pair, Side
<1>3. sess[p] # None
  BY <1>2, BrowserIs DEF Numbered
<1>4. queue[p] \in Seq(Items) /\ Tail(queue[p]) \in Seq(Items) /\ Head(queue[p]) \in Items
  BY <1>1, HeadTailProperties DEF Arrays
<1>5. Append(Tail(queue[p]), Negotiate) \in Seq(Items)
  BY <1>4, AppendProperties DEF Items
<1> QED
  BY <1>1, <1>3, <1>4, <1>5 DEF Arrays, Homes

\* A task that does nothing.
LEMMA SkippingStep ==
  ASSUME NEW p \in Peers, Agreed, queue[p] # <<>>,
         \/ Head(queue[p]).kind = "negotiate" /\ ~(sess[p].needs /\ sess[p].sig = "stable")
         \/ Head(queue[p]).kind = "offer" /\ ~polite(p) /\ sess[p].sig = "offering"
         \/ Head(queue[p]).kind = "answer" /\ sess[p].sig = "stable",
         queue' = [queue EXCEPT ![p] = Tail(@)],
         UNCHANGED <<here, tracks, sess, born, wire>>
  PROVE  Agreed'
<1> DEFINE a == Browser(p)
           b == Browser(Other(p))
           c == Browser(p)'
<1>1. Arrays /\ Pair(p, a, b)
  BY DEF Agreed, Pairs
<1>2. sess[p] # None /\ here[p] /\ Tail(queue[p]) \in Seq(Items)
  BY QueueHasSession
<1>3. Arrays'
  BY <1>1, <1>2 DEF Arrays
<1>4. c \in Browsers
  BY <1>3, NextBrowsers
<1>5. /\ a.sess = sess[p] /\ a.queue = queue[p]
      /\ c.sess = a.sess /\ c.born = a.born /\ c.tracks = a.tracks /\ c.wire = a.wire
      /\ c.queue = Tail(a.queue)
  BY <1>1, BrowserIs, BrowserIsNext DEF Arrays
<1> HIDE DEF a, b, c
<1>6. Pair(p, c, b)
  BY <1>1, <1>2, <1>4, <1>5, MoveSkips
<1>7. \A q \in Peers : q # p => queue'[q] = queue[q]
  BY <1>1 DEF Arrays
<1> QED
  BY <1>2, <1>3, <1>6, <1>7, OwnStep DEF b, c

\* A browser p with session s, queue q, and signal m sent, makes a pair.
SendingPairs(p, s, q, m) ==
    LET b == Browser(Other(p)) IN
    \A c \in Browsers, d \in Browsers :
        /\ c.sess = s /\ c.born = born[p] /\ c.tracks = tracks[p] /\ c.queue = q /\ c.wire = wire[p]
        /\ d.sess = b.sess /\ d.born = b.born /\ d.tracks = b.tracks /\ d.queue = b.queue
        /\ d.wire = Append(b.wire, m)
        => Pair(p, c, d)

\* A task that ends with a signal to the other.
LEMMA SendingStep ==
  ASSUME NEW p \in Peers, Agreed, Fine, Fine', NEW m \in Signals, Sends(p, <<m>>),
         NEW s \in Sessions, NEW q \in Seq(Items), here[p],
         sess' = [sess EXCEPT ![p] = s], queue' = [queue EXCEPT ![p] = q],
         UNCHANGED <<here, tracks, born>>,
         SendingPairs(p, s, q, m)
  PROVE  Agreed'
<1> DEFINE o == Other(p)
           c == Browser(p)'
           d == Browser(o)'
<1>1. Arrays /\ Homes
  BY DEF Agreed
<1>2. o \in Peers /\ o # p
  BY TwoPeers
<1>3. /\ wire' \in [Peers -> Seq(Signals)] /\ wire'[p] = wire[p]
      /\ wire'[o] = Append(wire[o], m)
  BY SendsFine
<1>4. Arrays'
  BY <1>1, <1>3 DEF Arrays
<1>5. Homes'
  BY <1>1 DEF Homes, Arrays
<1>6. c \in Browsers /\ d \in Browsers
  BY <1>2, <1>4, NextBrowsers
<1>7. /\ c.sess = s /\ c.born = born[p] /\ c.tracks = tracks[p] /\ c.queue = q
      /\ c.wire = wire[p]
  BY <1>1, <1>3, BrowserIsNext DEF Arrays
<1>8. /\ d.sess = Browser(o).sess /\ d.born = Browser(o).born /\ d.tracks = Browser(o).tracks
      /\ d.queue = Browser(o).queue /\ d.wire = Append(Browser(o).wire, m)
  BY SMTT(30), <1>1, <1>2, <1>3, BrowserIs, BrowserIsNext DEF Arrays
<1> HIDE DEF c, d
<1>9. Pair(p, c, d)
  BY <1>6, <1>7, <1>8 DEF SendingPairs
<1>10. Pairs'
  BY <1>9, NextPairs DEF c, d
<1> QED
  BY <1>4, <1>5, <1>10 DEF Agreed

LEMMA TriggerStep ==
  ASSUME NEW p \in Peers, Agreed, Fine, Fine', triggerNegotiation(p)
  PROVE  Agreed'
<1> DEFINE a == Browser(p)
           b == Browser(Other(p))
           s == [sess[p] EXCEPT !.needs = FALSE, !.sig = "offering", !.sent = tracks[p]]
           q == Tail(queue[p])
           m == Signal("offer", sess[p].gen, tracks[p])
<1>1. Arrays /\ Pair(p, a, b)
  BY DEF Agreed, Pairs
<1>2. queue[p] # <<>> /\ Head(queue[p]).kind = "negotiate"
      /\ queue' = [queue EXCEPT ![p] = Tail(@)] /\ UNCHANGED <<here, tracks, born>>
  BY DEF triggerNegotiation
<1>3. sess[p] # None /\ sess[p] \in Sessions /\ here[p] /\ q \in Seq(Items)
  BY <1>2, QueueHasSession
<1>4. CASE sess[p].needs /\ sess[p].sig = "stable"
  <2>1. sess' = [sess EXCEPT ![p] = s] /\ Sends(p, <<m>>)
    BY <1>1, <1>4 DEF triggerNegotiation, Arrays
  <2>2. tracks[p] \in Nat
    BY <1>1 DEF Arrays
  <2>3. /\ s \in Sessions /\ s.gen = sess[p].gen /\ s.sig = "offering" /\ ~s.needs
        /\ s.sent = tracks[p] /\ s.peer = sess[p].peer /\ s.got = sess[p].got
    BY <1>3, <2>2 DEF Sessions
  <2>4. m \in Signals /\ m.kind = "offer" /\ m.gen = sess[p].gen /\ m.ver = tracks[p]
    BY <1>3, <2>2 DEF Signal, Signals, Sessions
  <2>5. queue' = [queue EXCEPT ![p] = q]
    BY <1>1, <1>2 DEF Arrays
  <2>6. /\ a.sess = sess[p] /\ a.born = born[p] /\ a.tracks = tracks[p]
        /\ a.queue = queue[p] /\ a.wire = wire[p]
    BY BrowserIs
  <2>7. q = Tail(a.queue) /\ s # None
    BY <2>3, <2>6, MeshAssumption
  <2> HIDE DEF a, b, s, q, m
  <2>8. SendingPairs(p, s, q, m)
    <3> SUFFICES ASSUME NEW c \in Browsers, NEW d \in Browsers,
                        c.sess = s, c.born = born[p], c.tracks = tracks[p], c.queue = q,
                        c.wire = wire[p],
                        d.sess = b.sess, d.born = b.born, d.tracks = b.tracks,
                        d.queue = b.queue, d.wire = Append(b.wire, m)
                 PROVE  Pair(p, c, d)
      BY DEF SendingPairs, b
    <3>1. /\ a.sess # None /\ a.queue # <<>> /\ Head(a.queue).kind = "negotiate"
          /\ a.sess.sig = "stable" /\ c.sess # None /\ c.sess.gen = a.sess.gen
          /\ c.sess.sig = "offering" /\ ~c.sess.needs
      BY <1>2, <1>3, <1>4, <2>3, <2>6, <2>7
    <3>2. /\ c.sess.sent = a.tracks /\ c.sess.peer = a.sess.peer /\ c.sess.got = a.sess.got
          /\ c.born = a.born /\ c.tracks = a.tracks /\ c.wire = a.wire /\ c.queue = Tail(a.queue)
          /\ m.gen = a.sess.gen /\ m.ver = a.tracks
      BY <2>3, <2>4, <2>6, <2>7
    <3> QED
      BY <1>1, <2>4, <3>1, <3>2, MoveOffers
  <2> QED
    BY <1>2, <1>3, <2>1, <2>3, <2>4, <2>5, <2>8, SendingStep
<1>5. CASE ~(sess[p].needs /\ sess[p].sig = "stable")
  <2>1. UNCHANGED <<sess, wire>>
    BY <1>5 DEF triggerNegotiation
  <2> QED
    BY <1>2, <1>5, <2>1, SkippingStep
<1> QED
  BY <1>4, <1>5

LEMMA OnOfferStep ==
  ASSUME NEW p \in Peers, Agreed, Fine, Fine', OnOffer(p)
  PROVE  Agreed'
<1> DEFINE a == Browser(p)
           b == Browser(Other(p))
           h == Head(queue[p])
           s == Described([sess[p] EXCEPT !.needs = @ \/ offerCollision(p)], h)
           q == IF s.needs THEN Append(Tail(queue[p]), Negotiate) ELSE Tail(queue[p])
<1>1. Arrays /\ Pair(p, a, b)
  BY DEF Agreed, Pairs
<1>2. queue[p] # <<>> /\ h.kind = "offer" /\ UNCHANGED <<here, tracks, born>>
  BY DEF OnOffer
<1>3. sess[p] # None /\ sess[p] \in Sessions /\ here[p] /\ Tail(queue[p]) \in Seq(Items)
      /\ Append(Tail(queue[p]), Negotiate) \in Seq(Items) /\ h \in Items
  BY <1>2, QueueHasSession
<1>4. CASE ~polite(p) /\ offerCollision(p)
  <2>1. queue' = [queue EXCEPT ![p] = Tail(@)] /\ UNCHANGED <<sess, wire>>
    BY <1>4 DEF OnOffer
  <2>2. sess[p].sig = "offering"
    BY <1>3, <1>4 DEF offerCollision, Sessions
  <2> QED
    BY <1>2, <1>4, <2>1, <2>2, SkippingStep
<1>5. CASE ~(~polite(p) /\ offerCollision(p))
  <2>1. sess' = [sess EXCEPT ![p] = s] /\ Again(p, s)
        /\ \E v \in {s.sent, tracks[p]} : Sends(p, <<Signal("answer", s.gen, v)>>)
    BY <1>5 DEF OnOffer
  <2>2. PICK v \in {s.sent, tracks[p]} : Sends(p, <<Signal("answer", s.gen, v)>>)
    BY <2>1
  <2> DEFINE m == Signal("answer", s.gen, v)
  <2>3. h.gen \in Nat /\ h.ver \in Nat /\ tracks[p] \in Nat
    BY <1>1, <1>2, <1>3, ItemKinds DEF Arrays
  <2>4. /\ s \in Sessions /\ s.gen = sess[p].gen /\ s.sig = "stable"
        /\ (s.needs <=> sess[p].needs \/ sess[p].sig # "stable")
        /\ s.sent = sess[p].sent /\ s.peer = h.gen /\ s.got = h.ver
    <3> DEFINE r == [sess[p] EXCEPT !.needs = @ \/ offerCollision(p)]
    <3>1. /\ r \in Sessions /\ r.gen = sess[p].gen /\ r.sent = sess[p].sent
          /\ (r.needs <=> sess[p].needs \/ sess[p].sig # "stable")
      BY <1>3 DEF Sessions, offerCollision
    <3> HIDE DEF r
    <3>2. s = Described(r, h)
      BY DEF r
    <3> HIDE DEF s
    <3>3. s \in Sessions
      BY <2>3, <3>1, <3>2 DEF Described, Sessions
    <3> QED
      BY <2>3, <3>1, <3>2, <3>3 DEF Described, Sessions
  <2>5. /\ m \in Signals /\ m.kind = "answer" /\ m.gen = sess[p].gen
        /\ m.ver \in {sess[p].sent, tracks[p]}
    BY <1>3, <2>3, <2>4 DEF Signal, Signals, Sessions
  <2>6. queue' = [queue EXCEPT ![p] = q]
    BY <1>1, <2>1 DEF Again, Arrays
  <2>7. q \in Seq(Items)
    BY <1>3
  <2>8. /\ a.sess = sess[p] /\ a.born = born[p] /\ a.tracks = tracks[p]
        /\ a.queue = queue[p] /\ a.wire = wire[p]
    BY BrowserIs
  <2>9. /\ q = IF s.needs THEN Append(Tail(a.queue), Negotiate) ELSE Tail(a.queue)
        /\ h = Head(a.queue) /\ s # None
    BY <2>4, <2>8, MeshAssumption
  <2>10. Sends(p, <<m>>)
    BY <2>2
  <2> HIDE DEF a, b, s, q, m, h
  <2>11. SendingPairs(p, s, q, m)
    <3> SUFFICES ASSUME NEW c \in Browsers, NEW d \in Browsers,
                        c.sess = s, c.born = born[p], c.tracks = tracks[p], c.queue = q,
                        c.wire = wire[p],
                        d.sess = b.sess, d.born = b.born, d.tracks = b.tracks,
                        d.queue = b.queue, d.wire = Append(b.wire, m)
                 PROVE  Pair(p, c, d)
      BY DEF SendingPairs, b
    <3>1. /\ a.sess # None /\ a.queue # <<>> /\ Head(a.queue).kind = "offer"
          /\ c.sess # None /\ c.sess.gen = a.sess.gen /\ c.sess.sig = "stable"
          /\ (c.sess.needs <=> a.sess.needs \/ a.sess.sig # "stable")
      BY <1>2, <1>3, <2>4, <2>8, <2>9
    <3>2. /\ c.sess.sent = a.sess.sent /\ c.sess.peer = Head(a.queue).gen
          /\ c.sess.got = Head(a.queue).ver
          /\ c.born = a.born /\ c.tracks = a.tracks /\ c.wire = a.wire
          /\ m.gen = a.sess.gen /\ m.ver \in {a.sess.sent, a.tracks}
      BY <2>4, <2>5, <2>8, <2>9
    <3>3. c.queue = IF c.sess.needs THEN Append(Tail(a.queue), Negotiate) ELSE Tail(a.queue)
      BY <2>9
    <3> QED
      BY <1>1, <2>5, <3>1, <3>2, <3>3, MoveAccepts
  <2> QED
    BY <1>2, <1>3, <2>1, <2>4, <2>5, <2>6, <2>7, <2>10, <2>11, SendingStep
<1> QED
  BY <1>4, <1>5

LEMMA OnAnswerStep ==
  ASSUME NEW p \in Peers, Agreed, OnAnswer(p)
  PROVE  Agreed'
<1> DEFINE a == Browser(p)
           b == Browser(Other(p))
           c == Browser(p)'
           h == Head(queue[p])
           s == Described(sess[p], h)
           q == IF s.needs THEN Append(Tail(queue[p]), Negotiate) ELSE Tail(queue[p])
<1>1. Arrays /\ Pair(p, a, b)
  BY DEF Agreed, Pairs
<1>2. queue[p] # <<>> /\ h.kind = "answer" /\ UNCHANGED <<here, tracks, born, wire>>
  BY DEF OnAnswer
<1>3. sess[p] # None /\ sess[p] \in Sessions /\ here[p] /\ Tail(queue[p]) \in Seq(Items)
      /\ Append(Tail(queue[p]), Negotiate) \in Seq(Items) /\ h \in Items
  BY <1>2, QueueHasSession
<1>4. CASE sess[p].sig # "offering"
  <2>1. queue' = [queue EXCEPT ![p] = Tail(@)] /\ sess' = [sess EXCEPT ![p] = sess[p]]
    BY <1>4 DEF OnAnswer
  <2>2. sess' = sess
    BY <1>1, <2>1 DEF Arrays
  <2>3. sess[p].sig = "stable"
    BY <1>3, <1>4 DEF Sessions
  <2> QED
    BY <1>2, <2>1, <2>2, <2>3, SkippingStep
<1>5. CASE sess[p].sig = "offering"
  <2>1. sess' = [sess EXCEPT ![p] = s] /\ Again(p, s)
    BY <1>5 DEF OnAnswer
  <2>2. h.gen \in Nat /\ h.ver \in Nat
    BY <1>2, <1>3, ItemKinds
  <2>3. /\ s \in Sessions /\ s.gen = sess[p].gen /\ s.sig = "stable"
        /\ (s.needs <=> sess[p].needs)
        /\ s.sent = sess[p].sent /\ s.peer = h.gen /\ s.got = h.ver
    BY <1>3, <2>2 DEF Described, Sessions
  <2>4. q \in Seq(Items) /\ s # None
    BY <1>3, <2>3, MeshAssumption
  <2>5. queue' = [queue EXCEPT ![p] = q]
    BY <1>1, <2>1 DEF Again, Arrays
  <2>6. /\ a.sess = sess[p] /\ a.born = born[p] /\ a.tracks = tracks[p]
        /\ a.queue = queue[p] /\ a.wire = wire[p]
    BY BrowserIs
  <2>7. /\ q = IF s.needs THEN Append(Tail(a.queue), Negotiate) ELSE Tail(a.queue)
        /\ h = Head(a.queue)
    BY <2>6
  <2> HIDE DEF a, b, s, q, h
  <2>8. Arrays'
    BY <1>1, <1>2, <2>1, <2>3, <2>4, <2>5 DEF Arrays
  <2>9. /\ c.sess = s /\ c.queue = q /\ c.born = a.born /\ c.tracks = a.tracks /\ c.wire = a.wire
    BY <1>1, <1>2, <2>1, <2>5, <2>6, BrowserIsNext DEF Arrays
  <2>10. c \in Browsers
    BY <2>8, NextBrowsers
  <2> HIDE DEF c
  <2>11. Pair(p, c, b)
    <3>1. /\ a.sess # None /\ a.queue # <<>> /\ Head(a.queue).kind = "answer"
          /\ a.sess.sig = "offering" /\ c.sess # None /\ c.sess.gen = a.sess.gen
          /\ c.sess.sig = "stable" /\ (c.sess.needs <=> a.sess.needs)
      BY <1>2, <1>3, <1>5, <2>3, <2>4, <2>6, <2>7, <2>9
    <3>2. /\ c.sess.sent = a.sess.sent /\ c.sess.peer = Head(a.queue).gen
          /\ c.sess.got = Head(a.queue).ver
      BY <2>3, <2>6, <2>7, <2>9
    <3>3. c.queue = IF c.sess.needs THEN Append(Tail(a.queue), Negotiate) ELSE Tail(a.queue)
      BY <2>7, <2>9
    <3> QED
      BY <1>1, <2>9, <2>10, <3>1, <3>2, <3>3, MoveAnswered
  <2>12. \A r \in Peers : r # p => sess'[r] = sess[r] /\ queue'[r] = queue[r]
    BY <1>1, <2>1, <2>5 DEF Arrays
  <2> QED
    BY <1>2, <1>3, <2>8, <2>11, <2>12, OwnStep DEF b, c
<1> QED
  BY <1>4, <1>5

LEMMA BroadcastStep ==
  ASSUME NEW p \in Peers, Agreed, broadcastTracks(p)
  PROVE  Agreed'
<1> DEFINE a == Browser(p)
           b == Browser(Other(p))
           c == Browser(p)'
           s == Negotiates(sess[p])
<1>1. Arrays /\ Homes /\ Pair(p, a, b)
  BY DEF Agreed, Pairs
<1>2. tracks' = [tracks EXCEPT ![p] = @ + 1] /\ UNCHANGED <<here, born, wire>>
  BY DEF broadcastTracks
<1>3. tracks' \in [Peers -> Nat] /\ \A q \in Peers : q # p => tracks'[q] = tracks[q]
  BY <1>1, <1>2 DEF Arrays
<1>4. CASE sess[p] = None
  <2>1. sess' = sess /\ queue' = queue
    BY <1>4 DEF broadcastTracks
  <2>2. Numbered(a, b) /\ a.sess = sess[p] /\ a.queue = queue[p]
    BY <1>1, BrowserIs DEF Pair, Side
  <2>3. queue[p] = <<>>
    BY <1>4, <2>2 DEF Numbered
  <2>4. sess' = [sess EXCEPT ![p] = None] /\ queue' = [queue EXCEPT ![p] = <<>>]
        /\ here' \in [Peers -> BOOLEAN]
    BY <1>1, <1>2, <1>4, <2>1, <2>3 DEF Arrays
  <2> QED
    BY <1>2, <1>3, <2>4, ForgettingStep
<1>5. CASE sess[p] # None
  <2>1. sess' = [sess EXCEPT ![p] = s] /\ queue' = [queue EXCEPT ![p] = Append(queue[p], Negotiate)]
    BY <1>1, <1>5 DEF broadcastTracks, Arrays
  <2>2. sess[p] \in Sessions /\ here[p] /\ queue[p] \in Seq(Items)
    BY <1>1, <1>5 DEF Arrays, Homes
  <2>3. /\ s \in Sessions /\ s.gen = sess[p].gen /\ s.sig = sess[p].sig /\ s.needs
        /\ s.sent = sess[p].sent /\ s.peer = sess[p].peer /\ s.got = sess[p].got
    BY <2>2 DEF Negotiates, Sessions
  <2>4. s # None
    BY <2>3, MeshAssumption
  <2>5. Append(queue[p], Negotiate) \in Seq(Items)
    BY <2>2, AppendProperties DEF Items
  <2>6. /\ a.sess = sess[p] /\ a.born = born[p] /\ a.queue = queue[p] /\ a.wire = wire[p]
    BY BrowserIs
  <2> HIDE DEF a, b, s
  <2>7. Arrays'
    BY <1>1, <1>2, <1>3, <2>1, <2>3, <2>5 DEF Arrays
  <2>8. /\ c.sess = s /\ c.queue = Append(a.queue, Negotiate) /\ c.born = a.born /\ c.wire = a.wire
    BY <1>1, <1>2, <2>1, <2>6, BrowserIsNext DEF Arrays
  <2>9. c \in Browsers
    BY <2>7, NextBrowsers
  <2> HIDE DEF c
  <2>10. Pair(p, c, b)
    <3>1. /\ a.sess # None /\ c.sess # None /\ c.sess.gen = a.sess.gen /\ c.sess.sig = a.sess.sig
          /\ c.sess.needs /\ c.sess.sent = a.sess.sent /\ c.sess.peer = a.sess.peer
          /\ c.sess.got = a.sess.got
      BY <1>5, <2>3, <2>4, <2>6, <2>8
    <3> QED
      BY <1>1, <2>8, <2>9, <3>1, MoveWishes
  <2>11. \A r \in Peers : r # p => sess'[r] = sess[r] /\ queue'[r] = queue[r]
    BY <1>1, <2>1 DEF Arrays
  <2> QED
    BY <1>2, <1>3, <2>2, <2>7, <2>10, <2>11, OwnStep DEF b, c
<1> QED
  BY <1>4, <1>5

LEMMA ConnectionStep ==
  ASSUME NEW p \in Peers, Agreed, ConnectionStateChanges(p)
  PROVE  Agreed'
<1> DEFINE a == Browser(p)
           b == Browser(Other(p))
           c == Browser(p)'
           st == IF Matched(p) THEN "connected" ELSE "failed"
           s == [sess[p] EXCEPT !.state = st]
<1>1. Arrays /\ Homes /\ Pair(p, a, b)
  BY DEF Agreed, Pairs
<1>2. sess[p] # None /\ sess' = [sess EXCEPT ![p] = s]
      /\ UNCHANGED <<here, tracks, born, queue, wire>>
  BY <1>1 DEF ConnectionStateChanges, Arrays
<1>3. sess[p] \in Sessions /\ here[p]
  BY <1>1, <1>2 DEF Arrays, Homes
<1>4. /\ s \in Sessions /\ s.gen = sess[p].gen /\ s.sig = sess[p].sig
      /\ (s.needs <=> sess[p].needs)
      /\ s.sent = sess[p].sent /\ s.peer = sess[p].peer /\ s.got = sess[p].got
  <2>1. st \in {"new", "connected", "failed"}
    OBVIOUS
  <2> HIDE DEF st
  <2> QED
    BY <1>3, <2>1 DEF Sessions
<1>5. s # None
  BY <1>4, MeshAssumption
<1>6. /\ a.sess = sess[p] /\ a.born = born[p] /\ a.tracks = tracks[p]
      /\ a.queue = queue[p] /\ a.wire = wire[p]
  BY BrowserIs
<1> HIDE DEF a, b, s
<1>7. Arrays'
  BY <1>1, <1>2, <1>4 DEF Arrays
<1>8. /\ c.sess = s /\ c.queue = a.queue /\ c.born = a.born /\ c.tracks = a.tracks
      /\ c.wire = a.wire
  BY <1>1, <1>2, <1>6, BrowserIsNext DEF Arrays
<1>9. c \in Browsers
  BY <1>7, NextBrowsers
<1> HIDE DEF c
<1>10. Pair(p, c, b)
  <2>1. /\ a.sess # None /\ c.sess # None /\ c.sess.gen = a.sess.gen /\ c.sess.sig = a.sess.sig
        /\ (c.sess.needs <=> a.sess.needs) /\ c.sess.sent = a.sess.sent
        /\ c.sess.peer = a.sess.peer /\ c.sess.got = a.sess.got
    BY <1>2, <1>4, <1>5, <1>6, <1>8
  <2> QED
    BY <1>1, <1>8, <1>9, <2>1, MoveConnection
<1>11. \A r \in Peers : r # p => sess'[r] = sess[r]
  BY <1>1, <1>2 DEF Arrays
<1> QED
  BY <1>2, <1>3, <1>7, <1>10, <1>11, OwnStep DEF b, c

\* A session closes, as its timer runs out or its user comes or goes.
LEMMA ClosingStep ==
  ASSUME NEW p \in Peers, Agreed, handlePendingCloseTimeout(p) \/ Moves(p)
  PROVE  Agreed'
<1>1. Arrays
  BY DEF Agreed
<1>2. /\ sess' = [sess EXCEPT ![p] = None] /\ queue' = [queue EXCEPT ![p] = <<>>]
      /\ UNCHANGED <<tracks, born, wire>>
      /\ here' = here \/ here' = [here EXCEPT ![p] = ~@]
  BY DEF handlePendingCloseTimeout, Moves, Closed
<1>3. /\ here' \in [Peers -> BOOLEAN] /\ \A q \in Peers : q # p => here'[q] = here[q]
      /\ tracks' \in [Peers -> Nat]
  BY <1>1, <1>2 DEF Arrays
<1> QED
  BY <1>2, <1>3, ForgettingStep

\* Nothing that the pair is made of changes.
LEMMA AgreedStays ==
  ASSUME Agreed, UNCHANGED <<here, tracks, sess, born, queue, wire>>
  PROVE  Agreed'
BY DEF Agreed, Arrays, Homes, Pairs, Browser

LEMMA LostCounts ==
  ASSUME lost \in Nat, [MeshNext]_meshVars
  PROVE  lost' \in Nat /\ (Fine' => Fine)
<1>1. lost' \in {lost, lost + 1}
  BY ZenonT(30) DEF MeshNext, meshVars, Progress, MeshTask, MeshTimer, ensureConnection, handleSignal,
         triggerNegotiation, OnOffer, OnAnswer, syncActivePeers, handlePendingCloseTimeout,
         Heal, ConnectionStateChanges, PresenceUpdate, broadcastTracks, Moves, dropGuests, Sends
<1>2. guests' => guests
  BY DEF MeshNext, meshVars, Progress, MeshTask, MeshTimer, ensureConnection, handleSignal,
         triggerNegotiation, OnOffer, OnAnswer, syncActivePeers, handlePendingCloseTimeout,
         Heal, ConnectionStateChanges, PresenceUpdate, broadcastTracks, Moves, dropGuests
<1> QED
  BY <1>1, <1>2 DEF Fine

LEMMA MeshInvInit == MeshInit => MeshInv
<1> SUFFICES ASSUME MeshInit PROVE Agreed
  BY DEF MeshInit, MeshInv
<1>1. Arrays /\ Homes
  BY NothingWaits DEF MeshInit, Arrays, Homes
<1>2. ASSUME NEW p \in Peers PROVE Pair(p, Browser(p), Browser(Other(p)))
  <2>1. ASSUME NEW q \in Peers
        PROVE  /\ Browser(q) \in Browsers /\ Browser(q).sess = None
               /\ Browser(q).queue = <<>> /\ Browser(q).wire = <<>>
    BY <1>1 DEF Arrays, Browser, Browsers, MeshInit
  <2>2. ASSUME NEW q \in Peers PROVE Side(q, Browser(q), Browser(Other(q)))
    BY <2>1, <2>2, NothingWaits DEF Side, Numbered
  <2>3. Side(Other(p), Browser(Other(p)), Browser(p))
    BY <2>2, TwoPeers
  <2> QED
    BY <2>1, <2>2, <2>3, TwoPeers DEF Pair
<1> QED
  BY <1>1, <1>2 DEF Agreed, Pairs

LEMMA MeshInvStep ==
  ASSUME MeshInv, [MeshNext]_meshVars, Generations = 0
  PROVE  MeshInv'
<1>1. lost' \in Nat /\ (Fine' => Fine)
  BY LostCounts DEF MeshInv
<1> SUFFICES ASSUME Fine' PROVE Agreed'
  BY <1>1 DEF MeshInv
<1>2. Fine /\ Agreed
  BY <1>1 DEF MeshInv
<1>3. CASE UNCHANGED meshVars
  BY <1>2, <1>3, AgreedStays DEF meshVars
<1>4. CASE dropGuests
  BY <1>4 DEF dropGuests, Fine
<1>5. ASSUME NEW p \in Peers, ensureConnection(p) \/ Heal(p) PROVE Agreed'
  <2>1. /\ here[p] /\ sess' = [sess EXCEPT ![p] = Opened(p)]
        /\ born' = [born EXCEPT ![p] = NextGen(p)]
        /\ queue' = [queue EXCEPT ![p] = Opening(p)]
        /\ Sends(p, <<Signal("hello", NextGen(p), 0)>>)
        /\ UNCHANGED <<here, tracks>>
    BY <1>5 DEF ensureConnection, Heal
  <2> QED
    BY <1>2, <2>1, OpeningStep
<1>6. ASSUME NEW p \in Peers, syncActivePeers(p) \/ PresenceUpdate(p) PROVE Agreed'
  <2>1. UNCHANGED <<here, tracks, sess, born, queue, wire>>
    BY <1>6 DEF syncActivePeers, PresenceUpdate
  <2> QED
    BY <1>2, <2>1, AgreedStays
<1>7. ASSUME NEW p \in Peers, handleSignal(p) PROVE Agreed'
  BY <1>2, <1>7, HandleSignalStep
<1>8. ASSUME NEW p \in Peers, MeshTask(p) PROVE Agreed'
  BY <1>2, <1>8, TriggerStep, OnOfferStep, OnAnswerStep DEF MeshTask
<1>9. ASSUME NEW p \in Peers, handlePendingCloseTimeout(p) \/ Moves(p) PROVE Agreed'
  BY <1>2, <1>9, ClosingStep
<1>10. ASSUME NEW p \in Peers, broadcastTracks(p) PROVE Agreed'
  BY <1>2, <1>10, BroadcastStep
<1>11. ASSUME NEW p \in Peers, ConnectionStateChanges(p) PROVE Agreed'
  BY <1>2, <1>11, ConnectionStep
<1> QED
  BY <1>3, <1>4, <1>5, <1>6, <1>7, <1>8, <1>9, <1>10, <1>11
     DEF MeshNext, Progress, MeshTimer

LEMMA MeshInvAgrees == MeshInv => NegotiationAgrees
<1> SUFFICES ASSUME MeshInv, Calm, lost = 0, guests, Matched(1), NEW p \in Peers
             PROVE  sess[p].sig = "stable" /\ ~sess[p].needs /\ sess[p].got = tracks[Other(p)]
  BY DEF NegotiationAgrees
<1> DEFINE o == Other(p)
           a == Browser(p)
           b == Browser(o)
<1>1. Pair(p, a, b) /\ Pair(o, b, a)
  BY PairTurns DEF MeshInv, Fine, Agreed, Pairs
<1>2. o \in Peers /\ ((p = 1 /\ o = 2) \/ (p = 2 /\ o = 1))
  BY DEF Peers, Other
<1>3. Kinds(a.queue) = {} /\ Kinds(b.queue) = {} /\ Coming(a) = {} /\ Coming(b) = {}
  BY <1>2, NothingWaits, BrowserIs DEF Calm, Quiet, Coming
<1>4. /\ a.sess # None /\ b.sess # None
      /\ a.sess.peer = b.sess.gen /\ b.sess.peer = a.sess.gen
  BY <1>2, BrowserIs DEF Matched, Other
<1>5. a.sess.sig \in {"stable", "offering"} /\ b.sess.sig \in {"stable", "offering"}
  BY <1>1, <1>4, BrowserFields DEF Pair
<1>6. /\ Wants(a) /\ Wants(b) /\ Hoped(p, a, b) /\ Hoped(o, b, a) /\ Heard(a, b)
  BY <1>1, <1>4 DEF Pair, Side
<1> HIDE DEF a, b, o
<1>7. a.sess.sig = "stable" /\ b.sess.sig = "stable"
  BY <1>3, <1>4, <1>5, <1>6 DEF Hoped, Known
<1>8. ~a.sess.needs /\ ~b.sess.needs
  BY <1>3, <1>6, <1>7 DEF Wants
<1>9. a.sess.got = b.tracks
  BY <1>3, <1>4, <1>6, <1>7, <1>8 DEF Heard
<1> QED
  BY <1>7, <1>8, <1>9, BrowserIs DEF a, b, o

\* Whatever offers and answers cross, sessions are replaced and users come and
\* go: two connected browsers between which nothing is under way, and of whose
\* signals none was lost, know each other's present tracks.  However many
\* tracks change and signals wait; sessions are told apart, as in the code, by
\* identity.
THEOREM MeshAgrees ==
  ASSUME Generations = 0
  PROVE  MeshSpec => []NegotiationAgrees
<1>1. MeshInv /\ [MeshNext]_meshVars => MeshInv'
  BY MeshInvStep
<1> QED
  BY <1>1, MeshInvInit, MeshInvAgrees, PTL DEF MeshSpec
=============================================================================
