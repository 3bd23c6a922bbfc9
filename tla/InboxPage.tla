----------------------------- MODULE InboxPage -----------------------------
(***************************************************************************)
(* The inbox: components/inbox/InboxPage.tsx and atoms/inbox.ts; the       *)
(* conversation list, the open conversation's feed, the composer and the   *)
(* menus, fed by requests and by pushes.  Conversation ids are numbers at  *)
(* run time, so a comparison with c.id.toString() never holds.             *)
(***************************************************************************)
EXTENDS Spa

CONSTANTS
    Groups,         \* conversations that are groups
    Direct          \* one-to-one conversations

Convs == Groups \cup Direct

\* The component's own state: loadingConvs and loadingMsgs, and
\* subscribedConvsRef.  Panels, menus and pickers can be opened at any time and
\* change nothing else, so what they offer is offered.
InboxMounted == [busy |-> {"convs"}, subbed |-> {}]

\* inboxConversationsAtom, inboxMessagesAtom and activeConversationIdAtom.
InboxAtoms == [convs |-> [c \in Convs |-> None], msgs |-> {}, active |-> None]

\* A conversation: whether a group is locked, or a user blocked by the other
\* one or by this one; this user's place in a group and the other participant's.
NewConv == [shut |-> "no", place |-> "manager", other |-> "member"]

\* The server's conversations of the user, and the messages said in them.
InboxData ==
    [n |-> 0, said |-> [c \in Convs |-> 0],
     convs |-> [c \in Convs |-> IF c \in Groups THEN NewConv ELSE None]]

InboxInit ==
    Begins("inbox", InboxMounted, InboxAtoms, Add({}, "convs", None), InboxData)

Listed(a) == {c \in Convs : a.convs[c] # None}
Feed(c) == {<<c, k>> : k \in 1..db.said[c]}

-----------------------------------------------------------------------------
(* What the header and the composer offer for an open conversation.        *)

\* The composer's controls are disabled when blocked, locked or muted.
Composes(v) == v # None => v.shut = "no" /\ v.place # "muted"

IsManager(v) == v # None /\ v.place = "manager"

\* The sidebar: a row per conversation, and the panel for a new message.
SidebarView == {<<"select", c>> : c \in Listed(atom)} \cup {<<"start", c>> : c \in Convs}

\* The header's add-someone panel, for managers; it leaves out participants.
HeaderView(c, v) ==
    IF c \in Groups /\ IsManager(v) /\ v.other = "out" THEN {"addUser"} ELSE {}

\* The chat menu: delete, lock, leave, and block or unblock.
MenuView(c, v) ==
    IF v = None THEN {}
    ELSE (IF c \in Direct \/ IsManager(v) THEN {"delete"} ELSE {})
         \cup (IF c \in Groups /\ IsManager(v) THEN {"lock"} ELSE {})
         \cup (IF c \in Groups THEN {"leave"} ELSE {})

BlockView(c, v) ==
    CASE c \in Groups \/ v = None \/ v.shut = "byOther" -> {}
      [] v.shut = "byMe" -> {"unblock"}
      [] OTHER -> {"block"}

\* A participant's row: a manager may mute, unmute or remove them.
ParticipantView(c, v) ==
    CASE c \in Direct \/ ~IsManager(v) \/ v.other = "out" -> {}
      [] v.other = "muted" -> {"unmute", "kick"}
      [] OTHER -> {"mute", "kick"}

-----------------------------------------------------------------------------
(* The effects that follow a change of the list or of the selection.       *)

\* The selection moves from old to c: the old load is cancelled and its
\* conversation unsubscribed; the feed is emptied, loaded and subscribed.
Cancelled(n, old) ==
    {IF r.op = "messages" /\ r.arg = old THEN [r EXCEPT !.live = FALSE] ELSE r : r \in n}

\* Every conversation of the list is subscribed, once.
Effects(n, u, a, c) ==
    LET old == atom.active
        fresh == Listed(a) \ u.subbed
        moved == old # c
        kept == IF moved THEN Cancelled(n, old) ELSE n
    IN  /\ moved /\ c # None => Cardinality(kept) < MaxFlight
        /\ ui' = [u EXCEPT !.subbed = @ \cup fresh,
                           !.busy = IF moved /\ c # None THEN @ \cup {"msgs"} ELSE @]
        /\ atom' = [a EXCEPT !.active = c, !.msgs = IF moved THEN {} ELSE @]
        /\ net' = IF moved /\ c # None THEN Add(kept, "messages", c) ELSE kept
        /\ subs' = IF moved THEN ((subs \cup fresh) \ {old}) \cup ({c} \ {None})
                   ELSE subs \cup fresh
        /\ UNCHANGED <<page, db>>

\* A reply writes atoms: the page mounted by then has its effects run, a later
\* visit's too; component state is only reached by its own visit's replies.
Applies(r, n, u, a, c) ==
    IF On("inbox") THEN Effects(n, IF r.live THEN u ELSE ui, a, c) /\ UNCHANGED push
    ELSE ui' = ui /\ atom' = [a EXCEPT !.active = c] /\ net' = n /\ UNCHANGED <<page, db, subs, push>>

-----------------------------------------------------------------------------
(* The list.                                                               *)

\* The list has come, or not; coming from a ?with= link, the conversation with
\* that user is opened, or created first.
ConversationsLoaded(r) ==
    Replied(r, {"convs"}) /\
        LET v == r.rep.val
            a == IF r.rep.ok THEN [atom EXCEPT !.convs = v] ELSE atom
            c == IF r.arg \in Listed(a) THEN r.arg ELSE atom.active
        IN  IF r.rep.ok /\ r.arg # None /\ r.arg \notin Listed(a)
            THEN Applies(r, (net \ {r}) \cup {[r EXCEPT !.op = "with", !.rep = None]}, ui, a, c)
            ELSE Applies(r, net \ {r}, Idle(ui, "convs"), a, c)

Select(c) ==
    /\ On("inbox") /\ <<"select", c>> \in SidebarView /\ c # atom.active
    /\ Effects(net, ui, atom, c) /\ UNCHANGED push

\* The panel for a new message: people are picked and the conversation with
\* them is asked for.  A conversation stands for those it is with.
startConversation ==
    \E c \in Convs : On("inbox") /\ <<"start", c>> \in SidebarView /\ Call(ui, "start", c)

StartReplied(r) ==
    Replied(r, {"start", "with"}) /\
        LET u == IF r.op = "with" THEN Idle(ui, "convs") ELSE ui
            a == IF atom.convs[r.arg] # None THEN atom
                 ELSE [atom EXCEPT !.convs[r.arg] = r.rep.val]
        IN  IF ~r.rep.ok THEN Done(r, u)
            ELSE Applies(r, net \ {r}, u, a, r.arg)

-----------------------------------------------------------------------------
(* The open conversation.                                                  *)

\* The feed's load: dropped when the selection has moved on.
MessagesLoaded(r) ==
    Replied(r, {"messages"}) /\
        IF ~r.live THEN Done(r, ui)
        ELSE DoneAtom(r, Idle(ui, "msgs"),
                      IF r.rep.ok THEN [atom EXCEPT !.msgs = r.rep.val] ELSE atom)

\* Deleting, blocking, unblocking and leaving ask first; the conversation is
\* the one that was open when the question was asked.
MenuClick ==
    /\ On("inbox") /\ atom.active # None
    /\ LET c == atom.active
           v == atom.convs[c]
       IN  \E op \in (MenuView(c, v) \ {"lock"}) \cup BlockView(c, v) : Call(ui, op, c)

handleDeleteConversation(r) ==
    Replied(r, {"delete"}) /\
        IF ~r.rep.ok THEN Done(r, ui)
        ELSE LET a == [atom EXCEPT !.convs[r.arg] = None, !.msgs = {}]
             IN  Applies(r, net \ {r}, ui, a, None)

\* The block is entered in whichever row has the id the handler started with.
handleBlockUser(r) ==
    Replied(r, {"block", "unblock"}) /\
        LET a == [atom EXCEPT !.convs[r.arg] =
                    IF @ = None THEN @ ELSE [@ EXCEPT !.shut = IF r.op = "block" THEN "byMe" ELSE "no"]]
        IN  DoneAtom(r, ui, IF r.rep.ok THEN a ELSE atom)

\* handleKick of oneself: the filter compares a string with a number and keeps
\* every row; only the selection is dropped.
handleLeave(r) ==
    Replied(r, {"leave"}) /\
        IF ~r.rep.ok THEN Done(r, ui)
        ELSE Applies(r, net \ {r}, ui, atom, None)

LeaveInbox == Leave("inbox", [atom EXCEPT !.active = None],
                    subs \ (ui.subbed \cup {atom.active}))

\* Mounting again, perhaps through a ?with= link; a selection that a request of
\* the earlier visit has left behind is opened again.
ReturnToInbox ==
    \E c \in Direct \cup {None} :
        LET n == Add(net, "convs", c)
            old == atom.active
        IN  /\ page = <<"inbox", "away">> /\ page' = <<"inbox", "mounted">>
            /\ Room(IF old = None THEN 1 ELSE 2)
            /\ ui' = [InboxMounted EXCEPT !.subbed = Listed(atom),
                         !.busy = IF old = None THEN @ ELSE @ \cup {"msgs"}]
            /\ atom' = [atom EXCEPT !.msgs = {}]
            /\ net' = IF old = None THEN n ELSE Add(n, "messages", old)
            /\ subs' = subs \cup Listed(atom) \cup ({old} \ {None})
            /\ UNCHANGED <<db, push>>

-----------------------------------------------------------------------------
(* The server (inbox/service.go) and what it pushes.                       *)

Event(t, c, x) == [t |-> t, c |-> c, x |-> x]
ToSubs(c, e) == IF c \in subs THEN <<e>> ELSE <<>>

\* A message goes to the conversation's subscribers.  (The direct inbox:message
\* only counts unread messages, which is left out.)
Says(d, c) == [d EXCEPT !.said[c] = @ + 1]
Said(c) == ToSubs(c, Event("message_created", c, db.said[c] + 1))

InboxServes(r) ==
    LET c == r.arg
        v == db.convs[c]
    IN
    \/ r.op = "convs" /\ Read(r, db.convs)
    \/ r.op = "messages" /\ Read(r, Feed(c))
    \/ r.op \in {"start", "with"} /\ IF v # None THEN Read(r, v)
        ELSE db.n < MaxChanges /\ Answer(r, [db EXCEPT !.convs[c] = NewConv, !.n = @ + 1], NewConv)
    \/ /\ r.op \in {"delete", "leave"} /\ v # None /\ db.n < MaxChanges
       /\ AnswerPush(r, [db EXCEPT !.convs[c] = None, !.n = @ + 1], None,
                     IF r.op = "delete" THEN <<>> ELSE <<Event("conversation_deleted", c, None)>>)
    \/ /\ r.op \in {"block", "unblock"} /\ v # None /\ db.n < MaxChanges
       /\ Answer(r, [db EXCEPT !.convs[c] = [v EXCEPT !.shut = IF r.op = "block" THEN "byMe" ELSE "no"], !.n = @ + 1], None)

\* The composer sends, or uploads a file into the conversation; the server
\* checks the gates again, and what was said comes back as a push.  The reply
\* changes nothing in the page.
Compose ==
    LET c == atom.active IN
    /\ On("inbox") /\ c # None /\ Composes(atom.convs[c])
    /\ db.convs[c] # None /\ Composes(db.convs[c])
    /\ Changes(Says(db, c), Said(c))

\* handleLock, handleMute, handleKick and handleAddUser change no row (the
\* first and the third compare a string with a number): the push does.
Managed(v, op) ==
    CASE op = "lock" -> [v EXCEPT !.shut = IF @ = "no" THEN "locked" ELSE "no"]
      [] op = "mute" -> [v EXCEPT !.other = "muted"]
      [] op \in {"unmute", "addUser"} -> [v EXCEPT !.other = "member"]
      [] op = "kick" -> [v EXCEPT !.other = "out"]

Manage ==
    LET c == atom.active
        v == atom.convs[c]
        w == db.convs[c]
    IN  /\ On("inbox") /\ c # None /\ IsManager(w)
        /\ \E op \in (MenuView(c, v) \cap {"lock"}) \cup ParticipantView(c, v) \cup HeaderView(c, v) :
            Changes([db EXCEPT !.convs[c] = Managed(w, op)], ToSubs(c, Event("row", c, Managed(w, op))))

\* Others write, block the user, lock the group, mute, remove or add the user.
OthersChat ==
    \E c \in Convs :
        LET v == db.convs[c] IN
        \/ v # None /\ Changes(Says(db, c), Said(c))
        \/ /\ v # None /\ c \in Groups
           /\ \E w \in {Managed(v, "lock"), [v EXCEPT !.place = "muted"]} :
                w # v /\ Changes([db EXCEPT !.convs[c] = w], ToSubs(c, Event("row", c, w)))
        \/ /\ v # None /\ c \in Groups
           /\ Changes([db EXCEPT !.convs[c] = None], <<Event("conversation_deleted", c, None)>>)
        \/ /\ v # None /\ c \in Direct /\ v.shut = "no"
           /\ Changes([db EXCEPT !.convs[c].shut = "byOther"], <<>>)
        \/ /\ v = None /\ c \in Groups
           /\ LET w == [NewConv EXCEPT !.place = "member"] IN
              Changes([db EXCEPT !.convs[c] = w], <<Event("conversation_created", c, w)>>)

-----------------------------------------------------------------------------
(* atoms/inbox.ts: what a push does.                                       *)

\* "inbox:update:message_created" adds to the feed, whatever is open.
OnMessageCreated(a, e) == [a EXCEPT !.msgs = @ \cup {<<e.c, e.x>>}]

\* participant_muted and _role_changed, and conversation_locked.
OnRow(a, e) == [a EXCEPT !.convs[e.c] = IF @ = None THEN @ ELSE e.x]

InboxPush ==
    /\ page[1] = "inbox" /\ push # <<>>
    /\ LET e == Head(push)
           a == CASE e.t = "message_created" -> OnMessageCreated(atom, e)
                  [] e.t = "row" -> OnRow(atom, e)
                  [] e.t = "conversation_created" -> [atom EXCEPT !.convs[e.c] = IF @ = None THEN e.x ELSE @]
                  [] e.t = "conversation_deleted" -> [atom EXCEPT !.convs[e.c] = None]
                  [] OTHER -> atom
           c == IF e.t = "conversation_deleted" /\ atom.active = e.c THEN None ELSE atom.active
       IN  IF On("inbox")
           THEN Effects(net, ui, a, c) /\ push' = Tail(push)
           ELSE Takes([a EXCEPT !.active = c])

-----------------------------------------------------------------------------
InboxReplies(r) ==
    \/ ConversationsLoaded(r) \/ StartReplied(r) \/ MessagesLoaded(r)
    \/ handleDeleteConversation(r) \/ handleBlockUser(r) \/ handleLeave(r)

InboxNext ==
    \/ \E c \in Convs : Select(c)
    \/ startConversation \/ MenuClick \/ Compose \/ Manage
    \/ LeaveInbox \/ ReturnToInbox
    \/ page[1] = "inbox" /\ (OthersChat \/ InboxPush \/ \E r \in net : InboxServes(r) \/ InboxReplies(r))
=============================================================================
