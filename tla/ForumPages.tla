----------------------------- MODULE ForumPages -----------------------------
(***************************************************************************)
(* The forum: page "thread" is ViewThreadPage with ViewThreadMeta, page    *)
(* "comments" ViewThreadComments with CommentSection and useCommentsFeed,  *)
(* page "pageComments" the comments under a custom page, page "feed"       *)
(* CategoryThreadsPage with useThreadsFeed, page "forum" the Forum         *)
(* overview, "threadForm" EditThread, "newThread" NewThread and "tiles"    *)
(* ThreadUserTiles.                                                        *)
(***************************************************************************)
EXTENDS Spa

Threads == {"t1", "t2"}
FeedLimit == 1      \* bound: threads or comments in one page of a feed (15, 20 and 50 in the code)
InFeed(q, x) == \E i \in DOMAIN q : q[i] = x
FeedWithout(q, x) == SelectSeq(q, LAMBDA y : y # x)

\* threadPermissionsAtom: derived from the user and the thread.
threadPermissions(user) == IF user = "owner" THEN {"edit", "delete", "lock", "like"} ELSE IF user = "member" THEN {"like"} ELSE {}
updateThread(t, ver) == [t EXCEPT !.ver = ver]
\* Thread pushes; of a lock there is none that the browser handles.
threadReducer(a, p) ==
    IF a.thread = None \/ a.thread.id # p.id THEN a
    ELSE CASE p.kind = "thread_updated" -> [a EXCEPT !.thread = updateThread(@, p.val)]
           [] p.kind = "thread_deleted" -> [a EXCEPT !.thread = None]
           [] p.kind = "thread_liked" -> [a EXCEPT !.thread.liked = p.val]

-----------------------------------------------------------------------------
(* A thread.  db[t]: its version, whether this user likes it, its lock.    *)

ThreadOf(d, t) == [id |-> t, ver |-> d.ver[t], liked |-> t \in d.liked, locked |-> t \in d.locked]
ThreadInit ==
    \E user \in {"guest", "member", "owner"} :
        Begins("thread", [busy |-> {"load"}, id |-> "t1", user |-> user, on |-> {}, error |-> FALSE],
               [thread |-> None], Add({}, "thread", <<"t1", FALSE>>),
               [n |-> 0, there |-> Threads, ver |-> [t \in Threads |-> 0], liked |-> {}, locked |-> {}])

\* loadThread: shown, subscribed to, and the author's roles are asked for.
loadedThread(r) ==
    /\ Replied(r, {"thread"})
    /\ IF r.rep.ok
       THEN /\ Reach(r, Idle(ui, "load")) /\ atom' = [thread |-> r.rep.val] /\ subs' = subs \cup {r.arg[1]}
            /\ net' = Add(net \ {r}, "author", r.arg) /\ UNCHANGED <<page, db, push>>
       ELSE Done(r, Idle([ui EXCEPT !.error = TRUE], "load"))
gotAuthor(r) == Replied(r, {"author"}) /\ Done(r, ui)
openThread(t) ==
    /\ t # ui.id /\ Room(1) /\ ui' = Busy([ui EXCEPT !.id = t], "load") /\ net' = Add(net, "thread", <<t, FALSE>>)
    /\ subs' = subs \ {ui.id} /\ UNCHANGED <<page, atom, db, push>>
ThreadView ==
    IF "load" \in ui.busy \/ ui.error \/ atom.thread = None THEN {}
    ELSE {"reading", "close"} \cup (threadPermissions(ui.user) \ {"like"})
         \cup (IF ui.user # "guest" THEN {"like", "share"} ELSE {})
         \cup (IF threadPermissions(ui.user) \cap {"edit", "delete"} # {} THEN {"analytics"} ELSE {})
toggleView(v) == v \in ThreadView \cap {"reading", "analytics"} /\ Set(Toggle(ui, v))
\* The like is shown at once and taken back if the request fails.
handleLikeThread == "like" \in ThreadView /\ CallAtom(ui, [atom EXCEPT !.thread.liked = ~@], "like", <<ui.id, ~atom.thread.liked>>)
likedThread(r) ==
    /\ Replied(r, {"like"})
    /\ DoneAtom(r, ui, IF r.rep.ok \/ atom.thread = None THEN atom ELSE [atom EXCEPT !.thread.liked = ~r.arg[2]])
handleLockThread == "lock" \in ThreadView /\ Write(ui, "lock", <<ui.id, ~atom.thread.locked>>)
lockedThread(r) ==
    /\ Replied(r, {"lock"})
    /\ DoneAtom(r, ui, IF r.rep.ok /\ atom.thread # None THEN [atom EXCEPT !.thread.locked = r.arg[2]] ELSE atom)
handleDeleteThread == "delete" \in ThreadView /\ Write(ui, "deleteThread", <<ui.id, FALSE>>)
handleShareThread == "share" \in ThreadView /\ Call(ui, "share", <<ui.id, FALSE>>)
\* Both navigate away on success.
leftThread(r) ==
    /\ Replied(r, {"deleteThread", "share"})
    /\ IF r.rep.ok /\ r.live THEN Quit("thread") ELSE Done(r, ui)
threadPushed == push # <<>> /\ Takes(threadReducer(atom, Head(push)))

Told(t, kind, val) == IF t \in subs THEN <<[kind |-> kind, id |-> t, val |-> val]>> ELSE <<>>
ThreadServer(r) ==
    \/ r.op = "thread" /\ r.arg[1] \in db.there /\ Read(r, ThreadOf(db, r.arg[1]))
    \/ r.op \in {"author", "share"} /\ Read(r, None)
    \/ /\ r.op \in {"like", "lock"} /\ db.n < MaxChanges
       /\ LET t == r.arg[1]
              flip(s) == IF r.arg[2] THEN s \cup {t} ELSE s \ {t}
          IN  IF r.op = "like" THEN AnswerPush(r, [db EXCEPT !.liked = flip(@), !.n = @ + 1], None, Told(t, "thread_liked", r.arg[2]))
              ELSE Answer(r, [db EXCEPT !.locked = flip(@), !.n = @ + 1], None)
    \/ /\ r.op = "deleteThread" /\ r.arg[1] \in db.there
       /\ AnswerPush(r, [db EXCEPT !.there = @ \ {r.arg[1]}], None, Told(r.arg[1], "thread_deleted", None))
threadChanges == \E t \in Threads : Changes([db EXCEPT !.ver[t] = 1], Told(t, "thread_updated", 1))

ThreadNext ==
    /\ On("thread")
    /\ \/ handleLikeThread \/ handleLockThread \/ handleDeleteThread \/ handleShareThread \/ threadPushed \/ threadChanges
       \/ openThread("t2") \/ (\E v \in {"reading", "analytics"} : toggleView(v))
       \/ \E r \in net : \/ loadedThread(r) \/ gotAuthor(r) \/ likedThread(r) \/ lockedThread(r) \/ leftThread(r)
                         \/ ThreadServer(r)

-----------------------------------------------------------------------------
(* Comments.  The server returns the oldest first; a comment is            *)
(* <<thread, number>>.  The thread's page unsubscribes from it; this       *)
(* section only ever subscribes.                                           *)

FirstOf(q, off) == SubSeq(q, off + 1, IF Len(q) < off + FeedLimit THEN Len(q) ELSE off + FeedLimit)
Fresh(u) == [Busy(u, "comments") EXCEPT !.offset = 0, !.exhausted = FALSE, !.older = FALSE]
CommentsInit ==
    \E may \in BOOLEAN :
        LET u == [busy |-> {}, id |-> "t1", offset |-> 0, exhausted |-> FALSE, older |-> FALSE, may |-> may, on |-> {}]
        IN  /\ page = <<"comments", "mounted">> /\ ui = Fresh(u) /\ atom = [comments |-> <<>>, liked |-> {}]
            /\ net = Add({}, "page", <<"t1", 0>>) /\ subs = {"t1"} /\ push = <<>>
            /\ db = [n |-> 0, comments |-> [t \in Threads |-> <<<<t, 1>>>>]]

loadInitial(r) ==
    /\ Replied(r, {"page"}) /\ r.arg[2] = 0
    /\ LET got == IF r.rep.ok THEN r.rep.val ELSE <<>> IN
       DoneAtom(r, Idle([ui EXCEPT !.offset = Len(got), !.exhausted = Len(got) < FeedLimit \/ @], "comments"), [atom EXCEPT !.comments = got])
\* loadOlder: when the top of the feed comes into view.
loadOlder == ~ui.older /\ ~ui.exhausted /\ "comments" \notin ui.busy /\ Call([ui EXCEPT !.older = TRUE], "page", <<ui.id, ui.offset>>)
gotOlder(r) ==
    /\ Replied(r, {"page"}) /\ r.arg[2] > 0
    /\ LET u == [ui EXCEPT !.older = FALSE] IN
       IF ~r.rep.ok THEN Done(r, u)
       ELSE DoneAtom(r, [u EXCEPT !.offset = @ + Len(r.rep.val), !.exhausted = Len(r.rep.val) < FeedLimit],
                     [atom EXCEPT !.comments = r.rep.val \o @])
\* The address changes to another thread: its page unsubscribes the old one.
otherThread(t) ==
    /\ t # ui.id /\ Room(1) /\ ui' = Fresh([ui EXCEPT !.id = t]) /\ atom' = [atom EXCEPT !.comments = <<>>]
    /\ net' = Add(net, "page", <<t, 0>>) /\ subs' = (subs \ {ui.id}) \cup {t} /\ UNCHANGED <<page, db, push>>
CommentsFeed == IF "comments" \in ui.busy THEN {} ELSE {atom.comments[i] : i \in DOMAIN atom.comments}
CommentEditor == IF ~ui.may THEN {} ELSE IF "editor" \in ui.on THEN {"cancel"} \cup (IF "submit" \in ui.busy THEN {} ELSE {"submit"}) ELSE {"reply"}
toggleEditor == CommentEditor \cap {"reply", "cancel"} # {} /\ Set(Toggle(ui, "editor"))
handleDeleteComment(c) == ui.may /\ c \in CommentsFeed /\ Write(ui, "deleteComment", c)
handleLikeComment(c) ==
    /\ ui.may /\ c \in CommentsFeed
    /\ CallAtom(ui, [atom EXCEPT !.liked = IF c \in @ THEN @ \ {c} ELSE @ \cup {c}], IF c \in atom.liked THEN "unlike" ELSE "like", c)
commentDone(r) ==
    /\ Replied(r, {"deleteComment", "like", "unlike"})
    /\ IF r.rep.ok \/ r.op = "deleteComment" THEN Done(r, ui)
       ELSE DoneAtom(r, ui, [atom EXCEPT !.liked = IF r.op = "like" THEN @ \ {r.arg} ELSE @ \cup {r.arg}])
submitComment == "submit" \in CommentEditor /\ Write(Busy(ui, "submit"), "comment", <<ui.id, 0>>)
commented(r) == Replied(r, {"comment"}) /\ Done(r, Close(Idle(ui, "submit"), "editor"))
\* A comment push is taken whatever thread is shown.
appendComment(q, c) == IF InFeed(q, c) THEN q ELSE Append(q, c)
commentReducer(a, p) ==
    CASE p.kind = "comment_created" -> [a EXCEPT !.comments = appendComment(@, p.id)]
      [] p.kind = "comment_deleted" -> [a EXCEPT !.comments = FeedWithout(@, p.id)]
commentPushed == push # <<>> /\ Takes(commentReducer(atom, Head(push)))

CommentTold(kind, c) == IF c[1] \in subs THEN <<[kind |-> kind, id |-> c]>> ELSE <<>>
NewComment(t) == <<t, Len(db.comments[t]) + 1>>
CommentsServer(r) ==
    \/ r.op = "page" /\ Read(r, FirstOf(db.comments[r.arg[1]], r.arg[2]))
    \/ r.op \in {"like", "unlike"} /\ Read(r, None)
    \/ /\ r.op = "comment" /\ db.n < MaxChanges
       /\ LET c == NewComment(r.arg[1]) IN
          AnswerPush(r, [db EXCEPT !.comments[r.arg[1]] = Append(@, c), !.n = @ + 1], None, CommentTold("comment_created", c))
    \/ /\ r.op = "deleteComment" /\ db.n < MaxChanges
       /\ AnswerPush(r, [db EXCEPT !.comments[r.arg[1]] = FeedWithout(@, r.arg), !.n = @ + 1], None, CommentTold("comment_deleted", r.arg))
othersComment ==
    \E t \in Threads : Changes([db EXCEPT !.comments[t] = Append(@, NewComment(t))], CommentTold("comment_created", NewComment(t)))
CommentsNext ==
    /\ On("comments")
    /\ \/ loadOlder \/ toggleEditor \/ submitComment \/ commentPushed \/ othersComment
       \/ otherThread("t2")
       \/ (\E c \in CommentsFeed : handleDeleteComment(c)) \/ (\E t \in Threads : handleLikeComment(<<t, 1>>))
       \/ \E r \in net : loadInitial(r) \/ gotOlder(r) \/ commentDone(r) \/ commented(r) \/ CommentsServer(r)

-----------------------------------------------------------------------------
(* The comments of a custom page keep their own state; a failed like or    *)
(* deletion puts back the list as it was when the user clicked.            *)

PageCommentsInit ==
    \E may \in BOOLEAN :
        Begins("pageComments", [busy |-> {"comments"}, may |-> may, slow |-> FALSE, comments |-> <<>>, liked |-> {}, due |-> {"slow"}],
               [n |-> 0], Add({}, "page", None), [n |-> 0, comments |-> <<1>>, slow |-> <<>>])
loadSlowMode == ui.due # {} /\ Call([ui EXCEPT !.due = {}], "slow", None)
gotSlowMode(r) == Replied(r, {"slow", "setSlow"}) /\ Done(r, IF r.rep.ok THEN [ui EXCEPT !.slow = r.rep.val # <<>>] ELSE ui)
toggleSlowMode == ui.may /\ Write(ui, "setSlow", <<IF ui.slow THEN <<>> ELSE <<1>>, 0>>)
gotComments(r) ==
    Replied(r, {"page"}) /\ Done(r, Idle([ui EXCEPT !.comments = IF r.rep.ok THEN r.rep.val ELSE <<>>], "comments"))
CommentList == IF "comments" \in ui.busy THEN {} ELSE {ui.comments[i] : i \in DOMAIN ui.comments}
handlePageComment == ui.may /\ "submit" \notin ui.busy /\ Write(Busy(ui, "submit"), "comment", None)
pageCommented(r) ==
    Replied(r, {"comment"}) /\ Done(r, Idle(IF r.rep.ok THEN [ui EXCEPT !.comments = appendComment(@, Head(r.rep.val))] ELSE ui, "submit"))
handleLike(c) ==
    /\ ui.may /\ c \in CommentList
    /\ Call([ui EXCEPT !.liked = IF c \in @ THEN @ \ {c} ELSE @ \cup {c}], "like", <<ui.comments, IF c \in ui.liked THEN 1 ELSE 0>>)
handleDelete(c) == ui.may /\ c \in CommentList /\ Write([ui EXCEPT !.comments = FeedWithout(@, c)], "delete", <<ui.comments, c>>)
pageCommentDone(r) ==
    /\ Replied(r, {"like", "delete"})
    /\ Done(r, IF r.rep.ok THEN ui
               ELSE IF r.op = "delete" THEN [ui EXCEPT !.comments = r.arg[1]]
               ELSE [ui EXCEPT !.comments = r.arg[1], !.liked = IF r.arg[2] = 1 THEN {1} ELSE {}])
pageLiveEvent ==
    /\ push # <<>> /\ push' = Tail(push) /\ UNCHANGED <<page, atom, net, db, subs>>
    /\ LET p == Head(push) IN
       ui' = CASE p.kind = "created" -> [ui EXCEPT !.comments = appendComment(@, p.val)]
               [] p.kind = "deleted" -> [ui EXCEPT !.comments = FeedWithout(@, p.val)]
               [] p.kind = "slowmode" -> [ui EXCEPT !.slow = p.val # <<>>]
               [] OTHER -> ui
NewPageComment == Len(db.comments) + 1
PageCommentsServer(r) ==
    \/ r.op = "page" /\ Read(r, db.comments)
    \/ r.op = "slow" /\ Read(r, db.slow)
    \/ r.op = "like" /\ Read(r, None)
    \/ /\ db.n < MaxChanges
       /\ \/ /\ r.op = "setSlow"
             /\ AnswerPush(r, [db EXCEPT !.slow = r.arg[1], !.n = @ + 1], r.arg[1], <<[kind |-> "slowmode", val |-> r.arg[1]]>>)
          \/ /\ r.op = "comment"
             /\ AnswerPush(r, [db EXCEPT !.comments = Append(@, NewPageComment), !.n = @ + 1], <<NewPageComment>>,
                           <<[kind |-> "created", val |-> NewPageComment]>>)
          \/ /\ r.op = "delete"
             /\ AnswerPush(r, [db EXCEPT !.comments = FeedWithout(@, r.arg[2]), !.n = @ + 1], None,
                           <<[kind |-> "deleted", val |-> r.arg[2]]>>)
PageCommentsNext ==
    /\ On("pageComments")
    /\ \/ loadSlowMode \/ toggleSlowMode \/ handlePageComment \/ pageLiveEvent \/ handleLike(1)
       \/ Changes([db EXCEPT !.comments = Append(@, NewPageComment)], <<[kind |-> "created", val |-> NewPageComment]>>)
       \/ (\E c \in CommentList : handleDelete(c))
       \/ \E r \in net : gotSlowMode(r) \/ gotComments(r) \/ pageCommented(r) \/ pageCommentDone(r) \/ PageCommentsServer(r)

-----------------------------------------------------------------------------
(* The feed of a category.  A category's id is a sequence of characters;   *)
(* the key of the active feed is the id, a dash and the search text.       *)

Categories == {<<"c">>, <<"d">>}
filterKey(cat, query) == cat \o <<"-">> \o query
FeedUi(cat, query) == [busy |-> {"load"}, cat |-> cat, query |-> query, typed |-> query, offset |-> 0, exhausted |-> FALSE, older |-> FALSE]
FeedInit ==
    Begins("feed", FeedUi(<<"c">>, <<>>), [feed |-> <<>>, active |-> filterKey(<<"c">>, <<>>)],
           Add({}, "threads", <<<<"c">>, <<>>, 0>>),
           [n |-> 0, threads |-> <<[id |-> 1, cat |-> <<"c">>], [id |-> 2, cat |-> <<"c">>]>>])
\* Newest first on the wire, newest last on the page.
ThreadsOf(cat) == SelectSeq(db.threads, LAMBDA t : t.cat = cat)
FeedPage(cat, off) ==
    LET q == ThreadsOf(cat)
        hi == Len(q) - off
    IN  IF hi <= 0 THEN <<>> ELSE SubSeq(q, IF hi > FeedLimit THEN hi - FeedLimit + 1 ELSE 1, hi)
feedInitial(r) ==
    /\ Replied(r, {"threads"}) /\ r.arg[3] = 0
    /\ IF r.rep.ok
       THEN DoneAtom(r, Idle([ui EXCEPT !.offset = Len(r.rep.val), !.exhausted = Len(r.rep.val) < FeedLimit \/ @], "load"),
                     [atom EXCEPT !.feed = r.rep.val])
       ELSE DoneAtom(r, Idle(ui, "load"), [atom EXCEPT !.feed = <<>>])
feedOlder == ~ui.older /\ ~ui.exhausted /\ "load" \notin ui.busy /\ Call([ui EXCEPT !.older = TRUE], "threads", <<ui.cat, ui.query, ui.offset>>)
feedGotOlder(r) ==
    /\ Replied(r, {"threads"}) /\ r.arg[3] > 0
    /\ LET u == [ui EXCEPT !.older = FALSE] IN
       IF ~r.rep.ok THEN Done(r, u)
       ELSE DoneAtom(r, [u EXCEPT !.offset = @ + Len(r.rep.val), !.exhausted = Len(r.rep.val) < FeedLimit],
                     [atom EXCEPT !.feed = r.rep.val \o @])
\* Another filter: registered as the active feed and loaded.
Filtered(cat, query) ==
    CallAtom([FeedUi(cat, query) EXCEPT !.older = ui.older], [feed |-> <<>>, active |-> filterKey(cat, query)], "threads", <<cat, query, 0>>)
otherCategory(cat) == cat # ui.cat /\ Filtered(cat, <<>>)
setSearchQuery(q) == q # ui.typed /\ Set([ui EXCEPT !.typed = q])
searchDebounced == ui.typed # ui.query /\ Filtered(ui.cat, ui.typed)
addToFeed(q, t) == IF InFeed(q, t) THEN q ELSE Append(q, t)
removeFromFeed(q, id) == SelectSeq(q, LAMBDA t : t.id # id)
feedReducer(a, p) ==
    CASE p.kind = "thread_created" -> IF a.active # None /\ p.val.cat = a.active THEN [a EXCEPT !.feed = addToFeed(@, p.val)] ELSE a
      [] p.kind = "thread_deleted" -> [a EXCEPT !.feed = removeFromFeed(@, p.val.id)]
feedPushed == push # <<>> /\ Takes(feedReducer(atom, Head(push)))
leaveFeed == On("feed") /\ Leave("feed", [atom EXCEPT !.active = None], subs)
FeedServer(r) == r.op = "threads" /\ Read(r, FeedPage(r.arg[1], r.arg[3]))
othersThread ==
    \/ \E cat \in Categories : LET t == [id |-> 3, cat |-> cat] IN
         ~InFeed(db.threads, t) /\ Changes([db EXCEPT !.threads = Append(@, t)], <<[kind |-> "thread_created", val |-> t]>>)
    \/ db.threads # <<>> /\ Changes([db EXCEPT !.threads = Tail(@)], <<[kind |-> "thread_deleted", val |-> Head(db.threads)]>>)
FeedNext ==
    \/ /\ On("feed")
       /\ \/ feedOlder \/ searchDebounced \/ leaveFeed \/ othersThread
          \/ (\E cat \in Categories : otherCategory(cat)) \/ (\E q \in {<<>>, <<"q">>} : setSearchQuery(q))
          \/ \E r \in net : FeedServer(r)
    \/ page[1] = "feed" /\ (feedPushed \/ \E r \in net : feedInitial(r) \/ feedGotOlder(r))

-----------------------------------------------------------------------------
(* The overview.  The categories are an atom kept in local storage.        *)

CategoryRec(l, p, ts) == [locked |-> l, pinned |-> p, threads |-> ts]
ForumInit ==
    \E user \in {"guest", "manager"}, old \in BOOLEAN :
        LET c == [k \in {"c"} |-> CategoryRec(FALSE, FALSE, {1})] IN
        Begins("forum", [busy |-> {"forums"}, view |-> "grid", compact |-> FALSE, typed |-> FALSE, user |-> user],
               [categories |-> IF old THEN c ELSE <<>>], Add({}, "forums", None), [n |-> 0, categories |-> c])
\* Each category loaded is subscribed to.
loadForums(r) ==
    /\ Replied(r, {"forums"})
    /\ \/ /\ r.rep.ok /\ ui' = Idle(ui, "forums") /\ atom' = [categories |-> r.rep.val]
          /\ subs' = subs \cup DOMAIN r.rep.val /\ net' = net \ {r} /\ UNCHANGED <<page, db, push>>
       \/ ~r.rep.ok /\ Done(r, Idle(ui, "forums"))
forumReconnected == db.n < MaxChanges /\ Room(1) /\ ui' = Busy(ui, "forums") /\ net' = Add(net, "forums", None)
                    /\ db' = [db EXCEPT !.n = @ + 1] /\ UNCHANGED <<page, atom, subs, push>>
updateCompactForum == Set([ui EXCEPT !.compact = ~@])
ForumViews == IF ui.compact THEN {} ELSE {"grid", "list", "articles"}
toggleForumView(v) == v \in ForumViews \ {ui.view} /\ Set([ui EXCEPT !.view = v])
onSearchChange == ~ui.typed /\ Set([ui EXCEPT !.typed = TRUE])
searchForums == ui.typed /\ Call(Busy([ui EXCEPT !.typed = FALSE], "forums"), "forums", None)
\* ForumCategoryCard and CategoryThreadsPreview.
CategoryCard(c) ==
    IF ~(ui.compact \/ ui.view = "grid") \/ c \notin DOMAIN atom.categories \/ ui.user # "manager" THEN {}
    ELSE {"pin", "lock", "delete"}
ThreadPreview(c, t) == IF CategoryCard(c) = {} \/ t \notin atom.categories[c].threads THEN {} ELSE {"pinThread", "deleteThread"}
handleCategory(op, c) == op \in CategoryCard(c) /\ Write(ui, op, c)
handlePreview(op, c, t) == op \in ThreadPreview(c, t) /\ Write(ui, op, c)
forumActed(r) ==
    /\ Replied(r, {"pin", "lock", "delete", "pinThread", "deleteThread"})
    /\ IF r.rep.ok /\ r.op \in {"pin", "lock", "pinThread"} THEN Goes(r, Busy(ui, "forums"), "forums", None) ELSE Done(r, ui)
categoryReducer(a, p) ==
    CASE p.kind = "category_deleted" -> [a EXCEPT !.categories = [c \in DOMAIN @ \ {p.id} |-> @[c]]]
      [] p.id \notin DOMAIN a.categories -> a
      [] p.kind = "category_updated" -> [a EXCEPT !.categories[p.id].locked = p.val.locked]
      [] p.kind = "category_threads_updated" -> [a EXCEPT !.categories[p.id].threads = p.val.threads]
categoryPushed == push # <<>> /\ Takes(categoryReducer(atom, Head(push)))
ForumTold(d, kind) == IF "c" \in subs THEN <<[kind |-> kind, id |-> "c", val |-> IF "c" \in DOMAIN d THEN d["c"] ELSE CategoryRec(FALSE, FALSE, {})]>> ELSE <<>>
ForumServer(r) ==
    \/ r.op = "forums" /\ Read(r, db.categories)
    \/ r.op = "pinThread" /\ Read(r, <<>>)
    \/ /\ r.op # "forums" /\ db.n < MaxChanges /\ r.arg \in DOMAIN db.categories
       /\ LET d == CASE r.op = "pin" -> [db.categories EXCEPT !["c"].pinned = ~@]
                     [] r.op = "lock" -> [db.categories EXCEPT !["c"].locked = ~@]
                     [] r.op = "delete" -> <<>>
                     [] r.op = "deleteThread" -> [db.categories EXCEPT !["c"].threads = {}]
                     [] OTHER -> db.categories
          IN  AnswerPush(r, [db EXCEPT !.categories = d, !.n = @ + 1], <<>>,
                  IF r.op \in {"pin", "pinThread"} THEN <<>>
                  ELSE ForumTold(d, CASE r.op = "lock" -> "category_updated" [] r.op = "delete" -> "category_deleted" [] OTHER -> "category_threads_updated"))
ForumNext ==
    /\ On("forum")
    /\ \/ updateCompactForum \/ onSearchChange \/ searchForums \/ categoryPushed \/ forumReconnected
       \/ \E v \in {"grid", "list", "articles"} : toggleForumView(v)
       \/ \E op \in {"pin", "lock", "delete"} : handleCategory(op, "c")
       \/ \E op \in {"pinThread", "deleteThread"} : handlePreview(op, "c", 1)
       \/ \E r \in net : loadForums(r) \/ forumActed(r) \/ ForumServer(r)

-----------------------------------------------------------------------------
(* Editing a thread.  The draft is kept in local storage and belongs to a  *)
(* thread; a text is a version of the server's or "typed".  An update by   *)
(* someone else replaces what is being typed.                              *)

EditThreadInit ==
    \E d \in {None, [thread |-> "t1", text |-> "typed"], [thread |-> "t2", text |-> "typed"]} :
        Begins("threadForm", [busy |-> {"load"}, error |-> FALSE, seen |-> None, had |-> d # None /\ d.thread = "t1"],
               [draft |-> d, thread |-> None], Add({}, "thread", None), [n |-> 0, text |-> "v0"])
editText == IF atom.draft # None /\ atom.draft.thread = "t1" THEN atom.draft.text ELSE ""
setDraft(a, text) == [a EXCEPT !.draft = [thread |-> "t1", text |-> text]]
loadedForEdit(r) ==
    /\ Replied(r, {"thread"})
    /\ \/ /\ r.rep.ok /\ Reach(r, Idle([ui EXCEPT !.seen = r.rep.val], "load"))
          /\ atom' = [IF ui.had THEN atom ELSE setDraft(atom, r.rep.val) EXCEPT !.thread = r.rep.val]
          /\ subs' = subs \cup {"t1"} /\ net' = net \ {r} /\ UNCHANGED <<page, db, push>>
       \/ ~r.rep.ok /\ Done(r, Idle([ui EXCEPT !.error = TRUE], "load"))
ThreadForm == IF "load" \in ui.busy THEN {} ELSE {"edit"} \cup (IF "submit" \in ui.busy \/ editText = "" THEN {} ELSE {"submit"})
setEditContent(text) == "edit" \in ThreadForm /\ text # editText /\ SetAtom(ui, setDraft(atom, text))
threadUpdated ==
    /\ push # <<>> /\ push' = Tail(push) /\ UNCHANGED <<page, net, db, subs>>
    /\ LET a == [atom EXCEPT !.thread = IF @ = None THEN @ ELSE Head(push)] IN
       IF ui.seen # None /\ a.thread # ui.seen THEN ui' = [ui EXCEPT !.seen = a.thread] /\ atom' = setDraft(a, a.thread)
       ELSE ui' = ui /\ atom' = a
handleUpdateThread == "submit" \in ThreadForm /\ Call(Busy(ui, "submit"), "put", editText)
updatedThread(r) ==
    /\ Replied(r, {"put"})
    /\ \/ /\ r.rep.ok /\ page' = <<"threadForm", "away">> /\ ui' = [busy |-> {}] /\ net' = {} /\ push' = <<>>
          /\ atom' = [draft |-> None, thread |-> r.rep.val] /\ subs' = subs \ {"t1"} /\ UNCHANGED db
       \/ ~r.rep.ok /\ Done(r, Idle(ui, "submit"))
EditThreadServer(r) ==
    \/ r.op = "thread" /\ Read(r, db.text)
    \/ r.op = "put" /\ AnswerPush(r, [db EXCEPT !.text = r.arg], r.arg, IF "t1" \in subs THEN <<r.arg>> ELSE <<>>)
EditThreadNext ==
    /\ On("threadForm")
    /\ \/ threadUpdated \/ handleUpdateThread \/ (\E t \in {"typed", ""} : setEditContent(t))
       \/ \E v \in {"v1", "v2"} : v # db.text /\ Changes([db EXCEPT !.text = v], IF "t1" \in subs THEN <<v>> ELSE <<>>)
       \/ \E r \in net : loadedForEdit(r) \/ updatedThread(r) \/ EditThreadServer(r)

-----------------------------------------------------------------------------
(* A new thread; its draft is the set of the fields filled in.             *)

NewThreadInit ==
    \E d \in {{}, {"title", "content"}} :
        Begins("newThread", [busy |-> {}, values |-> d], [draft |-> d], {}, [n |-> 0])
updateDraft(f) ==
    LET v == IF f \in ui.values THEN ui.values \ {f} ELSE ui.values \cup {f} IN SetAtom([ui EXCEPT !.values = v], [draft |-> v])
createThread == ui.values = {"title", "content", "category"} /\ "submit" \notin ui.busy /\ Call(Busy(ui, "submit"), "create", None)
createdThread(r) ==
    /\ Replied(r, {"create"})
    /\ DoneAtom(r, Idle(ui, "submit"), IF r.rep.ok THEN [draft |-> {}] ELSE atom)
leaveNewThread == Quit("newThread")
NewThreadNext ==
    /\ On("newThread")
    /\ \/ createThread \/ leaveNewThread \/ (\E f \in {"title", "content", "category"} : updateDraft(f))
       \/ \E r \in net : createdThread(r) \/ (r.op = "create" /\ Read(r, None))

-----------------------------------------------------------------------------
(* Likers, viewers and contributors of a thread, a page at a time.         *)

TilesInit ==
    Begins("tiles", [busy |-> {"load"}, users |-> <<>>, page |-> 0, more |-> TRUE], [n |-> 0], Add({}, "users", 0), [n |-> 0, users |-> <<1, 2>>])
gotUsers(r) ==
    /\ Replied(r, {"users"})
    /\ Done(r, Idle(IF ~r.rep.ok THEN ui
                    ELSE [ui EXCEPT !.users = IF r.arg = 0 THEN r.rep.val ELSE @ \o r.rep.val, !.more = @ /\ Len(r.rep.val) >= FeedLimit], "load"))
\* lastUserRef: the last tile has come into view.
fetchUsers == ui.users # <<>> /\ "load" \notin ui.busy /\ ui.more /\ ui.page < 3 /\ Call(Busy([ui EXCEPT !.page = @ + 1], "load"), "users", ui.page + 1)
TilesServer(r) == r.op = "users" /\ Read(r, FirstOf(db.users, r.arg * FeedLimit))
TilesNext ==
    /\ On("tiles")
    /\ \/ fetchUsers \/ Changes([db EXCEPT !.users = <<3>> \o @], <<>>)
       \/ \E r \in net : gotUsers(r) \/ TilesServer(r)
=============================================================================
