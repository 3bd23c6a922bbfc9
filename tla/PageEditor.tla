----------------------------- MODULE PageEditor -----------------------------
(***************************************************************************)
(* The live page editor (components/page/PageBuilder.tsx and the hook      *)
(* hooks/usePageData.ts it is written on): a page is loaded by its slug,   *)
(* edited in place, saved by a pipeline of timers, and changed under the   *)
(* editor's hands by other editors.  What a page holds is the set of marks *)
(* left on it: <<s, 0>> is what page s began with, <<s, k>> this browser's *)
(* k-th edit on s, <<s, -k>> one of somebody else's.                       *)
(***************************************************************************)
EXTENDS Spa, Integers

CONSTANTS
    Slugs,          \* pages
    MaxEdits,       \* bound: edits made in this browser
    MaxEditors      \* bound: editors open, or counted as open, at a time

\* usePageData's state (page, loading, error, the slug asked for, the update
\* held back: None, Refetch or the pushed event) and PageBuilder's (sections,
\* sectionsSourced, pending sections, the save timer).  editing is
\* editingCountRef; of the editors counted in it, open is how many leave by an
\* effect's cleanup, pick says that a colour picker has the focus.
Refetch == [action |-> "refetch"]
EditorMounted(s) ==
    [busy |-> {}, slug |-> s, page |-> None, asked |-> s, loading |-> TRUE, err |-> FALSE,
     held |-> None, sections |-> {}, sourced |-> FALSE, editing |-> 0,
     open |-> 0, pick |-> FALSE, pending |-> None, timer |-> FALSE, made |-> 0]

EditorInit ==
    \E s \in Slugs :
        Begins("editor", EditorMounted(s), None, Add({}, "load", s),
               [n |-> 0, pages |-> [x \in Slugs |-> {<<x, 0>>}], gone |-> {}])

\* The blocks are on the screen, and with them everything that edits them; a
\* slug without a page shows an empty page to build on.
Rendered == On("editor") /\ ~ui.loading /\ ui.sourced
Exists == ui.page # None

\* What the toolbar's menu and the bar under it offer.
MoreMenuView ==
    IF ~Rendered THEN {}
    ELSE IF Exists THEN {"visibility", "manage", "delete", "reset"} \ ui.busy
    ELSE {"reset"} \ ui.busy
ContextView == IF Rendered THEN {"edit", "structure", "enterEdit"} ELSE {}

-----------------------------------------------------------------------------
(* The page and the sections that are edited.                              *)

\* The section sync effect, run whenever page, error or loading changed.
\* mergeSections keeps old objects for equal sections: the value is the new one.
mergeSections(current, incoming) == incoming
Synced(u) ==
    IF u.pending # None \/ u.editing > 0 THEN u
    ELSE IF u.page # None
         THEN [u EXCEPT !.sections = mergeSections(u.sections, u.page.content), !.sourced = TRUE]
         ELSE IF u.err \/ ~u.loading THEN [u EXCEPT !.sections = {}, !.sourced = TRUE]
         ELSE u

\* Suppression is lifted when the last editor closes: what was held is applied.
applyIncomingData(u, d) ==
    IF u.page = None THEN u ELSE Synced([u EXCEPT !.page.content = d.content])

\* refresh: earlier loads are superseded (requestIdRef), so that their replies
\* do nothing any more, and the skeleton takes the place of the blocks.  The
\* cleanup of the open editors leaves them; a colour picker leaves when its
\* input is blurred, which does not happen to an input that is taken away with
\* the focus: it is counted as open for good.
Superseded(n) == {q \in n : q.op # "load"}
Unrendered(u) ==
    LET left == u.editing - u.open
        v == [u EXCEPT !.editing = left, !.open = 0, !.pick = FALSE,
                       !.timer = @ \/ (u.open > 0 /\ left = 0 /\ u.pending # None)]
        w == [v EXCEPT !.held = None]
    IN  IF left > 0 THEN v
        ELSE IF u.held \in {None, Refetch} THEN w
        ELSE applyIncomingData(w, u.held)
refresh(u, n, s) ==
    [u |-> Synced([Unrendered(u) EXCEPT !.loading = TRUE, !.err = FALSE,
                                        !.page = IF s # u.asked THEN None ELSE @, !.asked = s]),
     n |-> Add(Superseded(n), "load", s)]
RoomToLoad == Cardinality(Superseded(net)) < MaxFlight
Refreshes(u, n, s) ==
    LET x == refresh(u, n, s) IN ui' = x.u /\ net' = x.n /\ UNCHANGED <<page, atom, db, subs, push>>

PageLoaded(r) ==
    /\ Replied(r, {"load"})
    /\ LET u == [ui EXCEPT !.loading = FALSE, !.err = ~r.rep.ok,
                           !.page = IF r.rep.ok THEN [slug |-> r.arg, content |-> r.rep.val] ELSE None]
       IN  Done(r, Synced(u))

\* The slug in the address changes under the mounted component.
Navigate(s) ==
    /\ On("editor") /\ s # ui.slug /\ RoomToLoad
    /\ Refreshes([ui EXCEPT !.slug = s, !.sections = {}, !.sourced = FALSE], net, s)

\* A live event: the page was updated, or deleted.
LiveEvent ==
    /\ On("editor") /\ push # <<>> /\ push' = Tail(push) /\ UNCHANGED <<page, atom, db, subs>>
    /\ LET e == Head(push) IN
       IF ui.page = None \/ ui.page.slug # e.slug THEN UNCHANGED <<ui, net>>
       ELSE IF ui.editing > 0
            THEN /\ ui' = [ui EXCEPT !.held = IF e.action = "page_updated" THEN e
                                              ELSE IF @ = None THEN Refetch ELSE @]
                 /\ UNCHANGED net
       ELSE IF e.action = "page_updated" THEN ui' = applyIncomingData(ui, e) /\ UNCHANGED net
       ELSE RoomToLoad /\ LET x == refresh(ui, net, e.slug) IN ui' = x.u /\ net' = x.n

\* The socket came back, or a rate limit ended: what was missed is fetched.
Reconnected ==
    /\ On("editor") /\ Exists /\ Room(1)
    /\ \A q \in net : q.op # "load"
    /\ IF ui.editing > 0 THEN ui.held # Refetch /\ Set([ui EXCEPT !.held = Refetch])
       ELSE Refreshes(ui, net, ui.page.slug)

-----------------------------------------------------------------------------
(* The save pipeline.                                                      *)

\* savePageContent: the page is updated, or created where there is none.
savePageContent(u, n, c) ==
    IF u.page = None THEN Add(n, "create", <<u.slug, c>>) ELSE Add(n, "save", <<u.page.slug, c>>)

\* scheduleSave holds the change while an editor is open and else restarts the
\* timer; immediateSave writes at once what it was given, pending edits included.
scheduleSave(u, c) == [u EXCEPT !.sections = c, !.pending = c, !.timer = @ \/ u.editing = 0]
immediateSave(u, c) == [u EXCEPT !.sections = c, !.pending = None, !.timer = FALSE]

\* A block or an item of it is edited.
Mark == <<ui.slug, ui.made + 1>>
updateSectionWrapper ==
    /\ "edit" \in ContextView /\ ui.made < MaxEdits
    /\ Set([scheduleSave(ui, ui.sections \cup {Mark}) EXCEPT !.made = @ + 1])

\* Sections and items are created, deleted and moved.
StructuralChange ==
    /\ "structure" \in ContextView /\ ui.made < MaxEdits /\ Room(1)
    /\ LET c == ui.sections \cup {Mark} IN
       /\ ui' = [immediateSave(ui, c) EXCEPT !.made = @ + 1]
       /\ net' = savePageContent(ui, net, c)
       /\ UNCHANGED <<page, atom, db, subs, push>>

\* The two ways in which an editor leaves, and what entering and leaving count.
Ways == {"cleanup", "blur"}
enterEdit(w) ==
    /\ "enterEdit" \in ContextView /\ ui.editing < MaxEditors /\ (w = "blur" => ~ui.pick)
    /\ Set([ui EXCEPT !.editing = @ + 1, !.timer = FALSE,
                      !.open = IF w = "cleanup" THEN @ + 1 ELSE @, !.pick = @ \/ w = "blur"])
IsOpen(w) == On("editor") /\ IF w = "cleanup" THEN ui.open > 0 ELSE ui.pick
Left(w) == [ui EXCEPT !.editing = @ - 1, !.open = IF w = "cleanup" THEN @ - 1 ELSE @, !.pick = @ /\ w # "blur"]

\* A mutant of leaveEdit: the timer that enterEdit stopped stays stopped.
leaveEditUnsaved(w) == IsOpen(w) /\ Set(Left(w))

\* The last editor to close starts the timer and lets in what was held.
leaveEdit(w) ==
    /\ IsOpen(w)
    /\ LET u == [Left(w) EXCEPT !.timer = @ \/ (ui.editing = 1 /\ ui.pending # None)]
           v == [u EXCEPT !.held = None]
       IN  IF u.editing > 0 \/ u.held = None THEN Set(u)
           ELSE IF u.held = Refetch THEN RoomToLoad /\ Refreshes(v, net, ui.page.slug)
           ELSE Set(applyIncomingData(v, u.held))

runSave ==
    /\ On("editor") /\ ui.timer /\ Room(1)
    /\ ui' = [ui EXCEPT !.timer = FALSE, !.pending = None]
    /\ net' = IF ui.pending = None THEN net ELSE savePageContent(ui, net, ui.pending)
    /\ UNCHANGED <<page, atom, db, subs, push>>

\* The answer of an update is the page (setPage); a failure, or a created page,
\* fetches it again.
PageSaved(r) ==
    /\ Replied(r, {"save"})
    /\ IF r.rep.ok THEN Done(r, Synced([ui EXCEPT !.page = [slug |-> r.arg[1], content |-> r.rep.val]]))
       ELSE Refreshes(ui, net \ {r}, ui.slug)
PageCreated(r) == Replied(r, {"create"}) /\ Refreshes(ui, net \ {r}, ui.slug)

\* The component goes: a pending change is sent without waiting for its timer.
Flush ==
    /\ On("editor") /\ page' = <<"editor", "away">> /\ ui' = [busy |-> {}]
    /\ net' = IF ui.pending = None THEN {} ELSE savePageContent(ui, {}, ui.pending)
    /\ push' = <<>> /\ UNCHANGED <<atom, db, subs>>

-----------------------------------------------------------------------------
(* The rest of the toolbar.                                                *)

\* The visibility is an update followed by a refresh.
ChangeVisibility ==
    "visibility" \in MoreMenuView /\ Write(ui, "visibility", <<ui.page.slug, ui.page.content>>)
VisibilityReplied(r) ==
    /\ Replied(r, {"visibility"})
    /\ IF r.rep.ok THEN Refreshes(ui, net \ {r}, ui.slug) ELSE Done(r, ui)

\* Deleting leaves the page; a reset drops the queued save first, asks, and
\* leaves too.
handleDeletePage == "delete" \in MoreMenuView /\ Write(ui, "delete", ui.page.slug)
handleFactoryReset ==
    /\ "reset" \in MoreMenuView
    /\ Write([Busy(ui, "reset") EXCEPT !.timer = FALSE, !.pending = None], "reset", None)
PageGone(r) ==
    /\ Replied(r, {"delete", "reset"})
    /\ IF r.rep.ok THEN Quit("editor") ELSE Done(r, IF r.op = "reset" THEN Idle(ui, "reset") ELSE ui)

-----------------------------------------------------------------------------
(* The server: the last write wins; updates are sent to the other editors. *)
PageServes(r) ==
    \/ /\ r.op = "load" /\ r.arg \notin db.gone
       /\ Read(r, db.pages[r.arg])
    \/ /\ r.op \in {"save", "create", "visibility"}
       /\ IF r.arg[1] \in db.gone /\ r.op # "create" THEN Fail(r)
          ELSE LET c == r.arg[2]
                   keep == r.op = "create" /\ r.arg[1] \notin db.gone     \* 409: the existing page
               IN  Answer(r, [db EXCEPT !.pages[r.arg[1]] = IF keep THEN @ ELSE c, !.gone = @ \ {r.arg[1]}],
                          IF keep THEN db.pages[r.arg[1]] ELSE c)
    \/ r.op = "delete" /\ db.n < MaxChanges /\ Answer(r, [db EXCEPT !.gone = @ \cup {r.arg}, !.n = @ + 1], None)
    \/ r.op = "reset" /\ db.n < MaxChanges /\ Answer(r, [db EXCEPT !.gone = Slugs, !.n = @ + 1], None)

OthersEdit(s) ==
    /\ On("editor") /\ s \notin db.gone
    /\ LET c == db.pages[s] \cup {<<s, -(db.n + 1)>>} IN
       \/ Changes([db EXCEPT !.pages[s] = c], <<[action |-> "page_updated", slug |-> s, content |-> c]>>)
       \/ Changes([db EXCEPT !.gone = @ \cup {s}], <<[action |-> "page_deleted", slug |-> s]>>)

EditorReplies(r) ==
    PageLoaded(r) \/ PageSaved(r) \/ PageCreated(r) \/ VisibilityReplied(r) \/ PageGone(r)

EditorNext ==
    \/ \E s \in Slugs : Navigate(s) \/ OthersEdit(s)
    \/ LiveEvent \/ Reconnected
    \/ updateSectionWrapper \/ StructuralChange \/ runSave \/ Flush
    \/ \E w \in Ways : enterEdit(w) \/ leaveEdit(w)
    \/ ChangeVisibility \/ handleDeletePage \/ handleFactoryReset
    \/ On("editor") /\ \E r \in net : PageServes(r) \/ EditorReplies(r)

-----------------------------------------------------------------------------
(* The like under the page, shown before it is made and taken back when it *)
(* fails: the state that is shown and the one before each request.         *)
LikeInit == Begins("likes", [busy |-> {}, liked |-> FALSE], None, {}, [n |-> 0, liked |-> FALSE])
handleLikePage ==
    On("likes") /\ Write([ui EXCEPT !.liked = ~@], "like", ui.liked)
LikeReplied(r) == Replied(r, {"like"}) /\ Done(r, IF r.rep.ok THEN ui ELSE [ui EXCEPT !.liked = r.arg])
LikeServes(r) == r.op = "like" /\ Answer(r, [db EXCEPT !.liked = ~r.arg, !.n = @ + 1], None)
LikeNext ==
    \/ handleLikePage
    \/ On("likes") /\ \E r \in net : LikeServes(r) \/ LikeReplied(r)

-----------------------------------------------------------------------------
\* What open editors hold back is held back no longer than they are open
\* (scheduleSave, enterEdit, leaveEdit; usePageData's pendingIncoming): a draft
\* that waits without a timer, or somebody else's update that waits, has an
\* editor open whose closing lets it go, or a colour picker that went away with
\* the focus, which is counted as open for good.
LostPicker == ui.editing > ui.open + (IF ui.pick THEN 1 ELSE 0)
HeldWhileEditing ==
    On("editor") /\ ((ui.pending # None /\ ~ui.timer) \/ ui.held # None) =>
        ui.open > 0 \/ ui.pick \/ LostPicker
=============================================================================
