---------------------------- MODULE PagesProofs ----------------------------
(***************************************************************************)
(* What single pages promise, for any number of requests in flight, edits, *)
(* jobs, keys and streams.  A behaviour of MCPages is one page's; each     *)
(* section here is about the behaviours of one page, in which any request  *)
(* may fail.                                                               *)
(***************************************************************************)
EXTENDS MCPages, FiniteSetTheorems, TLAPS

-----------------------------------------------------------------------------
(* The page editor: what open editors hold back.                           *)

EditorSpec == Editor!EditorInit /\ [][Editor!EditorNext \/ Fails]_spaVars

EditorFields ==
    {"busy", "slug", "page", "asked", "loading", "err", "held", "sections", "sourced",
     "editing", "open", "pick", "pending", "timer", "made"}

\* A state of the editor in which nothing is held back for nothing.  The editors
\* that are open are counted, and with nothing counted a draft has its timer and
\* no update waits.
Picks(u) == IF u.pick THEN 1 ELSE 0
Timed(u) ==
    /\ DOMAIN u = EditorFields
    /\ u.editing \in Nat /\ u.open \in Nat /\ u.pick \in BOOLEAN /\ u.timer \in BOOLEAN
    /\ u.open + Picks(u) <= u.editing
    /\ u.pending # None => u.timer = TRUE \/ u.editing > 0
    /\ u.held # None => u.editing > 0

EditorInv == page = <<"editor", "mounted">> => Timed(ui)

\* What of it a helper leaves as it is.
Same(u, v) ==
    /\ DOMAIN v = DOMAIN u /\ v.timer = u.timer /\ v.pending = u.pending /\ v.held = u.held
    /\ v.editing = u.editing /\ v.open = u.open /\ v.pick = u.pick

LEMMA SameTimed == \A u, v : Timed(u) /\ Same(u, v) => Timed(v)
  BY DEF Timed, Same, Picks

\* The effect that brings the sections up to date touches none of it.
LEMMA SyncedSame == \A u : DOMAIN u = EditorFields => Same(u, Editor!Synced(u))
<1> SUFFICES ASSUME NEW u, DOMAIN u = EditorFields PROVE Same(u, Editor!Synced(u))
  OBVIOUS
<1>1. \A c : Same(u, [u EXCEPT !.sections = c, !.sourced = TRUE])
  BY DEF Same, EditorFields
<1>2. Same(u, u)
  BY DEF Same
<1> QED
  BY <1>1, <1>2 DEF Editor!Synced

LEMMA AppliedSame == \A u, d : DOMAIN u = EditorFields => Same(u, Editor!applyIncomingData(u, d))
<1> SUFFICES ASSUME NEW u, NEW d, DOMAIN u = EditorFields PROVE Same(u, Editor!applyIncomingData(u, d))
  OBVIOUS
<1> DEFINE v == [u EXCEPT !.page.content = d.content]
<1>1. DOMAIN v = EditorFields /\ Same(u, v)
  BY DEF Same, EditorFields
<1>2. Same(v, Editor!Synced(v))
  BY <1>1, SyncedSame
<1>3. Same(u, Editor!Synced(v)) /\ Same(u, u)
  BY <1>1, <1>2 DEF Same
<1> QED
  BY <1>3 DEF Editor!applyIncomingData

\* When the blocks leave the screen, those of their open editors that leave then
\* do, and the last of all starts the timer and lets in what was held.
LEMMA UnrenderedTimed == \A u : Timed(u) => Timed(Editor!Unrendered(u))
<1> SUFFICES ASSUME NEW u, Timed(u) PROVE Timed(Editor!Unrendered(u))
  OBVIOUS
<1> DEFINE left == u.editing - u.open
           t == u.timer \/ (u.open > 0 /\ left = 0 /\ u.pending # None)
           v == [u EXCEPT !.editing = left, !.open = 0, !.pick = FALSE, !.timer = t]
           w == [v EXCEPT !.held = None]
<1>1. /\ DOMAIN v = EditorFields /\ v.editing = left /\ v.open = 0 /\ v.pick = FALSE
      /\ v.timer = t /\ v.pending = u.pending /\ v.held = u.held
  BY DEF Timed, EditorFields
<1>2. left \in Nat /\ t \in BOOLEAN /\ (u.pending # None => t = TRUE \/ left > 0)
  BY DEF Timed, Picks
<1>3. \/ Editor!Unrendered(u) = v /\ left > 0
      \/ Editor!Unrendered(u) = w
      \/ Editor!Unrendered(u) = Editor!applyIncomingData(w, u.held)
  BY DEF Editor!Unrendered
<1> HIDE DEF t, left, v
<1>p. \A x : x.pick = FALSE => Picks(x) = 0
  BY Zenon DEF Picks
<1>4. CASE Editor!Unrendered(u) = v /\ left > 0
  <2>1. Picks(v) = 0
    BY <1>1, <1>p
  <2>2. u.held # None => left > 0
    BY <1>4
  <2>3. v.editing \in Nat /\ v.open \in Nat /\ v.open + Picks(v) <= v.editing /\ (v.held # None => v.editing > 0)
    BY <1>1, <1>2, <2>1, <2>2
  <2>4. v.pick \in BOOLEAN /\ v.timer \in BOOLEAN /\ (v.pending # None => v.timer = TRUE \/ v.editing > 0)
    BY ZenonT(30), <1>1, <1>2
  <2>5. Timed(v)
    BY Zenon, <1>1, <2>3, <2>4 DEF Timed
  <2> QED
    BY <1>4, <2>5
<1>5. /\ DOMAIN w = EditorFields /\ w.editing = left /\ w.open = 0 /\ w.pick = FALSE
      /\ w.timer = t /\ w.pending = u.pending /\ w.held = None
  BY <1>1 DEF EditorFields
<1> HIDE DEF w
<1>6. Timed(w)
  <2>1. Picks(w) = 0
    BY <1>5, <1>p
  <2>2. w.editing \in Nat /\ w.open \in Nat /\ w.open + Picks(w) <= w.editing /\ (w.held # None => w.editing > 0)
    BY <1>2, <1>5, <2>1
  <2>3. w.pick \in BOOLEAN /\ w.timer \in BOOLEAN /\ (w.pending # None => w.timer = TRUE \/ w.editing > 0)
    BY ZenonT(30), <1>2, <1>5
  <2> QED
    BY Zenon, <1>5, <2>2, <2>3 DEF Timed
<1>7. Timed(Editor!applyIncomingData(w, u.held))
  <2>1. Same(w, Editor!applyIncomingData(w, u.held))
    BY <1>5, AppliedSame
  <2> QED
    BY <1>6, <2>1, SameTimed
<1> QED
  BY <1>3, <1>4, <1>6, <1>7

\* A page that is fetched again has forgotten no edit.
LEMMA RefreshTimed == \A u, n, s : Timed(u) => Timed(Editor!refresh(u, n, s).u)
<1> SUFFICES ASSUME NEW u, NEW n, NEW s, Timed(u) PROVE Timed(Editor!refresh(u, n, s).u)
  OBVIOUS
<1> DEFINE v == Editor!Unrendered(u)
           w == [v EXCEPT !.loading = TRUE, !.err = FALSE,
                          !.page = IF s # u.asked THEN None ELSE @, !.asked = s]
<1>1. Timed(v)
  BY UnrenderedTimed
<1> HIDE DEF v
<1>2. Same(v, w)
  BY <1>1 DEF Timed, Same, EditorFields
<1> HIDE DEF w
<1>3. Timed(Editor!Synced(w))
  BY <1>1, <1>2, SameTimed, SyncedSame DEF Timed
<1>4. Editor!refresh(u, n, s).u = Editor!Synced(w)
  BY DEF Editor!refresh, v, w
<1> QED
  BY <1>3, <1>4

\* Every step of the editor, its server and the other editors keeps the edits.
LEMMA EditorInvStep == EditorInv /\ [Editor!EditorNext \/ Fails]_spaVars => EditorInv'
<1> SUFFICES ASSUME EditorInv, [Editor!EditorNext \/ Fails]_spaVars,
                    page' = <<"editor", "mounted">>
             PROVE  Timed(ui')
  BY DEF EditorInv
<1> USE DEF Editor!On, EditorInv
<1>1. ASSUME UNCHANGED <<page, ui>>
      PROVE  Timed(ui')
  BY <1>1
<1>2. ASSUME NEW u, NEW n, NEW s, UNCHANGED page, Timed(u), Editor!Refreshes(u, n, s)
      PROVE  Timed(ui')
  <2>1. ui' = Editor!refresh(u, n, s).u
    BY <1>2 DEF Editor!Refreshes
  <2> QED
    BY <1>2, <2>1, RefreshTimed
<1>3. ASSUME NEW u, Timed(ui), Same(ui, u), UNCHANGED page, ui' = u
      PROVE  Timed(ui')
  BY <1>3, SameTimed
\* An update is held back while an editor is open.
<1>h. ASSUME NEW h, Timed(ui), ui.editing > 0 PROVE Timed([ui EXCEPT !.held = h])
  <2> DEFINE u == [ui EXCEPT !.held = h]
  <2>1. /\ DOMAIN u = EditorFields /\ u.timer = ui.timer /\ u.pending = ui.pending
        /\ u.editing = ui.editing /\ u.open = ui.open /\ u.pick = ui.pick
    BY <1>h DEF Timed, EditorFields
  <2> HIDE DEF u
  <2> QED
    BY <1>h, <2>1 DEF Timed, Picks, u
<1>4. ASSUME NEW s \in Slugs, Editor!Navigate(s)
      PROVE  Timed(ui')
  <2>1. Same(ui, [ui EXCEPT !.slug = s, !.sections = {}, !.sourced = FALSE])
    BY <1>4 DEF Editor!Navigate, Same, Timed, EditorFields
  <2> QED
    BY <1>2, <1>4, <2>1, SameTimed DEF Editor!Navigate, Editor!Refreshes
<1>5. ASSUME NEW s \in Slugs, Editor!OthersEdit(s)
      PROVE  Timed(ui')
  BY <1>1, <1>5 DEF Editor!OthersEdit, Editor!Changes
<1>6. CASE Editor!LiveEvent
  <2> DEFINE e == Head(push)
  <2>1. Timed(ui) /\ UNCHANGED page
    BY <1>6 DEF Editor!LiveEvent
  <2>2. \/ ui' = ui
        \/ ui.editing > 0 /\ \E h : ui' = [ui EXCEPT !.held = h]
        \/ ui' = Editor!applyIncomingData(ui, e)
        \/ ui' = Editor!refresh(ui, net, e.slug).u
    BY <1>6 DEF Editor!LiveEvent
  <2>4. Same(ui, Editor!applyIncomingData(ui, e))
    BY <2>1, AppliedSame DEF Timed
  <2> QED
    BY <1>h, <2>1, <2>2, <2>4, SameTimed, RefreshTimed
<1>7. CASE Editor!Reconnected
  <2>1. Timed(ui) /\ UNCHANGED page
    BY <1>7 DEF Editor!Reconnected, Editor!Set, Editor!Refreshes
  <2>2. CASE ui.editing > 0
    <3>1. ui' = [ui EXCEPT !.held = Editor!Refetch]
      BY <1>7, <2>2 DEF Editor!Reconnected, Editor!Set
    <3> QED
      BY <1>h, <2>1, <2>2, <3>1
  <2>3. CASE ~(ui.editing > 0)
    BY <1>2, <1>7, <2>1, <2>3 DEF Editor!Reconnected
  <2> QED
    BY <2>2, <2>3
<1>8. CASE Editor!updateSectionWrapper
  <2> DEFINE c == ui.sections \cup {Editor!Mark}
             b == ui.timer \/ ui.editing = 0
  <2>1. Timed(ui)
    BY <1>8 DEF Editor!updateSectionWrapper, Editor!Set
  <2>2. ui' = [[ui EXCEPT !.sections = c, !.pending = c, !.timer = b] EXCEPT !.made = @ + 1]
    BY <1>8 DEF Editor!updateSectionWrapper, Editor!Set, Editor!scheduleSave
  <2>3. b \in BOOLEAN /\ (b \/ ui.editing > 0)
    BY <2>1 DEF Timed
  <2> HIDE DEF b, c
  <2>4. /\ DOMAIN ui' = EditorFields /\ ui'.timer = b /\ ui'.held = ui.held
        /\ ui'.editing = ui.editing /\ ui'.open = ui.open /\ ui'.pick = ui.pick
    BY <2>1, <2>2 DEF Timed, EditorFields
  <2> QED
    BY <2>1, <2>3, <2>4 DEF Timed, Picks
<1>9. CASE Editor!StructuralChange
  <2> DEFINE c == ui.sections \cup {Editor!Mark}
  <2>1. Timed(ui)
    BY <1>9 DEF Editor!StructuralChange
  <2>2. ui' = [[ui EXCEPT !.sections = c, !.pending = None, !.timer = FALSE] EXCEPT !.made = @ + 1]
    BY <1>9 DEF Editor!StructuralChange, Editor!immediateSave
  <2> HIDE DEF c
  <2>3. /\ DOMAIN ui' = EditorFields /\ ui'.timer = FALSE /\ ui'.pending = None /\ ui'.held = ui.held
        /\ ui'.editing = ui.editing /\ ui'.open = ui.open /\ ui'.pick = ui.pick
    BY <2>1, <2>2 DEF Timed, EditorFields
  <2> QED
    BY <2>1, <2>3 DEF Timed, Picks
<1>10. ASSUME NEW w \in Editor!Ways, Editor!enterEdit(w) PROVE Timed(ui')
  <2> DEFINE n == IF w = "cleanup" THEN ui.open + 1 ELSE ui.open
             b == ui.pick \/ w = "blur"
  <2>1. /\ Timed(ui) /\ (w = "blur" => ~ui.pick)
        /\ ui' = [ui EXCEPT !.editing = @ + 1, !.timer = FALSE, !.open = n, !.pick = b]
    BY <1>10 DEF Editor!enterEdit, Editor!Set
  <2>2. /\ n \in Nat /\ b \in BOOLEAN
        /\ n + (IF b THEN 1 ELSE 0) <= ui.editing + 1
    BY <2>1 DEF Timed, Picks, Editor!Ways
  <2> HIDE DEF n, b
  <2>3. /\ DOMAIN ui' = EditorFields /\ ui'.editing = ui.editing + 1 /\ ui'.timer = FALSE
        /\ ui'.open = n /\ ui'.pick = b
    BY <2>1 DEF Timed, EditorFields
  <2> QED
    BY <2>1, <2>2, <2>3 DEF Timed, Picks
<1>11. ASSUME NEW w \in Editor!Ways, Editor!leaveEdit(w) PROVE Timed(ui')
  <2> DEFINE m == ui.editing - 1
             n == IF w = "cleanup" THEN ui.open - 1 ELSE ui.open
             p == ui.pick /\ w # "blur"
             x == [ui EXCEPT !.editing = m, !.open = n, !.pick = p]
             b == x.timer \/ (ui.editing = 1 /\ ui.pending # None)
             u == [x EXCEPT !.timer = b]
             v == [u EXCEPT !.held = None]
  <2>1. Timed(ui) /\ UNCHANGED page /\ (IF w = "cleanup" THEN ui.open > 0 ELSE ui.pick)
    BY <1>11 DEF Editor!leaveEdit, Editor!IsOpen, Editor!Set, Editor!Refreshes
  <2>x. x.timer = ui.timer
    BY <2>1 DEF Timed, EditorFields
  <2>2. /\ m \in Nat /\ n \in Nat /\ p \in BOOLEAN /\ b \in BOOLEAN
        /\ n + (IF p THEN 1 ELSE 0) <= m
        /\ (ui.pending # None => b \/ m > 0)
    <3> HIDE DEF x
    <3> QED
      BY <2>1, <2>x DEF Timed, Picks, Editor!Ways
  <2>3. x = Editor!Left(w)
    BY DEF Editor!Left
  <2> HIDE DEF m, n, p, b
  <2>5. /\ DOMAIN x = EditorFields /\ x.editing = m /\ x.open = n /\ x.pick = p
        /\ x.pending = ui.pending /\ x.held = ui.held
    BY <2>1 DEF Timed, EditorFields
  <2> HIDE DEF x
  <2>4. \/ ui' = u /\ (u.editing > 0 \/ u.held = None)
        \/ ui' = Editor!refresh(v, net, ui.page.slug).u
        \/ ui' = Editor!applyIncomingData(v, u.held)
    BY <1>11, <2>3 DEF Editor!leaveEdit, Editor!Set, Editor!Refreshes, b
  <2>6. /\ DOMAIN u = EditorFields /\ u.editing = m /\ u.open = n /\ u.pick = p /\ u.timer = b
        /\ u.pending = ui.pending /\ u.held = ui.held
    BY <2>5 DEF EditorFields
  <2> HIDE DEF u
  <2>7. /\ DOMAIN v = EditorFields /\ v.editing = m /\ v.open = n /\ v.pick = p /\ v.timer = b
        /\ v.pending = ui.pending /\ v.held = None
    BY <2>6 DEF EditorFields
  <2> HIDE DEF v
  <2>8. Timed(v)
    BY <2>2, <2>7 DEF Timed, Picks
  <2>9. Same(v, Editor!applyIncomingData(v, u.held))
    BY <2>7, AppliedSame
  <2>10. u.editing > 0 \/ u.held = None => Timed(u)
    BY <2>2, <2>6 DEF Timed, Picks
  <2> QED
    BY <2>4, <2>8, <2>9, <2>10, SameTimed, RefreshTimed
<1>12. CASE Editor!runSave
  <2>1. Timed(ui) /\ ui' = [ui EXCEPT !.timer = FALSE, !.pending = None]
    BY <1>12 DEF Editor!runSave
  <2>2. /\ DOMAIN ui' = EditorFields /\ ui'.timer = FALSE /\ ui'.pending = None /\ ui'.held = ui.held
        /\ ui'.editing = ui.editing /\ ui'.open = ui.open /\ ui'.pick = ui.pick
    BY <2>1 DEF Timed, EditorFields
  <2> QED
    BY <2>1, <2>2 DEF Timed, Picks
<1>13. CASE Editor!Flush
  BY <1>13 DEF Editor!Flush
<1>14. CASE Editor!ChangeVisibility \/ Editor!handleDeletePage
  BY <1>1, <1>14 DEF Editor!ChangeVisibility, Editor!handleDeletePage, Editor!Write, Editor!Call
<1>15. CASE Editor!handleFactoryReset
  <2>1. Timed(ui) /\ ui' = [Editor!Busy(ui, "reset") EXCEPT !.timer = FALSE, !.pending = None]
    BY <1>15 DEF Editor!handleFactoryReset, Editor!Write, Editor!Call
  <2>2. /\ DOMAIN ui' = EditorFields /\ ui'.timer = FALSE /\ ui'.pending = None /\ ui'.held = ui.held
        /\ ui'.editing = ui.editing /\ ui'.open = ui.open /\ ui'.pick = ui.pick
    BY <2>1 DEF Timed, EditorFields, Editor!Busy
  <2> QED
    BY <2>1, <2>2 DEF Timed, Picks
<1>16. ASSUME NEW r \in net, Editor!PageServes(r), page = <<"editor", "mounted">>
       PROVE  Timed(ui')
  BY <1>1, <1>16 DEF Editor!PageServes, Editor!Read, Editor!Fail, Editor!Answer, Editor!AnswerPush
<1>17. ASSUME NEW r \in net, Editor!PageLoaded(r), page = <<"editor", "mounted">>
       PROVE  Timed(ui')
  <2> DEFINE u == [ui EXCEPT !.loading = FALSE, !.err = ~r.rep.ok,
                             !.page = IF r.rep.ok THEN [slug |-> r.arg, content |-> r.rep.val] ELSE None]
  <2>1. ui' = Editor!Synced(u) \/ ui' = ui
    BY <1>17 DEF Editor!PageLoaded, Editor!Done, Editor!Reach
  <2>2. Same(ui, u) /\ DOMAIN u = EditorFields
    BY <1>17 DEF Same, Timed, EditorFields
  <2> HIDE DEF u
  <2> QED
    BY <1>17, <2>1, <2>2, SyncedSame, SameTimed
<1>18. ASSUME NEW r \in net, Editor!PageSaved(r), page = <<"editor", "mounted">>
       PROVE  Timed(ui')
  <2> DEFINE u == [ui EXCEPT !.page = [slug |-> r.arg[1], content |-> r.rep.val]]
  <2>1. ui' = Editor!Synced(u) \/ ui' = ui \/ ui' = Editor!refresh(ui, net \ {r}, ui.slug).u
    BY <1>18 DEF Editor!PageSaved, Editor!Done, Editor!Reach, Editor!Refreshes
  <2>2. Same(ui, u) /\ DOMAIN u = EditorFields
    BY <1>18 DEF Same, Timed, EditorFields
  <2> HIDE DEF u
  <2> QED
    BY <1>18, <2>1, <2>2, SyncedSame, SameTimed, RefreshTimed
<1>19. ASSUME NEW r \in net, Editor!PageCreated(r) \/ Editor!VisibilityReplied(r), page = <<"editor", "mounted">>
       PROVE  Timed(ui')
  <2>1. ui' = ui \/ ui' = Editor!refresh(ui, net \ {r}, ui.slug).u
    BY <1>19 DEF Editor!PageCreated, Editor!VisibilityReplied, Editor!Done, Editor!Reach, Editor!Refreshes
  <2> QED
    BY <1>19, <2>1, RefreshTimed
<1>20. ASSUME NEW r \in net, Editor!PageGone(r), page = <<"editor", "mounted">>
       PROVE  Timed(ui')
  <2>1. ui' = Editor!Idle(ui, "reset") \/ ui' = ui
    BY <1>20 DEF Editor!PageGone, Editor!Done, Editor!Reach, Editor!Quit
  <2>2. Same(ui, Editor!Idle(ui, "reset"))
    BY <1>20 DEF Same, Timed, EditorFields, Editor!Idle
  <2> QED
    BY <1>20, <2>1, <2>2, SameTimed
<1>21. CASE Fails \/ UNCHANGED spaVars
  BY <1>1, <1>21 DEF Fails, Fail, spaVars
<1> QED
  BY <1>4, <1>5, <1>6, <1>7, <1>8, <1>9, <1>10, <1>11, <1>12, <1>13, <1>14, <1>15, <1>16, <1>17, <1>18, <1>19, <1>20, <1>21
     DEF Editor!EditorNext, Editor!EditorReplies

\* Whatever edits, saves, refreshes, live updates and closing editors come
\* between, nothing is held back for nothing: a draft without a timer, or an
\* update that waits, has an editor open whose closing lets it go, or a colour
\* picker that went away with the focus and is counted as open for good
\* (scheduleSave, enterEdit, leaveEdit of PageBuilder; usePageData).
THEOREM NothingIsHeldIdly == EditorSpec => []HeldWhileEditing
<1>1. Editor!EditorInit => EditorInv
  <2> SUFFICES ASSUME NEW s \in Slugs, ui = Editor!EditorMounted(s) PROVE Timed(ui)
    BY DEF Editor!EditorInit, Editor!Begins, EditorInv
  <2> QED
    BY DEF Timed, Picks, EditorFields, Editor!EditorMounted
<1>2. EditorInv => HeldWhileEditing
  BY DEF EditorInv, Timed, Picks, HeldWhileEditing, Editor!HeldWhileEditing, Editor!LostPicker, Editor!On
<1> QED
  BY <1>1, <1>2, EditorInvStep, PTL DEF EditorSpec

-----------------------------------------------------------------------------
(* The interactive section: a submission is recorded once.                 *)

InteractiveSpec == Content!InteractiveInit /\ [][Content!InteractiveNext \/ Fails]_spaVars

InteractiveFields == {"busy", "kind", "tab", "open", "recs", "expanded", "ans", "ref"}
RequestFields == {"id", "op", "arg", "live", "rep"}

\* Answers entered of which no submission has been made yet.
Unsent(u) == u.ans # None /\ ~(u.ref # None /\ u.ref.ans = u.ans)

\* Every key was drawn for answers that were entered, and those not yet sent
\* have been entered too.
KeysDrawn ==
    /\ DOMAIN atom = {"keys", "meant"} /\ atom.keys \in Nat /\ atom.meant \in Nat
    /\ DOMAIN ui = InteractiveFields /\ ui.ans \in Content!Answers \cup {None}
    /\ ui.ref # None => ui.ref.key \in 1..atom.keys
    /\ atom.keys <= atom.meant
    /\ Unsent(ui) => atom.keys < atom.meant
\* What is sent, and what is recorded, has a key that was drawn; no two records
\* have the same one.
KeysSent ==
    \A q \in net : DOMAIN q = RequestFields /\ (q.op = "submit" => q.arg.key \in 1..atom.keys)
KeysRecorded ==
    /\ DOMAIN db = {"n", "open", "recs"}
    /\ \A x \in db.recs : DOMAIN x = {"ans", "key", "done"} /\ x.key \in 1..atom.keys
    /\ \A x, y \in db.recs : x.key = y.key => x = y

InteractiveInv == page = <<"interactive", "mounted">> => KeysDrawn /\ KeysSent /\ KeysRecorded

\* A request is added, answered, or taken away.
LEMMA ContentAdd ==
    \A n, op, arg : \E i :
        Content!Add(n, op, arg) = n \cup {[id |-> i, op |-> op, arg |-> arg, live |-> TRUE, rep |-> None]}
  BY DEF Content!Add
LEMMA SentAdd ==
    ASSUME KeysSent, UNCHANGED atom, NEW op, NEW arg, op # "submit", net' = Content!Add(net, op, arg)
    PROVE  KeysSent'
<1>1. PICK i : net' = net \cup {[id |-> i, op |-> op, arg |-> arg, live |-> TRUE, rep |-> None]}
  BY ContentAdd
<1> DEFINE new == [id |-> i, op |-> op, arg |-> arg, live |-> TRUE, rep |-> None]
<1>2. DOMAIN new = RequestFields /\ new.op = op
  BY DEF RequestFields
<1> HIDE DEF new
<1>3. net' = net \cup {new}
  BY <1>1 DEF new
<1> QED
  BY <1>2, <1>3 DEF KeysSent
LEMMA SentReply ==
    ASSUME KeysSent, UNCHANGED atom, NEW r \in net, NEW ok, NEW val, net' = Content!Reply(r, ok, val)
    PROVE  KeysSent'
<1> DEFINE new == [r EXCEPT !.rep = [ok |-> ok, val |-> val]]
<1>1. DOMAIN new = RequestFields /\ new.op = r.op /\ new.arg = r.arg
  BY DEF KeysSent, RequestFields
<1> HIDE DEF new
<1>2. net' = (net \ {r}) \cup {new}
  BY DEF Content!Reply, new
<1> QED
  BY <1>1, <1>2 DEF KeysSent

\* The component changes, but not the answers entered nor the key they have.
LEMMA DrawnKept ==
    ASSUME KeysDrawn, UNCHANGED atom, DOMAIN ui' = InteractiveFields,
           ui'.ans = ui.ans, ui'.ref = ui.ref
    PROVE  KeysDrawn'
  BY DEF KeysDrawn, Unsent

\* The server records one submission more, under a key it has no record for.
LEMMA RecordedMore ==
    ASSUME KeysRecorded, UNCHANGED atom, NEW a, NEW k \in 1..atom.keys,
           \A x \in db.recs : x.key # k,
           db' = [db EXCEPT !.recs = @ \cup {Content!Recorded(a, k)}]
    PROVE  KeysRecorded'
<1> DEFINE new == Content!Recorded(a, k)
<1>1. DOMAIN new = {"ans", "key", "done"} /\ new.key = k
  BY DEF Content!Recorded
<1> HIDE DEF new
<1>2. DOMAIN db' = {"n", "open", "recs"} /\ db'.recs = db.recs \cup {new}
  BY DEF KeysRecorded, new
<1> QED
  BY <1>1, <1>2 DEF KeysRecorded

\* A submission is answered from its record, or recorded.
LEMMA SubmitRecords ==
    ASSUME KeysRecorded, KeysSent, UNCHANGED atom, NEW r \in net, r.op = "submit",
           NEW d \in {db, [db EXCEPT !.recs = @ \cup {Content!Recorded(r.arg.ans, r.arg.key)}]},
           Content!SubmitInteractive(r, d), db' = d
    PROVE  KeysRecorded'
<1>1. r.arg.key \in 1..atom.keys
  BY DEF KeysSent
<1>2. CASE db' = db
  BY <1>2 DEF KeysRecorded
<1>3. CASE db' # db
  BY <1>1, <1>3, RecordedMore DEF Content!SubmitInteractive
<1> QED
  BY <1>2, <1>3

\* Every step of the section, its user and its server keeps the invariant.
LEMMA InteractiveInvStep == InteractiveInv /\ [Content!InteractiveNext \/ Fails]_spaVars => InteractiveInv'
<1> SUFFICES ASSUME InteractiveInv, [Content!InteractiveNext \/ Fails]_spaVars,
                    page' = <<"interactive", "mounted">>
             PROVE  KeysDrawn' /\ KeysSent' /\ KeysRecorded'
  BY DEF InteractiveInv
<1> DEFINE Fine == KeysDrawn' /\ KeysSent' /\ KeysRecorded'
<1>0. KeysDrawn /\ KeysSent /\ KeysRecorded
  <2>1. page = <<"interactive", "mounted">>
    BY DEF Content!InteractiveNext, Content!On, Fails, Fail, spaVars
  <2> QED
    BY <2>1 DEF InteractiveInv
<1>i. DOMAIN ui = InteractiveFields
  BY <1>0 DEF KeysDrawn
<1>1. ASSUME UNCHANGED <<atom, db>> PROVE KeysRecorded'
  BY <1>0, <1>1 DEF KeysRecorded
<1>2. ASSUME UNCHANGED <<atom, net>> PROVE KeysSent'
  BY <1>0, <1>2 DEF KeysSent
<1>3. ASSUME UNCHANGED <<atom, ui>> PROVE KeysDrawn'
  BY <1>0, <1>3 DEF KeysDrawn, Unsent
<1>4. ASSUME NEW r \in net, UNCHANGED atom, net' = net \ {r} PROVE KeysSent'
  BY <1>0, <1>4 DEF KeysSent
<1> HIDE DEF Fine
<1>5. ASSUME NEW t, Content!setTab(t) PROVE Fine
  <2>1. ui' = [ui EXCEPT !.tab = t] /\ UNCHANGED <<atom, net, db>>
    BY <1>5 DEF Content!setTab, Content!Set
  <2>2. DOMAIN ui' = InteractiveFields /\ ui'.ans = ui.ans /\ ui'.ref = ui.ref
    BY <1>i, <2>1 DEF InteractiveFields
  <2> QED
    BY <1>0, <1>1, <1>2, <2>1, <2>2, DrawnKept DEF Fine
<1>6. ASSUME NEW x, Content!setExpanded(x) PROVE Fine
  <2>1. ui' = [ui EXCEPT !.expanded = IF @ = x THEN None ELSE x] /\ UNCHANGED <<atom, net, db>>
    BY <1>6 DEF Content!setExpanded, Content!Set
  <2>2. DOMAIN ui' = InteractiveFields /\ ui'.ans = ui.ans /\ ui'.ref = ui.ref
    BY <1>i, <2>1 DEF InteractiveFields
  <2> QED
    BY <1>0, <1>1, <1>2, <2>1, <2>2, DrawnKept DEF Fine
<1>7. ASSUME NEW a \in Content!Answers, Content!FieldControl(a) PROVE Fine
  <2>1. /\ ui' = [ui EXCEPT !.ans = a] /\ atom' = [atom EXCEPT !.meant = @ + 1]
        /\ UNCHANGED <<net, db>>
    BY <1>7 DEF Content!FieldControl, Content!SetAtom
  <2>2. DOMAIN ui' = InteractiveFields /\ ui'.ref = ui.ref /\ ui'.ans = a
    BY <1>i, <2>1 DEF InteractiveFields
  <2>3. DOMAIN atom' = {"keys", "meant"} /\ atom'.keys = atom.keys /\ atom'.meant = atom.meant + 1
    BY <1>0, <2>1 DEF KeysDrawn
  <2>4. KeysDrawn'
    <3>1. atom.keys < atom'.meant /\ atom'.meant \in Nat
      BY <1>0, <2>3 DEF KeysDrawn
    <3>2. ui'.ans \in Content!Answers \cup {None}
      BY <2>2
    <3> QED
      BY <1>0, <2>2, <2>3, <3>1, <3>2 DEF KeysDrawn
  <2>5. KeysSent' /\ KeysRecorded'
    BY <1>0, <2>1, <2>3 DEF KeysSent, KeysRecorded
  <2> QED
    BY <2>4, <2>5 DEF Fine
<1>8. ASSUME NEW x, Content!deleteRecord(x) \/ Content!QAAnswerForm(x) PROVE Fine
  <2>1. UNCHANGED <<ui, atom, db>> /\ \E op \in {"delete", "moderate"} : net' = Content!Add(net, op, x)
    BY <1>8 DEF Content!deleteRecord, Content!QAAnswerForm, Content!Write, Content!Call
  <2> QED
    BY <1>0, <1>1, <1>3, <2>1, SentAdd DEF Fine
<1>9. ASSUME Content!persistDesign PROVE Fine
  <2>1. /\ ui' = [ui EXCEPT !.open = ~@] /\ UNCHANGED <<atom, db>>
        /\ net' = Content!Add(net, "savePage", [open |-> ~ui.open, recs |-> ui.recs])
    BY <1>9 DEF Content!persistDesign, Content!Write, Content!Call
  <2>2. DOMAIN ui' = InteractiveFields /\ ui'.ans = ui.ans /\ ui'.ref = ui.ref
    BY <1>i, <2>1 DEF InteractiveFields
  <2>3. KeysSent'
    BY <1>0, <2>1, SentAdd
  <2> QED
    BY <1>0, <1>1, <2>1, <2>2, <2>3, DrawnKept DEF Fine
<1>10. ASSUME Content!submit PROVE Fine
  <2> DEFINE ref == Content!submissionRef
  <2>1. /\ ui' = Content!Busy([ui EXCEPT !.ref = ref], "submit")
        /\ atom' = [atom EXCEPT !.keys = IF ref.key > @ THEN ref.key ELSE @]
        /\ net' = Content!Add(net, "submit", ref)
        /\ UNCHANGED db
        /\ ui.ans # None /\ ref.key <= MaxKeys
    BY <1>10 DEF Content!submit, Content!CallAtom
  <2>2. \/ Unsent(ui) /\ ref.ans = ui.ans /\ ref.key = atom.keys + 1
        \/ ~Unsent(ui) /\ ref = ui.ref /\ ref.ans = ui.ans /\ ref.key \in 1..atom.keys
    BY <1>0, <2>1 DEF Content!submissionRef, Unsent, KeysDrawn
  <2>r. ref # None
    <3>1. CASE Unsent(ui)
      <4>1. ref = [ans |-> ui.ans, key |-> atom.keys + 1]
        BY <3>1 DEF Content!submissionRef, Unsent
      <4>2. ui.ans \in Content!Answers /\ atom.keys + 1 \in Nat /\ atom.keys + 1 >= 1 /\ ref.key = atom.keys + 1
        BY <1>0, <2>1, <4>1 DEF KeysDrawn
      <4>3. atom.keys + 1 \in 1..MaxKeys
        BY <2>1, <4>2, PagesAssumption
      <4> QED
        BY <4>1, <4>2, <4>3, PagesAssumption
    <3>2. CASE ~Unsent(ui)
      BY <2>1, <3>2 DEF Content!submissionRef, Unsent
    <3> QED
      BY <3>1, <3>2
  <2> HIDE DEF ref
  <2>3. DOMAIN ui' = InteractiveFields /\ ui'.ans = ui.ans /\ ui'.ref = ref
    BY <1>i, <2>1 DEF InteractiveFields, Content!Busy
  <2>4. /\ DOMAIN atom' = {"keys", "meant"} /\ atom'.meant = atom.meant
        /\ atom'.keys = IF Unsent(ui) THEN atom.keys + 1 ELSE atom.keys
        /\ ref.key \in 1..atom'.keys
    BY <1>0, <2>1, <2>2 DEF KeysDrawn
  <2>5. KeysDrawn'
    <3>1. atom'.keys \in Nat /\ atom'.meant \in Nat /\ atom'.keys <= atom'.meant
      BY <1>0, <2>4 DEF KeysDrawn
    <3>2. ~Unsent(ui)'
      BY <2>1, <2>2, <2>3, <2>r DEF Unsent
    <3>3. ui'.ans \in Content!Answers \cup {None} /\ (ui'.ref # None => ui'.ref.key \in 1..atom'.keys)
      BY <1>0, <2>3, <2>4 DEF KeysDrawn
    <3> QED
      BY <2>3, <2>4, <3>1, <3>2, <3>3 DEF KeysDrawn
  <2>6. KeysSent'
    <3>1. PICK i : net' = net \cup {[id |-> i, op |-> "submit", arg |-> ref, live |-> TRUE, rep |-> None]}
      BY <2>1, ContentAdd
    <3> DEFINE new == [id |-> i, op |-> "submit", arg |-> ref, live |-> TRUE, rep |-> None]
    <3>2. DOMAIN new = RequestFields /\ new.arg = ref
      BY DEF RequestFields
    <3> HIDE DEF new
    <3>3. net' = net \cup {new}
      BY <3>1 DEF new
    <3>4. \A k \in 1..atom.keys : k \in 1..atom'.keys
      BY <1>0, <2>4 DEF KeysDrawn
    <3> QED
      BY <1>0, <2>4, <3>2, <3>3, <3>4 DEF KeysSent
  <2>7. KeysRecorded'
    <3>1. \A k \in 1..atom.keys : k \in 1..atom'.keys
      BY <1>0, <2>4 DEF KeysDrawn
    <3> QED
      BY <1>0, <2>1, <3>1 DEF KeysRecorded
  <2> QED
    BY <2>5, <2>6, <2>7 DEF Fine
<1>11. ASSUME NEW r \in net, Content!submitted(r) PROVE Fine
  <2>1. UNCHANGED <<atom, db>> /\ net' = net \ {r}
    BY <1>11 DEF Content!submitted, Content!Done
  <2>2. KeysDrawn'
    <3>1. CASE ui' = ui
      BY <1>3, <2>1, <3>1
    <3>2. CASE ui' = Content!Idle(ui, "submit")
      <4>1. DOMAIN ui' = InteractiveFields /\ ui'.ans = ui.ans /\ ui'.ref = ui.ref
        BY <1>i, <3>2 DEF InteractiveFields, Content!Idle
      <4> QED
        BY <1>0, <2>1, <4>1, DrawnKept
    <3> DEFINE u == Content!replaceRuntimeConfig(ui, r.rep.val)
               tab == IF ui.kind = "poll" THEN "results" ELSE u.tab
    <3>3. CASE ui' = Content!Idle([u EXCEPT !.ref = None, !.ans = None, !.tab = tab], "submit")
      <4>1. DOMAIN u = InteractiveFields
        BY <1>i DEF InteractiveFields, Content!replaceRuntimeConfig
      <4> HIDE DEF u, tab
      <4>2. DOMAIN ui' = InteractiveFields /\ ui'.ans = None /\ ui'.ref = None
        BY <3>3, <4>1 DEF InteractiveFields, Content!Idle
      <4> QED
        BY <1>0, <2>1, <4>2 DEF KeysDrawn, Unsent
    <3> QED
      BY <1>11, <3>1, <3>2, <3>3 DEF Content!submitted, Content!Done, Content!Reach
  <2> QED
    BY <1>1, <1>4, <2>1, <2>2 DEF Fine
<1>12. ASSUME NEW r \in net, Content!recordDeleted(r) \/ Content!moderated(r) \/ Content!pageSaved(r) PROVE Fine
  <2>1. UNCHANGED <<atom, db>> /\ net' = net \ {r}
    BY <1>12 DEF Content!recordDeleted, Content!moderated, Content!pageSaved, Content!Done
  <2> DEFINE u == Content!replaceRuntimeConfig(ui, r.rep.val)
             v == [u EXCEPT !.expanded = IF @ = r.arg THEN None ELSE @]
  <2>2. ui' = ui \/ ui' = u \/ ui' = v
    BY <1>12 DEF Content!recordDeleted, Content!moderated, Content!pageSaved, Content!Done, Content!Reach
  <2>3. DOMAIN u = InteractiveFields /\ u.ans = ui.ans /\ u.ref = ui.ref
    BY <1>i DEF InteractiveFields, Content!replaceRuntimeConfig
  <2> HIDE DEF u
  <2>4. DOMAIN v = InteractiveFields /\ v.ans = ui.ans /\ v.ref = ui.ref
    BY <2>3 DEF InteractiveFields
  <2> HIDE DEF v
  <2>5. DOMAIN ui' = InteractiveFields /\ ui'.ans = ui.ans /\ ui'.ref = ui.ref
    BY <1>i, <2>2, <2>3, <2>4
  <2> QED
    BY <1>0, <1>1, <1>4, <2>1, <2>5, DrawnKept DEF Fine
<1>13. ASSUME NEW r \in net, Content!InteractiveServer(r) PROVE Fine
  <2> USE DEF Content!Answer, Content!AnswerPush
  <2>1. UNCHANGED <<ui, atom>>
    BY <1>13 DEF Content!InteractiveServer
  <2>2. KeysSent'
    <3>1. \E val : net' = Content!Reply(r, TRUE, val)
      BY <1>13 DEF Content!InteractiveServer
    <3> QED
      BY <1>0, <2>1, <3>1, SentReply
  <2>3. KeysRecorded'
    <3>1. CASE r.op = "submit"
      BY <1>0, <1>13, <2>1, <3>1, SubmitRecords DEF Content!InteractiveServer
    <3>2. CASE r.op = "delete"
      <4>1. db' = [db EXCEPT !.recs = @ \ {r.arg}, !.n = @ + 1]
        BY <1>13, <3>2 DEF Content!InteractiveServer
      <4>2. DOMAIN db' = {"n", "open", "recs"} /\ db'.recs = db.recs \ {r.arg}
        BY <1>0, <4>1 DEF KeysRecorded
      <4> QED
        BY <1>0, <2>1, <4>2 DEF KeysRecorded
    <3>3. CASE r.op = "moderate"
      <4> DEFINE new == [r.arg EXCEPT !.done = TRUE]
      <4>1. r.arg \in db.recs /\ db' = [db EXCEPT !.recs = (@ \ {r.arg}) \cup {new}, !.n = @ + 1]
        BY <1>13, <3>3 DEF Content!InteractiveServer
      <4>2. DOMAIN new = {"ans", "key", "done"} /\ new.key = r.arg.key
        BY <1>0, <4>1 DEF KeysRecorded
      <4> HIDE DEF new
      <4>3. DOMAIN db' = {"n", "open", "recs"} /\ db'.recs = (db.recs \ {r.arg}) \cup {new}
        BY <1>0, <4>1 DEF KeysRecorded
      <4> QED
        BY <1>0, <2>1, <4>1, <4>2, <4>3 DEF KeysRecorded
    <3>4. CASE r.op = "savePage"
      <4>1. db' = [[db EXCEPT !.open = r.arg.open] EXCEPT !.n = @ + 1]
        BY <1>13, <3>4 DEF Content!InteractiveServer, Content!mergeInteractiveRecords
      <4>2. DOMAIN db' = {"n", "open", "recs"} /\ db'.recs = db.recs
        BY <1>0, <4>1 DEF KeysRecorded
      <4> QED
        BY <1>0, <2>1, <4>2 DEF KeysRecorded
    <3> QED
      BY <1>13, <3>1, <3>2, <3>3, <3>4 DEF Content!InteractiveServer
  <2> QED
    BY <1>3, <2>1, <2>2, <2>3 DEF Fine
<1>14. ASSUME NEW r \in net, Content!answerLost(r) PROVE Fine
  <2>1. UNCHANGED <<ui, atom>> /\ net' = Content!Reply(r, FALSE, None) /\ r.op = "submit"
    BY <1>14 DEF Content!answerLost
  <2>2. KeysRecorded'
    <3> DEFINE d == [db EXCEPT !.recs = @ \cup {Content!Recorded(r.arg.ans, r.arg.key)}]
    <3>1. Content!SubmitInteractive(r, d) /\ db' = d
      BY <1>14 DEF Content!answerLost
    <3> HIDE DEF d
    <3>2. d \in {db, [db EXCEPT !.recs = @ \cup {Content!Recorded(r.arg.ans, r.arg.key)}]}
      BY DEF d
    <3> QED
      BY <1>0, <2>1, <3>1, <3>2, SubmitRecords
  <2>3. KeysSent'
    BY <1>0, <2>1, SentReply
  <2> QED
    BY <1>3, <2>1, <2>2, <2>3 DEF Fine
<1>15. ASSUME Fails PROVE Fine
  <2>1. PICK r \in net : UNCHANGED <<ui, atom, db>> /\ net' = Reply(r, FALSE, None)
    BY <1>15 DEF Fails, Fail
  <2>2. net' = Content!Reply(r, FALSE, None)
    BY <2>1 DEF Reply, Content!Reply
  <2> QED
    BY <1>0, <1>1, <1>3, <2>1, <2>2, SentReply DEF Fine
<1>16. ASSUME UNCHANGED spaVars PROVE Fine
  BY <1>1, <1>2, <1>3, <1>16 DEF spaVars, Fine
<1>17. Fine
  BY <1>5, <1>6, <1>7, <1>8, <1>9, <1>10, <1>11, <1>12, <1>13, <1>14, <1>15, <1>16 DEF Content!InteractiveNext
<1> QED
  BY <1>17 DEF Fine

LEMMA ContentCardinality == \A S : Content!Cardinality(S) = Cardinality(S)
  BY DEF Content!Cardinality, Cardinality

\* There are no more records than keys, and no more keys than submissions meant.
LEMMA InteractiveInvCounts == InteractiveInv => RecordedOnce
<1> SUFFICES ASSUME page = <<"interactive", "mounted">>, KeysDrawn, KeysRecorded
             PROVE  Cardinality(db.recs) <= atom.meant
  BY ContentCardinality DEF InteractiveInv, RecordedOnce, Content!RecordedOnce, Content!On
<1> DEFINE f == [x \in db.recs |-> x.key]
<1>1. f \in Injection(db.recs, 1..atom.keys)
  BY DEF KeysRecorded, Injection, IsInjective
<1>2. IsFiniteSet(1..atom.keys) /\ Cardinality(1..atom.keys) = atom.keys
  BY FS_Interval DEF KeysDrawn
<1>3. IsFiniteSet(db.recs) /\ Cardinality(db.recs) <= Cardinality(1..atom.keys)
  BY <1>1, <1>2, FS_Injection
<1>4. Cardinality(db.recs) \in Nat
  BY <1>3, FS_CardinalityType
<1> QED
  BY <1>2, <1>3, <1>4 DEF KeysDrawn

LEMMA InteractiveInvInit == Content!InteractiveInit => InteractiveInv
<1> SUFFICES ASSUME Content!InteractiveInit PROVE KeysDrawn /\ KeysSent /\ KeysRecorded
  BY DEF InteractiveInv
<1>1. atom = [keys |-> 0, meant |-> 0] /\ net = {} /\ db = [n |-> 0, open |-> TRUE, recs |-> {}]
  BY DEF Content!InteractiveInit, Content!Begins
<1>2. DOMAIN ui = InteractiveFields /\ ui.ans = None /\ ui.ref = None
  BY DEF Content!InteractiveInit, Content!Begins, InteractiveFields
<1> QED
  BY <1>1, <1>2 DEF KeysDrawn, KeysSent, KeysRecorded, Unsent

\* However often a submission is sent again because its answer was lost, failed
\* or came late, it is recorded once (submit of InteractiveSectionBlock with
\* submissionRef, and SubmitInteractive on the server).
THEOREM SubmissionsRecordedOnce == InteractiveSpec => []RecordedOnce
  BY InteractiveInvInit, InteractiveInvStep, InteractiveInvCounts, PTL DEF InteractiveSpec

\* Every key recorded stays recorded, except by a deletion of that response.
Keeps ==
    \A x \in db.recs : (\E y \in db'.recs : y.key = x.key) \/ \E r \in net : r.op = "delete" /\ r.arg.key = x.key
LEMMA InteractiveKeeps ==
    ASSUME InteractiveInv, Content!InteractiveNext \/ Fails, page = <<"interactive", "mounted">>
    PROVE  Keeps
<1>1. KeysRecorded
  BY DEF InteractiveInv
<1>2. ASSUME db.recs \subseteq db'.recs PROVE Keeps
  BY <1>2 DEF Keeps
<1>3. CASE UNCHANGED db
  BY <1>2, <1>3
<1>4. ASSUME NEW r \in net, NEW d \in {db, [db EXCEPT !.recs = @ \cup {Content!Recorded(r.arg.ans, r.arg.key)}]}, db' = d
      PROVE  Keeps
  <2>1. db.recs \subseteq db'.recs
    BY <1>1, <1>4 DEF KeysRecorded
  <2> QED
    BY <1>2, <2>1
<1>5. ASSUME NEW r \in net, Content!InteractiveServer(r) PROVE Keeps
  <2> USE DEF Content!Answer, Content!AnswerPush
  <2>1. CASE r.op = "submit"
    BY <1>4, <1>5, <2>1 DEF Content!InteractiveServer
  <2>2. CASE r.op = "delete"
    <3>1. db' = [db EXCEPT !.recs = @ \ {r.arg}, !.n = @ + 1]
      BY <1>5, <2>2 DEF Content!InteractiveServer
    <3>2. db'.recs = db.recs \ {r.arg}
      BY <1>1, <3>1 DEF KeysRecorded
    <3> QED
      BY <2>2, <3>2 DEF Keeps
  <2>3. CASE r.op = "moderate"
    <3> DEFINE new == [r.arg EXCEPT !.done = TRUE]
    <3>1. r.arg \in db.recs /\ db' = [db EXCEPT !.recs = (@ \ {r.arg}) \cup {new}, !.n = @ + 1]
      BY <1>5, <2>3 DEF Content!InteractiveServer
    <3>2. new.key = r.arg.key
      BY <1>1, <3>1 DEF KeysRecorded
    <3> HIDE DEF new
    <3>3. db'.recs = (db.recs \ {r.arg}) \cup {new}
      BY <1>1, <3>1 DEF KeysRecorded
    <3> QED
      BY <3>2, <3>3 DEF Keeps
  <2>4. CASE r.op = "savePage"
    <3>1. db' = [[db EXCEPT !.open = r.arg.open] EXCEPT !.n = @ + 1]
      BY <1>5, <2>4 DEF Content!InteractiveServer, Content!mergeInteractiveRecords
    <3>2. db'.recs = db.recs
      BY <1>1, <3>1 DEF KeysRecorded
    <3> QED
      BY <1>2, <3>2
  <2> QED
    BY <1>5, <2>1, <2>2, <2>3, <2>4 DEF Content!InteractiveServer
<1>6. ASSUME NEW r \in net, Content!answerLost(r) PROVE Keeps
  <2>1. db' = [db EXCEPT !.recs = @ \cup {Content!Recorded(r.arg.ans, r.arg.key)}]
    BY <1>6 DEF Content!answerLost
  <2> QED
    BY <1>4, <2>1
<1> USE DEF Content!Set, Content!SetAtom, Content!Write, Content!Call, Content!CallAtom, Content!Done
<1>7. ASSUME NEW x, Content!setTab(x) \/ Content!setExpanded(x) \/ Content!FieldControl(x)
      PROVE  UNCHANGED db
  BY <1>7 DEF Content!setTab, Content!setExpanded, Content!FieldControl
<1>8. ASSUME NEW x, Content!deleteRecord(x) \/ Content!QAAnswerForm(x) PROVE UNCHANGED db
  BY <1>8 DEF Content!deleteRecord, Content!QAAnswerForm
<1>9. Content!submit \/ Content!persistDesign => UNCHANGED db
  BY DEF Content!submit, Content!persistDesign
<1>10. ASSUME NEW r, Content!submitted(r) \/ Content!recordDeleted(r) \/ Content!moderated(r) \/ Content!pageSaved(r)
       PROVE  UNCHANGED db
  BY <1>10 DEF Content!submitted, Content!recordDeleted, Content!moderated, Content!pageSaved
<1>11. Fails => UNCHANGED db
  BY DEF Fails, Fail
<1> QED
  BY <1>3, <1>5, <1>6, <1>7, <1>8, <1>9, <1>10, <1>11 DEF Content!InteractiveNext

\* A response leaves the section only by its own deletion: saving the design
\* from a browser that does not know of it keeps it (persistDesign and, on the
\* server, mergeInteractiveRecords).
THEOREM ResponsesAreKept == InteractiveSpec => ResponsesKept
<1>1. InteractiveInv /\ [Content!InteractiveNext \/ Fails]_spaVars
        => [Content!On("interactive") => Keeps]_(Content!spaVars)
  BY InteractiveKeeps DEF Content!On, Content!spaVars, spaVars
<1>2. InteractiveSpec => []InteractiveInv
  BY InteractiveInvInit, InteractiveInvStep, PTL DEF InteractiveSpec
<1> QED
  BY <1>1, <1>2, PTL DEF InteractiveSpec, ResponsesKept, Content!ResponsesKept, Keeps

-----------------------------------------------------------------------------
(* The grengo dashboard: no job's end is missed.  W are the promises that  *)
(* wait, B the busy flags, n the requests in flight, J the jobs and p the  *)
(* pushes on their way.                                                    *)

GrengoSpec == Grengo!GrengoInit /\ [][Grengo!GrengoNext \/ Fails]_spaVars

GrengoFields == {"busy", "valid", "waits", "active"}
WaitFields == {"kind", "id", "seen"}
Endings == {"completed", "failed"}
JobRows == [kind : Grengo!Kinds, st : {"running"} \cup Endings]
Updates == [id : Nat \ {0}, st : {"running"} \cup Endings, kind : Grengo!Kinds]

\* A request that refreshes a list before a flag is cleared, one that asks for a
\* job, and one whose answer has brought the job's id.
Lists(q) == q.op = "sites" /\ q.arg # None
Asks(q) == q.op \in {"job", "upload"}
Knows(q) == q.op = "job" /\ q.rep # None /\ q.rep.ok

JobTypes(W, n, J) ==
    /\ J \in Seq(JobRows)
    /\ \A w \in W : DOMAIN w = WaitFields /\ w.kind \in Grengo!Kinds /\ w.id \in Nat
    /\ \A q \in n : DOMAIN q = RequestFields /\ (Lists(q) => q.arg \in Grengo!Kinds)
\* A flag that is set belongs to one promise or to one refresh after it.
FlagsOwned(W, B, n) ==
    /\ \A w \in W : Grengo!FlagOf(w.kind) \in B
    /\ \A q \in n : Lists(q) => Grengo!FlagOf(q.arg) \in B
    /\ \A w, x \in W : Grengo!FlagOf(w.kind) = Grengo!FlagOf(x.kind) => w = x
    /\ \A q \in n, w \in W : Lists(q) => Grengo!FlagOf(q.arg) # Grengo!FlagOf(w.kind)
    /\ \A q, s \in n : Lists(q) /\ Lists(s) /\ Grengo!FlagOf(q.arg) = Grengo!FlagOf(s.arg) => q = s
\* A request for a job has its promise, and is the only one of its kind.
PromisesAsked(W, n) ==
    /\ \A q \in n : Asks(q) => \E w \in W : w.kind = q.arg /\ w.id = 0
    /\ \A q, s \in n : Asks(q) /\ Asks(s) /\ q.arg = s.arg => q = s
\* An id is one promise's, or on its way to one.
IdsDiffer(W, n, J) ==
    /\ \A w \in W : w.id # 0 => w.id \in 1..Len(J)
    /\ \A q \in n : Knows(q) => q.rep.val \in 1..Len(J)
    /\ \A q \in n, w \in W : Knows(q) => q.rep.val # w.id
    /\ \A w, x \in W : w.id = x.id /\ w.id # 0 => w = x
    /\ \A q, s \in n : Knows(q) /\ Knows(s) /\ q.rep.val = s.rep.val => q = s
Sound(W, B, n, J) ==
    JobTypes(W, n, J) /\ FlagsOwned(W, B, n) /\ PromisesAsked(W, n) /\ IdsDiffer(W, n, J)

\* The end of a job somebody waits for is on its way; or, as long as the id is
\* not known to the promise, in what the promise has seen.
Coming(p, i) == \E m \in 1..Len(p) : p[m].id = i /\ p[m].st \in Endings
EndsReach(W, n, J, p) ==
    /\ \A w \in W : w.id # 0 /\ J[w.id].st # "running" => Coming(p, w.id)
    /\ \A q \in n, w \in W :
          Knows(q) /\ w.kind = q.arg /\ w.id = 0 /\ J[q.rep.val].st # "running" =>
             Coming(p, q.rep.val) \/ \E e \in w.seen : e.id = q.rep.val /\ e.st \in Endings

GrengoTypes == DOMAIN ui = GrengoFields /\ DOMAIN db = {"n", "jobs"} /\ push \in Seq(Updates)
JobsInv ==
    page = <<"grengo", "mounted">> =>
        /\ GrengoTypes
        /\ Sound(ui.waits, ui.busy, net, db.jobs)
        /\ EndsReach(ui.waits, net, db.jobs, push)

LEMMA GrengoAdd ==
    \A n, op, arg : \E i :
        Grengo!Add(n, op, arg) = n \cup {[id |-> i, op |-> op, arg |-> arg, live |-> TRUE, rep |-> None]}
  BY DEF Grengo!Add
LEMMA NewRequest ==
    ASSUME NEW i, NEW op, NEW arg
    PROVE  LET q == [id |-> i, op |-> op, arg |-> arg, live |-> TRUE, rep |-> None]
           IN  DOMAIN q = RequestFields /\ q.op = op /\ q.arg = arg /\ q.rep = None
  BY DEF RequestFields
LEMMA KindFlags == \A k \in Grengo!Kinds : Grengo!FlagOf(k) \in Grengo!Kinds /\ Grengo!FlagOf(k) # "load"
  BY DEF Grengo!Kinds, Grengo!FlagOf

\* Requests that are gone, or about something else, are of no account.
LEMMA OtherRequests ==
    ASSUME NEW W, NEW B, NEW n, NEW J, NEW C, NEW m, Sound(W, B, n, J),
           \A q \in m : q \in n \/ (DOMAIN q = RequestFields /\ ~Lists(q) /\ ~Asks(q)),
           \A k \in Grengo!Kinds : Grengo!FlagOf(k) \in B => Grengo!FlagOf(k) \in C
    PROVE  /\ Sound(W, C, m, J)
           /\ \A p : EndsReach(W, n, J, p) => EndsReach(W, m, J, p)
<1> USE DEF Sound
<1>1. \A q \in m : q \in n \/ ~(Lists(q) \/ Asks(q) \/ Knows(q))
  BY DEF Asks, Knows
<1>2. JobTypes(W, m, J)
  BY DEF JobTypes
<1>3. FlagsOwned(W, C, m)
  BY <1>1 DEF FlagsOwned, JobTypes
<1>4. PromisesAsked(W, m) /\ IdsDiffer(W, m, J)
  BY <1>1 DEF PromisesAsked, IdsDiffer
<1>5. ASSUME NEW p, EndsReach(W, n, J, p) PROVE EndsReach(W, m, J, p)
  BY <1>1, <1>5 DEF EndsReach
<1> QED
  BY <1>2, <1>3, <1>4, <1>5

\* A request is answered, but with no job's id.
LEMMA PlainReply ==
    ASSUME NEW W, NEW B, NEW n, NEW J, NEW r \in n, NEW s, Sound(W, B, n, J),
           DOMAIN s = RequestFields, s.op = r.op, s.arg = r.arg, ~Knows(s)
    PROVE  /\ Sound(W, B, (n \ {r}) \cup {s}, J)
           /\ \A p : EndsReach(W, n, J, p) => EndsReach(W, (n \ {r}) \cup {s}, J, p)
<1> USE DEF Sound
<1> DEFINE m == (n \ {r}) \cup {s}
<1>1. (Lists(s) <=> Lists(r)) /\ (Asks(s) <=> Asks(r))
  BY DEF Lists, Asks
<1>2. \A q \in m : q \in n \ {r} \/ q = s
  OBVIOUS
<1> HIDE DEF m
<1>3. JobTypes(W, m, J)
  BY <1>1, <1>2 DEF JobTypes
<1>4. FlagsOwned(W, B, m)
  BY <1>1, <1>2 DEF FlagsOwned
<1>5. PromisesAsked(W, m)
  BY <1>1, <1>2 DEF PromisesAsked
<1>6. IdsDiffer(W, m, J)
  BY <1>2 DEF IdsDiffer
<1>7. ASSUME NEW p, EndsReach(W, n, J, p) PROVE EndsReach(W, m, J, p)
  BY <1>2, <1>7 DEF EndsReach
<1> QED
  BY <1>3, <1>4, <1>5, <1>6, <1>7 DEF m

\* A promise is settled: its flag is cleared, or a list refreshed first.
LEMMA Settle ==
    ASSUME NEW W, NEW B, NEW n, NEW J, NEW p, NEW w \in W, Sound(W, B, n, J), EndsReach(W \ {w}, n, J, p),
           \A q \in n : Asks(q) /\ w.id = 0 => q.arg # w.kind
    PROVE  /\ Sound(W \ {w}, B \ {Grengo!FlagOf(w.kind)}, n, J)
           /\ Sound(W \ {w}, B, Grengo!Add(n, "sites", w.kind), J)
           /\ EndsReach(W \ {w}, Grengo!Add(n, "sites", w.kind), J, p)
<1> USE DEF Sound
<1> DEFINE V == W \ {w}
           C == B \ {Grengo!FlagOf(w.kind)}
<1>1. JobTypes(V, n, J) /\ IdsDiffer(V, n, J)
  BY DEF JobTypes, IdsDiffer
<1>2. FlagsOwned(V, C, n)
  BY DEF FlagsOwned
<1>3. PromisesAsked(V, n)
  BY DEF PromisesAsked
<1>4. PICK i : Grengo!Add(n, "sites", w.kind) = n \cup {[id |-> i, op |-> "sites", arg |-> w.kind, live |-> TRUE, rep |-> None]}
  BY GrengoAdd
<1> DEFINE q0 == [id |-> i, op |-> "sites", arg |-> w.kind, live |-> TRUE, rep |-> None]
           m == n \cup {q0}
<1>5. DOMAIN q0 = RequestFields /\ q0.op = "sites" /\ q0.arg = w.kind
  BY NewRequest
<1> HIDE DEF q0
<1>6. ~Asks(q0) /\ ~Knows(q0) /\ w.kind \in Grengo!Kinds
  BY <1>5 DEF Asks, Knows, JobTypes
<1>7. JobTypes(V, m, J)
  BY <1>1, <1>5, <1>6 DEF JobTypes
<1>8. FlagsOwned(V, B, m)
  BY <1>5 DEF FlagsOwned
<1>9. PromisesAsked(V, m) /\ IdsDiffer(V, m, J) /\ EndsReach(V, m, J, p)
  BY <1>1, <1>3, <1>6 DEF PromisesAsked, IdsDiffer, EndsReach
<1> QED
  BY <1>1, <1>2, <1>3, <1>4, <1>7, <1>8, <1>9 DEF q0

\* The id of its job reaches the promise that asked for it.
LEMMA Learn ==
    ASSUME NEW W, NEW B, NEW n, NEW J, NEW p, NEW r \in n, NEW w \in W,
           Sound(W, B, n, J), EndsReach(W, n, J, p), Knows(r), w.kind = r.arg, w.id = 0
    PROVE  LET v == [w EXCEPT !.id = r.rep.val]
               V == (W \ {w}) \cup {v}
           IN  /\ Sound(V, B, n \ {r}, J) /\ v.id # 0
               /\ EndsReach(V \ {v}, n \ {r}, J, p)
               /\ (~\E e \in w.seen : e.id = v.id /\ e.st \in Endings) => EndsReach(V, n \ {r}, J, p)
<1> USE DEF Sound
<1> DEFINE v == [w EXCEPT !.id = r.rep.val]
           V == (W \ {w}) \cup {v}
           m == n \ {r}
<1>1. DOMAIN v = WaitFields /\ v.kind = w.kind /\ v.id = r.rep.val /\ v.seen = w.seen
  BY DEF JobTypes, WaitFields
<1>2. v.id \in 1..Len(J) /\ Len(J) \in Nat /\ Asks(r)
  BY <1>1 DEF IdsDiffer, JobTypes, Knows, Asks
<1>3. \A x \in V : x \in W \ {w} \/ x = v
  OBVIOUS
<1>4. V \ {v} \subseteq W
  OBVIOUS
<1> HIDE DEF v
<1>5. JobTypes(V, m, J)
  BY <1>1, <1>2, <1>3 DEF JobTypes
<1>6. FlagsOwned(V, B, m)
  BY <1>1, <1>3 DEF FlagsOwned
<1>7. PromisesAsked(V, m)
  <2>1. \A q \in m : Asks(q) => q.arg # w.kind
    BY <1>2 DEF PromisesAsked
  <2> QED
    BY <2>1 DEF PromisesAsked
<1>8. IdsDiffer(V, m, J)
  BY <1>1, <1>2, <1>3 DEF IdsDiffer
<1>9. EndsReach(V \ {v}, m, J, p)
  BY <1>4 DEF EndsReach
<1>10. ASSUME ~\E e \in w.seen : e.id = v.id /\ e.st \in Endings
       PROVE  EndsReach(V, m, J, p)
  <2>1. J[v.id].st # "running" => Coming(p, v.id)
    BY <1>1, <1>10 DEF EndsReach
  <2> QED
    BY <1>2, <1>3, <2>1 DEF EndsReach
<1> QED
  BY <1>2, <1>5, <1>6, <1>7, <1>8, <1>9, <1>10 DEF v

\* An update is taken: promises without an id keep it, if it is an end; the one
\* it is for, of which there is only one, is to be settled.
LEMMA Buffer ==
    ASSUME NEW W, NEW B, NEW n, NEW J, NEW p \in Seq(Updates), p # <<>>,
           Sound(W, B, n, J), EndsReach(W, n, J, p)
    PROVE  LET e == Head(p)
               V == {IF w.id = 0 THEN [w EXCEPT !.seen = IF e.st = "running" THEN @ ELSE @ \cup {e}] ELSE w : w \in W}
           IN  /\ Sound(V, B, n, J)
               /\ \A m \in V : Grengo!Ends(m, e) => m.id # 0 /\ EndsReach(V \ {m}, n, J, Tail(p))
               /\ {m \in V : Grengo!Ends(m, e)} = {} => EndsReach(V, n, J, Tail(p))
<1> USE DEF Sound
<1> DEFINE e == Head(p)
           F(w) == IF w.id = 0 THEN [w EXCEPT !.seen = IF e.st = "running" THEN @ ELSE @ \cup {e}] ELSE w
           V == {F(w) : w \in W}
<1>1. e \in Updates /\ e.id # 0 /\ (e.st \in Endings => e.st # "running")
  <2>1. e \in Updates
    OBVIOUS
  <2> HIDE DEF e
  <2> QED
    BY <2>1 DEF Updates, Endings
<1>2. \A i : Coming(p, i) => Coming(Tail(p), i) \/ (e.id = i /\ e.st \in Endings)
  <2> SUFFICES ASSUME NEW i, NEW m \in 1..Len(p), p[m].id = i, p[m].st \in Endings,
                      ~(e.id = i /\ e.st \in Endings)
               PROVE  Coming(Tail(p), i)
    BY DEF Coming
  <2>1. m # 1
    OBVIOUS
  <2>2. m - 1 \in 1..Len(Tail(p)) /\ Tail(p)[m - 1] = p[m]
    BY <2>1
  <2> QED
    BY <2>2 DEF Coming
<1> HIDE DEF e
<1>3. ASSUME NEW w \in W
      PROVE  /\ DOMAIN F(w) = WaitFields /\ F(w).kind = w.kind /\ F(w).id = w.id
             /\ \A x \in w.seen : x \in F(w).seen
             /\ w.id = 0 /\ e.st # "running" => e \in F(w).seen
  BY DEF JobTypes, WaitFields
<1>4. \A x \in V : \E w \in W : x = F(w)
  OBVIOUS
<1> HIDE DEF F
<1>5. \A w \in W : F(w) \in V
  OBVIOUS
<1> HIDE DEF V
<1>6. JobTypes(V, n, J)
  BY <1>3, <1>4 DEF JobTypes
<1>7. FlagsOwned(V, B, n)
  BY <1>3, <1>4 DEF FlagsOwned
<1>8. PromisesAsked(V, n)
  BY <1>3, <1>5 DEF PromisesAsked
<1>9. IdsDiffer(V, n, J)
  BY <1>3, <1>4 DEF IdsDiffer
<1>10. ASSUME NEW X \in SUBSET V, \A x \in X : ~Grengo!Ends(x, e)
       PROVE  EndsReach(X, n, J, Tail(p))
  <2>1. ASSUME NEW x \in X, x.id # 0, J[x.id].st # "running" PROVE Coming(Tail(p), x.id)
    <3>1. PICK w \in W : x = F(w)
      BY <1>4
    <3>2. w.id # 0 /\ w.id = x.id
      BY <1>3, <2>1, <3>1
    <3>3. Coming(p, x.id)
      BY <2>1, <3>2 DEF EndsReach
    <3> QED
      BY <1>2, <1>10, <3>3 DEF Grengo!Ends, Endings
  <2>2. ASSUME NEW q \in n, NEW x \in X, Knows(q), x.kind = q.arg, x.id = 0, J[q.rep.val].st # "running"
        PROVE  Coming(Tail(p), q.rep.val) \/ \E y \in x.seen : y.id = q.rep.val /\ y.st \in Endings
    <3>1. PICK w \in W : x = F(w)
      BY <1>4
    <3>2. w.id = 0 /\ w.kind = q.arg
      BY <1>3, <2>2, <3>1
    <3>3. Coming(p, q.rep.val) \/ \E y \in w.seen : y.id = q.rep.val /\ y.st \in Endings
      BY <2>2, <3>2 DEF EndsReach
    <3>4. CASE \E y \in w.seen : y.id = q.rep.val /\ y.st \in Endings
      BY <1>3, <3>1, <3>4
    <3>5. CASE Coming(p, q.rep.val)
      BY <1>1, <1>2, <1>3, <3>1, <3>2, <3>5
    <3> QED
      BY <3>3, <3>4, <3>5
  <2> QED
    BY <2>1, <2>2 DEF EndsReach
<1>11. ASSUME NEW m \in V, Grengo!Ends(m, e) PROVE m.id # 0 /\ EndsReach(V \ {m}, n, J, Tail(p))
  <2>1. m.id # 0 /\ m.id = e.id
    BY <1>1, <1>11 DEF Grengo!Ends
  <2>2. \A x \in V \ {m} : ~Grengo!Ends(x, e)
    BY <1>9, <2>1 DEF Grengo!Ends, IdsDiffer
  <2> QED
    BY <1>10, <2>1, <2>2
<1>12. {m \in V : Grengo!Ends(m, e)} = {} => EndsReach(V, n, J, Tail(p))
  BY <1>10
<1>13. V = {IF w.id = 0 THEN [w EXCEPT !.seen = IF e.st = "running" THEN @ ELSE @ \cup {e}] ELSE w : w \in W}
  BY DEF V, F
<1>14. e = Head(p)
  BY DEF e
<1>15. Sound(V, B, n, J)
  BY <1>6, <1>7, <1>8, <1>9
<1> HIDE DEF Sound
<1> QED
  BY <1>11, <1>12, <1>13, <1>14, <1>15

\* A job is asked for: the flag is set, a promise made and the request sent.
LEMMA StartSound ==
    ASSUME NEW W, NEW B, NEW n, NEW J, NEW p, NEW k \in Grengo!Kinds, NEW op \in {"job", "upload"},
           Sound(W, B, n, J), EndsReach(W, n, J, p), Grengo!FlagOf(k) \notin B
    PROVE  LET V == W \cup {[kind |-> k, id |-> 0, seen |-> {}]}
               m == Grengo!Add(n, op, k)
           IN  Sound(V, B \cup {Grengo!FlagOf(k)}, m, J) /\ EndsReach(V, m, J, p)
<1> USE DEF Sound
<1> DEFINE w0 == [kind |-> k, id |-> 0, seen |-> {}]
           V == W \cup {w0}
           C == B \cup {Grengo!FlagOf(k)}
<1>1. DOMAIN w0 = WaitFields /\ w0.kind = k /\ w0.id = 0 /\ w0.seen = {}
  BY DEF WaitFields
<1>2. PICK i : Grengo!Add(n, op, k) = n \cup {[id |-> i, op |-> op, arg |-> k, live |-> TRUE, rep |-> None]}
  BY GrengoAdd
<1> DEFINE q0 == [id |-> i, op |-> op, arg |-> k, live |-> TRUE, rep |-> None]
           m == n \cup {q0}
<1>3. DOMAIN q0 = RequestFields /\ q0.op = op /\ q0.arg = k /\ q0.rep = None
  BY NewRequest
<1> HIDE DEF q0, w0
<1>4. Asks(q0) /\ ~Lists(q0) /\ ~Knows(q0)
  BY <1>3 DEF Asks, Lists, Knows
<1>5. \A w \in W : Grengo!FlagOf(w.kind) # Grengo!FlagOf(k) /\ w.kind # k
  BY DEF FlagsOwned
<1>6. \A q \in n : Asks(q) => q.arg # k
  BY <1>5 DEF PromisesAsked
<1>7. JobTypes(V, m, J)
  BY <1>1, <1>3, <1>4 DEF JobTypes
<1>8. FlagsOwned(V, C, m)
  BY <1>1, <1>4, <1>5 DEF FlagsOwned
<1>9. PromisesAsked(V, m)
  BY <1>1, <1>3, <1>4, <1>6 DEF PromisesAsked
<1>10. IdsDiffer(V, m, J)
  <2>1. J \in Seq(JobRows)
    BY DEF JobTypes
  <2>2. \A i1 \in 1..Len(J) : i1 # 0
    BY <2>1
  <2> QED
    BY <1>1, <1>4, <2>2 DEF IdsDiffer
<1>11. EndsReach(V, m, J, p)
  <2>1. \A q \in n : Knows(q) => Asks(q)
    BY DEF Knows, Asks
  <2> QED
    BY <1>1, <1>4, <1>6, <2>1 DEF EndsReach
<1>12. Sound(V, C, m, J)
  BY <1>7, <1>8, <1>9, <1>10
<1> HIDE DEF Sound
<1> QED
  BY <1>2, <1>11, <1>12 DEF q0, w0

\* The server makes the job, and answers with its id.
LEMMA JobMade ==
    ASSUME NEW W, NEW B, NEW n, NEW J, NEW p \in Seq(Updates), NEW r \in n, NEW s, NEW u \in Updates,
           Sound(W, B, n, J), EndsReach(W, n, J, p), r.op = "job",
           DOMAIN s = RequestFields, s.op = r.op, s.arg = r.arg, s.rep.val = Len(J) + 1,
           NEW row \in JobRows, row.st = "running"
    PROVE  /\ Sound(W, B, (n \ {r}) \cup {s}, Append(J, row))
           /\ EndsReach(W, (n \ {r}) \cup {s}, Append(J, row), p \o <<u>>)
<1> USE DEF Sound
<1> DEFINE m == (n \ {r}) \cup {s}
           K == Append(J, row)
<1>1. J \in Seq(JobRows)
  BY DEF JobTypes
<1>2. /\ K \in Seq(JobRows) /\ Len(J) \in Nat /\ Len(K) = Len(J) + 1
      /\ K[Len(J) + 1] = row /\ \A i \in 1..Len(J) : K[i] = J[i] /\ i \in 1..Len(K) /\ i # Len(J) + 1 /\ i # 0
  BY <1>1
<1>3. (Lists(s) <=> Lists(r)) /\ Asks(s) /\ Asks(r)
  BY DEF Lists, Asks
<1>4. \A i : Coming(p, i) => Coming(p \o <<u>>, i)
  BY DEF Coming
<1>5. \A q \in m : q \in n \ {r} \/ q = s
  OBVIOUS
<1>s. Len(J) + 1 \in 1..Len(K) /\ Len(J) + 1 # 0
  BY <1>2
<1> HIDE DEF m, K
<1>6. JobTypes(W, m, K)
  BY <1>2, <1>3, <1>5 DEF JobTypes
<1>7. FlagsOwned(W, B, m)
  BY <1>3, <1>5 DEF FlagsOwned
<1>8. PromisesAsked(W, m)
  BY <1>3, <1>5 DEF PromisesAsked
<1>9. IdsDiffer(W, m, K)
  <2>1. \A w \in W : w.id # 0 => w.id \in 1..Len(K) /\ w.id # Len(J) + 1
    BY <1>2 DEF IdsDiffer
  <2>2. \A q \in n : Knows(q) => q.rep.val \in 1..Len(K) /\ q.rep.val # Len(J) + 1
    BY <1>2 DEF IdsDiffer
  <2>3. \A w \in W : w.id # Len(J) + 1
    BY <1>s, <2>1
  <2> QED
    BY <1>5, <1>s, <2>1, <2>2, <2>3 DEF IdsDiffer
<1>10. EndsReach(W, m, K, p \o <<u>>)
  <2>1. \A w \in W : w.id # 0 /\ K[w.id].st # "running" => Coming(p \o <<u>>, w.id)
    BY <1>2, <1>4 DEF EndsReach, IdsDiffer
  <2>2. ASSUME NEW q \in m, NEW w \in W, Knows(q), w.kind = q.arg, w.id = 0, K[q.rep.val].st # "running"
        PROVE  Coming(p \o <<u>>, q.rep.val) \/ \E e \in w.seen : e.id = q.rep.val /\ e.st \in Endings
    <3>1. q \in n
      BY <1>2, <1>5, <2>2
    <3>2. J[q.rep.val].st # "running"
      BY <1>2, <2>2, <3>1 DEF IdsDiffer
    <3> QED
      BY <1>4, <2>2, <3>1, <3>2 DEF EndsReach
  <2> QED
    BY <2>1, <2>2 DEF EndsReach
<1>11. Sound(W, B, m, K)
  BY <1>6, <1>7, <1>8, <1>9
<1> HIDE DEF Sound
<1> QED
  BY <1>10, <1>11 DEF m, K

\* A job ends, and says so.
LEMMA JobEnded ==
    ASSUME NEW W, NEW B, NEW n, NEW J, NEW p \in Seq(Updates), Sound(W, B, n, J), EndsReach(W, n, J, p),
           NEW i \in 1..Len(J), NEW st \in Endings, NEW u \in Updates, u.id = i, u.st = st
    PROVE  Sound(W, B, n, [J EXCEPT ![i].st = st]) /\ EndsReach(W, n, [J EXCEPT ![i].st = st], p \o <<u>>)
<1> USE DEF Sound
<1> DEFINE K == [J EXCEPT ![i].st = st]
<1>1. J \in Seq(JobRows)
  BY DEF JobTypes
<1>2. J[i] \in JobRows
  BY <1>1
<1>3. [J[i] EXCEPT !.st = st] \in JobRows
  BY <1>2 DEF JobRows
<1>4. K \in Seq(JobRows) /\ Len(K) = Len(J) /\ Len(J) \in Nat /\ \A k \in 1..Len(J) : k # i => K[k] = J[k]
  BY <1>1, <1>3
<1>5. \A k : Coming(p, k) => Coming(p \o <<u>>, k)
  BY DEF Coming
<1>6. Coming(p \o <<u>>, i)
  <2>1. Len(p) + 1 \in 1..Len(p \o <<u>>) /\ (p \o <<u>>)[Len(p) + 1] = u
    OBVIOUS
  <2> QED
    BY <2>1 DEF Coming
<1> HIDE DEF K
<1>7. JobTypes(W, n, K) /\ IdsDiffer(W, n, K)
  BY <1>4 DEF JobTypes, IdsDiffer
<1>8. EndsReach(W, n, K, p \o <<u>>)
  BY <1>4, <1>5, <1>6 DEF EndsReach, IdsDiffer
<1>9. Sound(W, B, n, K)
  BY <1>7
<1> HIDE DEF Sound
<1> QED
  BY <1>8, <1>9 DEF K

\* The archive of an import is there: the job is asked for.
LEMMA UploadSound ==
    ASSUME NEW W, NEW B, NEW n, NEW J, NEW r \in n, NEW m, Sound(W, B, n, J), r.op = "upload",
           \A q \in m : q \in n \ {r} \/ (DOMAIN q = RequestFields /\ q.op = "job" /\ q.arg = r.arg /\ ~Knows(q)),
           \A q, s \in m : q \notin n /\ s \notin n => q = s,
           \A q \in m : q \notin n \ {r} => q \notin n
    PROVE  /\ Sound(W, B, m, J)
           /\ \A p : EndsReach(W, n, J, p) => EndsReach(W, m, J, p)
<1> USE DEF Sound
<1>1. Asks(r) /\ ~Lists(r) /\ \A q \in m : q \notin n \ {r} => ~Lists(q) /\ Asks(q) /\ ~Knows(q) /\ q.arg = r.arg
  BY DEF Asks, Lists
<1>2. JobTypes(W, m, J) /\ FlagsOwned(W, B, m)
  BY <1>1 DEF JobTypes, FlagsOwned
<1>3. PromisesAsked(W, m)
  <2>1. \A q \in n \ {r} : Asks(q) => q.arg # r.arg
    BY <1>1 DEF PromisesAsked
  <2> QED
    BY <1>1, <2>1 DEF PromisesAsked
<1>4. IdsDiffer(W, m, J)
  BY <1>1 DEF IdsDiffer
<1>5. ASSUME NEW p, EndsReach(W, n, J, p) PROVE EndsReach(W, m, J, p)
  BY <1>1, <1>5 DEF EndsReach
<1> QED
  BY <1>2, <1>3, <1>4, <1>5

\* A list is refreshed, and the flag that waited for it cleared.
LEMMA ListSound ==
    ASSUME NEW W, NEW B, NEW n, NEW J, NEW r \in n, Sound(W, B, n, J), Lists(r)
    PROVE  /\ Sound(W, B \ {Grengo!FlagOf(r.arg)}, n \ {r}, J)
           /\ \A p : EndsReach(W, n, J, p) => EndsReach(W, n \ {r}, J, p)
<1> USE DEF Sound
<1>1. JobTypes(W, n \ {r}, J) /\ PromisesAsked(W, n \ {r}) /\ IdsDiffer(W, n \ {r}, J)
  BY DEF JobTypes, PromisesAsked, IdsDiffer
<1>2. FlagsOwned(W, B \ {Grengo!FlagOf(r.arg)}, n \ {r})
  BY DEF FlagsOwned
<1>3. ASSUME NEW p, EndsReach(W, n, J, p) PROVE EndsReach(W, n \ {r}, J, p)
  BY <1>3 DEF EndsReach
<1> QED
  BY <1>1, <1>2, <1>3

\* What settling does to the component and to the requests in flight.
LEMMA SettledIs ==
    ASSUME NEW u, NEW n, NEW w, NEW ok, DOMAIN u = GrengoFields
    PROVE  LET s == Grengo!Settled(u, n, w, ok) IN
           /\ DOMAIN s.u = GrengoFields /\ s.u.waits = u.waits \ {w}
           /\ \/ ok /\ s.u.busy = u.busy /\ s.n = Grengo!Add(n, "sites", w.kind)
              \/ s.u.busy = u.busy \ {Grengo!FlagOf(w.kind)} /\ s.n = n
<1> DEFINE v == [u EXCEPT !.waits = @ \ {w}]
           f == Grengo!FlagOf(w.kind)
           b == ok /\ w.kind \in {"site", "export"}
<1>1. DOMAIN v = GrengoFields /\ v.waits = u.waits \ {w} /\ v.busy = u.busy
  BY DEF GrengoFields
<1>2. Grengo!Settled(u, n, w, ok)
        = [u |-> IF b THEN v ELSE Grengo!Idle(v, f), n |-> IF b THEN Grengo!Add(n, "sites", w.kind) ELSE n]
  BY DEF Grengo!Settled
<1> HIDE DEF v, f, b
<1>3. /\ DOMAIN Grengo!Idle(v, f) = GrengoFields /\ Grengo!Idle(v, f).waits = v.waits
      /\ Grengo!Idle(v, f).busy = v.busy \ {f}
  BY <1>1 DEF GrengoFields, Grengo!Idle
<1>4. CASE b
  BY <1>1, <1>2, <1>4 DEF b
<1>5. CASE ~b
  BY <1>1, <1>2, <1>3, <1>5 DEF f
<1> QED
  BY <1>4, <1>5


\* Every step of the dashboard and its node keeps the invariant.
LEMMA JobsInvStep == JobsInv /\ [Grengo!GrengoNext \/ Fails]_spaVars => JobsInv'
<1> DEFINE Fine ==
        /\ GrengoTypes'
        /\ Sound(ui'.waits, ui'.busy, net', db'.jobs)
        /\ EndsReach(ui'.waits, net', db'.jobs, push')
<1> SUFFICES ASSUME JobsInv, [Grengo!GrengoNext \/ Fails]_spaVars,
                    page' = <<"grengo", "mounted">>
             PROVE  Fine
  BY DEF JobsInv
<1> HIDE DEF Fine
<1> DEFINE W == ui.waits
           B == ui.busy
           J == db.jobs
<1>0. page = <<"grengo", "mounted">>
  BY DEF Grengo!GrengoNext, Grengo!KeepAlive, Grengo!EndSession, Grengo!Refresh, Grengo!siteAction, Grengo!handleExport,
         Grengo!runCommand, Grengo!CreateSite, Grengo!handleImport, Grengo!handleJobUpdate, Grengo!JobEnds,
         Grengo!Ready, Grengo!Quit, Grengo!On, Fails, Fail, spaVars
<1>t. /\ DOMAIN ui = GrengoFields /\ DOMAIN db = {"n", "jobs"} /\ push \in Seq(Updates)
      /\ \A w \in W : w.kind \in Grengo!Kinds
      /\ J \in Seq(JobRows)
      /\ \A q \in net : DOMAIN q = RequestFields
  BY <1>0 DEF JobsInv, GrengoTypes, Sound, JobTypes
<1>s. Sound(W, B, net, J) /\ EndsReach(W, net, J, push)
  BY <1>0 DEF JobsInv
<1>1. ASSUME NEW op, NEW arg, op \notin {"job", "upload"}, op = "sites" => arg = None,
             net' = Grengo!Add(net, op, arg),
             ui' = ui \/ ui' = Grengo!Busy(ui, "load"), UNCHANGED <<db, push>>
      PROVE  Fine
  <2>1. PICK i : net' = net \cup {[id |-> i, op |-> op, arg |-> arg, live |-> TRUE, rep |-> None]}
    BY ZenonT(30), <1>1, GrengoAdd
  <2> DEFINE q0 == [id |-> i, op |-> op, arg |-> arg, live |-> TRUE, rep |-> None]
  <2>2. DOMAIN q0 = RequestFields /\ q0.op = op /\ q0.arg = arg
    BY NewRequest
  <2>3. net' = net \cup {q0}
    BY <2>1
  <2> HIDE DEF q0
  <2>4. DOMAIN ui' = GrengoFields /\ ui'.waits = W /\ \A f \in B : f \in ui'.busy
    BY <1>1, <1>t DEF GrengoFields, Grengo!Busy
  <2>5. \A q \in net' : q \in net \/ (DOMAIN q = RequestFields /\ ~Lists(q) /\ ~Asks(q))
    BY <1>1, <2>2, <2>3 DEF Lists, Asks
  <2>6. Sound(W, ui'.busy, net', J) /\ EndsReach(W, net', J, push)
    BY <1>s, <2>4, <2>5, OtherRequests
  <2> QED
    BY <1>1, <1>t, <2>4, <2>6 DEF Fine, GrengoTypes
<1>2. CASE Grengo!KeepAlive
  BY <1>1, <1>2 DEF Grengo!KeepAlive, Grengo!Call
<1>3. CASE Grengo!Refresh
  BY <1>1, <1>3 DEF Grengo!Refresh, Grengo!Call
<1>4. ASSUME NEW k \in Grengo!Kinds, NEW op \in {"job", "upload"}, Grengo!FlagOf(k) \notin B, Grengo!StartJob(k, op)
      PROVE  Fine
  <2> DEFINE w0 == [kind |-> k, id |-> 0, seen |-> {}]
             C == B \cup {Grengo!FlagOf(k)}
             V == W \cup {w0}
             m == Grengo!Add(net, op, k)
  <2>1. /\ ui' = [Grengo!Busy(ui, Grengo!FlagOf(k)) EXCEPT !.waits = @ \cup {w0}]
        /\ net' = m /\ UNCHANGED <<db, push>>
    BY <1>4 DEF Grengo!StartJob, Grengo!Call
  <2>2. Sound(V, C, m, J) /\ EndsReach(V, m, J, push)
    BY <1>4, <1>s, StartSound
  <2> HIDE DEF m, w0
  <2>3. DOMAIN ui' = GrengoFields /\ ui'.waits = V /\ ui'.busy = C
    BY <1>t, <2>1 DEF GrengoFields, Grengo!Busy
  <2> QED
    BY <1>t, <2>1, <2>2, <2>3 DEF Fine, GrengoTypes
<1>5. CASE Grengo!siteAction \/ Grengo!handleExport
  <2>1. "site" \notin B
    BY <1>5 DEF Grengo!siteAction, Grengo!handleExport, Grengo!RowView
  <2>2. Grengo!FlagOf("site") = "site" /\ Grengo!FlagOf("export") = "site" /\ {"site", "export"} \subseteq Grengo!Kinds
    BY DEF Grengo!FlagOf, Grengo!Kinds
  <2> QED
    BY <1>4, <1>5, <2>1, <2>2 DEF Grengo!siteAction, Grengo!handleExport
<1>6. CASE Grengo!runCommand \/ Grengo!CreateSite \/ Grengo!handleImport
  <2>1. /\ Grengo!FlagOf("command") = "command" /\ Grengo!FlagOf("create") = "create" /\ Grengo!FlagOf("import") = "import"
        /\ {"command", "create", "import"} \subseteq Grengo!Kinds
    BY DEF Grengo!FlagOf, Grengo!Kinds
  <2> QED
    BY <1>4, <1>6, <2>1 DEF Grengo!runCommand, Grengo!CreateSite, Grengo!handleImport, Grengo!ToolbarView, Grengo!CreateFormView,
                            Grengo!ImportFormView
<1>7. CASE Grengo!handleJobUpdate
  <2> DEFINE e == Head(push)
             u == Grengo!Buffered(e)
             V == {IF w.id = 0 THEN [w EXCEPT !.seen = IF e.st = "running" THEN @ ELSE @ \cup {e}] ELSE w : w \in W}
             mine == {w \in V : Grengo!Ends(w, e)}
  <2>1. push # <<>> /\ push' = Tail(push) /\ UNCHANGED db
    BY <1>7 DEF Grengo!handleJobUpdate
  <2>2. DOMAIN u = GrengoFields /\ u.waits = V /\ u.busy = B
    BY <1>t DEF Grengo!Buffered, GrengoFields
  <2>3. /\ Sound(V, B, net, J)
        /\ \A m \in V : Grengo!Ends(m, e) => m.id # 0 /\ EndsReach(V \ {m}, net, J, Tail(push))
        /\ mine = {} => EndsReach(V, net, J, Tail(push))
    BY <1>t, <1>s, <2>1, Buffer
  <2>4. \/ mine = {} /\ ui' = u /\ UNCHANGED net
        \/ /\ mine # {}
           /\ ui' = Grengo!Settled(u, net, CHOOSE w \in mine : TRUE, e.st = "completed").u
           /\ net' = Grengo!Settled(u, net, CHOOSE w \in mine : TRUE, e.st = "completed").n
    BY <1>7, <2>2 DEF Grengo!handleJobUpdate
  <2>p. push' \in Seq(Updates)
    BY <1>t, <2>1
  <2> HIDE DEF u
  <2>5. CASE mine = {} /\ ui' = u /\ UNCHANGED net
    BY <1>t, <2>1, <2>2, <2>3, <2>5, <2>p DEF Fine, GrengoTypes
  <2>6. CASE /\ mine # {}
             /\ ui' = Grengo!Settled(u, net, CHOOSE w \in mine : TRUE, e.st = "completed").u
             /\ net' = Grengo!Settled(u, net, CHOOSE w \in mine : TRUE, e.st = "completed").n
    <3> DEFINE w == CHOOSE x \in mine : TRUE
               ok == e.st = "completed"
    <3>1. w \in V /\ Grengo!Ends(w, e)
      BY <2>6
    <3>2. ui' = Grengo!Settled(u, net, w, ok).u /\ net' = Grengo!Settled(u, net, w, ok).n
      BY <2>6
    <3> HIDE DEF V, w, ok, mine, e
    <3>3. w.id # 0 /\ EndsReach(V \ {w}, net, J, push')
      BY <2>1, <2>3, <3>1
    <3>4. /\ Sound(V \ {w}, B \ {Grengo!FlagOf(w.kind)}, net, J)
          /\ Sound(V \ {w}, B, Grengo!Add(net, "sites", w.kind), J)
          /\ EndsReach(V \ {w}, Grengo!Add(net, "sites", w.kind), J, push')
      BY <2>3, <3>1, <3>3, Settle
    <3>5. \/ /\ DOMAIN ui' = GrengoFields /\ ui'.waits = V \ {w} /\ ui'.busy = B /\ net' = Grengo!Add(net, "sites", w.kind)
          \/ /\ DOMAIN ui' = GrengoFields /\ ui'.waits = V \ {w} /\ ui'.busy = B \ {Grengo!FlagOf(w.kind)} /\ net' = net
      BY <2>2, <3>2, SettledIs
    <3> QED
      BY <1>t, <2>1, <2>p, <3>3, <3>4, <3>5 DEF Fine, GrengoTypes
  <2> QED
    BY <2>4, <2>5, <2>6
<1>8. CASE Grengo!JobEnds
  <2>1. PICK i \in 1..Len(J), st \in Endings :
          /\ db' = [db EXCEPT !.jobs[i].st = st] /\ push' = push \o <<[id |-> i, st |-> st, kind |-> J[i].kind]>>
          /\ UNCHANGED <<ui, net>>
    BY <1>8 DEF Grengo!JobEnds, Grengo!Sent, Grengo!Update, Endings
  <2> DEFINE e == [id |-> i, st |-> st, kind |-> J[i].kind]
  <2>2. e \in Updates
    <3>1. J[i] \in JobRows
      BY <1>t
    <3>2. J[i].kind \in Grengo!Kinds /\ i \in Nat \ {0}
      BY <3>1 DEF JobRows
    <3> QED
      BY <3>2 DEF Updates
  <2>3. e.id = i /\ e.st = st
    OBVIOUS
  <2>4. DOMAIN db' = {"n", "jobs"} /\ db'.jobs = [J EXCEPT ![i].st = st]
    BY <1>t, <2>1
  <2>5. push' = push \o <<e>>
    BY <2>1
  <2> HIDE DEF e
  <2>6. Sound(W, B, net, [J EXCEPT ![i].st = st]) /\ EndsReach(W, net, [J EXCEPT ![i].st = st], push')
    BY <1>t, <1>s, <2>2, <2>3, <2>5, JobEnded
  <2>7. push' \in Seq(Updates)
    BY <1>t, <2>2, <2>5
  <2> QED
    BY <1>t, <2>1, <2>4, <2>6, <2>7 DEF Fine, GrengoTypes
<1>9. ASSUME NEW r \in net, NEW ok, NEW val, net' = Grengo!Reply(r, ok, val), UNCHANGED <<ui, db, push>>,
             ~ok \/ r.op # "job"
      PROVE  Fine
  <2> DEFINE s == [r EXCEPT !.rep = [ok |-> ok, val |-> val]]
  <2>1. DOMAIN s = RequestFields /\ s.op = r.op /\ s.arg = r.arg /\ s.rep.ok = ok
    BY <1>t DEF RequestFields
  <2>2. net' = (net \ {r}) \cup {s}
    BY <1>9 DEF Grengo!Reply
  <2> HIDE DEF s
  <2>3. ~Knows(s)
    BY <1>9, <2>1 DEF Knows
  <2>4. Sound(W, B, net', J) /\ EndsReach(W, net', J, push)
    BY <1>s, <2>1, <2>2, <2>3, PlainReply
  <2> QED
    BY <1>9, <1>t, <2>4 DEF Fine, GrengoTypes
<1>10. ASSUME NEW r \in net, Grengo!GrengoServes(r) PROVE Fine
  <2>1. CASE r.op # "job"
    <3>1. net' = Grengo!Reply(r, TRUE, None) /\ UNCHANGED <<ui, db>> /\ push' = push \o <<>>
      BY <1>10, <2>1 DEF Grengo!GrengoServes, Grengo!Read, Grengo!Answer, Grengo!AnswerPush, Grengo!Sent
    <3>2. push \o <<>> = push
      BY <1>t
    <3> QED
      BY <1>9, <2>1, <3>1, <3>2
  <2>2. CASE r.op = "job"
    <3> DEFINE i == Len(J) + 1
               row == [kind |-> r.arg, st |-> "running"]
               u == [id |-> i, st |-> "running", kind |-> r.arg]
               s == [r EXCEPT !.rep = [ok |-> TRUE, val |-> i]]
    <3>1. /\ db' = [db EXCEPT !.jobs = Append(@, row)]
          /\ net' = Grengo!Reply(r, TRUE, i) /\ push' = push \o <<u>> /\ UNCHANGED ui
      BY <1>10, <2>2 DEF Grengo!GrengoServes, Grengo!Read, Grengo!AnswerPush, Grengo!Sent
    <3>2. r.arg \in Grengo!Kinds
      BY <1>s, <2>2 DEF Sound, PromisesAsked, Asks, JobTypes
    <3>3. u \in Updates /\ row \in JobRows /\ row.st = "running"
      BY <1>t, <3>2 DEF Updates, JobRows
    <3>4. DOMAIN s = RequestFields /\ s.op = r.op /\ s.arg = r.arg /\ s.rep.val = i
      BY <1>t DEF RequestFields
    <3>5. DOMAIN db' = {"n", "jobs"} /\ db'.jobs = Append(J, row) /\ net' = (net \ {r}) \cup {s}
      BY <1>t, <3>1 DEF Grengo!Reply
    <3> HIDE DEF u, row, s
    <3>6. /\ Sound(W, B, (net \ {r}) \cup {s}, Append(J, row))
          /\ EndsReach(W, (net \ {r}) \cup {s}, Append(J, row), push \o <<u>>)
      <4> HIDE DEF W, B, J
      <4> QED
        BY <1>t, <1>s, <2>2, <3>3, <3>4, JobMade
    <3>7. push' \in Seq(Updates)
      BY <1>t, <3>1, <3>3
    <3>8. Sound(W, B, net', db'.jobs) /\ EndsReach(W, net', db'.jobs, push')
      BY <3>1, <3>5, <3>6
    <3> QED
      BY <1>t, <3>1, <3>5, <3>7, <3>8 DEF Fine, GrengoTypes
  <2> QED
    BY <2>1, <2>2
<1>11. ASSUME NEW r \in net, Grengo!AckTimeout(r) PROVE Fine
  BY <1>9, <1>11 DEF Grengo!AckTimeout
<1>12. ASSUME NEW r \in net, Grengo!validateSession(r) PROVE Fine
  <2>1. /\ DOMAIN ui' = GrengoFields /\ ui'.waits = W /\ \A f \in B : f \in ui'.busy
        /\ net' = net \ {r} \/ net' = Grengo!Add(net \ {r}, "sites", None)
        /\ UNCHANGED <<db, push>>
    <3>1. /\ ui' = [ui EXCEPT !.valid = "yes", !.busy = IF ui.valid = "yes" THEN @ ELSE @ \cup {"load"}]
          /\ net' = net \ {r} \/ net' = Grengo!Add(net \ {r}, "sites", None)
          /\ UNCHANGED <<db, push>>
      BY <1>12 DEF Grengo!validateSession, Grengo!Quit
    <3> QED
      BY <1>t, <3>1 DEF GrengoFields
  <2>2. \A q \in net' : q \in net \/ (DOMAIN q = RequestFields /\ ~Lists(q) /\ ~Asks(q))
    <3>1. PICK i : Grengo!Add(net \ {r}, "sites", None)
                     = (net \ {r}) \cup {[id |-> i, op |-> "sites", arg |-> None, live |-> TRUE, rep |-> None]}
      BY GrengoAdd
    <3> DEFINE q0 == [id |-> i, op |-> "sites", arg |-> None, live |-> TRUE, rep |-> None]
    <3>2. DOMAIN q0 = RequestFields /\ q0.op = "sites" /\ q0.arg = None
      BY NewRequest
    <3> HIDE DEF q0
    <3> QED
      BY <2>1, <3>1, <3>2 DEF q0, Lists, Asks
  <2>3. Sound(W, ui'.busy, net', J) /\ EndsReach(W, net', J, push)
    BY <1>s, <2>1, <2>2, OtherRequests
  <2> QED
    BY <1>t, <2>1, <2>3 DEF Fine, GrengoTypes
<1>13. ASSUME NEW r \in net, Grengo!SitesFetched(r) PROVE Fine
  <2> DEFINE f == IF r.arg = None THEN "load" ELSE Grengo!FlagOf(r.arg)
  <2>1. /\ net' = net \ {r} /\ UNCHANGED <<db, push>>
        /\ ui' = ui \/ ui' = Grengo!Idle(ui, f)
        /\ r.op = "sites"
    BY <1>13 DEF Grengo!SitesFetched, Grengo!Done, Grengo!Reach, Grengo!Replied
  <2> HIDE DEF f
  <2>2. DOMAIN ui' = GrengoFields /\ ui'.waits = W /\ (ui'.busy = B \/ ui'.busy = B \ {f})
    BY <1>t, <2>1 DEF GrengoFields, Grengo!Idle
  <2>3. Sound(W, ui'.busy, net', J) /\ EndsReach(W, net', J, push)
    <3>1. CASE ui'.busy = B \/ r.arg = None
      <4>1. \A k \in Grengo!Kinds : Grengo!FlagOf(k) \in B => Grengo!FlagOf(k) \in ui'.busy
        BY <2>2, <3>1, KindFlags DEF f
      <4> QED
        BY <1>s, <2>1, <4>1, OtherRequests
    <3>2. CASE ui'.busy = B \ {f} /\ r.arg # None
      <4>1. Lists(r) /\ f = Grengo!FlagOf(r.arg)
        BY <2>1, <3>2 DEF Lists, f
      <4> QED
        BY <1>s, <2>1, <3>2, <4>1, ListSound
    <3> QED
      BY <2>2, <3>1, <3>2
  <2> QED
    BY <1>t, <2>1, <2>2, <2>3 DEF Fine, GrengoTypes
<1>14. ASSUME NEW r \in net, Grengo!ArchiveUploaded(r) PROVE Fine
  <2> DEFINE n == net \ {r}
             more == {IF q.live = r.live THEN q ELSE [q EXCEPT !.live = r.live] : q \in Grengo!Add(n, "job", r.arg) \ net}
  <2>1. (ui' = ui) /\ UNCHANGED <<db, push>> /\ net' = more \cup n /\ r.op = "upload"
    BY <1>14 DEF Grengo!ArchiveUploaded, Grengo!Goes, Grengo!Onward, Grengo!Reach, Grengo!Replied
  <2>2. PICK i : Grengo!Add(n, "job", r.arg)
                   = n \cup {[id |-> i, op |-> "job", arg |-> r.arg, live |-> TRUE, rep |-> None]}
    BY GrengoAdd
  <2> DEFINE q0 == [id |-> i, op |-> "job", arg |-> r.arg, live |-> TRUE, rep |-> None]
             q1 == IF q0.live = r.live THEN q0 ELSE [q0 EXCEPT !.live = r.live]
  <2>3. DOMAIN q1 = RequestFields /\ q1.op = "job" /\ q1.arg = r.arg /\ q1.rep = None
    BY DEF RequestFields
  <2>4. more \subseteq {q1}
    BY <2>2
  <2> HIDE DEF q0, q1, more
  <2>5. \A q \in net' : q \in n \/ q = q1
    BY <2>1, <2>4
  <2>6. /\ \A q \in net' : q \in n \/ (DOMAIN q = RequestFields /\ q.op = "job" /\ q.arg = r.arg /\ ~Knows(q))
        /\ \A q, s \in net' : q \notin net /\ s \notin net => q = s
        /\ \A q \in net' : q \notin n => q \notin net
    BY <2>1, <2>3, <2>5 DEF Knows
  <2>7. Sound(W, B, net', J) /\ EndsReach(W, net', J, push)
    BY <1>s, <2>1, <2>6, UploadSound
  <2> QED
    BY <1>t, <2>1, <2>7 DEF Fine, GrengoTypes
<1>15. ASSUME NEW r \in net, Grengo!JobIdKnown(r) PROVE Fine
  <2>1. r.op \in {"job", "upload"} /\ r.rep # None /\ (r.op = "upload" => ~r.rep.ok) /\ UNCHANGED <<db, push>>
    BY <1>15 DEF Grengo!JobIdKnown, Grengo!Replied
  <2>2. PICK w \in W : /\ w.kind = r.arg /\ w.id = 0
                       /\ LET v == [w EXCEPT !.id = r.rep.val]
                              u == [ui EXCEPT !.waits = (@ \ {w}) \cup {v}]
                              past == {e \in w.seen : r.rep.ok /\ Grengo!Ends(v, e)}
                              s == IF ~r.rep.ok THEN Grengo!Settled(ui, net \ {r}, w, FALSE)
                                   ELSE IF past = {} THEN [u |-> u, n |-> net \ {r}]
                                   ELSE Grengo!Settled(u, net \ {r}, v, \E e \in past : e.st = "completed")
                          IN  ui' = s.u /\ net' = s.n
    BY <1>15, <1>t, Zenon DEF Grengo!JobIdKnown
  <2> DEFINE n == net \ {r}
             v == [w EXCEPT !.id = r.rep.val]
             V == (W \ {w}) \cup {v}
             u == [ui EXCEPT !.waits = V]
             past == {e \in w.seen : r.rep.ok /\ Grengo!Ends(v, e)}
  <2>3. \/ /\ ~r.rep.ok
           /\ ui' = Grengo!Settled(ui, n, w, FALSE).u /\ net' = Grengo!Settled(ui, n, w, FALSE).n
        \/ r.rep.ok /\ past = {} /\ ui' = u /\ net' = n
        \/ /\ r.rep.ok /\ past # {}
           /\ \E ok \in BOOLEAN : ui' = Grengo!Settled(u, n, v, ok).u /\ net' = Grengo!Settled(u, n, v, ok).n
    BY <2>2, <1>t
  <2>4. DOMAIN u = GrengoFields /\ u.waits = V /\ u.busy = B
    BY <1>t DEF GrengoFields
  <2>5. r.rep.ok => (past = {} => ~\E e \in w.seen : e.id = v.id /\ e.st \in Endings)
    BY DEF Grengo!Ends, Endings
  <2> HIDE DEF past, u
  <2>6. CASE /\ ~r.rep.ok
             /\ ui' = Grengo!Settled(ui, n, w, FALSE).u /\ net' = Grengo!Settled(ui, n, w, FALSE).n
    <3>1. Sound(W, B, n, J) /\ EndsReach(W \ {w}, n, J, push)
      <4>1. Sound(W, B, n, J) /\ EndsReach(W, n, J, push)
        BY <1>s, OtherRequests
      <4> QED
        BY <4>1 DEF EndsReach
    <3>2. \A q \in n : Asks(q) /\ w.id = 0 => q.arg # w.kind
      BY <1>s, <2>1, <2>2 DEF Sound, PromisesAsked, Asks
    <3>3. Sound(W \ {w}, B \ {Grengo!FlagOf(w.kind)}, n, J)
      BY <2>2, <3>1, <3>2, Settle
    <3>4. DOMAIN ui' = GrengoFields /\ ui'.waits = W \ {w} /\ ui'.busy = B \ {Grengo!FlagOf(w.kind)} /\ net' = n
      <4> DEFINE ok == FALSE
      <4>1. ui' = Grengo!Settled(ui, n, w, ok).u /\ net' = Grengo!Settled(ui, n, w, ok).n
        BY <2>6
      <4>2. ~ok
        OBVIOUS
      <4> HIDE DEF ok, n
      <4> QED
        BY <1>t, <4>1, <4>2, SettledIs
    <3> QED
      BY <1>t, <2>1, <3>1, <3>3, <3>4 DEF Fine, GrengoTypes
  <2>7. ASSUME r.rep.ok
        PROVE  /\ Sound(V, B, n, J) /\ v.id # 0
               /\ EndsReach(V \ {v}, n, J, push)
               /\ past = {} => EndsReach(V, n, J, push)
    <3>1. Knows(r)
      BY <2>1, <2>7 DEF Knows
    <3>2. /\ Sound(V, B, n, J) /\ v.id # 0
          /\ EndsReach(V \ {v}, n, J, push)
          /\ (~\E e \in w.seen : e.id = v.id /\ e.st \in Endings) => EndsReach(V, n, J, push)
      <4> HIDE DEF W, B, J
      <4> QED
        BY <1>s, <2>2, <3>1, Learn
    <3> QED
      BY <2>5, <2>7, <3>2
  <2> HIDE DEF v, V
  <2>8. CASE r.rep.ok /\ past = {} /\ ui' = u /\ net' = n
    BY <1>t, <2>1, <2>4, <2>7, <2>8 DEF Fine, GrengoTypes
  <2>9. CASE /\ r.rep.ok /\ past # {}
             /\ \E ok \in BOOLEAN : ui' = Grengo!Settled(u, n, v, ok).u /\ net' = Grengo!Settled(u, n, v, ok).n
    <3>1. v \in V
      BY DEF V
    <3>2. /\ Sound(V \ {v}, B \ {Grengo!FlagOf(v.kind)}, n, J)
          /\ Sound(V \ {v}, B, Grengo!Add(n, "sites", v.kind), J)
          /\ EndsReach(V \ {v}, Grengo!Add(n, "sites", v.kind), J, push)
      BY <2>7, <2>9, <3>1, Settle
    <3>3. \/ /\ DOMAIN ui' = GrengoFields /\ ui'.waits = V \ {v} /\ ui'.busy = B /\ net' = Grengo!Add(n, "sites", v.kind)
          \/ /\ DOMAIN ui' = GrengoFields /\ ui'.waits = V \ {v} /\ ui'.busy = B \ {Grengo!FlagOf(v.kind)} /\ net' = n
      <4>1. PICK ok \in BOOLEAN : ui' = Grengo!Settled(u, n, v, ok).u /\ net' = Grengo!Settled(u, n, v, ok).n
        BY <2>9
      <4> HIDE DEF n
      <4> QED
        BY <2>4, <4>1, SettledIs
    <3> QED
      BY <1>t, <2>1, <2>7, <2>9, <3>2, <3>3 DEF Fine, GrengoTypes
  <2> QED
    BY <2>3, <2>6, <2>8, <2>9
<1>16. CASE Fails
  <2>1. PICK r \in net : UNCHANGED <<ui, db, push>> /\ net' = Reply(r, FALSE, None)
    BY <1>16 DEF Fails, Fail
  <2>2. net' = Grengo!Reply(r, FALSE, None)
    BY <2>1 DEF Reply, Grengo!Reply
  <2> QED
    BY <1>9, <2>1, <2>2
<1>17. CASE UNCHANGED spaVars
  BY <1>s, <1>t, <1>17 DEF Fine, GrengoTypes, spaVars
<1>18. ~Grengo!EndSession
  BY DEF Grengo!EndSession, Grengo!Quit
<1> QED
  BY <1>2, <1>3, <1>5, <1>6, <1>7, <1>8, <1>10, <1>11, <1>12, <1>13, <1>14, <1>15, <1>16, <1>17, <1>18
     DEF Grengo!GrengoNext, Grengo!GrengoReplies

\* Nobody waits, with no push on its way, for a job that has ended, even if the
\* end was pushed before the id was answered (triggerAndWaitForJob of the grengo
\* dashboard).
THEOREM NoEndMissed == GrengoSpec => []NoJobMissed
<1>1. Grengo!GrengoInit => JobsInv
  <2> SUFFICES ASSUME Grengo!GrengoInit
               PROVE  GrengoTypes /\ Sound(ui.waits, ui.busy, net, db.jobs) /\ EndsReach(ui.waits, net, db.jobs, push)
    BY DEF JobsInv
  <2>1. /\ ui = Grengo!GrengoMounted /\ db = [n |-> 0, jobs |-> <<>>] /\ push = <<>>
        /\ net = Grengo!Add({}, "validate", None)
    BY DEF Grengo!GrengoInit, Grengo!Begins
  <2>2. DOMAIN ui = GrengoFields /\ ui.waits = {} /\ ui.busy = {}
    BY <2>1 DEF Grengo!GrengoMounted, GrengoFields
  <2>3. DOMAIN db = {"n", "jobs"} /\ db.jobs = <<>>
    BY <2>1
  <2>4. \A q \in net : DOMAIN q = RequestFields /\ ~Lists(q) /\ ~Asks(q) /\ ~Knows(q)
    <3>1. PICK i : net = {} \cup {[id |-> i, op |-> "validate", arg |-> None, live |-> TRUE, rep |-> None]}
      BY <2>1, GrengoAdd
    <3> DEFINE q0 == [id |-> i, op |-> "validate", arg |-> None, live |-> TRUE, rep |-> None]
    <3>2. DOMAIN q0 = RequestFields /\ q0.op = "validate"
      BY NewRequest
    <3> HIDE DEF q0
    <3> QED
      BY <3>1, <3>2 DEF q0, Lists, Asks, Knows
  <2>5. <<>> \in Seq(Updates) /\ <<>> \in Seq(JobRows)
    OBVIOUS
  <2> QED
    BY <2>1, <2>2, <2>3, <2>4, <2>5
       DEF GrengoTypes, Sound, JobTypes, FlagsOwned, PromisesAsked, IdsDiffer, EndsReach
<1>2. JobsInv => NoJobMissed
  <2> SUFFICES ASSUME page = <<"grengo", "mounted">>, EndsReach(ui.waits, net, db.jobs, push), push = <<>>,
                      NEW w \in ui.waits, w.id # 0
               PROVE  db.jobs[w.id].st = "running"
    BY DEF JobsInv, NoJobMissed, Grengo!NoJobMissed, Grengo!On
  <2>1. ~Coming(push, w.id)
    BY DEF Coming
  <2> QED
    BY <2>1 DEF EndsReach
<1> QED
  BY <1>1, <1>2, JobsInvStep, PTL DEF GrengoSpec

-----------------------------------------------------------------------------
(* The scripture reader: no verse but the one shown is spoken.             *)

BibleSpec == Content!BibleInit /\ [][Content!BibleNext \/ Fails]_spaVars

BibleFields == {"busy", "on", "at", "state", "gen", "cont", "spoken", "synth", "held", "voice"}
Places == Content!Books \X Content!Verses

Utterances == [gen : Nat, at : Places]

\* The current utterance, if there is one.
Current(u) == {x \in u.synth : x.gen = u.gen}
\* What a handler leaves to the effect after it: unless idle, narration goes on;
\* what is current is the verse that is spoken, and if that is the one shown
\* still, it is there.
Unrendered(u) ==
    /\ DOMAIN u = BibleFields /\ u.at \in Places /\ u.gen \in Nat
    /\ u.state \in {"idle", "playing", "paused"}
    /\ u.state # "idle" => u.cont = TRUE
    /\ u.synth \subseteq Utterances /\ \A x \in u.synth : x.gen <= u.gen
    /\ \A x \in Current(u) : u.state # "idle" /\ x.at = u.spoken
    /\ u.state # "idle" /\ u.spoken = u.at => Current(u) # {}
\* And after the effect, the verse shown is the one spoken.
Narrated(u) == Unrendered(u) /\ (u.state # "idle" => u.spoken = u.at)

BibleInv ==
    page = <<"bible", "mounted">> =>
        /\ Narrated(ui)
        /\ DOMAIN atom = {"favorites"} /\ atom.favorites \subseteq Places

\* A new generation leaves nothing current.
LEMMA NextGeneration ==
    ASSUME NEW u, Unrendered(u), Content!CanSpeak(u), NEW g, g = Content!Generation(u)
    PROVE  /\ DOMAIN g = BibleFields /\ g.at = u.at /\ g.cont = u.cont /\ g.gen = u.gen + 1
           /\ g.synth = u.synth
<1>1. g = [u EXCEPT !.gen = u.gen + 1]
  BY DEF Content!Generation, Content!CanSpeak
<1> QED
  BY <1>1 DEF Unrendered, BibleFields

LEMMA StopNarrates == \A u : Unrendered(u) /\ Content!CanSpeak(u) => Narrated(Content!stop(u))
<1> SUFFICES ASSUME NEW u, Unrendered(u), Content!CanSpeak(u) PROVE Narrated(Content!stop(u))
  OBVIOUS
<1> DEFINE g == Content!Generation(u)
           v == [g EXCEPT !.cont = FALSE, !.spoken = None, !.state = "idle"]
<1>1. DOMAIN g = BibleFields /\ g.at = u.at /\ g.gen = u.gen + 1 /\ g.synth = u.synth
  BY NextGeneration
<1>2. Content!stop(u) = v
  BY DEF Content!stop
<1> HIDE DEF g
<1>3. DOMAIN v = BibleFields /\ v.at = u.at /\ v.state = "idle" /\ v.gen = u.gen + 1 /\ v.synth = u.synth
  BY <1>1 DEF BibleFields
<1> HIDE DEF v
<1>4. v.gen \in Nat /\ v.synth \subseteq Utterances /\ \A x \in v.synth : x.gen <= v.gen /\ x.gen # v.gen
  BY <1>3 DEF Unrendered, Utterances
<1>5. Current(v) = {}
  BY <1>4 DEF Current
<1> QED
  BY <1>2, <1>3, <1>4, <1>5 DEF Narrated, Unrendered

LEMMA SpeakNarrates ==
    ASSUME NEW u, Unrendered(u), Content!CanSpeak(u), u.cont = TRUE
    PROVE  Narrated(Content!speakCurrent(u))
<1> DEFINE g == Content!Generation(u)
           x == [gen |-> g.gen, at |-> g.at]
           w == IF g.held THEN "waits" ELSE "due"
           v == [g EXCEPT !.spoken = g.at, !.state = "playing", !.synth = @ \cup {x}, !.voice = w]
<1>1. DOMAIN g = BibleFields /\ g.at = u.at /\ g.cont = TRUE /\ g.gen = u.gen + 1 /\ g.synth = u.synth
  BY NextGeneration
<1>2. Content!speakCurrent(u) = v
  BY DEF Content!speakCurrent
<1>3. x.gen = g.gen /\ x.at = g.at /\ (g.gen \in Nat /\ g.at \in Places => x \in Utterances)
  BY DEF Utterances
<1> HIDE DEF g, x, w
<1>4. /\ DOMAIN v = BibleFields /\ v.at = g.at /\ v.cont = TRUE /\ v.gen = g.gen
      /\ v.spoken = g.at /\ v.state = "playing" /\ v.synth = u.synth \cup {x}
  BY <1>1 DEF BibleFields
<1> HIDE DEF v
<1>5. u.gen \in Nat /\ u.at \in Places /\ u.synth \subseteq Utterances /\ \A y \in u.synth : y.gen <= u.gen
  BY DEF Unrendered
<1>6. v.gen \in Nat /\ v.synth \subseteq Utterances /\ \A y \in v.synth : y.gen <= v.gen
  BY <1>1, <1>3, <1>4, <1>5 DEF Utterances
<1>7. Current(v) = {x}
  <2>1. \A y \in u.synth : y.gen # v.gen
    BY <1>1, <1>4, <1>5 DEF Utterances
  <2> QED
    BY <1>3, <1>4, <2>1 DEF Current
<1>8. \A y \in Current(v) : v.state # "idle" /\ y.at = v.spoken
  BY <1>3, <1>4, <1>7
<1> QED
  BY <1>1, <1>2, <1>4, <1>5, <1>6, <1>7, <1>8 DEF Narrated, Unrendered

LEMMA NarrateNarrates == \A u : Unrendered(u) /\ Content!CanSpeak(u) => Narrated(Content!narrate(u))
<1> SUFFICES ASSUME NEW u, Unrendered(u), Content!CanSpeak(u) PROVE Narrated(Content!narrate(u))
  OBVIOUS
<1> DEFINE stays == u.state # "idle" => u.spoken = u.at
<1>1. CASE Content!narrate(u) = Content!stop(u)
  BY <1>1, StopNarrates
<1>2. CASE u.cont = TRUE /\ Content!narrate(u) = Content!speakCurrent(u)
  BY <1>2, SpeakNarrates
<1>3. CASE Content!narrate(u) = u /\ stays
  BY <1>3 DEF Narrated
<1>4. \/ Content!narrate(u) = Content!stop(u)
      \/ u.cont = TRUE /\ Content!narrate(u) = Content!speakCurrent(u)
      \/ Content!narrate(u) = u /\ stays
  BY DEF Content!narrate, Unrendered
<1> HIDE DEF stays
<1> QED
  BY <1>1, <1>2, <1>3, <1>4

\* Every step of the reader and the synthesizer keeps the invariant.
LEMMA BibleInvStep == BibleInv /\ [Content!BibleNext \/ Fails]_spaVars => BibleInv'
<1> DEFINE Fine == Narrated(ui)' /\ DOMAIN atom' = {"favorites"} /\ atom'.favorites \subseteq Places
<1> SUFFICES ASSUME BibleInv, [Content!BibleNext \/ Fails]_spaVars, page' = <<"bible", "mounted">>
             PROVE  Fine
  BY DEF BibleInv
<1>0. page = <<"bible", "mounted">>
  BY DEF Content!BibleNext, Content!On, Fails, Fail, spaVars
<1>1. Narrated(ui) /\ Unrendered(ui) /\ DOMAIN atom = {"favorites"} /\ atom.favorites \subseteq Places
  BY <1>0 DEF BibleInv, Narrated
<1>2. DOMAIN ui = BibleFields /\ ui.at \in Places
  BY <1>1 DEF Unrendered
<1> HIDE DEF Fine
<1>3. ASSUME NEW u, Content!Rendered(u), Unrendered(u), u.gen = ui.gen PROVE Fine
  <2>1. ui' = Content!narrate(u) /\ UNCHANGED atom /\ Content!CanSpeak(u)
    BY <1>3 DEF Content!Rendered, Content!Set, Content!CanSpeak
  <2>2. Narrated(Content!narrate(u))
    BY <1>3, <2>1, NarrateNarrates
  <2> QED
    BY <1>1, <2>1, <2>2 DEF Fine
\* A state that differs in what is shown only.
<1>4. ASSUME NEW u, DOMAIN u = BibleFields, u.at = ui.at, u.state = ui.state, u.cont = ui.cont,
             u.spoken = ui.spoken, u.gen = ui.gen, u.synth = ui.synth
      PROVE  Unrendered(u) /\ Narrated(u)
  BY <1>1, <1>4 DEF Unrendered, Narrated, Current
\* One that shows another verse, or is closed, but is narrated as before.
<1>5. ASSUME NEW u, DOMAIN u = BibleFields, u.at \in Places, u.state = ui.state, u.cont = ui.cont,
             u.spoken = ui.spoken, u.gen = ui.gen, u.synth = ui.synth
      PROVE  Unrendered(u)
  BY <1>1, <1>5 DEF Unrendered, Narrated, Current
<1>6. ASSUME NEW v \in Content!Verses, Content!move(v) PROVE Fine
  <2> DEFINE u == [ui EXCEPT !.at = <<ui.at[1], v>>]
  <2>1. /\ DOMAIN u = BibleFields /\ u.at \in Places /\ u.state = ui.state /\ u.cont = ui.cont
        /\ u.spoken = ui.spoken /\ u.gen = ui.gen /\ u.synth = ui.synth
    BY <1>2 DEF BibleFields, Places
  <2>2. Content!Rendered(u)
    BY <1>6 DEF Content!move
  <2> HIDE DEF u
  <2> QED
    BY <1>3, <1>5, <2>1, <2>2
<1>7. ASSUME NEW S, Content!Rendered([ui EXCEPT !.on = S]) PROVE Fine
  <2> DEFINE u == [ui EXCEPT !.on = S]
  <2>1. /\ DOMAIN u = BibleFields /\ u.at \in Places /\ u.state = ui.state /\ u.cont = ui.cont
        /\ u.spoken = ui.spoken /\ u.gen = ui.gen /\ u.synth = ui.synth
    BY <1>2 DEF BibleFields, Places
  <2>2. Content!Rendered(u)
    BY <1>7
  <2> HIDE DEF u
  <2> QED
    BY <1>3, <1>5, <2>1, <2>2
<1>8. CASE Content!toggleReader \/ Content!setSpeechEnabled \/ Content!toggleFullscreen
  <2>1. \E S : Content!Rendered([ui EXCEPT !.on = S])
    BY <1>8 DEF Content!toggleReader, Content!setSpeechEnabled, Content!toggleFullscreen, Content!Open, Content!Close, Content!Toggle
  <2> QED
    BY <1>7, <2>1
<1>9. ASSUME NEW b \in Content!Books, Content!selectBook(b) PROVE Fine
  <2> DEFINE w == [ui EXCEPT !.at = <<b, 1>>]
             u == [w EXCEPT !.on = @ \ {"picker"}]
  <2>1. /\ DOMAIN w = BibleFields /\ w.at = <<b, 1>> /\ w.state = ui.state /\ w.cont = ui.cont /\ w.held = ui.held
        /\ w.spoken = ui.spoken /\ w.gen = ui.gen /\ w.synth = ui.synth
    BY <1>2 DEF BibleFields
  <2>2. Content!Rendered(u)
    BY <1>9 DEF Content!selectBook, Content!Close
  <2>3. <<b, 1>> \in Places
    BY DEF Places, Content!Verses
  <2> HIDE DEF w
  <2>4. /\ DOMAIN u = BibleFields /\ u.at \in Places /\ u.state = ui.state /\ u.cont = ui.cont
        /\ u.spoken = ui.spoken /\ u.gen = ui.gen /\ u.synth = ui.synth
    BY <2>1, <2>3 DEF BibleFields
  <2> HIDE DEF u
  <2> QED
    BY <1>3, <1>5, <2>2, <2>4
<1>10. ASSUME NEW v \in atom.favorites, Content!openFavorite(v) PROVE Fine
  <2> DEFINE u == [ui EXCEPT !.at = v, !.on = (@ \cup {"open"}) \ {"favorites"}]
  <2>1. /\ DOMAIN u = BibleFields /\ u.at \in Places /\ u.state = ui.state /\ u.cont = ui.cont
        /\ u.spoken = ui.spoken /\ u.gen = ui.gen /\ u.synth = ui.synth
    BY <1>1, <1>2 DEF BibleFields
  <2>2. Content!Rendered(u)
    BY <1>10 DEF Content!openFavorite
  <2> HIDE DEF u
  <2> QED
    BY <1>3, <1>5, <2>1, <2>2
<1>11. ASSUME NEW f, Content!setPickerOpen(f) PROVE Fine
  <2>1. PICK S : ui' = [ui EXCEPT !.on = S] /\ UNCHANGED atom
    BY <1>11 DEF Content!setPickerOpen, Content!Set, Content!Open, Content!Close, Content!Toggle
  <2> DEFINE u == [ui EXCEPT !.on = S]
  <2>2. /\ DOMAIN u = BibleFields /\ u.at = ui.at /\ u.state = ui.state /\ u.cont = ui.cont
        /\ u.spoken = ui.spoken /\ u.gen = ui.gen /\ u.synth = ui.synth
    BY <1>2 DEF BibleFields
  <2> HIDE DEF u
  <2>3. Narrated(u)
    BY <1>4, <2>2
  <2> QED
    BY <1>1, <2>1, <2>3 DEF Fine, u
<1>12. CASE Content!addFavorite \/ \E v \in atom.favorites : Content!removeFavorite(v)
  <2>1. UNCHANGED ui /\ DOMAIN atom' = {"favorites"} /\ atom'.favorites \subseteq Places
    BY <1>1, <1>2, <1>12 DEF Content!addFavorite, Content!removeFavorite, Content!SetAtom
  <2> QED
    BY <1>1, <2>1 DEF Fine, Narrated, Unrendered, Current
<1>13. CASE Content!play
  <2>1. ASSUME NEW w, ui.state = "paused",
               Content!Set([ui EXCEPT !.cont = TRUE, !.held = FALSE, !.state = "playing", !.voice = w])
        PROVE  Fine
    <3> DEFINE u == [ui EXCEPT !.cont = TRUE, !.held = FALSE, !.state = "playing", !.voice = w]
    <3>1. ui' = u /\ UNCHANGED atom
      BY <2>1 DEF Content!Set
    <3>2. /\ DOMAIN u = BibleFields /\ u.at = ui.at /\ u.state = "playing" /\ u.cont = TRUE
          /\ u.spoken = ui.spoken /\ u.gen = ui.gen /\ u.synth = ui.synth
      BY <1>2 DEF BibleFields
    <3> HIDE DEF u
    <3>3. Narrated(u)
      BY <1>1, <2>1, <3>2 DEF Unrendered, Narrated, Current
    <3> QED
      BY <1>1, <3>1, <3>3 DEF Fine
  <2>2. CASE Content!CanSpeak(ui) /\ Content!Set(Content!speakCurrent([ui EXCEPT !.cont = TRUE]))
    <3> DEFINE u == [ui EXCEPT !.cont = TRUE]
    <3>1. ui' = Content!speakCurrent(u) /\ UNCHANGED atom
      BY <2>2 DEF Content!Set
    <3>2. /\ DOMAIN u = BibleFields /\ u.at = ui.at /\ u.state = ui.state /\ u.cont = TRUE
          /\ u.spoken = ui.spoken /\ u.gen = ui.gen /\ u.synth = ui.synth
      BY <1>2 DEF BibleFields
    <3> HIDE DEF u
    <3>3. Unrendered(u) /\ Content!CanSpeak(u)
      BY <1>1, <2>2, <3>2 DEF Unrendered, Current, Content!CanSpeak
    <3>4. Narrated(Content!speakCurrent(u))
      BY <3>2, <3>3, SpeakNarrates
    <3> QED
      BY <1>1, <3>1, <3>4 DEF Fine
  <2>3. \/ ui.state = "paused" /\ \E w : Content!Set([ui EXCEPT !.cont = TRUE, !.held = FALSE, !.state = "playing", !.voice = w])
        \/ Content!CanSpeak(ui) /\ Content!Set(Content!speakCurrent([ui EXCEPT !.cont = TRUE]))
    BY <1>13 DEF Content!play
  <2> QED
    BY <2>1, <2>2, <2>3
\* The current utterance is, or was, playing: narration is not idle.
<1>v. ASSUME NEW u, DOMAIN u = BibleFields, u.at = ui.at, u.cont = ui.cont, u.spoken = ui.spoken, u.gen = ui.gen,
             u.synth = ui.synth, u.state \in {"playing", "paused"}, ui.state # "idle"
      PROVE  Narrated(u)
  BY <1>1, <1>v DEF Unrendered, Narrated, Current
<1>14. CASE Content!pause
  <2> DEFINE u == [ui EXCEPT !.state = "paused", !.held = TRUE]
  <2>1. ui' = u /\ UNCHANGED atom /\ ui.state = "playing"
    BY <1>14 DEF Content!pause, Content!Set
  <2>2. /\ DOMAIN u = BibleFields /\ u.at = ui.at /\ u.state = "paused" /\ u.cont = ui.cont
        /\ u.spoken = ui.spoken /\ u.gen = ui.gen /\ u.synth = ui.synth
    BY <1>2 DEF BibleFields
  <2> HIDE DEF u
  <2>3. Narrated(u)
    BY <1>v, <2>1, <2>2
  <2> QED
    BY <1>1, <2>1, <2>3 DEF Fine
<1>22. ASSUME NEW x \in ui.synth, Content!onstart(x) PROVE Fine
  <2> DEFINE u == [ui EXCEPT !.voice = "begun", !.state = "playing"]
  <2>1. ui' = u /\ UNCHANGED atom /\ x \in Current(ui)
    BY <1>22 DEF Content!onstart, Content!Set, Current
  <2>2. /\ DOMAIN u = BibleFields /\ u.at = ui.at /\ u.state = "playing" /\ u.cont = ui.cont
        /\ u.spoken = ui.spoken /\ u.gen = ui.gen /\ u.synth = ui.synth
    BY <1>2 DEF BibleFields
  <2> HIDE DEF u
  <2>3. ui.state # "idle"
    BY <1>1, <2>1 DEF Unrendered
  <2>4. Narrated(u)
    BY <1>v, <2>2, <2>3
  <2> QED
    BY <1>1, <2>1, <2>4 DEF Fine
<1>15. CASE Content!stopNarration
  <2>1. ui' = Content!stop(ui) /\ UNCHANGED atom /\ Content!CanSpeak(ui)
    BY <1>15 DEF Content!stopNarration, Content!Set
  <2>2. Narrated(Content!stop(ui))
    BY <1>1, <2>1, StopNarrates
  <2> QED
    BY <1>1, <2>1, <2>2 DEF Fine
\* An utterance is over: of the current one, narration goes on or ends; any
\* other leaves it alone.
<1>16. ASSUME NEW x \in ui.synth, NEW w, NEW u, u = Content!Spoken(w, x),
              DOMAIN w = BibleFields, w.gen = ui.gen, w.synth = ui.synth
       PROVE  /\ DOMAIN u = BibleFields /\ u.at = w.at /\ u.state = w.state /\ u.cont = w.cont
              /\ u.spoken = w.spoken /\ u.gen = ui.gen /\ u.synth = ui.synth \ {x}
              /\ u.gen \in Nat /\ u.synth \subseteq Utterances /\ \A y \in u.synth : y.gen <= u.gen
              /\ x.gen = ui.gen => Current(u) = {}
              /\ x.gen # ui.gen => Current(u) = Current(ui)
  <2>1. /\ DOMAIN u = BibleFields /\ u.at = w.at /\ u.state = w.state /\ u.cont = w.cont
        /\ u.spoken = w.spoken /\ u.gen = ui.gen /\ u.synth = ui.synth \ {x}
    BY <1>16 DEF BibleFields, Content!Spoken
  <2>2. u.gen \in Nat /\ u.synth \subseteq Utterances /\ \A y \in u.synth : y.gen <= u.gen
    BY <1>1, <2>1 DEF Unrendered
  <2>3. ASSUME NEW y \in Current(ui), x.gen = ui.gen PROVE y = x
    <3>1. x \in Utterances /\ y \in Utterances /\ x.gen = y.gen /\ x.at = y.at
      BY <1>1, <2>3 DEF Unrendered, Current
    <3> QED
      BY <3>1 DEF Utterances
  <2>4. x.gen = ui.gen => Current(u) = {}
    BY <2>1, <2>3 DEF Current
  <2>5. x.gen # ui.gen => Current(u) = Current(ui)
    BY <2>1 DEF Current
  <2> QED
    BY <2>1, <2>2, <2>4, <2>5
<1>17. ASSUME NEW x \in ui.synth, x.gen = ui.gen, Content!Set(Content!goneQuiet(Content!Spoken(ui, x))) PROVE Fine
  <2> DEFINE w == Content!Spoken(ui, x)
             u == [w EXCEPT !.cont = FALSE, !.spoken = None, !.state = "idle"]
  <2>1. ui' = u /\ UNCHANGED atom
    BY <1>17 DEF Content!Set, Content!goneQuiet
  <2>2. /\ DOMAIN w = BibleFields /\ w.at \in Places /\ w.gen \in Nat
        /\ w.synth \subseteq Utterances /\ (\A y \in w.synth : y.gen <= w.gen) /\ Current(w) = {}
    BY <1>2, <1>16, <1>17
  <2> HIDE DEF w
  <2>3. /\ DOMAIN u = BibleFields /\ u.at \in Places /\ u.state = "idle" /\ u.gen = w.gen /\ u.synth = w.synth
    BY <2>2 DEF BibleFields
  <2> HIDE DEF u
  <2>4. Current(u) = {}
    BY <2>2, <2>3 DEF Current
  <2>5. Narrated(u)
    BY <2>2, <2>3, <2>4 DEF Narrated, Unrendered
  <2> QED
    BY <1>1, <2>1, <2>5 DEF Fine
<1>18. ASSUME NEW x \in ui.synth, Content!Set(Content!Spoken(ui, x)), x.gen # ui.gen PROVE Fine
  <2> DEFINE u == Content!Spoken(ui, x)
  <2>1. ui' = u /\ UNCHANGED atom
    BY <1>18 DEF Content!Set
  <2>2. /\ DOMAIN u = BibleFields /\ u.at = ui.at /\ u.state = ui.state /\ u.cont = ui.cont
        /\ u.spoken = ui.spoken /\ u.gen \in Nat
        /\ u.synth \subseteq Utterances /\ (\A y \in u.synth : y.gen <= u.gen) /\ Current(u) = Current(ui)
    BY <1>2, <1>16, <1>18
  <2> HIDE DEF u
  <2>3. Narrated(u)
    BY <1>1, <2>2 DEF Narrated, Unrendered
  <2> QED
    BY <1>1, <2>1, <2>3 DEF Fine
<1>19. ASSUME NEW x \in ui.synth, Content!onend(x) PROVE Fine
  <2>1. CASE x.gen = ui.gen /\ Content!advance(ui.at) # None /\ Content!Rendered(Content!Spoken([ui EXCEPT !.at = Content!advance(ui.at)], x))
    <3> DEFINE a == Content!advance(ui.at)
               w == [ui EXCEPT !.at = a]
               u == Content!Spoken(w, x)
    <3>1. a \in Places /\ a # ui.at
      BY <1>2, <2>1 DEF Content!advance, Places, Content!Verses
    <3>r. Content!Rendered(u)
      BY <2>1
    <3> HIDE DEF a
    <3>2. /\ DOMAIN w = BibleFields /\ w.at = a /\ w.state = ui.state /\ w.cont = ui.cont
          /\ w.spoken = ui.spoken /\ w.gen = ui.gen /\ w.synth = ui.synth
      BY <1>2 DEF BibleFields
    <3> HIDE DEF w
    <3>3. /\ DOMAIN u = BibleFields /\ u.at = a /\ u.state = ui.state /\ u.cont = ui.cont
          /\ u.spoken = ui.spoken /\ u.gen = ui.gen /\ u.gen \in Nat
          /\ u.synth \subseteq Utterances /\ (\A y \in u.synth : y.gen <= u.gen) /\ Current(u) = {}
      BY <1>16, <2>1, <3>2
    <3> HIDE DEF u
    <3>4. ui.state # "idle" => ui.spoken = ui.at
      BY <1>1 DEF Narrated
    <3>5. Unrendered(u)
      BY <1>1, <3>1, <3>3, <3>4 DEF Unrendered
    <3> QED
      BY <1>3, <3>3, <3>5, <3>r
  <2>2. CASE x.gen = ui.gen /\ Content!Set(Content!goneQuiet(Content!Spoken(ui, x)))
    BY <1>17, <2>2
  <2>3. CASE ~(x.gen = ui.gen /\ ui.cont) /\ Content!Set(Content!Spoken(ui, x))
    <3>1. x.gen # ui.gen
      BY <1>1, <2>3 DEF Unrendered, Current
    <3> QED
      BY <1>18, <2>3, <3>1
  <2> QED
    BY <1>19, <2>1, <2>2, <2>3 DEF Content!onend
<1>20. ASSUME NEW x \in ui.synth, Content!onerror(x) PROVE Fine
  BY <1>17, <1>18, <1>20 DEF Content!onerror
<1>21. CASE Fails \/ UNCHANGED spaVars
  <2>1. UNCHANGED <<ui, atom>>
    BY <1>21 DEF Fails, Fail, spaVars
  <2> QED
    BY <1>1, <2>1 DEF Fine, Narrated, Unrendered, Current
<1> QED
  BY <1>6, <1>8, <1>9, <1>10, <1>11, <1>12, <1>13, <1>14, <1>15, <1>19, <1>20, <1>21, <1>22 DEF Content!BibleNext

\* No verse but the one shown is spoken or waits to be, whatever utterances that
\* were cancelled still report, and while the reader is playing there is such an
\* utterance (useBibleSpeech).
THEOREM VerseShownIsSpoken == BibleSpec => []NarratesWhatIsShown
<1>1. Content!BibleInit => BibleInv
  <2> SUFFICES ASSUME Content!BibleInit PROVE Narrated(ui) /\ DOMAIN atom = {"favorites"} /\ atom.favorites \subseteq Places
    BY DEF BibleInv
  <2>1. /\ ui = [busy |-> {}, on |-> {"speech"}, at |-> <<1, 1>>, state |-> "idle", gen |-> 0, cont |-> FALSE,
                 spoken |-> None, synth |-> {}, held |-> FALSE, voice |-> "begun"]
        /\ atom = [favorites |-> {}]
    BY DEF Content!BibleInit, Content!Begins
  <2>2. DOMAIN ui = BibleFields /\ ui.at = <<1, 1>> /\ ui.state = "idle" /\ ui.gen = 0 /\ ui.synth = {}
    BY <2>1 DEF BibleFields
  <2>3. <<1, 1>> \in Places
    BY DEF Places, Content!Books, Content!Verses
  <2> QED
    BY <2>1, <2>2, <2>3 DEF Narrated, Unrendered, Current
<1>2. BibleInv => NarratesWhatIsShown
  BY DEF BibleInv, Narrated, Unrendered, Current, NarratesWhatIsShown, Content!NarratesWhatIsShown, Content!On
<1> QED
  BY <1>1, <1>2, BibleInvStep, PTL DEF BibleSpec

-----------------------------------------------------------------------------
(* Devices: an indicator that is on has a stream behind it.  A are the     *)
(* indicators that are on, F the stream of each kind, O the streams open,  *)
(* b how many were asked for, n the requests in flight.                    *)

DevicesSpec == Rtc!DevicesInit /\ [][Rtc!DevicesNext \/ Fails]_spaVars

DeviceFields == {"busy", "active", "ref", "device", "canSpeak"}
AtomFields == {"open", "sent", "born", "screens"}
Streams == 1..MaxStreams
\* Requests whose answer is a stream, and the streams in use.
Opens(n) == {q \in n : q.op \in {"open", "reopen"}}
Used(F, O) == (O \cup {F[k] : k \in Rtc!Kinds}) \cap Streams

DeviceRequest(q) ==
    DOMAIN q = RequestFields /\ q.live = TRUE /\ (q.op \in {"open", "reopen", "publish"} => q.arg[1] \in Rtc!Kinds)
StreamTypes(A, F, O, b, n) ==
    /\ A \subseteq Rtc!Kinds /\ F \in [Rtc!Kinds -> Streams \cup {None}] /\ O \subseteq Streams /\ b \in 0..MaxStreams
    /\ \A q \in n : DeviceRequest(q)
\* No stream is two kinds', and there are streams left for all that were asked for.
StreamsApart(F) == \A k, c \in Rtc!Kinds : F[k] = F[c] /\ F[k] # None => k = c
StreamsLeft(F, O, b, n) == IsFiniteSet(Opens(n)) /\ Cardinality(Used(F, O)) + Cardinality(Opens(n)) <= b
Backed(A, F, O, n) == \A k \in A : F[k] \in O \/ \E q \in n : q.op = "reopen" /\ q.arg[1] = k
Captured(A, F, O, b, n) ==
    StreamTypes(A, F, O, b, n) /\ StreamsApart(F) /\ StreamsLeft(F, O, b, n) /\ Backed(A, F, O, n)

\* A screen's stream is held as no other kind's.
ScreensApart(F, S) == S \subseteq Streams /\ \A k \in Rtc!Kinds : F[k] \in S => k = "screen"

DevicesInv ==
    page = <<"devices", "mounted">> =>
        /\ DOMAIN ui = DeviceFields /\ DOMAIN atom = AtomFields
        /\ Captured(ui.active, ui.ref, atom.open, atom.born, net)
        /\ ScreensApart(ui.ref, atom.screens)

LEMMA UsedFinite ==
    ASSUME NEW F, NEW O PROVE IsFiniteSet(Used(F, O)) /\ Cardinality(Used(F, O)) \in Nat
<1>1. IsFiniteSet(Streams)
  BY PagesAssumption, FS_Interval DEF Streams
<1> QED
  BY <1>1, FS_Subset, FS_CardinalityType DEF Used

\* Streams that are no longer used only leave room.
LEMMA FewerUsed ==
    ASSUME NEW F, NEW O, NEW G, NEW P, NEW b \in Int, NEW n, StreamsLeft(F, O, b, n), Used(G, P) \subseteq Used(F, O)
    PROVE  StreamsLeft(G, P, b, n)
<1>1. Cardinality(Used(G, P)) <= Cardinality(Used(F, O))
  BY UsedFinite, FS_Subset
<1>2. Cardinality(Opens(n)) \in Nat /\ Cardinality(Used(G, P)) \in Nat /\ Cardinality(Used(F, O)) \in Nat
  BY UsedFinite, FS_CardinalityType DEF StreamsLeft
<1> QED
  BY <1>1, <1>2 DEF StreamsLeft

\* A stream ends, and the kind it was of is shown and held no more: no other
\* kind holds it.
LEMMA StreamEnded ==
    ASSUME NEW A, NEW F, NEW O, NEW b, NEW n, Captured(A, F, O, b, n), NEW k \in Rtc!Kinds, NEW s,
           \A c \in Rtc!Kinds : c # k /\ F[c] \in O => F[c] # s
    PROVE  Captured(A \ {k}, [F EXCEPT ![k] = None], O \ {s}, b, n)
<1> DEFINE G == [F EXCEPT ![k] = None]
           P == O \ {s}
<1>1. StreamTypes(A, F, O, b, n) /\ StreamsApart(F) /\ StreamsLeft(F, O, b, n) /\ Backed(A, F, O, n)
  BY DEF Captured
<1>2. G \in [Rtc!Kinds -> Streams \cup {None}] /\ G[k] = None /\ \A c \in Rtc!Kinds : c # k => G[c] = F[c]
  BY <1>1 DEF StreamTypes
<1>3. None \notin Streams
  BY PagesAssumption DEF Streams
<1> HIDE DEF G
<1>4. StreamTypes(A \ {k}, G, P, b, n)
  BY <1>1, <1>2 DEF StreamTypes
<1>5. StreamsApart(G)
  BY <1>1, <1>2 DEF StreamsApart
<1>6. StreamsLeft(G, P, b, n)
  <2>1. Used(G, P) \subseteq Used(F, O)
    BY <1>2, <1>3 DEF Used
  <2>2. b \in Int
    BY <1>1 DEF StreamTypes
  <2> QED
    BY <1>1, <2>1, <2>2, FewerUsed
<1>7. ASSUME NEW c \in A \ {k} PROVE G[c] \in P \/ \E q \in n : q.op = "reopen" /\ q.arg[1] = c
  <2>1. c \in Rtc!Kinds /\ c # k /\ G[c] = F[c]
    BY <1>1, <1>2, <1>7 DEF StreamTypes
  <2>2. CASE F[c] \in O
    BY <2>1, <2>2
  <2> QED
    BY <1>1, <1>7, <2>2 DEF Backed
<1>8. Backed(A \ {k}, G, P, n)
  BY <1>7 DEF Backed
<1> QED
  BY <1>4, <1>5, <1>6, <1>8 DEF Captured, G

\* It is the stream that was held.
LEMMA StreamStopped ==
    ASSUME NEW A, NEW F, NEW O, NEW b, NEW n, Captured(A, F, O, b, n), NEW k \in Rtc!Kinds
    PROVE  Captured(A \ {k}, [F EXCEPT ![k] = None], O \ {F[k]}, b, n)
<1>1. None \notin O /\ StreamsApart(F)
  BY PagesAssumption DEF Captured, StreamTypes, Streams
<1>2. \A c \in Rtc!Kinds : c # k /\ F[c] \in O => F[c] # F[k]
  BY <1>1 DEF StreamsApart
<1> QED
  BY <1>2, StreamEnded

\* A request is done with, its indicator being out if it was to reopen one.
LEMMA RequestGone ==
    ASSUME NEW A, NEW F, NEW O, NEW b, NEW n, Captured(A, F, O, b, n), NEW r \in n,
           r.op = "reopen" => r.arg[1] \notin A
    PROVE  Captured(A, F, O, b, n \ {r})
<1>1. StreamTypes(A, F, O, b, n) /\ StreamsLeft(F, O, b, n) /\ Backed(A, F, O, n)
  BY DEF Captured
<1>2. Opens(n \ {r}) = Opens(n) \ {r}
  BY DEF Opens
<1>3. StreamsLeft(F, O, b, n \ {r})
  <2>1. IsFiniteSet(Opens(n)) /\ Cardinality(Opens(n)) \in Nat /\ Cardinality(Used(F, O)) \in Nat /\ b \in Int
    BY <1>1, UsedFinite, FS_CardinalityType DEF StreamsLeft, StreamTypes
  <2>2. IsFiniteSet(Opens(n) \ {r}) /\ Cardinality(Opens(n) \ {r}) <= Cardinality(Opens(n))
    BY <2>1, FS_Subset
  <2>3. Cardinality(Opens(n) \ {r}) \in Nat
    BY <2>2, FS_CardinalityType
  <2>4. Cardinality(Used(F, O)) + Cardinality(Opens(n)) <= b
    BY <1>1 DEF StreamsLeft
  <2> DEFINE x == Cardinality(Opens(n) \ {r})
             y == Cardinality(Opens(n))
             z == Cardinality(Used(F, O))
  <2>5. x \in Nat /\ y \in Nat /\ z \in Nat /\ b \in Int /\ x <= y /\ z + y <= b
    BY <2>1, <2>2, <2>3, <2>4
  <2> HIDE DEF x, y, z
  <2>6. z + x <= b
    BY <2>5
  <2> QED
    BY Zenon, <1>2, <2>2, <2>6 DEF StreamsLeft, x, z
<1>4. StreamTypes(A, F, O, b, n \ {r}) /\ Backed(A, F, O, n \ {r})
  BY <1>1 DEF StreamTypes, Backed
<1> QED
  BY <1>3, <1>4 DEF Captured

\* A request is made: for a stream, of which there is one left, or not.
LEMMA RequestMade ==
    ASSUME NEW A, NEW F, NEW O, NEW b, NEW n, Captured(A, F, O, b, n), NEW q, DeviceRequest(q), NEW c \in 0..MaxStreams,
           c = IF q.op \in {"open", "reopen"} THEN b + 1 ELSE b
    PROVE  Captured(A, F, O, c, n \cup {q})
<1>1. StreamTypes(A, F, O, b, n) /\ StreamsLeft(F, O, b, n) /\ Backed(A, F, O, n)
  BY DEF Captured
<1>2. Opens(n \cup {q}) = IF q.op \in {"open", "reopen"} THEN Opens(n) \cup {q} ELSE Opens(n)
  BY DEF Opens
<1>3. StreamsLeft(F, O, c, n \cup {q})
  <2>1. IsFiniteSet(Opens(n)) /\ Cardinality(Opens(n)) \in Nat /\ Cardinality(Used(F, O)) \in Nat /\ b \in Int
    BY <1>1, UsedFinite, FS_CardinalityType DEF StreamsLeft, StreamTypes
  <2>2. IsFiniteSet(Opens(n) \cup {q}) /\ Cardinality(Opens(n) \cup {q}) <= Cardinality(Opens(n)) + 1
    BY <2>1, FS_AddElement
  <2>3. Cardinality(Opens(n) \cup {q}) \in Nat
    BY <2>2, FS_CardinalityType
  <2> QED
    BY <1>1, <1>2, <2>1, <2>2, <2>3 DEF StreamsLeft
<1>4. StreamTypes(A, F, O, c, n \cup {q}) /\ Backed(A, F, O, n \cup {q})
  BY <1>1 DEF StreamTypes, Backed
<1> QED
  BY <1>3, <1>4 DEF Captured

\* A request is answered, or fails.
LEMMA RequestAnswered ==
    ASSUME NEW A, NEW F, NEW O, NEW b, NEW n, Captured(A, F, O, b, n), NEW r \in n, NEW s,
           DOMAIN s = RequestFields, s.op = r.op, s.arg = r.arg, s.live = r.live
    PROVE  Captured(A, F, O, b, (n \ {r}) \cup {s})
<1> DEFINE m == (n \ {r}) \cup {s}
<1>1. StreamTypes(A, F, O, b, n) /\ StreamsLeft(F, O, b, n) /\ Backed(A, F, O, n)
  BY DEF Captured
<1>2. Opens(m) = IF r \in Opens(n) THEN (Opens(n) \ {r}) \cup {s} ELSE Opens(n)
  BY DEF Opens
<1>3. StreamsLeft(F, O, b, m)
  <2>1. IsFiniteSet(Opens(n)) /\ Cardinality(Opens(n)) \in Nat /\ Cardinality(Used(F, O)) \in Nat /\ b \in Int
    BY <1>1, UsedFinite, FS_CardinalityType DEF StreamsLeft, StreamTypes
  <2>2. CASE r \in Opens(n)
    <3> DEFINE R == Opens(n) \ {r}
    <3>1. IsFiniteSet(R) /\ Cardinality(R) = Cardinality(Opens(n)) - 1
      BY <2>1, <2>2, FS_RemoveElement
    <3> HIDE DEF R
    <3>r. Cardinality(R) \in Nat
      BY <3>1, FS_CardinalityType
    <3>2. IsFiniteSet(R \cup {s}) /\ Cardinality(R \cup {s}) <= Cardinality(R) + 1
      <4>1. /\ IsFiniteSet(R \cup {s})
            /\ Cardinality(R \cup {s}) = IF s \in R THEN Cardinality(R) ELSE Cardinality(R) + 1
        BY <3>1, FS_AddElement
      <4> QED
        BY <3>r, <4>1
    <3>3. Cardinality(R \cup {s}) \in Nat
      BY <3>2, FS_CardinalityType
    <3>4. Opens(m) = R \cup {s}
      BY <1>2, <2>2 DEF R
    <3> HIDE DEF m
    <3> QED
      BY <1>1, <2>1, <3>1, <3>2, <3>3, <3>4 DEF StreamsLeft
  <2> QED
    BY <1>1, <1>2, <2>2 DEF StreamsLeft
<1>4. StreamTypes(A, F, O, b, m) /\ Backed(A, F, O, m)
  BY <1>1 DEF StreamTypes, Backed, DeviceRequest
<1> QED
  BY <1>3, <1>4 DEF Captured

\* There is a stream left for a request whose answer is one.
LEMMA StreamExists ==
    ASSUME NEW A, NEW F, NEW O, NEW b, NEW n, Captured(A, F, O, b, n), NEW r \in Opens(n)
    PROVE  \E s \in Streams : s \notin Used(F, O)
<1>1. IsFiniteSet(Opens(n)) /\ Cardinality(Used(F, O)) + Cardinality(Opens(n)) <= b /\ b \in 0..MaxStreams
  BY DEF Captured, StreamsLeft, StreamTypes
<1>2. Cardinality(Opens(n)) \in Nat /\ Cardinality(Opens(n)) # 0
  BY <1>1, FS_CardinalityType, FS_EmptySet
<1>3. Cardinality(Streams) = MaxStreams /\ MaxStreams \in Nat
  BY PagesAssumption, FS_Interval DEF Streams
<1>4. Cardinality(Used(F, O)) \in Nat
  BY UsedFinite
<1>5. Cardinality(Used(F, O)) # Cardinality(Streams)
  BY <1>1, <1>2, <1>3, <1>4
<1>6. Used(F, O) # Streams /\ Used(F, O) \subseteq Streams
  BY <1>5 DEF Used
<1> QED
  BY <1>6

\* A stream that was asked for is there.
LEMMA StreamGot ==
    ASSUME NEW A, NEW F, NEW O, NEW b, NEW n, Captured(A, F, O, b, n), NEW r \in Opens(n), NEW s \in Streams,
           s \notin Used(F, O), NEW B, B \subseteq A \cup {r.arg[1]}
    PROVE  Captured(B, [F EXCEPT ![r.arg[1]] = s], O \cup {s}, b, n \ {r})
<1> DEFINE k == r.arg[1]
           G == [F EXCEPT ![k] = s]
           P == O \cup {s}
           m == n \ {r}
<1>1. StreamTypes(A, F, O, b, n) /\ StreamsApart(F) /\ StreamsLeft(F, O, b, n) /\ Backed(A, F, O, n)
  BY DEF Captured
<1>2. r \in n /\ k \in Rtc!Kinds
  BY <1>1 DEF StreamTypes, Opens, DeviceRequest
<1> HIDE DEF k
<1>3. G \in [Rtc!Kinds -> Streams \cup {None}] /\ G[k] = s /\ \A c \in Rtc!Kinds : c # k => G[c] = F[c]
  BY <1>1, <1>2 DEF StreamTypes
<1>4. None \notin Streams
  BY PagesAssumption DEF Streams
<1>5. \A c \in Rtc!Kinds : F[c] # s
  BY DEF Used
<1> HIDE DEF G
<1>6. StreamTypes(B, G, P, b, m)
  BY <1>1, <1>2, <1>3 DEF StreamTypes, k
<1>7. StreamsApart(G)
  BY <1>1, <1>2, <1>3, <1>5 DEF StreamsApart
<1>8. StreamsLeft(G, P, b, m)
  <2>1. IsFiniteSet(Opens(n)) /\ Cardinality(Opens(n)) \in Nat /\ Cardinality(Used(F, O)) \in Nat /\ b \in Int
    BY <1>1, UsedFinite, FS_CardinalityType DEF StreamsLeft, StreamTypes
  <2>2. Opens(m) = Opens(n) \ {r}
    BY DEF Opens
  <2>3. IsFiniteSet(Opens(m)) /\ Cardinality(Opens(m)) = Cardinality(Opens(n)) - 1
    BY ZenonT(30), <2>1, <2>2, FS_RemoveElement
  <2>4. Used(G, P) \subseteq Used(F, O) \cup {s}
    BY <1>3 DEF Used
  <2>5. IsFiniteSet(Used(F, O) \cup {s}) /\ Cardinality(Used(F, O) \cup {s}) = Cardinality(Used(F, O)) + 1
    BY UsedFinite, FS_AddElement
  <2>6. Cardinality(Used(G, P)) <= Cardinality(Used(F, O)) + 1 /\ Cardinality(Used(G, P)) \in Nat
    BY <2>4, <2>5, FS_Subset, UsedFinite
  <2> HIDE DEF m, P
  <2> QED
    BY <1>1, <2>1, <2>3, <2>6 DEF StreamsLeft
<1>9. ASSUME NEW c \in B PROVE G[c] \in P \/ \E q \in m : q.op = "reopen" /\ q.arg[1] = c
  <2>1. CASE c = k
    BY <1>3, <2>1
  <2>2. CASE c # k
    <3>1. c \in A /\ c \in Rtc!Kinds
      BY <1>1, <2>2 DEF StreamTypes, k
    <3>2. G[c] = F[c]
      BY <1>3, <2>2, <3>1
    <3> QED
      BY <1>1, <2>2, <3>1, <3>2 DEF Backed, k
  <2> QED
    BY <2>1, <2>2
<1>10. Backed(B, G, P, m)
  BY <1>9 DEF Backed
<1> QED
  BY <1>6, <1>7, <1>8, <1>10 DEF Captured, G, k

\* Every step of the devices, their user and the browser keeps the invariant.
LEMMA DevicesInvStep == DevicesInv /\ [Rtc!DevicesNext \/ Fails]_spaVars => DevicesInv'
<1> DEFINE Fine ==
        /\ DOMAIN ui' = DeviceFields /\ DOMAIN atom' = AtomFields
        /\ Captured(ui'.active, ui'.ref, atom'.open, atom'.born, net')
        /\ ScreensApart(ui'.ref, atom'.screens)
           A == ui.active
           F == ui.ref
           O == atom.open
           b == atom.born
           S == atom.screens
<1> SUFFICES ASSUME DevicesInv, [Rtc!DevicesNext \/ Fails]_spaVars, page' = <<"devices", "mounted">>
             PROVE  Fine
  BY DEF DevicesInv
<1>0. page = <<"devices", "mounted">>
  BY DEF Rtc!DevicesNext, Rtc!On, Rtc!gotMediaLate, Rtc!Read, Rtc!Answer, Rtc!AnswerPush, Rtc!DoneAtom, Fails, Fail, spaVars
<1>t. DOMAIN ui = DeviceFields /\ DOMAIN atom = AtomFields
  BY <1>0 DEF DevicesInv
<1>s. Captured(A, F, O, b, net) /\ ScreensApart(F, S)
  BY <1>0 DEF DevicesInv
<1>u. /\ A \subseteq Rtc!Kinds /\ F \in [Rtc!Kinds -> Streams \cup {None}] /\ b \in 0..MaxStreams
      /\ \A q \in net : DeviceRequest(q)
  BY <1>s DEF Captured, StreamTypes
<1> HIDE DEF Fine
\* A kind that holds nothing holds no screen.
<1>c. \A k \in Rtc!Kinds : ScreensApart([F EXCEPT ![k] = None], S)
  <2>1. None \notin S
    BY <1>s, PagesAssumption DEF ScreensApart, Streams
  <2> QED
    BY <1>s, <1>u, <2>1 DEF ScreensApart
\* What stopping a stream does to the component and to what is open.
<1>1. ASSUME NEW k \in Rtc!Kinds, NEW u, NEW a, u = Rtc!Off(k), a = Rtc!Stopped(k)
      PROVE  /\ DOMAIN u = DeviceFields /\ u.active = A \ {k} /\ u.ref = [F EXCEPT ![k] = None]
             /\ DOMAIN a = AtomFields /\ a.open = O \ {F[k]} /\ a.born = b /\ a.screens = S
             /\ Captured(u.active, u.ref, a.open, a.born, net)
             /\ ScreensApart(u.ref, a.screens)
  <2>1. /\ DOMAIN u = DeviceFields /\ u.active = A \ {k} /\ u.ref = [F EXCEPT ![k] = None]
        /\ DOMAIN a = AtomFields /\ a.open = O \ {F[k]} /\ a.born = b /\ a.screens = S
    BY <1>t, <1>1 DEF Rtc!Off, Rtc!Stopped, DeviceFields, AtomFields
  <2>2. Captured(A \ {k}, [F EXCEPT ![k] = None], O \ {F[k]}, b, net)
    BY <1>s, StreamStopped
  <2> QED
    BY <1>c, <2>1, <2>2
<1>2. ASSUME NEW k \in Rtc!Kinds, ui' = Rtc!Off(k), atom' = Rtc!Stopped(k), UNCHANGED net PROVE Fine
  BY <1>1, <1>2 DEF Fine
<1>3. ASSUME NEW k \in Rtc!Kinds, Rtc!toggleOff(k) PROVE Fine
  BY <1>2, <1>3 DEF Rtc!toggleOff, Rtc!SetAtom
<1>4. ASSUME NEW s \in atom.open, Rtc!screenEnded(s) PROVE Fine
  <2> DEFINE G == [F EXCEPT !["screen"] = None]
  <2>1. "screen" \in Rtc!Kinds
    BY DEF Rtc!Kinds
  <2>2. s \in S /\ ui' = Rtc!Off("screen") /\ UNCHANGED net
        /\ atom' = [atom EXCEPT !.open = @ \ {s}, !.sent = @ \ {ui.ref["screen"]}]
    BY <1>4 DEF Rtc!screenEnded, Rtc!SetAtom
  <2>3. DOMAIN ui' = DeviceFields /\ ui'.active = A \ {"screen"} /\ ui'.ref = G
    BY <1>t, <2>2 DEF Rtc!Off, DeviceFields
  <2>4. DOMAIN atom' = AtomFields /\ atom'.open = O \ {s} /\ atom'.born = b /\ atom'.screens = S
    BY <1>t, <2>2 DEF AtomFields
  <2>5. \A c \in Rtc!Kinds : c # "screen" /\ F[c] \in O => F[c] # s
    BY <1>s, <2>2 DEF ScreensApart
  <2>6. Captured(A \ {"screen"}, G, O \ {s}, b, net)
    BY <1>s, <2>1, <2>5, StreamEnded
  <2>7. ScreensApart(G, S)
    BY <1>c, <2>1
  <2> HIDE DEF G
  <2> QED
    BY <2>2, <2>3, <2>4, <2>6, <2>7 DEF Fine
<1>5. \A op, arg : \E i :
         Rtc!Add(net, op, arg) = net \cup {[id |-> i, op |-> op, arg |-> arg, live |-> TRUE, rep |-> None]}
  BY DEF Rtc!Add
<1>6. ASSUME NEW k \in Rtc!Kinds, Rtc!toggleOn(k) PROVE Fine
  <2>1. /\ UNCHANGED ui /\ atom' = [atom EXCEPT !.born = @ + 1]
        /\ net' = Rtc!Add(net, "open", <<k, 0>>) /\ b < MaxStreams
    BY <1>6 DEF Rtc!toggleOn, Rtc!CallAtom
  <2>2. PICK i : net' = net \cup {[id |-> i, op |-> "open", arg |-> <<k, 0>>, live |-> TRUE, rep |-> None]}
    BY <1>5, <2>1
  <2> DEFINE q == [id |-> i, op |-> "open", arg |-> <<k, 0>>, live |-> TRUE, rep |-> None]
  <2>3. DeviceRequest(q) /\ q.op = "open"
    BY DEF DeviceRequest, RequestFields
  <2> HIDE DEF q
  <2>4. b + 1 \in 0..MaxStreams
    BY <1>u, <2>1, PagesAssumption
  <2>5. Captured(A, F, O, b + 1, net \cup {q})
    BY <1>s, <2>3, <2>4, RequestMade
  <2>6. DOMAIN atom' = AtomFields /\ atom'.open = O /\ atom'.born = b + 1 /\ atom'.screens = S
    BY <1>t, <2>1 DEF AtomFields
  <2> QED
    BY <1>s, <1>t, <2>1, <2>2, <2>5, <2>6 DEF Fine, q
<1>7. ASSUME NEW k \in Rtc!Kinds, Rtc!handleDeviceChange(k) PROVE Fine
  <2> DEFINE G == [F EXCEPT ![k] = None]
             P == O \ {F[k]}
  <2>1. /\ ui' = [ui EXCEPT !.device = 2, !.ref[k] = None] /\ atom' = [Rtc!Stopped(k) EXCEPT !.born = @ + 1]
        /\ net' = Rtc!Add(net, "reopen", <<k, 0>>) /\ b < MaxStreams /\ k \in A
    BY <1>7 DEF Rtc!handleDeviceChange, Rtc!CallAtom
  <2>2. PICK i : net' = net \cup {[id |-> i, op |-> "reopen", arg |-> <<k, 0>>, live |-> TRUE, rep |-> None]}
    BY <1>5, <2>1
  <2> DEFINE q == [id |-> i, op |-> "reopen", arg |-> <<k, 0>>, live |-> TRUE, rep |-> None]
  <2>3. DeviceRequest(q) /\ q.op = "reopen" /\ q.arg[1] = k
    BY DEF DeviceRequest, RequestFields
  <2> HIDE DEF q
  <2>4. b + 1 \in 0..MaxStreams
    BY <1>u, <2>1, PagesAssumption
  <2>5. Captured(A \ {k}, G, P, b, net)
    BY <1>s, StreamStopped
  <2>6. Captured(A \ {k}, G, P, b + 1, net \cup {q})
    <3> HIDE DEF G, P
    <3> QED
      BY <2>3, <2>4, <2>5, RequestMade
  <2>7. Captured(A, G, P, b + 1, net \cup {q})
    <3> HIDE DEF G, P
    <3>1. Backed(A, G, P, net \cup {q})
      BY <2>3, <2>6 DEF Captured, Backed
    <3> QED
      BY <1>u, <2>6, <3>1 DEF Captured, StreamTypes
  <2>8. DOMAIN ui' = DeviceFields /\ ui'.active = A /\ ui'.ref = G
    BY <1>t, <2>1 DEF DeviceFields
  <2>9. DOMAIN atom' = AtomFields /\ atom'.open = P /\ atom'.born = b + 1 /\ atom'.screens = S
    <3> DEFINE a == Rtc!Stopped(k)
    <3>1. DOMAIN a = AtomFields /\ a.open = P /\ a.born = b /\ a.screens = S
      BY <1>t DEF Rtc!Stopped, AtomFields
    <3> HIDE DEF a
    <3> QED
      BY <2>1, <3>1 DEF a, AtomFields
  <2>10. ScreensApart(G, S)
    BY <1>c
  <2> HIDE DEF G, P
  <2> QED
    BY <2>2, <2>7, <2>8, <2>9, <2>10 DEF Fine, q
<1>8. CASE Rtc!canSpeakLost
  <2>1. DOMAIN ui' = DeviceFields /\ ui'.active = A /\ ui'.ref = F /\ UNCHANGED <<atom, net>>
    BY <1>t, <1>8 DEF Rtc!canSpeakLost, Rtc!Set, DeviceFields
  <2> QED
    BY <1>s, <1>t, <2>1 DEF Fine
<1>9. ASSUME NEW r \in net, Rtc!gotMedia(r) PROVE Fine
  <2> DEFINE k == r.arg[1]
             s == CHOOSE x \in 1..MaxStreams : x \notin atom.open /\ \A c \in Rtc!Kinds : ui.ref[c] # x
             B == IF r.op = "open" THEN A \cup {k} ELSE A
             T == IF k = "screen" THEN S \cup {s} ELSE S \ {s}
  <2>1. /\ ui' = [ui EXCEPT !.ref[k] = s, !.active = IF r.op = "open" THEN @ \cup {k} ELSE @]
        /\ atom' = [atom EXCEPT !.open = @ \cup {s}, !.screens = IF k = "screen" THEN @ \cup {s} ELSE @ \ {s}]
        /\ net' = Rtc!Add(net \ {r}, "publish", <<k, s>>)
        /\ r \in Opens(net)
    BY <1>9 DEF Rtc!gotMedia, Rtc!Replied, Opens
  <2>2. s \in Streams /\ s \notin Used(F, O)
    <3>1. \E x \in 1..MaxStreams : x \notin atom.open /\ \A c \in Rtc!Kinds : ui.ref[c] # x
      BY <1>s, <2>1, StreamExists DEF Used, Streams
    <3>2. s \in 1..MaxStreams /\ s \notin atom.open /\ \A c \in Rtc!Kinds : ui.ref[c] # s
      BY <3>1
    <3> QED
      BY <3>2 DEF Used, Streams
  <2> HIDE DEF s
  <2>3. Captured(B, [F EXCEPT ![k] = s], O \cup {s}, b, net \ {r})
    <3>1. B \subseteq A \cup {k}
      OBVIOUS
    <3> HIDE DEF B
    <3> QED
      BY <1>s, <2>1, <2>2, <3>1, StreamGot
  <2>4. k \in Rtc!Kinds
    BY <1>u, <2>1 DEF Opens, DeviceRequest
  <2>5. PICK i : net' = (net \ {r}) \cup {[id |-> i, op |-> "publish", arg |-> <<k, s>>, live |-> TRUE, rep |-> None]}
    BY <2>1 DEF Rtc!Add
  <2> DEFINE q == [id |-> i, op |-> "publish", arg |-> <<k, s>>, live |-> TRUE, rep |-> None]
  <2>6. DeviceRequest(q) /\ q.op = "publish"
    BY <2>4 DEF DeviceRequest, RequestFields
  <2> HIDE DEF q
  <2>7. Captured(B, [F EXCEPT ![k] = s], O \cup {s}, b, (net \ {r}) \cup {q})
    <3> DEFINE G == [F EXCEPT ![k] = s]
               P == O \cup {s}
               m == net \ {r}
    <3>1. Captured(B, G, P, b, m)
      BY <2>3
    <3> HIDE DEF G, P, m, B
    <3>2. Captured(B, G, P, b, m \cup {q})
      BY <1>u, <2>6, <3>1, RequestMade
    <3> QED
      BY <3>2 DEF G, P, m
  <2>8. DOMAIN ui' = DeviceFields /\ ui'.active = B /\ ui'.ref = [F EXCEPT ![k] = s]
    BY <1>t, <2>1 DEF DeviceFields
  <2>9. DOMAIN atom' = AtomFields /\ atom'.open = O \cup {s} /\ atom'.born = b /\ atom'.screens = T
    BY <1>t, <2>1 DEF AtomFields
  <2>10. ScreensApart([F EXCEPT ![k] = s], T)
    <3> DEFINE G == [F EXCEPT ![k] = s]
    <3>1. G[k] = s /\ \A c \in Rtc!Kinds : c # k => G[c] = F[c] /\ F[c] # s
      BY <1>u, <2>2, <2>4 DEF Used
    <3> HIDE DEF G
    <3>2. T \subseteq Streams
      BY <1>s, <2>2 DEF ScreensApart
    <3>3. \A c \in Rtc!Kinds : G[c] \in T => c = "screen"
      BY <1>s, <3>1 DEF ScreensApart
    <3> QED
      BY <3>2, <3>3 DEF ScreensApart, G
  <2> HIDE DEF B, T
  <2> QED
    BY <2>5, <2>7, <2>8, <2>9, <2>10 DEF Fine, q
<1>10. ASSUME NEW r \in net, Rtc!published(r) PROVE Fine
  <2>1. /\ UNCHANGED ui /\ net' = net \ {r} /\ r.op = "publish"
        /\ \E X : atom' = [atom EXCEPT !.sent = X] \/ atom' = atom
    BY <1>10 DEF Rtc!published, Rtc!Replied, Rtc!DoneAtom, Rtc!Reach
  <2>2. DOMAIN atom' = AtomFields /\ atom'.open = O /\ atom'.born = b /\ atom'.screens = S
    BY <1>t, <2>1 DEF AtomFields
  <2>3. Captured(A, F, O, b, net \ {r})
    BY <1>s, <2>1, RequestGone
  <2> QED
    BY <1>s, <1>t, <2>1, <2>2, <2>3 DEF Fine
<1>11. ASSUME NEW r \in net, Rtc!mediaFailed(r) PROVE Fine
  <2> DEFINE k == r.arg[1]
             u == Rtc!Off(k)
             a == Rtc!Stopped(k)
  <2>1. k \in Rtc!Kinds /\ r.live = TRUE
    BY <1>u, <1>11 DEF Rtc!mediaFailed, Rtc!Replied, DeviceRequest
  <2>2. ui' = u /\ atom' = a /\ net' = net \ {r}
    BY <1>11, <2>1 DEF Rtc!mediaFailed, Rtc!DoneAtom, Rtc!Reach
  <2>e. u = Rtc!Off(k) /\ a = Rtc!Stopped(k)
    OBVIOUS
  <2> HIDE DEF u, a
  <2>3. /\ DOMAIN u = DeviceFields /\ u.active = A \ {k} /\ DOMAIN a = AtomFields
        /\ Captured(u.active, u.ref, a.open, a.born, net) /\ ScreensApart(u.ref, a.screens)
    <3> HIDE DEF k
    <3>1. k \in Rtc!Kinds
      BY <2>1
    <3> QED
      BY <1>1, <2>e, <3>1
  <2>4. k \notin u.active
    BY <2>3
  <2>5. Captured(u.active, u.ref, a.open, a.born, net \ {r})
    BY <2>3, <2>4, RequestGone
  <2> QED
    BY <2>2, <2>3, <2>5 DEF Fine
<1>12. ASSUME NEW r \in net, NEW ok, NEW val, net' = Rtc!Reply(r, ok, val), UNCHANGED <<ui, atom>> PROVE Fine
  <2> DEFINE s == [r EXCEPT !.rep = [ok |-> ok, val |-> val]]
  <2>1. DOMAIN s = RequestFields /\ s.op = r.op /\ s.arg = r.arg /\ s.live = r.live
    BY <1>u DEF DeviceRequest, RequestFields
  <2>2. net' = (net \ {r}) \cup {s}
    BY <1>12 DEF Rtc!Reply
  <2> HIDE DEF s
  <2>3. Captured(A, F, O, b, (net \ {r}) \cup {s})
    BY <1>s, <2>1, RequestAnswered
  <2> QED
    BY <1>12, <1>s, <1>t, <2>2, <2>3 DEF Fine
<1>13. ASSUME NEW r \in net, Rtc!Read(r, TRUE) PROVE Fine
  BY <1>12, <1>13 DEF Rtc!Read, Rtc!Answer, Rtc!AnswerPush
<1>14. CASE Fails
  <2>1. PICK r \in net : UNCHANGED <<ui, atom>> /\ net' = Reply(r, FALSE, None)
    BY <1>14 DEF Fails, Fail
  <2>2. net' = Rtc!Reply(r, FALSE, None)
    BY <2>1 DEF Reply, Rtc!Reply
  <2> QED
    BY <1>12, <2>1, <2>2
<1>15. CASE UNCHANGED spaVars
  BY <1>s, <1>t, <1>15 DEF Fine, spaVars
<1>16. ~Rtc!devicesUnmount /\ \A r : ~Rtc!gotMediaLate(r)
  BY <1>0 DEF Rtc!devicesUnmount, Rtc!Leave, Rtc!gotMediaLate
<1>17. {"mic", "camera", "screen"} = Rtc!Kinds
  BY DEF Rtc!Kinds
<1> QED
  BY <1>3, <1>4, <1>6, <1>7, <1>8, <1>9, <1>10, <1>11, <1>13, <1>14, <1>15, <1>16, <1>17
     DEF Rtc!DevicesNext, Rtc!toggleMic, Rtc!toggleCamera, Rtc!toggleScreen, Rtc!handleAudioDeviceChange,
         Rtc!handleVideoDeviceChange

\* A camera, microphone or screen shown as on has a stream behind it, or one being
\* opened on another device, whichever of overlapping toggles, changes of device
\* and failures comes last (useMediaDevices).
THEOREM IndicatorsHaveStreams == DevicesSpec => []ActiveHasStream
<1>1. Rtc!DevicesInit => DevicesInv
  <2> SUFFICES ASSUME Rtc!DevicesInit
               PROVE  /\ DOMAIN ui = DeviceFields /\ DOMAIN atom = AtomFields
                      /\ Captured(ui.active, ui.ref, atom.open, atom.born, net)
                      /\ ScreensApart(ui.ref, atom.screens)
    BY DEF DevicesInv
  <2>1. PICK speaks :
           /\ ui = Rtc!mountDevices(speaks) /\ net = {}
           /\ atom = [open |-> {}, sent |-> {}, born |-> 0, screens |-> {}]
    BY DEF Rtc!DevicesInit, Rtc!Begins
  <2>2. DOMAIN ui = DeviceFields /\ ui.active = {} /\ ui.ref = [k \in Rtc!Kinds |-> None]
    BY <2>1 DEF Rtc!mountDevices, DeviceFields
  <2>3. DOMAIN atom = AtomFields /\ atom.open = {} /\ atom.born = 0 /\ atom.screens = {}
    BY <2>1 DEF AtomFields
  <2>4. 0 \in 0..MaxStreams
    BY PagesAssumption
  <2>5. StreamTypes({}, ui.ref, {}, 0, {}) /\ StreamsApart(ui.ref) /\ Backed({}, ui.ref, {}, {})
    BY <2>2, <2>4 DEF StreamTypes, StreamsApart, Backed
  <2>6. Opens({}) = {} /\ Used(ui.ref, {}) = {}
    BY <2>2, PagesAssumption DEF Opens, Used, Streams
  <2>7. StreamsLeft(ui.ref, {}, 0, {})
    BY <2>6, FS_EmptySet DEF StreamsLeft
  <2> QED
    BY <2>1, <2>2, <2>3, <2>5, <2>7 DEF Captured, ScreensApart
<1>2. DevicesInv => ActiveHasStream
  BY DEF DevicesInv, Captured, Backed, ActiveHasStream, Rtc!ActiveHasStream, Rtc!On
<1> QED
  BY <1>1, <1>2, DevicesInvStep, PTL DEF DevicesSpec

-----------------------------------------------------------------------------
(* The upload queue: a queued job never waits for nothing.  a is what the  *)
(* UploadManager keeps, n the requests in flight.                          *)

UploadSpec == Shell!UploaderInit /\ [][Shell!UploaderNext \/ Fails]_spaVars

UploadFields == {"queue", "job", "active", "run", "cur", "next", "prom", "cleanup", "conv"}
JobFields == {"status", "done", "file"}
RunOps == {"init", "chunk", "complete", "inbox"}

UploadTypes(a) ==
    /\ DOMAIN a = UploadFields /\ a.queue \in Seq(Shell!Jobs) /\ DOMAIN a.job = Shell!Jobs
    /\ \A j \in Shell!Jobs : DOMAIN a.job[j] = JobFields
\* The run that is on has a request in flight.
Runs(a, n) == a.active = 1 => \E q \in n : q.op \in RunOps /\ q.arg[2] = a.cur
QueueMoves(a, n) ==
    /\ UploadTypes(a) /\ Runs(a, n) /\ (Shell!Queued(a) # {} => a.active = 1)
    /\ \A q \in n : DOMAIN q = RequestFields

UploadInv == page[1] = "uploader" => QueueMoves(atom, net)

LEMMA ShellAdd ==
    \A n, op, arg : \E i :
        Shell!Add(n, op, arg) = n \cup {[id |-> i, op |-> op, arg |-> arg, live |-> TRUE, rep |-> None]}
  BY DEF Shell!Add

\* A job's status changes; unless it is queued, no more jobs are.
Marked(a, j, st) == [a EXCEPT !.job[j].status = st]
LEMMA StatusSet ==
    ASSUME NEW a, UploadTypes(a), NEW j, NEW st, NEW c, c = Marked(a, j, st)
    PROVE  /\ UploadTypes(c) /\ c.active = a.active /\ c.cur = a.cur /\ c.queue = a.queue
           /\ st # "queued" => Shell!Queued(c) \subseteq Shell!Queued(a)
<1>1. /\ DOMAIN c = UploadFields /\ c.active = a.active /\ c.cur = a.cur /\ c.queue = a.queue
      /\ c.job = [a.job EXCEPT ![j] = [a.job[j] EXCEPT !.status = st]]
  BY DEF UploadTypes, UploadFields, Marked
<1>2. DOMAIN c.job = Shell!Jobs /\ \A x \in Shell!Jobs : x # j => c.job[x] = a.job[x]
  BY <1>1 DEF UploadTypes
<1>3. j \in Shell!Jobs => DOMAIN c.job[j] = JobFields /\ c.job[j].status = st
  BY <1>1 DEF UploadTypes, JobFields
<1>4. UploadTypes(c)
  BY <1>1, <1>2, <1>3 DEF UploadTypes
<1>5. ASSUME st # "queued", NEW i \in Shell!Queued(c) PROVE i \in Shell!Queued(a)
  <2>1. i \in DOMAIN a.queue /\ a.queue[i] \in Shell!Jobs /\ c.job[a.queue[i]].status = "queued"
    BY <1>1, <1>5 DEF Shell!Queued, UploadTypes
  <2>2. a.queue[i] # j
    BY <1>3, <1>5, <2>1
  <2> QED
    BY <1>2, <2>1, <2>2 DEF Shell!Queued
<1> QED
  BY <1>1, <1>4, <1>5

\* A job's chunks that the server has change; its status does not.
Finished(a, j, S) == [a EXCEPT !.job[j].done = S]
LEMMA DoneSet ==
    ASSUME NEW a, UploadTypes(a), NEW j, NEW S, NEW c, c = Finished(a, j, S)
    PROVE  /\ UploadTypes(c) /\ c.active = a.active /\ c.cur = a.cur /\ c.queue = a.queue
           /\ Shell!Queued(c) \subseteq Shell!Queued(a)
<1>1. /\ DOMAIN c = UploadFields /\ c.active = a.active /\ c.cur = a.cur /\ c.queue = a.queue
      /\ c.job = [a.job EXCEPT ![j] = [a.job[j] EXCEPT !.done = S]]
  BY DEF UploadTypes, UploadFields, Finished
<1>2. /\ DOMAIN c.job = Shell!Jobs
      /\ \A x \in Shell!Jobs : DOMAIN c.job[x] = JobFields /\ c.job[x].status = a.job[x].status
  BY <1>1 DEF UploadTypes, JobFields
<1> QED
  BY <1>1, <1>2 DEF UploadTypes, Shell!Queued

\* processQueue leaves nothing queued unless a run is on, and a run it starts has
\* its request.
LEMMA QueueProcessed ==
    ASSUME NEW u, NEW a, NEW n, Shell!processQueue(u, a, n), UploadTypes(a), Runs(a, n),
           \A q \in n : DOMAIN q = RequestFields
    PROVE  QueueMoves(atom', net')
<1>1. CASE a.active = 1 \/ Shell!Queued(a) = {}
  BY <1>1 DEF Shell!processQueue, QueueMoves
<1>2. CASE ~(a.active = 1 \/ Shell!Queued(a) = {})
  <2> DEFINE j == a.queue[Shell!Least(Shell!Queued(a))]
             b == [a EXCEPT !.active = 1, !.run = @ + 1, !.cur = a.run + 1, !.next = Append(@, 0)]
             k == a.run + 1
  <2>1. /\ atom' = [a EXCEPT !.active = 1, !.run = @ + 1, !.cur = a.run + 1, !.next = Append(@, 0),
                             !.job[j].status = "initializing"]
        /\ net' = Shell!Add(n, "init", <<j, k, 0>>)
    BY <1>2 DEF Shell!processQueue
  <2>2. UploadTypes(b) /\ b.active = 1 /\ b.cur = k
    BY DEF UploadTypes, UploadFields
  <2> DEFINE c == Marked(b, j, "initializing")
  <2>3. atom' = c
    BY <2>1 DEF Marked
  <2> HIDE DEF b, j, k
  <2>4. UploadTypes(c) /\ c.active = 1 /\ c.cur = k
    BY <2>2, StatusSet
  <2> HIDE DEF c
  <2>5. PICK i : net' = n \cup {[id |-> i, op |-> "init", arg |-> <<j, k, 0>>, live |-> TRUE, rep |-> None]}
    BY <2>1, ShellAdd
  <2> DEFINE q == [id |-> i, op |-> "init", arg |-> <<j, k, 0>>, live |-> TRUE, rep |-> None]
  <2>6. DOMAIN q = RequestFields /\ q.op \in RunOps /\ q.arg[2] = k
    BY DEF RequestFields, RunOps
  <2> HIDE DEF q
  <2>7. net' = n \cup {q}
    BY <2>5 DEF q
  <2> QED
    BY <2>3, <2>4, <2>6, <2>7 DEF QueueMoves, Runs
<1> QED
  BY <1>1, <1>2

LEMMA RunSettled ==
    ASSUME NEW a, UploadTypes(a), NEW j, NEW how
    PROVE  LET c == Shell!settled(a, j, how)
           IN  UploadTypes(c) /\ c.active = a.active /\ c.cur = a.cur /\ Shell!Queued(c) = Shell!Queued(a)
<1> DEFINE c == [a EXCEPT !.prom = how]
<1>1. UploadTypes(c) /\ c.active = a.active /\ c.cur = a.cur /\ c.queue = a.queue /\ c.job = a.job
  BY DEF UploadTypes, UploadFields
<1>2. Shell!settled(a, j, how) = a \/ Shell!settled(a, j, how) = c
  BY DEF Shell!settled
<1> HIDE DEF c
<1>3. Shell!Queued(c) = Shell!Queued(a)
  BY <1>1 DEF Shell!Queued
<1> QED
  BY <1>1, <1>2, <1>3

\* The end of a run starts the next, however it ended.
LEMMA RunFinished ==
    ASSUME NEW a, NEW j, NEW n, Shell!finishRun(a, j, n), UploadTypes(a), \A q \in n : DOMAIN q = RequestFields
    PROVE  QueueMoves(atom', net')
<1> DEFINE S == IF a.job[j].status \in {"error", "paused"} THEN a.cleanup ELSE a.cleanup \cup {j}
           c == [a EXCEPT !.active = 0, !.cur = 0, !.cleanup = S]
<1>1. Shell!processQueue(ui, c, n)
  BY DEF Shell!finishRun
<1>2. UploadTypes(c) /\ c.active = 0
  BY DEF UploadTypes, UploadFields
<1> HIDE DEF c
<1>3. Runs(c, n)
  BY <1>2 DEF Runs
<1> QED
  BY <1>1, <1>2, <1>3, QueueProcessed

LEMMA RunFailed ==
    ASSUME NEW a, NEW j, NEW n, Shell!failRun(a, j, n), UploadTypes(a), \A q \in n : DOMAIN q = RequestFields
    PROVE  QueueMoves(atom', net')
<1> DEFINE b == Marked(a, j, "error")
           c == Shell!settled(b, j, "rejected")
<1>1. Shell!finishRun(c, j, n)
  BY DEF Shell!failRun, Marked
<1>2. UploadTypes(b)
  BY StatusSet
<1> HIDE DEF b
<1>3. UploadTypes(c)
  BY <1>2, RunSettled
<1> HIDE DEF c
<1> QED
  BY <1>1, <1>3, RunFinished

LEMMA RunCompleted ==
    ASSUME NEW a, NEW j, NEW n, Shell!completed(a, j, n), UploadTypes(a), \A q \in n : DOMAIN q = RequestFields
    PROVE  QueueMoves(atom', net')
<1> DEFINE b == Marked(a, j, "complete")
           c == Shell!settled(b, j, "resolved")
<1>1. Shell!finishRun(c, j, n)
  BY DEF Shell!completed, Marked
<1>2. UploadTypes(b)
  BY StatusSet
<1> HIDE DEF b
<1>3. UploadTypes(c)
  BY <1>2, RunSettled
<1> HIDE DEF c
<1> QED
  BY <1>1, <1>3, RunFinished

\* The workers of the run that is on are done: it ends, or asks for completion.
LEMMA RunWorked ==
    ASSUME NEW a, NEW j, NEW k, NEW n, Shell!workersDone(a, j, k, n), UploadTypes(a), k = a.cur,
           Shell!Queued(a) # {} => a.active = 1, \A q \in n : DOMAIN q = RequestFields
    PROVE  QueueMoves(atom', net')
<1>1. CASE Shell!finishRun(a, j, n)
  BY <1>1, RunFinished
<1>2. CASE Shell!failRun(a, j, n)
  BY <1>2, RunFailed
<1>3. CASE atom' = [a EXCEPT !.job[j].status = "rebuilding"] /\ net' = Shell!Add(n, "complete", <<j, k, 0>>)
  <2> DEFINE c == Marked(a, j, "rebuilding")
  <2>1. UploadTypes(c) /\ c.active = a.active /\ c.cur = a.cur /\ Shell!Queued(c) \subseteq Shell!Queued(a)
    BY StatusSet
  <2>2. atom' = c
    BY <1>3 DEF Marked
  <2> HIDE DEF c
  <2>3. PICK i : net' = n \cup {[id |-> i, op |-> "complete", arg |-> <<j, k, 0>>, live |-> TRUE, rep |-> None]}
    BY <1>3, ShellAdd
  <2> DEFINE q == [id |-> i, op |-> "complete", arg |-> <<j, k, 0>>, live |-> TRUE, rep |-> None]
  <2>4. DOMAIN q = RequestFields /\ q.op \in RunOps /\ q.arg[2] = k
    BY DEF RequestFields, RunOps
  <2> HIDE DEF q
  <2>5. net' = n \cup {q}
    BY <2>3 DEF q
  <2> QED
    BY <2>1, <2>2, <2>4, <2>5 DEF QueueMoves, Runs
<1> QED
  BY <1>1, <1>2, <1>3 DEF Shell!workersDone

\* Workers go round their loop, those of a run that has failed too.
LEMMA RunWorks ==
    ASSUME NEW a, NEW j, NEW k, NEW w, NEW n, Shell!uploadWorkers(a, j, k, w, n), UploadTypes(a),
           k # a.cur => Runs(a, n), Shell!Queued(a) # {} => a.active = 1, \A q \in n : DOMAIN q = RequestFields
    PROVE  QueueMoves(atom', net')
<1> DEFINE go == a.job[j].status \notin {"paused", "error"}
           b == IF go THEN Shell!advanced(a, j, k, w) ELSE a
           m == IF go THEN Shell!Asked(n, j, k, Shell!taken(a, j, k, w)) ELSE n
<1>1. IF k = a.cur /\ ~Shell!Working(m, k) THEN Shell!workersDone(b, j, k, m) ELSE atom' = b /\ net' = m
  BY DEF Shell!uploadWorkers
<1>2. UploadTypes(b) /\ b.active = a.active /\ b.cur = a.cur /\ Shell!Queued(b) = Shell!Queued(a)
  <2>1. PICK f : Shell!advanced(a, j, k, w) = [a EXCEPT !.next = f]
    BY DEF Shell!advanced, UploadTypes, UploadFields
  <2> DEFINE c == [a EXCEPT !.next = f]
  <2>2. UploadTypes(c) /\ c.active = a.active /\ c.cur = a.cur /\ c.queue = a.queue /\ c.job = a.job
    BY DEF UploadTypes, UploadFields
  <2> HIDE DEF c
  <2>3. Shell!Queued(c) = Shell!Queued(a)
    BY <2>2 DEF Shell!Queued
  <2> QED
    BY <2>1, <2>2, <2>3 DEF c
<1>3. n \subseteq m /\ \A q \in m : DOMAIN q = RequestFields
  BY DEF Shell!Asked, RequestFields
<1> HIDE DEF b, m
<1>4. CASE k = a.cur /\ ~Shell!Working(m, k)
  BY <1>1, <1>2, <1>3, <1>4, RunWorked
<1>5. CASE ~(k = a.cur /\ ~Shell!Working(m, k))
  <2>1. Runs(b, m)
    <3>1. CASE k # a.cur
      BY <1>2, <1>3, <3>1 DEF Runs
    <3>2. CASE Shell!Working(m, k) /\ k = a.cur
      BY <1>2, <3>2 DEF Runs, RunOps, Shell!Working
    <3> QED
      BY <1>5, <3>1, <3>2
  <2> QED
    BY <1>1, <1>2, <1>3, <1>5, <2>1 DEF QueueMoves
<1> QED
  BY <1>4, <1>5

\* A job is taken off the list.
LEMMA JobUnlisted ==
    ASSUME NEW q \in Seq(Shell!Jobs), NEW j
    PROVE  /\ Shell!Unlisted(q, j) \in Seq(Shell!Jobs)
           /\ \A i \in DOMAIN Shell!Unlisted(q, j) : \E x \in DOMAIN q : Shell!Unlisted(q, j)[i] = q[x]
<1> DEFINE p == CHOOSE i \in DOMAIN q : q[i] = j
<1>1. CASE ~\E i \in DOMAIN q : q[i] = j
  BY <1>1 DEF Shell!Unlisted
<1>2. CASE \E i \in DOMAIN q : q[i] = j
  <2>1. Shell!Unlisted(q, j) = SubSeq(q, 1, p - 1) \o SubSeq(q, p + 1, Len(q))
    BY <1>2 DEF Shell!Unlisted
  <2>2. p \in 1..Len(q)
    BY <1>2
  <2> HIDE DEF p
  <2> DEFINE s == SubSeq(q, 1, p - 1)
             t == SubSeq(q, p + 1, Len(q))
  <2>3. s \in Seq(Shell!Jobs) /\ t \in Seq(Shell!Jobs) /\ Len(s) = p - 1 /\ Len(t) = Len(q) - p
    BY <2>2
  <2>4. \A i \in 1..Len(s) : s[i] = q[i]
    BY <2>2, <2>3
  <2>5. \A i \in 1..Len(t) : t[i] = q[i + p]
    BY <2>2, <2>3
  <2> HIDE DEF s, t
  <2>6. s \o t \in Seq(Shell!Jobs) /\ Len(s \o t) = Len(q) - 1
    BY SMTT(30), <2>2, <2>3
  <2>7. ASSUME NEW i \in 1..Len(s \o t) PROVE \E x \in DOMAIN q : (s \o t)[i] = q[x]
    <3>1. CASE i <= Len(s)
      <4>1. (s \o t)[i] = q[i] /\ i \in DOMAIN q
        BY <2>2, <2>3, <2>4, <2>6, <2>7, <3>1
      <4> QED
        BY <4>1
    <3>2. CASE i > Len(s)
      <4>1. (s \o t)[i] = t[i - Len(s)] /\ i - Len(s) \in 1..Len(t)
        BY <2>2, <2>3, <2>6, <2>7, <3>2
      <4>2. (s \o t)[i] = q[i + 1] /\ i + 1 \in DOMAIN q
        BY <2>2, <2>3, <2>5, <2>6, <2>7, <4>1
      <4> QED
        BY <4>2
    <3> QED
      BY <2>2, <2>3, <2>6, <2>7, <3>1, <3>2
  <2> DEFINE z == s \o t
  <2>8. z \in Seq(Shell!Jobs) /\ \A i \in DOMAIN z : \E x \in DOMAIN q : z[i] = q[x]
    BY SMTT(30), <2>6, <2>7
  <2>9. Shell!Unlisted(q, j) = z
    BY <2>1 DEF s, t
  <2> HIDE DEF z
  <2> QED
    BY <2>8, <2>9
<1> QED
  BY <1>1, <1>2

\* What neither queues a job nor takes the run's request away is of no account.
LEMMA NothingQueued ==
    ASSUME NEW a, NEW n, QueueMoves(a, n), NEW c, UploadTypes(c), c.active = a.active, c.cur = a.cur,
           Shell!Queued(c) # {} => Shell!Queued(a) # {}, NEW m, \A q \in m : DOMAIN q = RequestFields,
           \A q \in n : q.op \in RunOps => \E s \in m : s.op \in RunOps /\ s.arg = q.arg
    PROVE  QueueMoves(c, m)
  BY DEF QueueMoves, Runs

\* Every step of the queue, its user and the server keeps the invariant.
LEMMA UploadInvStep == UploadInv /\ [Shell!UploaderNext \/ Fails]_spaVars => UploadInv'
<1> DEFINE Fine == QueueMoves(atom', net')
<1> SUFFICES ASSUME UploadInv, [Shell!UploaderNext \/ Fails]_spaVars, page'[1] = "uploader"
             PROVE  Fine
  BY DEF UploadInv
<1>0. QueueMoves(atom, net)
  <2>1. CASE Shell!UploaderNext
    <3>1. page = <<"uploader", "mounted">>
      BY <2>1 DEF Shell!UploaderNext, Shell!On
    <3> QED
      BY <3>1 DEF UploadInv
  <2>2. CASE Fails
    <3>1. page' = page
      BY <2>2 DEF Fails, Fail
    <3> QED
      BY <3>1 DEF UploadInv
  <2>3. CASE UNCHANGED spaVars
    <3>1. page' = page
      BY <2>3 DEF spaVars
    <3> QED
      BY <3>1 DEF UploadInv
  <2> QED
    BY <2>1, <2>2, <2>3
<1>t. UploadTypes(atom) /\ Runs(atom, net) /\ \A q \in net : DOMAIN q = RequestFields
  BY <1>0 DEF QueueMoves
<1> HIDE DEF Fine
\* Handlers that go through processQueue.
<1>1. ASSUME NEW u, NEW a, Shell!processQueue(u, a, net), UploadTypes(a), a.active = atom.active, a.cur = atom.cur
      PROVE  Fine
  <2>1. Runs(a, net)
    BY <1>1, <1>t DEF Runs
  <2> QED
    BY <1>1, <1>t, <2>1, QueueProcessed DEF Fine
\* Handlers that neither queue a job nor are about a request.
<1>2. ASSUME NEW c, UploadTypes(c), c.active = atom.active, c.cur = atom.cur,
             Shell!Queued(c) # {} => Shell!Queued(atom) # {}, atom' = c, net' = net
      PROVE  Fine
  <2>1. \A q \in net : q.op \in RunOps => \E s \in net : s.op \in RunOps /\ s.arg = q.arg
    OBVIOUS
  <2> QED
    BY <1>0, <1>2, <1>t, <2>1, NothingQueued DEF Fine
<1>3. ASSUME UNCHANGED <<atom, net>> PROVE Fine
  BY <1>0, <1>3 DEF Fine
<1>4. ASSUME NEW r \in net, r.op \notin RunOps, net' = net \ {r}, NEW c, UploadTypes(c),
             c.active = atom.active, c.cur = atom.cur, Shell!Queued(c) # {} => Shell!Queued(atom) # {}, atom' = c
      PROVE  Fine
  <2> DEFINE m == net \ {r}
  <2>1. \A q \in net : q.op \in RunOps => \E s \in m : s.op \in RunOps /\ s.arg = q.arg
    BY <1>4
  <2>2. \A q \in m : DOMAIN q = RequestFields
    BY <1>t
  <2> HIDE DEF m
  <2>3. QueueMoves(c, m)
    BY <1>0, <1>4, <2>1, <2>2, NothingQueued
  <2> QED
    BY <1>4, <2>3 DEF Fine, m
<1>5. ASSUME NEW r \in net, NEW ok, NEW val, net' = Shell!Reply(r, ok, val), UNCHANGED atom PROVE Fine
  <2> DEFINE s == [r EXCEPT !.rep = [ok |-> ok, val |-> val]]
             m == (net \ {r}) \cup {s}
  <2>1. DOMAIN s = RequestFields /\ s.op = r.op /\ s.arg = r.arg
    BY <1>t DEF RequestFields
  <2>2. net' = m
    BY <1>5 DEF Shell!Reply
  <2> HIDE DEF s
  <2>3. \A q \in net : q.op \in RunOps => \E x \in m : x.op \in RunOps /\ x.arg = q.arg
    BY <2>1
  <2>4. \A q \in m : DOMAIN q = RequestFields
    BY <1>t, <2>1
  <2> HIDE DEF m
  <2>5. QueueMoves(atom, m)
    BY <1>0, <1>t, <2>3, <2>4, NothingQueued
  <2> QED
    BY <1>5, <2>2, <2>5 DEF Fine
\* A retried job, and one that waits again.
<1>6. ASSUME NEW a, UploadTypes(a), a.active = atom.active, a.cur = atom.cur, NEW j, NEW u, Shell!doRetry(a, j, u)
      PROVE  Fine
  <2> DEFINE c == Marked(a, j, "queued")
  <2>1. UploadTypes(c) /\ c.active = a.active /\ c.cur = a.cur
    BY <1>6, StatusSet
  <2>2. Shell!processQueue(u, c, net)
    BY <1>6 DEF Shell!doRetry, Marked
  <2> HIDE DEF c
  <2> QED
    BY <1>1, <1>6, <2>1, <2>2
<1>7. CASE Shell!upload
  <2> DEFINE b == [atom EXCEPT !.queue = Append(@, "a"), !.prom = "pending"]
             c == Marked(b, "a", "queued")
  <2>1. UploadTypes(b) /\ b.active = atom.active /\ b.cur = atom.cur
    <3>1. Append(atom.queue, "a") \in Seq(Shell!Jobs)
      BY <1>t DEF UploadTypes, Shell!Jobs
    <3> QED
      BY <1>t, <3>1 DEF UploadTypes, UploadFields
  <2>2. c = [atom EXCEPT !.queue = Append(@, "a"), !.job["a"].status = "queued", !.prom = "pending"]
    BY <1>t DEF Marked, UploadTypes, UploadFields
  <2>3. Shell!processQueue(ui, c, net)
    BY <1>7, <2>2 DEF Shell!upload
  <2> HIDE DEF b
  <2>4. UploadTypes(c) /\ c.active = b.active /\ c.cur = b.cur
    BY <2>1, StatusSet
  <2> HIDE DEF c
  <2> QED
    BY <1>1, <2>1, <2>3, <2>4
<1>8. ASSUME NEW j, Shell!retryUpload(j) PROVE Fine
  <2>1. Shell!doRetry(atom, j, ui) \/ UNCHANGED <<atom, net>>
    BY <1>8 DEF Shell!retryUpload, Shell!Set
  <2> QED
    BY <1>3, <1>6, <1>t, <2>1
<1>9. ASSUME NEW same, Shell!fileChosen(same) PROVE Fine
  <2> DEFINE b == [atom EXCEPT !.job["u"].file = TRUE]
  <2>1. (\E u : Shell!doRetry(b, "u", u)) \/ UNCHANGED <<atom, net>>
    BY <1>9 DEF Shell!fileChosen, Shell!Set
  <2>2. UploadTypes(b) /\ b.active = atom.active /\ b.cur = atom.cur
    BY <1>t DEF UploadTypes, UploadFields, JobFields
  <2> HIDE DEF b
  <2> QED
    BY <1>3, <1>6, <2>1, <2>2
\* A job's status becomes one other than queued, nothing else happens.
<1>10. ASSUME NEW j, NEW st, st # "queued", atom' = [atom EXCEPT !.job[j].status = st], UNCHANGED net PROVE Fine
  <2> DEFINE c == Marked(atom, j, st)
  <2>1. UploadTypes(c) /\ c.active = atom.active /\ c.cur = atom.cur /\ Shell!Queued(c) \subseteq Shell!Queued(atom)
    BY <1>10, <1>t, StatusSet
  <2>2. atom' = c
    BY <1>10 DEF Marked
  <2> HIDE DEF c
  <2> QED
    BY <1>2, <1>10, <2>1, <2>2
<1>11. ASSUME NEW j, Shell!pauseUpload(j) PROVE Fine
  BY <1>10, <1>11 DEF Shell!pauseUpload, Shell!SetAtom
<1>12. ASSUME NEW j, Shell!resumeUpload(j) PROVE Fine
  <2>1. CASE Shell!doRetry(atom, j, ui)
    BY <1>6, <1>t, <2>1
  <2>2. CASE atom' = [atom EXCEPT !.job[j].status = "error"] /\ UNCHANGED net
    BY <1>10, <2>2
  <2> QED
    BY <1>12, <2>1, <2>2 DEF Shell!resumeUpload, Shell!SetAtom
<1>13. CASE Shell!pauseAll
  <2> DEFINE J == [j \in Shell!Jobs |-> IF Shell!InQueue(j) /\ atom.job[j].status \in Shell!Pausable
                                          THEN [atom.job[j] EXCEPT !.status = "paused"] ELSE atom.job[j]]
             c == [atom EXCEPT !.job = J]
  <2>1. atom' = c /\ UNCHANGED net
    BY <1>13 DEF Shell!pauseAll, Shell!SetAtom
  <2>2. \A j \in Shell!Jobs : DOMAIN J[j] = JobFields /\ (J[j].status = "queued" => atom.job[j].status = "queued")
    BY <1>t DEF UploadTypes, JobFields
  <2>3. DOMAIN J = Shell!Jobs
    OBVIOUS
  <2> HIDE DEF J
  <2>4. UploadTypes(c) /\ c.active = atom.active /\ c.cur = atom.cur /\ c.queue = atom.queue /\ c.job = J
    BY <1>t, <2>2, <2>3 DEF UploadTypes, UploadFields
  <2> HIDE DEF c
  <2>5. Shell!Queued(c) \subseteq Shell!Queued(atom)
    BY <1>t, <2>2, <2>4 DEF Shell!Queued, UploadTypes
  <2> QED
    BY <1>2, <2>1, <2>4, <2>5
<1>14. CASE Shell!resumeAll
  <2> DEFINE back(j) == Shell!InQueue(j) /\ atom.job[j].status \in {"paused", "error"}
             J == [j \in Shell!Jobs |->
                     IF back(j) THEN [atom.job[j] EXCEPT !.status = IF atom.job[j].file THEN "queued" ELSE "error"]
                     ELSE atom.job[j]]
             c == [atom EXCEPT !.job = J]
  <2>1. Shell!processQueue(ui, c, net)
    BY <1>14 DEF Shell!resumeAll
  <2>2. DOMAIN J = Shell!Jobs /\ \A j \in Shell!Jobs : DOMAIN J[j] = JobFields
    BY <1>t DEF UploadTypes, JobFields
  <2> HIDE DEF J
  <2>3. UploadTypes(c) /\ c.active = atom.active /\ c.cur = atom.cur
    BY <1>t, <2>2 DEF UploadTypes, UploadFields
  <2> HIDE DEF c
  <2> QED
    BY <1>1, <2>1, <2>3
\* A job that is taken off the list.
<1>15. ASSUME NEW j, NEW c, DOMAIN c = UploadFields, c.queue = Shell!Unlisted(atom.queue, j), c.job = atom.job,
              c.active = atom.active, c.cur = atom.cur
       PROVE  UploadTypes(c) /\ (Shell!Queued(c) # {} => Shell!Queued(atom) # {})
  <2>1. atom.queue \in Seq(Shell!Jobs)
    BY <1>t DEF UploadTypes
  <2>2. /\ c.queue \in Seq(Shell!Jobs)
        /\ \A i \in DOMAIN c.queue : \E x \in DOMAIN atom.queue : c.queue[i] = atom.queue[x]
    BY <1>15, <2>1, JobUnlisted
  <2> QED
    BY <1>15, <1>t, <2>2 DEF UploadTypes, Shell!Queued
<1>16. ASSUME NEW j, Shell!cleanupJob(j) PROVE Fine
  <2> DEFINE c == [atom EXCEPT !.cleanup = @ \ {j}, !.queue = Shell!Unlisted(@, j)]
  <2>1. atom' = c /\ UNCHANGED net
    BY <1>16 DEF Shell!cleanupJob, Shell!SetAtom
  <2>2. /\ DOMAIN c = UploadFields /\ c.queue = Shell!Unlisted(atom.queue, j) /\ c.job = atom.job
        /\ c.active = atom.active /\ c.cur = atom.cur
    BY <1>t DEF UploadTypes, UploadFields
  <2> HIDE DEF c
  <2> QED
    BY <1>2, <1>15, <2>1, <2>2
<1>17. ASSUME NEW j, Shell!removeUpload(j) PROVE Fine
  <2> DEFINE p == IF j = "a" /\ atom.prom = "pending" THEN "lost" ELSE atom.prom
             c == [atom EXCEPT !.queue = Shell!Unlisted(@, j), !.prom = p]
  <2>1. atom' = c /\ net' = Shell!Add(net, "remove", <<j, 0, 0>>)
    BY <1>17, <1>t DEF Shell!removeUpload, Shell!CallAtom, UploadTypes, UploadFields
  <2>2. /\ DOMAIN c = UploadFields /\ c.queue = Shell!Unlisted(atom.queue, j) /\ c.job = atom.job
        /\ c.active = atom.active /\ c.cur = atom.cur
    BY <1>t DEF UploadTypes, UploadFields
  <2> HIDE DEF c
  <2>3. UploadTypes(c) /\ (Shell!Queued(c) # {} => Shell!Queued(atom) # {})
    BY <1>15, <2>2
  <2>4. PICK i : net' = net \cup {[id |-> i, op |-> "remove", arg |-> <<j, 0, 0>>, live |-> TRUE, rep |-> None]}
    BY <2>1, ShellAdd
  <2> DEFINE m == net \cup {[id |-> i, op |-> "remove", arg |-> <<j, 0, 0>>, live |-> TRUE, rep |-> None]}
  <2>5. \A q \in m : DOMAIN q = RequestFields
    BY <1>t DEF RequestFields
  <2>6. \A q \in net : q.op \in RunOps => \E s \in m : s.op \in RunOps /\ s.arg = q.arg
    OBVIOUS
  <2>7. net' = m
    BY <2>4
  <2> HIDE DEF m
  <2>8. QueueMoves(c, m)
    BY <1>0, <2>2, <2>3, <2>5, <2>6, NothingQueued
  <2> QED
    BY <2>1, <2>7, <2>8 DEF Fine
<1>18. CASE Shell!clickUploads
  BY <1>3, <1>8, <1>11, <1>12, <1>13, <1>14, <1>17, <1>18 DEF Shell!clickUploads, Shell!Set
\* Replies to a run, of which a run that is not on any more may get some.
<1>19. ASSUME NEW r \in net, NEW a, UploadTypes(a), a.active = atom.active, a.cur = atom.cur,
              Shell!Queued(a) \subseteq Shell!Queued(atom)
       PROVE  /\ \A q \in net \ {r} : DOMAIN q = RequestFields
              /\ r.arg[2] # a.cur => Runs(a, net \ {r})
              /\ Shell!Queued(a) # {} => a.active = 1
  BY <1>0, <1>19, <1>t DEF QueueMoves, Runs
<1>20. ASSUME NEW r \in net, Shell!initDone(r) PROVE Fine
  <2> DEFINE j == r.arg[1]
             k == r.arg[2]
             n == net \ {r}
  <2>1. CASE Shell!failRun(atom, j, n)
    BY <1>19, <1>t, <2>1, RunFailed DEF Fine
  <2>2. CASE Shell!uploadWorkers([atom EXCEPT !.job[j].status = "uploading", !.job[j].done = r.rep.val], j, k,
                                 Shell!UploadWorkers, n)
    <3> DEFINE b == Marked(atom, j, "uploading")
               c == Finished(b, j, r.rep.val)
    <3>1. UploadTypes(b) /\ b.active = atom.active /\ b.cur = atom.cur /\ Shell!Queued(b) \subseteq Shell!Queued(atom)
      BY <1>t, StatusSet
    <3>2. Shell!uploadWorkers(c, j, k, Shell!UploadWorkers, n)
      BY <2>2 DEF Marked, Finished
    <3> HIDE DEF b
    <3>3. UploadTypes(c) /\ c.active = b.active /\ c.cur = b.cur /\ Shell!Queued(c) \subseteq Shell!Queued(b)
      BY <3>1, DoneSet
    <3> HIDE DEF c
    <3>4. /\ \A q \in n : DOMAIN q = RequestFields
          /\ k # c.cur => Runs(c, n)
          /\ Shell!Queued(c) # {} => c.active = 1
      BY <1>19, <3>1, <3>3
    <3> QED
      BY <3>2, <3>3, <3>4, RunWorks DEF Fine
  <2> QED
    BY <1>20, <2>1, <2>2 DEF Shell!initDone
<1>21. ASSUME NEW r \in net, Shell!chunkDone(r) PROVE Fine
  <2> DEFINE j == r.arg[1]
             k == r.arg[2]
             n == net \ {r}
             S == atom.job[j].done \cup {r.arg[3]}
             c == [atom EXCEPT !.job[j].done = S]
  <2>1. CASE Shell!failRun(atom, j, n)
    BY <1>19, <1>t, <2>1, RunFailed DEF Fine
  <2>2. CASE Shell!uploadWorkers(atom, j, k, 1, n)
    BY <1>19, <1>t, <2>2, RunWorks DEF Fine
  <2>3. CASE Shell!uploadWorkers(c, j, k, 1, n)
    <3>1. UploadTypes(c) /\ c.active = atom.active /\ c.cur = atom.cur /\ Shell!Queued(c) \subseteq Shell!Queued(atom)
      <4> HIDE DEF S, j
      <4>1. c = Finished(atom, j, S)
        BY DEF Finished
      <4> HIDE DEF c
      <4> QED
        BY <1>t, <4>1, DoneSet
    <3> HIDE DEF c
    <3>2. /\ \A q \in n : DOMAIN q = RequestFields
          /\ k # c.cur => Runs(c, n)
          /\ Shell!Queued(c) # {} => c.active = 1
      BY <1>19, <3>1
    <3> QED
      BY <2>3, <3>1, <3>2, RunWorks DEF Fine
  <2>4. CASE k # atom.cur /\ Shell!DoneAtom(r, ui, [atom EXCEPT !.job[j].status = "error"])
    <3> DEFINE d == Marked(atom, j, "error")
    <3>1. UploadTypes(d) /\ d.active = atom.active /\ d.cur = atom.cur /\ Shell!Queued(d) \subseteq Shell!Queued(atom)
      BY <1>t, StatusSet
    <3>2. atom' = d /\ net' = n
      BY <2>4 DEF Shell!DoneAtom, Marked
    <3> HIDE DEF d
    <3>3. /\ \A q \in n : DOMAIN q = RequestFields
          /\ Runs(d, n)
          /\ Shell!Queued(d) # {} => d.active = 1
      BY <1>19, <2>4, <3>1
    <3> QED
      BY <3>1, <3>2, <3>3 DEF Fine, QueueMoves
  <2> QED
    BY <1>21, <2>1, <2>2, <2>3, <2>4 DEF Shell!chunkDone
<1>22. ASSUME NEW r \in net, Shell!completeDone(r) PROVE Fine
  <2> DEFINE j == r.arg[1]
             n == net \ {r}
  <2>1. CASE Shell!failRun(atom, j, n)
    BY <1>19, <1>t, <2>1, RunFailed DEF Fine
  <2>2. CASE Shell!completed(atom, j, n)
    BY <1>19, <1>t, <2>2, RunCompleted DEF Fine
  <2>3. CASE Shell!Goes(r, ui, "inbox", r.arg) /\ r.op = "complete"
    <3>1. PICK i : Shell!Add(n, "inbox", r.arg)
                     = n \cup {[id |-> i, op |-> "inbox", arg |-> r.arg, live |-> TRUE, rep |-> None]}
      <4> DEFINE g == r.arg
      <4> HIDE DEF n, g
      <4>1. \E i : Shell!Add(n, "inbox", g)
                     = n \cup {[id |-> i, op |-> "inbox", arg |-> g, live |-> TRUE, rep |-> None]}
        BY ShellAdd
      <4> QED
        BY <4>1 DEF g
    <3> DEFINE q0 == [id |-> i, op |-> "inbox", arg |-> r.arg, live |-> TRUE, rep |-> None]
               q1 == IF q0.live = r.live THEN q0 ELSE [q0 EXCEPT !.live = r.live]
               m == {IF q.live = r.live THEN q ELSE [q EXCEPT !.live = r.live] : q \in Shell!Add(n, "inbox", r.arg) \ net} \cup n
    <3>2. UNCHANGED atom /\ net' = m
      BY <2>3 DEF Shell!Goes, Shell!Onward
    <3>3. /\ DOMAIN q0 = RequestFields /\ q0.op = "inbox" /\ q0.arg = r.arg
          /\ DOMAIN q1 = RequestFields /\ q1.op = "inbox" /\ q1.arg = r.arg
      BY DEF RequestFields
    <3>4. (\A q \in m : q \in n \/ q = q1) /\ (q0 \notin net => q1 \in m)
      BY <3>1
    <3>5. q0 # r
      BY <2>3, <3>3
    <3> HIDE DEF q0, q1
    <3>6. \A q \in m : DOMAIN q = RequestFields
      BY <1>t, <3>3, <3>4
    <3>7. \E s \in m : s.op \in RunOps /\ s.arg = r.arg
      <4>1. CASE q0 \in net
        BY <3>3, <3>5, <4>1 DEF RunOps
      <4>2. CASE q0 \notin net
        BY <3>3, <3>4, <4>2 DEF RunOps
      <4> QED
        BY <4>1, <4>2
    <3>8. \A q \in net : q.op \in RunOps => \E s \in m : s.op \in RunOps /\ s.arg = q.arg
      BY <3>7
    <3> HIDE DEF m
    <3>9. QueueMoves(atom, m)
      BY <1>0, <1>t, <3>6, <3>8, NothingQueued
    <3> QED
      BY <3>2, <3>9 DEF Fine
  <2> QED
    BY <1>22, <2>1, <2>2, <2>3 DEF Shell!completeDone, Shell!Replied
<1>23. ASSUME NEW r \in net, Shell!inboxSent(r) PROVE Fine
  BY <1>19, <1>23, <1>t, RunCompleted DEF Fine, Shell!inboxSent
<1>24. ASSUME NEW r \in net, Shell!loadIncompleteUploads(r) PROVE Fine
  <2> DEFINE job == [status |-> "error", done |-> r.rep.val, file |-> FALSE]
             Q == Append(atom.queue, "u")
             c == [atom EXCEPT !.queue = Q, !.job["u"] = job]
  <2>1. (atom' = atom \/ atom' = c) /\ net' = net \ {r} /\ r.op \notin RunOps
    BY <1>24 DEF Shell!loadIncompleteUploads, Shell!Replied, Shell!DoneAtom, RunOps
  <2>2. /\ Q \in Seq(Shell!Jobs)
        /\ \A i \in DOMAIN Q : Q[i] = "u" \/ (i \in DOMAIN atom.queue /\ Q[i] = atom.queue[i])
    BY <1>t DEF UploadTypes, Shell!Jobs
  <2>3. DOMAIN job = JobFields /\ job.status = "error"
    BY DEF JobFields
  <2> HIDE DEF Q, job
  <2>4. /\ DOMAIN c = UploadFields /\ c.queue = Q /\ c.active = atom.active /\ c.cur = atom.cur
        /\ c.job = [atom.job EXCEPT !["u"] = job]
    BY <1>t DEF UploadTypes, UploadFields
  <2> HIDE DEF c
  <2>5. /\ DOMAIN c.job = Shell!Jobs /\ c.job["u"] = job
        /\ \A j \in Shell!Jobs : j # "u" => c.job[j] = atom.job[j]
    BY <1>t, <2>4 DEF UploadTypes, Shell!Jobs
  <2>6. UploadTypes(c)
    BY <1>t, <2>2, <2>3, <2>4, <2>5 DEF UploadTypes
  <2>7. ASSUME NEW i \in Shell!Queued(c) PROVE i \in Shell!Queued(atom)
    <3>1. i \in DOMAIN Q /\ c.job[Q[i]].status = "queued" /\ Q[i] \in Shell!Jobs
      BY <2>2, <2>4, <2>7 DEF Shell!Queued
    <3>2. Q[i] # "u"
      BY <2>3, <2>5, <3>1
    <3> QED
      BY <2>2, <2>5, <3>1, <3>2 DEF Shell!Queued
  <2>8. CASE atom' = c
    BY <1>4, <2>1, <2>4, <2>6, <2>7, <2>8
  <2>9. CASE atom' = atom
    BY <1>4, <1>t, <2>1, <2>9
  <2> QED
    BY <2>1, <2>8, <2>9
<1>25. ASSUME NEW r \in net, Shell!removeDone(r) PROVE Fine
  <2>1. UNCHANGED atom /\ net' = net \ {r} /\ r.op \notin RunOps
    BY <1>25 DEF Shell!removeDone, Shell!Replied, Shell!Done, RunOps
  <2> QED
    BY <1>4, <1>t, <2>1
<1>26. ASSUME NEW r \in net, Shell!UploadServer(r) PROVE Fine
  <2>1. UNCHANGED atom /\ \E ok, val : net' = Shell!Reply(r, ok, val)
    BY <1>26 DEF Shell!UploadServer, Shell!Read, Shell!Answer, Shell!AnswerPush
  <2> QED
    BY <1>5, <2>1
<1>27. CASE Fails
  <2>1. PICK r \in net : UNCHANGED atom /\ net' = Reply(r, FALSE, None)
    BY <1>27 DEF Fails, Fail
  <2>2. net' = Shell!Reply(r, FALSE, None)
    BY <2>1 DEF Reply, Shell!Reply
  <2> QED
    BY <1>5, <2>1, <2>2
<1>28. CASE UNCHANGED spaVars
  BY <1>3, <1>28 DEF spaVars
<1> QED
  BY <1>7, <1>9, <1>16, <1>18, <1>20, <1>21, <1>22, <1>23, <1>24, <1>25, <1>26, <1>27, <1>28 DEF Shell!UploaderNext

\* A queued upload never waits for nothing, however uploads fail, are paused,
\* removed and retried: a run is on that has a reply to wait for, and whose end
\* starts the next (processQueue of the UploadManager and its finally).
THEOREM QueueNeverStalls == UploadSpec => []NoIdleQueue
<1>1. Shell!UploaderInit => UploadInv
  <2> SUFFICES ASSUME Shell!UploaderInit PROVE QueueMoves(atom, net)
    BY DEF UploadInv
  <2>1. PICK conv, left \in BOOLEAN :
          /\ atom = [queue |-> <<>>, job |-> [j \in Shell!Jobs |-> [status |-> "none", done |-> {}, file |-> j = "a"]],
                     active |-> 0, run |-> 0, cur |-> 0, next |-> <<>>, prom |-> "none", cleanup |-> {}, conv |-> conv]
          /\ net = IF left THEN Shell!Add({}, "incomplete", <<"u", 0, 0>>) ELSE {}
    BY DEF Shell!UploaderInit, Shell!Begins
  <2>2. /\ DOMAIN atom = UploadFields /\ atom.queue = <<>> /\ atom.active = 0
        /\ atom.job = [j \in Shell!Jobs |-> [status |-> "none", done |-> {}, file |-> j = "a"]]
    BY <2>1 DEF UploadFields
  <2>3. UploadTypes(atom) /\ Shell!Queued(atom) = {}
    BY <2>2 DEF UploadTypes, JobFields, Shell!Queued
  <2>4. \A q \in net : DOMAIN q = RequestFields
    <3>1. PICK i : Shell!Add({}, "incomplete", <<"u", 0, 0>>)
                     = {} \cup {[id |-> i, op |-> "incomplete", arg |-> <<"u", 0, 0>>, live |-> TRUE, rep |-> None]}
      BY ShellAdd
    <3> QED
      BY <2>1, <3>1 DEF RequestFields
  <2> QED
    BY <2>2, <2>3, <2>4 DEF QueueMoves, Runs
<1>2. UploadInv => NoIdleQueue
  BY DEF UploadInv, QueueMoves, Runs, RunOps, NoIdleQueue, Shell!NoIdleQueue
<1> QED
  BY <1>1, <1>2, UploadInvStep, PTL DEF UploadSpec
=============================================================================
