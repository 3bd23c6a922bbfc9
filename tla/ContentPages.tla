---------------------------- MODULE ContentPages ----------------------------
(***************************************************************************)
(* Sections that bring their own data, and the pages that list content.    *)
(* Page "rows" is a section filled by a data source (CustomSectionBlock    *)
(* and DerivedSectionBlock), "interactive" a form, poll, vote or Q&A,      *)
(* "sources" the data-source table with its inline editor, "customPages"   *)
(* the page browser, "embed" a product, thread or documentation shown in a *)
(* page, "gallery" an image gallery with its albums, "bible" the scripture *)
(* reader with its narration.                                              *)
(***************************************************************************)
EXTENDS Spa

CONSTANTS
    MaxKeys,        \* bound: idempotency keys a browser draws
    MaxSpoken       \* bound: utterances handed to the speech synthesizer

-----------------------------------------------------------------------------
(* Rows of a data source.  ui.src is the source the section's config       *)
(* names; ui.rows is the source the rows shown were evaluated from.        *)

Sources == {1, 2}
mountRows(kind, src) ==
    [busy |-> {"list", "components"}, on |-> {}, kind |-> kind, src |-> src, rows |-> None, err |-> None]
RowsInit ==
    \E kind \in {"custom", "derived"}, src \in Sources \cup {None} :
        Begins("rows", mountRows(kind, src), [n |-> 0],
               {r \in Add(Add(Add({}, "list", None), "components", None), "evaluate", src) :
                    r.op = "evaluate" => kind = "derived" /\ src # None},
               [n |-> 0])

\* A custom section is known once the list is here; a derived one needs none.
selectedCS == IF "list" \in ui.busy THEN None ELSE ui.src
Selected == IF ui.kind = "custom" THEN selectedCS ELSE ui.src
Evaluating(u) == Busy([u EXCEPT !.err = None], "eval")

\* The lists arrive, or do not; the custom section chosen is then evaluated.
listLoaded(r) ==
    /\ Replied(r, {"list"})
    /\ \/ r.rep.ok /\ ui.kind = "custom" /\ ui.src # None /\ Goes(r, Evaluating(Idle(ui, "list")), "evaluate", ui.src)
       \/ ~(r.rep.ok /\ ui.kind = "custom" /\ ui.src # None)
          /\ \E e \in (IF r.rep.ok \/ ui.kind = "derived" THEN {ui.err} ELSE {ui.err, "auth"}) :
                Done(r, Idle([ui EXCEPT !.err = e], "list"))
componentsLoaded(r) ==
    Replied(r, {"components"}) /\ Done(r, Idle(IF r.rep.ok THEN Open(ui, "components") ELSE ui, "components"))

\* runEvaluation, by the Refresh button; without a source it empties the rows.
runEvaluation ==
    \/ Selected = None /\ Set([ui EXCEPT !.rows = None, !.err = None])
    \/ Selected # None /\ Call(Evaluating(ui), "evaluate", Selected)
\* ... and its end: whatever the section names by now, these are its rows.
evaluateDataSource(r) ==
    /\ Replied(r, {"evaluate"})
    /\ \/ r.rep.ok /\ Done(r, Idle([ui EXCEPT !.rows = r.arg], "eval"))
       \/ ~r.rep.ok /\ \E e \in {"auth", "error"} : Done(r, Idle([ui EXCEPT !.rows = None, !.err = e], "eval"))

\* What the editor of the section is offered: refresh, the choice of a source,
\* and, with rows to detect columns in, of a row key, a component or a mapping.
Columns == ui.rows # None
Controls ==
    (IF "eval" \notin ui.busy /\ ui.src # None THEN {"refresh"} ELSE {})
    \cup (IF "list" \in ui.busy THEN {} ELSE {"source"})
    \cup (IF Columns /\ "components" \in ui.on THEN {"component"} ELSE {})
    \cup (IF Columns THEN {IF "component" \in ui.on THEN "bindings" ELSE "mapping"} ELSE {})
DerivedControls == Controls \cup (IF Columns /\ "component" \notin ui.on THEN {"card"} ELSE {})
Offers == IF ui.kind = "custom" THEN Controls ELSE DerivedControls
\* What is rendered of the evaluation.
Results ==
    CASE ui.err = "auth" -> {"login"}
      [] ui.err = "error" -> {"error"}
      [] Columns /\ "component" \in ui.on -> {"grid"}
      [] Columns /\ "mapping" \in ui.on -> {"cards"}
      [] Columns -> {IF ui.kind = "custom" THEN "preview" ELSE "prompt"}
      [] OTHER -> {"empty"}

refresh == "refresh" \in Offers /\ runEvaluation
\* handleCSChange, handleDatasourceChange: another source is evaluated at once,
\* none leaves the rows as they are.
handleSourceChange(s) ==
    /\ "source" \in Offers /\ s # ui.src
    /\ IF s = None THEN Set([ui EXCEPT !.src = None])
       ELSE Call(Evaluating([ui EXCEPT !.src = s]), "evaluate", s)
\* A chosen component starts without bindings.
handleComponentChange == "component" \in Offers /\ Set(Close(Toggle(ui, "component"), "bindings"))
handleBindingsChange == "bindings" \in Offers /\ Set(Open(ui, "bindings"))
handleColumnMapChange == "mapping" \in Offers /\ Set(Toggle(ui, "mapping"))
handleCardTemplateChange == "card" \in Offers /\ Set(Open(ui, "card"))
toLogin == "login" \in Results /\ Quit("rows")

RowsNext ==
    /\ On("rows")
    /\ \/ refresh \/ handleComponentChange \/ handleBindingsChange \/ handleColumnMapChange
       \/ handleCardTemplateChange \/ toLogin
       \/ \E s \in Sources \cup {None} : handleSourceChange(s)
       \/ \E r \in net : listLoaded(r) \/ componentsLoaded(r) \/ evaluateDataSource(r) \/ Read(r, None)

-----------------------------------------------------------------------------
(* An interactive section.  A record is the answers given with the key     *)
(* they were sent under; the participant is the one who is signed in.      *)
(* ui.ref is submissionRef.  atom.meant counts the submissions the         *)
(* participant meant: it grows when answers are entered.                   *)

Answers == {"x", "y"}
Recorded(a, k) == [ans |-> a, key |-> k, done |-> FALSE]
InteractiveInit ==
    \E kind \in {"poll", "qa"} :
        Begins("interactive",
               [busy |-> {}, kind |-> kind, tab |-> "preview", open |-> TRUE, recs |-> {}, expanded |-> None,
                ans |-> None, ref |-> None],
               [keys |-> 0, meant |-> 0], {}, [n |-> 0, open |-> TRUE, recs |-> {}])

interactiveResponseLimitReached(own) == ui.kind = "poll" /\ Cardinality(own) >= 1
participationLocked == ~ui.open \/ interactiveResponseLimitReached(ui.recs)
Tabs == {"preview", "responses", "results", "design"}
Participation == IF ui.tab = "preview" /\ ~participationLocked THEN {"answer", "submit"} ELSE {}
ResponsesTable == IF ui.tab = "responses" THEN ui.recs ELSE {}
RecordDetail == IF ui.expanded \in ResponsesTable /\ ui.kind = "qa" THEN {ui.expanded} ELSE {}
DesignView == IF ui.tab = "design" THEN {"save"} ELSE {}

setTab(t) == t # ui.tab /\ Set([ui EXCEPT !.tab = t])
setExpanded(x) == x \in ResponsesTable /\ Set([ui EXCEPT !.expanded = IF @ = x THEN None ELSE x])
FieldControl(a) ==
    /\ "answer" \in Participation /\ a # ui.ans /\ atom.meant < MaxKeys
    /\ SetAtom([ui EXCEPT !.ans = a], [atom EXCEPT !.meant = @ + 1])

\* Answers not sent before get a key of their own, answers that were sent and
\* not acknowledged keep theirs.
submissionRef == IF ui.ref # None /\ ui.ref.ans = ui.ans THEN ui.ref ELSE [ans |-> ui.ans, key |-> atom.keys + 1]
\* A mutant of submit: every attempt has a key of its own.
submitFreshKey ==
    /\ "submit" \in Participation /\ "submit" \notin ui.busy /\ ui.ans # None /\ atom.keys < MaxKeys
    /\ LET ref == [ans |-> ui.ans, key |-> atom.keys + 1] IN
       CallAtom(Busy([ui EXCEPT !.ref = ref], "submit"), [atom EXCEPT !.keys = ref.key], "submit", ref)
submit ==
    /\ "submit" \in Participation /\ "submit" \notin ui.busy /\ ui.ans # None
    /\ LET ref == submissionRef IN
       /\ ref.key <= MaxKeys
       /\ CallAtom(Busy([ui EXCEPT !.ref = ref], "submit"),
                   [atom EXCEPT !.keys = IF ref.key > @ THEN ref.key ELSE @], "submit", ref)
\* Acknowledged: the config answered with is shown, the form and the key reset.
replaceRuntimeConfig(u, v) == [u EXCEPT !.open = v.open, !.recs = v.recs]
submitted(r) ==
    /\ Replied(r, {"submit"})
    /\ \/ r.rep.ok
          /\ Done(r, Idle([replaceRuntimeConfig(ui, r.rep.val) EXCEPT !.ref = None, !.ans = None,
                               !.tab = IF ui.kind = "poll" THEN "results" ELSE @], "submit"))
       \/ ~r.rep.ok /\ Done(r, Idle(ui, "submit"))

deleteRecord(x) == x \in ResponsesTable /\ Write(ui, "delete", x)
recordDeleted(r) ==
    /\ Replied(r, {"delete"})
    /\ Done(r, IF r.rep.ok THEN [replaceRuntimeConfig(ui, r.rep.val) EXCEPT !.expanded = IF @ = r.arg THEN None ELSE @]
               ELSE ui)
QAAnswerForm(x) == x \in RecordDetail /\ ~x.done /\ Write(ui, "moderate", x)
moderated(r) ==
    Replied(r, {"moderate"}) /\ Done(r, IF r.rep.ok THEN replaceRuntimeConfig(ui, r.rep.val) ELSE ui)
\* persistDesign: shown at once, and saved with the page, the records this
\* browser knows of included.
persistDesign ==
    /\ "save" \in DesignView
    /\ Write([ui EXCEPT !.open = ~@], "savePage", [open |-> ~ui.open, recs |-> ui.recs])
pageSaved(r) == Replied(r, {"savePage"}) /\ Done(r, ui)

\* The server: a key it has a record for is answered with that record.
Answered(d) == [open |-> d.open, recs |-> d.recs]
SubmitInteractive(r, d) ==
    \/ d = db /\ \E x \in db.recs : x.key = r.arg.key
    \/ /\ ~\E x \in db.recs : x.key = r.arg.key
       /\ ~interactiveResponseLimitReached(db.recs)
       /\ d = [db EXCEPT !.recs = @ \cup {Recorded(r.arg.ans, r.arg.key)}]
\* A mutant of mergeInteractiveRecords: the records are the saved page's.
mergeNothing(d, saved) == [d EXCEPT !.open = saved.open, !.recs = saved.recs]
\* A saved page keeps the records that are there.
mergeInteractiveRecords(d, saved) == [d EXCEPT !.open = saved.open]
InteractiveServer(r) ==
    \/ /\ r.op = "submit" /\ db.open
       /\ \E d \in {db, [db EXCEPT !.recs = @ \cup {Recorded(r.arg.ans, r.arg.key)}]} :
            SubmitInteractive(r, d) /\ Answer(r, d, Answered(d))
    \/ /\ r.op = "delete" /\ r.arg \in db.recs /\ db.n < MaxChanges
       /\ LET d == [db EXCEPT !.recs = @ \ {r.arg}, !.n = @ + 1] IN Answer(r, d, Answered(d))
    \/ /\ r.op = "moderate" /\ r.arg \in db.recs /\ db.n < MaxChanges
       /\ LET d == [db EXCEPT !.recs = (@ \ {r.arg}) \cup {[r.arg EXCEPT !.done = TRUE]}, !.n = @ + 1] IN Answer(r, d, Answered(d))
    \/ /\ r.op = "savePage" /\ db.n < MaxChanges
       /\ Answer(r, [mergeInteractiveRecords(db, r.arg) EXCEPT !.n = @ + 1], None)
\* Done by the server, but the answer never arrives.
answerLost(r) ==
    /\ r.op = "submit" /\ db.open /\ r.rep = None
    /\ LET d == [db EXCEPT !.recs = @ \cup {Recorded(r.arg.ans, r.arg.key)}] IN
         SubmitInteractive(r, d) /\ db' = d
    /\ net' = Reply(r, FALSE, None) /\ UNCHANGED <<page, ui, atom, subs, push>>

InteractiveNext ==
    /\ On("interactive")
    /\ \/ \E t \in Tabs : setTab(t)
       \/ \E a \in Answers : FieldControl(a)
       \/ \E x \in ui.recs : setExpanded(x) \/ deleteRecord(x) \/ QAAnswerForm(x)
       \/ submit \/ persistDesign
       \/ \E r \in net : \/ submitted(r) \/ recordDeleted(r) \/ moderated(r) \/ pageSaved(r)
                         \/ InteractiveServer(r) \/ answerLost(r)

\* However often a submission is retried because its answer was lost, it is
\* recorded once: there are never more records than submissions meant.
RecordedOnce == On("interactive") => Cardinality(db.recs) <= atom.meant

\* A response leaves the section only when it is deleted, one at a time: saving
\* the section's design from a browser that does not know of it keeps it.
ResponsesKept ==
    [][On("interactive") =>
         \A x \in db.recs : (\E y \in db'.recs : y.key = x.key)
             \/ \E r \in net : r.op = "delete" /\ r.arg.key = x.key]_spaVars

-----------------------------------------------------------------------------
(* The data-source table.  ui.edit: the source in the inline editor, 0 for *)
(* a new one; ui.env: the source whose environment the editor shows.       *)

SourcesInit ==
    Begins("sources", [busy |-> {"load"}, on |-> {}, list |-> {}, edit |-> None, env |-> None, auth |-> FALSE],
           [editing |-> 0], Add({}, "list", None), [n |-> 0, list |-> {1, 2}])

\* fetchDataSources
listed(r) ==
    /\ Replied(r, {"list"})
    /\ \/ r.rep.ok /\ Done(r, Idle([ui EXCEPT !.list = r.rep.val, !.auth = FALSE], "load"))
       \/ ~r.rep.ok /\ \E a \in BOOLEAN : Done(r, Idle([ui EXCEPT !.auth = a], "load"))

InlineEditor ==
    IF ui.edit = None THEN {"new"}
    ELSE {"name", "cancel"} \cup (IF "save" \in ui.busy THEN {} ELSE {"save"})
SourcesTable == IF "load" \in ui.busy THEN {} ELSE ui.list
SignIn == ui.auth /\ "load" \notin ui.busy

\* The editor open keeps the page from being replaced: enterEdit, leaveEdit.
Editing(e) == [atom EXCEPT !.editing = IF e = None THEN 0 ELSE 1]
Edits(u, e) == [u EXCEPT !.edit = e, !.env = None, !.on = IF e = 0 THEN {} ELSE {"name"}]
startNew == "new" \in InlineEditor /\ SetAtom(Edits(ui, 0), Editing(0))
\* startEdit: the source's environment is asked for and shown when it comes,
\* in whichever editor is open by then.
startEdit(x) == x \in SourcesTable /\ CallAtom(Edits(ui, x), Editing(x), "env", x)
envLoaded(r) == Replied(r, {"env"}) /\ Done(r, IF r.rep.ok THEN [ui EXCEPT !.env = r.arg] ELSE ui)
cancelEdit == "cancel" \in InlineEditor /\ SetAtom([ui EXCEPT !.edit = None], Editing(None))
editSourceName == "name" \in InlineEditor /\ Set(Toggle(ui, "name"))
saveSource ==
    "save" \in InlineEditor /\ "name" \in ui.on /\ Call(Busy(ui, "save"), IF ui.edit = 0 THEN "create" ELSE "update", ui.edit)
\* Saved: whatever is being edited by now is closed, the table read again.
sourceSaved(r) ==
    /\ Replied(r, {"create", "update"})
    /\ \/ /\ r.rep.ok
          /\ ui' = Idle([ui EXCEPT !.edit = None], "save") /\ atom' = Editing(None)
          /\ net' = Add(net \ {r}, "list", None) /\ UNCHANGED <<page, db, subs, push>>
       \/ ~r.rep.ok /\ \E a \in {ui.auth, TRUE} : Done(r, Idle([ui EXCEPT !.auth = a], "save"))
deleteSource(x) == x \in SourcesTable /\ Write(ui, "delete", x)
sourceDeleted(r) ==
    /\ Replied(r, {"delete"})
    /\ \/ r.rep.ok /\ Goes(r, ui, "list", None)
       \/ ~r.rep.ok /\ \E a \in {ui.auth, TRUE} : Done(r, [ui EXCEPT !.auth = a])
signIn == SignIn /\ Quit("sources")

SourcesServer(r) ==
    \/ r.op = "list" /\ Read(r, db.list)
    \/ r.op \in {"env", "update"} /\ Read(r, {})
    \/ r.op = "create" /\ db.n < MaxChanges /\ Answer(r, [db EXCEPT !.list = @ \cup {3}, !.n = @ + 1], {})
    \/ r.op = "delete" /\ db.n < MaxChanges /\ Answer(r, [db EXCEPT !.list = @ \ {r.arg}, !.n = @ + 1], {})

SourcesNext ==
    /\ On("sources")
    /\ \/ startNew \/ cancelEdit \/ editSourceName \/ saveSource \/ signIn
       \/ \E x \in ui.list : startEdit(x) \/ deleteSource(x)
       \/ \E r \in net : \/ listed(r) \/ envLoaded(r) \/ sourceSaved(r) \/ sourceDeleted(r)
                         \/ SourcesServer(r)

-----------------------------------------------------------------------------
(* The page browser.  The server lists the pages in two portions; a        *)
(* request for a portion aborts the one before it.                         *)

PageIds == {1, 2}
CustomPagesInit ==
    Begins("customPages",
           [busy |-> {"load"}, on |-> {"timer", "grid"}, pages |-> {}, more |-> FALSE, query |-> 0, alloc |-> FALSE,
            renaming |-> None, duplicating |-> None, deleting |-> None, home |-> None, setting |-> None],
           [n |-> 0], Add({}, "allocation", <<>>), [n |-> 0, pages |-> PageIds, home |-> 1])

\* loadPages: the request before is aborted, and its end is then of no account.
Aborted(n) == {r \in n : r.op \notin {"browse", "browseMore"}}
loadPages(u, op) ==
    /\ Cardinality(Aborted(net)) < MaxFlight
    /\ ui' = Busy([u EXCEPT !.on = @ \ {"error"}], IF op = "browse" THEN "load" ELSE "more")
    /\ net' = Add(Aborted(net), op, <<ui.query>>) /\ UNCHANGED <<page, atom, db, subs, push>>
Loaded(u) == [u EXCEPT !.busy = @ \ {"load", "more"}]
pagesLoaded(r) ==
    /\ Replied(r, {"browse", "browseMore"})
    /\ Done(r, IF r.rep.ok
               THEN [Loaded(ui) EXCEPT !.pages = IF r.op = "browse" THEN r.rep.val[1] ELSE @ \cup r.rep.val[1],
                                       !.more = r.rep.val[2], !.home = r.rep.val[3]]
               ELSE Open(Loaded(ui), "error"))
\* Typing restarts the timer and aborts; the timer loads; so does a live event.
setSearch ==
    /\ ui.query = 0
    /\ ui' = Open([ui EXCEPT !.query = 1], "timer") /\ net' = Aborted(net) /\ UNCHANGED <<page, atom, db, subs, push>>
searchTimer == "timer" \in ui.on /\ loadPages(Close(ui, "timer"), "browse")
pageLiveEvent == push # <<>> /\ push' = Tail(push)
    /\ Cardinality(Aborted(net)) < MaxFlight
    /\ ui' = Busy(Close(ui, "error"), "load") /\ net' = Add(Aborted(net), "browse", <<ui.query>>)
    /\ UNCHANGED <<page, atom, db, subs>>
LoadMoreSentinel == ui.more /\ ui.busy \cap {"load", "more"} = {} /\ loadPages(ui, "browseMore")

\* What is offered: claiming a page in the header, a retry, and on every row or
\* card its own operations.
canClaim == ui.alloc
DirectoryHeader == (IF canClaim /\ "claim" \notin ui.busy THEN {"claim"} ELSE {}) \cup {"search"}
EmptyState == IF "load" \notin ui.busy /\ "error" \in ui.on THEN {"retry"} ELSE {}
PageRow(p) ==
    {"rename", "duplicate"} \cup (IF ui.home = p \/ ui.setting = p THEN {} ELSE {"home"})
    \cup (IF ui.deleting = p THEN {} ELSE {"delete"})
PageCard(p) == PageRow(p) \cup {"open"}
\* ... unless a modal's backdrop covers them.
ShownPages == IF "load" \in ui.busy \/ ui.renaming # None \/ ui.duplicating # None THEN {} ELSE ui.pages

setViewMode == "grid" \in ui.on /\ Set(Close(ui, "grid"))
RowOf(p) == IF "grid" \in ui.on THEN PageCard(p) ELSE PageRow(p)
retryLoad == "retry" \in EmptyState /\ loadPages(ui, "browse")
handleClaimPage == "claim" \in DirectoryHeader /\ Write(Busy(ui, "claim"), "claim", <<>>)
openRename(p) == p \in ShownPages /\ "rename" \in RowOf(p) /\ Set([ui EXCEPT !.renaming = p])
openDuplicate(p) == p \in ShownPages /\ "duplicate" \in RowOf(p) /\ Set([ui EXCEPT !.duplicating = p])
RenameModal == IF ui.renaming = None THEN {} ELSE {"backdrop"} \cup (IF "rename" \in ui.busy THEN {} ELSE {"save"})
DuplicateModal == IF ui.duplicating = None THEN {} ELSE {"backdrop"} \cup (IF "dup" \in ui.busy THEN {} ELSE {"save"})
closeModals ==
    \/ "backdrop" \in RenameModal /\ Set([ui EXCEPT !.renaming = None])
    \/ "backdrop" \in DuplicateModal /\ Set([ui EXCEPT !.duplicating = None])
handleRename == "save" \in RenameModal /\ Write(Busy(ui, "rename"), "rename", <<ui.renaming>>)
renamed(r) ==
    Replied(r, {"rename"}) /\ Done(r, Idle(IF r.rep.ok THEN [ui EXCEPT !.renaming = None] ELSE ui, "rename"))
handleDuplicate == "save" \in DuplicateModal /\ Write(Busy(ui, "dup"), "duplicate", <<ui.duplicating>>)
\* A page claimed or duplicated is gone to.
pageMade(r) ==
    /\ Replied(r, {"claim", "duplicate"})
    /\ LET f == IF r.op = "claim" THEN "claim" ELSE "dup" IN
       IF r.rep.ok THEN Quit("customPages") ELSE Done(r, Idle(ui, f))
\* handleDeletePage: gone from the list, and the allocation asked for again.
handleDeletePage(p) == p \in ShownPages /\ "delete" \in RowOf(p) /\ Write([ui EXCEPT !.deleting = p], "delete", <<p>>)
pageDeleted(r) ==
    /\ Replied(r, {"delete"})
    /\ \/ r.rep.ok /\ Goes(r, [ui EXCEPT !.pages = @ \ {r.arg[1]}, !.deleting = None], "allocation", <<>>)
       \/ ~r.rep.ok /\ Done(r, [ui EXCEPT !.deleting = None])
gotAllocation(r) == Replied(r, {"allocation"}) /\ Done(r, IF r.rep.ok THEN [ui EXCEPT !.alloc = TRUE] ELSE ui)
handleSetHomepage(p) == p \in ShownPages /\ "home" \in RowOf(p) /\ Write([ui EXCEPT !.setting = p], "home", <<p>>)
homepageSet(r) ==
    Replied(r, {"home"}) /\ Done(r, [ui EXCEPT !.setting = None, !.home = IF r.rep.ok THEN r.arg[1] ELSE @])
openPage(p) == p \in ShownPages /\ "open" \in RowOf(p) /\ Quit("customPages")

Portion(op, q) == db.pages \cap (IF op = "browse" /\ q = 0 THEN {1} ELSE {2})
CustomPagesServer(r) ==
    \/ /\ r.op \in {"browse", "browseMore"}
       /\ Read(r, <<Portion(r.op, r.arg[1]), r.op = "browse" /\ r.arg[1] = 0 /\ 2 \in db.pages, db.home>>)
    \/ r.op \in {"allocation", "rename", "claim", "duplicate"} /\ Read(r, None)
    \/ /\ r.op = "delete" /\ r.arg[1] \in db.pages /\ db.n < MaxChanges
       /\ Answer(r, [db EXCEPT !.pages = @ \ {r.arg[1]}, !.n = @ + 1], None)
    \/ r.op = "home" /\ db.n < MaxChanges /\ Answer(r, [db EXCEPT !.home = r.arg[1], !.n = @ + 1], None)
pageChanges == Changes(db, <<"live">>)

CustomPagesNext ==
    /\ On("customPages")
    /\ \/ setSearch \/ searchTimer \/ pageLiveEvent \/ LoadMoreSentinel \/ setViewMode \/ retryLoad
       \/ handleClaimPage \/ closeModals \/ handleRename \/ handleDuplicate \/ pageChanges
       \/ \E p \in PageIds : \/ openRename(p) \/ openDuplicate(p) \/ handleDeletePage(p)
                             \/ handleSetHomepage(p) \/ openPage(p)
       \/ \E r \in net : \/ pagesLoaded(r) \/ renamed(r) \/ pageMade(r) \/ pageDeleted(r)
                         \/ gotAllocation(r) \/ homepageSet(r) \/ CustomPagesServer(r)

-----------------------------------------------------------------------------
(* An embedded resource.  ui.kind and ui.ref are the section's config;     *)
(* ui.res is what is shown: kind, reference and version.  Loading again    *)
(* aborts the load before.                                                 *)

Kinds == {"product", "documentation"}
EmbedInit ==
    Begins("embed", [busy |-> {"load"}, kind |-> "product", ref |-> 1, res |-> None, err |-> FALSE, options |-> FALSE],
           [n |-> 0], Add(Add({}, "options", <<"product">>), "resource", <<"product", 1>>), [n |-> 0])
\* Subscribed to: a product as long as it is chosen, documentation only while it
\* is shown.
Subscription(u) ==
    IF u.kind = "product" THEN (IF u.ref = None THEN {} ELSE {<<"product", u.ref>>})
    ELSE IF u.res = None THEN {} ELSE {<<"documentation", u.ref>>}

\* The effect of another choice or of a retry: nothing is shown, and with a
\* reference it is loaded; the request before is aborted.
Without(ops) == {r \in net : r.op \notin ops}
loadResource(u, n) ==
    LET v == IF u.ref = None THEN Idle([u EXCEPT !.res = None, !.err = FALSE], "load")
             ELSE Busy([u EXCEPT !.res = None, !.err = FALSE], "load")
    IN  /\ ui' = v /\ subs' = Subscription(v)
        /\ net' = IF u.ref = None THEN n ELSE Add(n, "resource", <<u.kind, u.ref>>)
        /\ Cardinality(net') <= MaxFlight
loadAborting(u) == loadResource(u, Without({"resource", "article"}))
updateReference(x) ==
    /\ ui.kind # None /\ x # ui.ref /\ (x # None => ui.options)
    /\ loadAborting([ui EXCEPT !.ref = x]) /\ UNCHANGED <<page, atom, db, push>>
\* Another type of resource has no reference yet, and its own options.
updateResourceType(k) ==
    /\ k # ui.kind
    /\ LET u == [ui EXCEPT !.kind = k, !.ref = None, !.options = FALSE, !.res = None, !.err = FALSE] IN
       ui' = Idle(u, "load") /\ subs' = Subscription(u)
    /\ net' = Add(Without({"resource", "article", "options"}), "options", <<k>>)
    /\ UNCHANGED <<page, atom, db, push>>
loadOptions(r) == Replied(r, {"options"}) /\ Done(r, IF r.rep.ok THEN [ui EXCEPT !.options = TRUE] ELSE ui)
\* Documentation is its manifest and then its first article.
ShowResource(r) ==
    /\ LET u == Idle([ui EXCEPT !.res = <<r.arg[1], r.arg[2], r.rep.val>>], "load") IN ui' = u /\ subs' = Subscription(u)
    /\ net' = net \ {r} /\ UNCHANGED <<page, atom, db, push>>
resourceLoaded(r) ==
    /\ Replied(r, {"resource", "article"})
    /\ \/ r.rep.ok /\ r.op = "resource" /\ r.arg[1] = "documentation" /\ Goes(r, ui, "article", r.arg)
       \/ r.rep.ok /\ (r.op = "article" \/ r.arg[1] = "product") /\ ShowResource(r)
       \/ ~r.rep.ok /\ Done(r, Idle([ui EXCEPT !.err = TRUE], "load"))
\* The views: the picker, and of the resource its link or the retry button.
Picker == {"type"} \cup (IF ui.kind = None THEN {} ELSE {"reference"})
EmbedView ==
    CASE "load" \in ui.busy -> {} [] ui.err -> {"retry"} [] ui.res # None -> {"open"} [] OTHER -> {}
ProductEmbed == EmbedView \cap {"open"}
DocumentationEmbed == EmbedView \cap {"open"}
retryEmbed == "retry" \in EmbedView /\ loadAborting(ui) /\ UNCHANGED <<page, atom, db, push>>
openResource ==
    "open" \in (IF ui.kind = "product" THEN ProductEmbed ELSE DocumentationEmbed) /\ Leave("embed", atom, {})
\* An update of what is subscribed to loads the resource again.
refreshEmbed ==
    push # <<>> /\ push' = Tail(push) /\ UNCHANGED <<page, atom, db>>
    /\ IF ui.ref = None THEN UNCHANGED <<ui, net, subs>> ELSE loadAborting(ui)
resourceChanges == Changes(db, IF subs = {} THEN <<>> ELSE <<"updated">>)

EmbedNext ==
    /\ On("embed")
    /\ \/ retryEmbed \/ openResource \/ refreshEmbed \/ resourceChanges
       \/ "reference" \in Picker /\ \E x \in {1, 2, None} : updateReference(x)
       \/ "type" \in Picker /\ \E k \in Kinds : updateResourceType(k)
       \/ \E r \in net : loadOptions(r) \/ resourceLoaded(r) \/ Read(r, db.n)

-----------------------------------------------------------------------------
(* The image gallery.  Items have an album and a width.  PageBuilder       *)
(* builds every change from the sections of the last render (sectionsRef): *)
(* of several changes made by one handler, the last is what remains.       *)

NewAlbums == {"a", "b"}
Widths == {"regular", "wide", "full"}
Images == {1, 2}
GalleryInit ==
    Begins("gallery", [busy |-> {}, albums |-> {}, items |-> <<>>, width |-> "regular", active |-> "all", editing |-> None],
           [n |-> 0], {}, [n |-> 0])

getItemMeta(i) == ui.items[i]
setItemMeta(u, i, f, v) == [u EXCEPT !.items[i] = [@ EXCEPT ![f] = v]]
filtered == IF ui.active = "all" THEN DOMAIN ui.items ELSE {i \in DOMAIN ui.items : getItemMeta(i).album = ui.active}
wideItems == {i \in filtered : getItemMeta(i).width = "wide"}
fullItems == {i \in filtered : getItemMeta(i).width = "full"}
cardItems == {i \in filtered : getItemMeta(i).width \notin {"wide", "full"}}
AlbumTabs == ui.albums \cup {"all"}

setActiveAlbum(k) == k \in AlbumTabs /\ k # ui.active /\ Set([ui EXCEPT !.active = k])
setEditingAlbum(k) == k \in ui.albums /\ ui.editing = None /\ Set([ui EXCEPT !.editing = k])
renameAlbum == ui.editing # None /\ Set([ui EXCEPT !.editing = None])
updateAlbums(u, next) == [u EXCEPT !.albums = next]
addAlbum(k) == k \in NewAlbums \ ui.albums /\ Set([updateAlbums(ui, ui.albums \cup {k}) EXCEPT !.active = k])
\* removeAlbum: the album goes, then its items, one by one, are given to "all".
removeAlbum(k) ==
    /\ k \in ui.albums
    /\ LET orphans == {i \in DOMAIN ui.items : getItemMeta(i).album = k}
           last == CHOOSE i \in orphans : \A j \in orphans : j <= i
           left == IF orphans = {} THEN updateAlbums(ui, ui.albums \ {k}) ELSE setItemMeta(ui, last, "album", "all")
       IN  Set([left EXCEPT !.active = IF @ = k THEN "all" ELSE @])
addImage ==
    /\ Len(ui.items) < Cardinality(Images)
    /\ Set([ui EXCEPT !.items = Append(@, [album |-> ui.active, width |-> ui.width])])
setItemWidth(i, w) == i \in wideItems \cup fullItems \cup cardItems /\ Set(setItemMeta(ui, i, "width", w))
setSectionCardWidth(w) == Set([ui EXCEPT !.width = w])
deleteImage(i) ==
    i \in filtered /\ Set([ui EXCEPT !.items = SubSeq(@, 1, i - 1) \o SubSeq(@, i + 1, Len(@))])

GalleryNext ==
    /\ On("gallery")
    /\ \/ \E k \in NewAlbums : setActiveAlbum(k) \/ setEditingAlbum(k) \/ addAlbum(k) \/ removeAlbum(k)
       \/ setActiveAlbum("all") \/ renameAlbum \/ addImage
       \/ \E w \in Widths : setSectionCardWidth(w) \/ \E i \in Images : setItemWidth(i, w)
       \/ \E i \in Images : deleteImage(i)

-----------------------------------------------------------------------------
(* The scripture reader.  ui.at is the verse shown, with its book; ui.gen, *)
(* ui.cont, ui.spoken are the refs of useBibleSpeech; ui.synth holds the   *)
(* utterances whose end or error event is still to come, cancelled ones    *)
(* too, ui.held is the synthesizer's own paused flag, and ui.voice says of *)
(* the current utterance whether it is still to begin ("due"), waits for   *)
(* the synthesizer to be resumed ("waits"), or has begun ("begun").        *)

Books == {1, 2}
Verses == 1..3
BibleInit ==
    Begins("bible",
           [busy |-> {}, on |-> {"speech"}, at |-> <<1, 1>>, state |-> "idle", gen |-> 0, cont |-> FALSE,
            spoken |-> None, synth |-> {}, held |-> FALSE, voice |-> "begun"],
           [favorites |-> {}], {}, [n |-> 0])

ReaderOpen == "open" \in ui.on
active(u) == {"open", "speech"} \subseteq u.on
Generation(u) == [u EXCEPT !.gen = IF @ < MaxSpoken THEN @ + 1 ELSE @]
stop(u) == [Generation(u) EXCEPT !.cont = FALSE, !.spoken = None, !.state = "idle"]
\* speakCurrent: what is being spoken is cancelled, the verse shown spoken; a
\* paused synthesizer stays paused.
CanSpeak(u) == u.gen < MaxSpoken
speakCurrent(u) ==
    LET v == Generation(u) IN
    [v EXCEPT !.spoken = v.at, !.state = "playing", !.synth = @ \cup {[gen |-> v.gen, at |-> v.at]},
              !.voice = IF v.held THEN "waits" ELSE "due"]
\* A mutant of narrate: moving while it plays does not speak the new verse.
narrateUnmoved(u) ==
    IF ~active(u) \/ u.at[1] # ui.at[1] \/ (u.state = "paused" /\ u.spoken # u.at) THEN stop(u) ELSE u
\* The effect after every render: closing or another book stops, moving stops
\* what is paused and goes on with the new verse where it is playing.
narrate(u) ==
    CASE ~active(u) \/ u.at[1] # ui.at[1] -> stop(u)
      [] active(u) /\ u.at[1] = ui.at[1] /\ u.state = "paused" /\ u.spoken # u.at -> stop(u)
      [] active(u) /\ u.at[1] = ui.at[1] /\ u.cont /\ u.state = "playing" /\ u.spoken # u.at -> speakCurrent(u)
      [] OTHER -> u
Rendered(u) == CanSpeak(ui) /\ Set(narrate(u))
advance(at) == IF at[2] + 1 \in Verses THEN <<at[1], at[2] + 1>> ELSE None

\* Toolbar, body and dialogs.
Toolbar == {"picker", "reader", "speech", "favorites", "fullscreen"}
ReaderBody ==
    IF ~ReaderOpen THEN {}
    ELSE (IF "speech" \in ui.on THEN {"toggle"} \cup (IF ui.state = "idle" THEN {} ELSE {"stop"}) ELSE {})
         \cup (IF ui.at \in atom.favorites THEN {} ELSE {"favorite"}) \cup {"move"}
Dialogs == IF "favorites" \in ui.on THEN atom.favorites ELSE {}

\* One verse on or back, five on, or any verse of the select.
move(v) == "move" \in ReaderBody /\ v # ui.at[2] /\ Rendered([ui EXCEPT !.at = <<ui.at[1], v>>])
toggleReader ==
    "reader" \in Toolbar /\ Rendered(IF ReaderOpen THEN [ui EXCEPT !.on = @ \ {"open", "full"}] ELSE Open(ui, "open"))
setSpeechEnabled == "speech" \in Toolbar /\ Rendered(Toggle(ui, "speech"))
toggleFullscreen ==
    "fullscreen" \in Toolbar /\ Rendered(IF "full" \in ui.on THEN Close(ui, "full") ELSE [ui EXCEPT !.on = @ \cup {"full", "open"}])
setPickerOpen(f) == f \in Toolbar \cap {"picker", "favorites"} /\ Set(Toggle(ui, f))
selectBook(b) == "picker" \in ui.on /\ b # ui.at[1] /\ Rendered(Close([ui EXCEPT !.at = <<b, 1>>], "picker"))
openFavorite(v) == v \in Dialogs /\ Rendered([ui EXCEPT !.at = v, !.on = (@ \cup {"open"}) \ {"favorites"}])
addFavorite == "favorite" \in ReaderBody /\ atom.favorites = {} /\ SetAtom(ui, [favorites |-> {ui.at}])
removeFavorite(v) == v \in Dialogs /\ SetAtom(ui, [favorites |-> atom.favorites \ {v}])

\* play resumes what is paused, or speaks the verse shown; pause; stop.
play ==
    /\ "toggle" \in ReaderBody /\ ui.state # "playing"
    /\ \/ /\ ui.state = "paused" /\ ui.held
          /\ Set([ui EXCEPT !.cont = TRUE, !.held = FALSE, !.state = "playing",
                           !.voice = IF @ = "waits" THEN "due" ELSE @])
       \/ ~(ui.state = "paused" /\ ui.held) /\ CanSpeak(ui) /\ Set(speakCurrent([ui EXCEPT !.cont = TRUE]))
pause == "toggle" \in ReaderBody /\ ui.state = "playing" /\ Set([ui EXCEPT !.state = "paused", !.held = TRUE])
stopNarration == "stop" \in ReaderBody /\ CanSpeak(ui) /\ Set(stop(ui))

\* The events of an utterance.  One that is no longer the current one changes
\* nothing.  The current one's start sets the state, also when pause came just
\* before it; its end, where narration goes on, shows the next verse; its error,
\* or the end of the book, makes the reader idle.
Spoken(u, x) == [u EXCEPT !.synth = @ \ {x}]
goneQuiet(u) == [u EXCEPT !.cont = FALSE, !.spoken = None, !.state = "idle"]
onstart(x) ==
    /\ x \in ui.synth /\ x.gen = ui.gen /\ ui.voice = "due"
    /\ Set([ui EXCEPT !.voice = "begun", !.state = "playing"])
onend(x) ==
    /\ x \in ui.synth /\ (x.gen = ui.gen => ui.voice = "begun")
    /\ LET current == x.gen = ui.gen /\ ui.cont IN
       \/ current /\ advance(ui.at) # None /\ Rendered(Spoken([ui EXCEPT !.at = advance(ui.at)], x))
       \/ current /\ advance(ui.at) = None /\ Set(goneQuiet(Spoken(ui, x)))
       \/ ~current /\ Set(Spoken(ui, x))
onerror(x) ==
    x \in ui.synth /\ Set(IF x.gen = ui.gen THEN goneQuiet(Spoken(ui, x)) ELSE Spoken(ui, x))

BibleNext ==
    /\ On("bible")
    /\ \/ \E v \in Verses : move(v)
       \/ toggleReader \/ setSpeechEnabled \/ toggleFullscreen \/ play \/ pause \/ stopNarration \/ addFavorite
       \/ \E f \in {"picker", "favorites"} : setPickerOpen(f)
       \/ \E b \in Books : selectBook(b)
       \/ \E v \in atom.favorites : openFavorite(v) \/ removeFavorite(v)
       \/ \E x \in ui.synth : onstart(x) \/ onend(x) \/ onerror(x)

\* No verse but the one shown is spoken or waits to be spoken, whatever starts,
\* ends and errors of other utterances still arrive (useBibleSpeech); and while
\* the reader says that it is playing there is such an utterance, to be heard at
\* once or, where the synthesizer was left paused, when it is resumed.
NarratesWhatIsShown ==
    On("bible") =>
        /\ \A x \in ui.synth : x.gen = ui.gen => x.at = ui.at
        /\ ui.state = "playing" => \E x \in ui.synth : x.gen = ui.gen
=============================================================================
