---------------------------- MODULE LibraryPages ----------------------------
(***************************************************************************)
(* Lists and forms around the site's content: page "trash" is the trash,   *)
(* "docSettings" a documentation's settings, "guide" the editor of one of  *)
(* its guides, "sourceList" the list of data sources, "manage" a page's    *)
(* SEO and access, "meta" the site's SEO and visuals, "picker" the search  *)
(* for people, "files" the choice of a file, "badge" the scraper's jobs,   *)
(* "reset" the reset of a password.  A form's submission is Formik's: it   *)
(* is busy with "submit" from the click to the end of onSubmit.            *)
(***************************************************************************)
EXTENDS Spa

RowLimit == 1       \* bound: rows of a page (25 in the trash, 50 of people)
Rows(s, off) == SubSeq(s, off + 1, IF off + RowLimit < Len(s) THEN off + RowLimit ELSE Len(s))
ElementsOf(s) == {s[i] : i \in DOMAIN s}

-----------------------------------------------------------------------------
(* The trash: one group of rows, of which the search finds row 1.          *)

MaxRows == 4        \* bound: rows shown, some of them twice

TrashInit ==
    Begins("trash", [busy |-> {"load"}, on |-> {}, items |-> <<>>, more |-> FALSE, asks |-> None],
           [n |-> 0], Add({}, "trash", 0), [n |-> 0, items |-> <<1, 2, 3>>])
gotTrash(r) ==
    /\ Replied(r, {"trash"})
    /\ Done(r, Idle(IF r.rep.ok THEN [ui EXCEPT !.items = r.rep.val[1], !.more = r.rep.val[2]] ELSE ui, "load"))
\* trash:updated, also of what was restored here.
trashUpdated ==
    /\ push # <<>> /\ push' = Tail(push) /\ Room(1)
    /\ ui' = Busy(ui, "load") /\ net' = Add(net, "trash", 0) /\ UNCHANGED <<page, atom, db, subs>>
visibleGroups == IF "search" \in ui.on THEN SelectSeq(ui.items, LAMBDA x : x = 1) ELSE ui.items
TrashGroups ==
    IF "load" \in ui.busy \/ visibleGroups = <<>> \/ ui.asks # None THEN {}
    ELSE (IF "restore" \in ui.busy THEN {} ELSE {"restore"}) \cup (IF ui.more /\ "more" \notin ui.busy THEN {"more"} ELSE {})
TrashHeader == (IF ui.asks = None THEN {"search"} ELSE {}) \cup (IF "load" \in ui.busy \/ ui.asks # None THEN {} ELSE {"refresh"})
setTrashSearch == "search" \in TrashHeader /\ Set(Toggle(ui, "search"))
refreshTrash == "refresh" \in TrashHeader /\ Call(Busy(ui, "load"), "trash", 0)
askRestore(i) == "restore" \in TrashGroups /\ i \in ElementsOf(visibleGroups) /\ Set([ui EXCEPT !.asks = i])
restore(yes) ==
    /\ ui.asks # None
    /\ IF yes THEN Write(Busy([ui EXCEPT !.asks = None], "restore"), "restore", ui.asks) ELSE Set([ui EXCEPT !.asks = None])
restored(r) ==
    /\ Replied(r, {"restore"})
    /\ Done(r, Idle(IF r.rep.ok THEN [ui EXCEPT !.items = SelectSeq(@, LAMBDA x : x # r.arg)] ELSE ui, "restore"))
\* The offset is the number of rows the search leaves of the group.
loadMoreTrash == "more" \in TrashGroups /\ Len(ui.items) < MaxRows /\ Call(Busy(ui, "more"), "more", Len(visibleGroups))
gotMoreTrash(r) ==
    /\ Replied(r, {"more"})
    /\ Done(r, Idle(IF r.rep.ok THEN [ui EXCEPT !.items = @ \o r.rep.val[1], !.more = r.rep.val[2]] ELSE ui, "more"))
TrashServer(r) ==
    \/ r.op = "trash" /\ Read(r, <<Rows(db.items, 0), Len(db.items) > RowLimit>>)
    \/ r.op = "more" /\ Read(r, <<Rows(db.items, r.arg), Len(db.items) > r.arg + RowLimit>>)
    \/ /\ r.op = "restore" /\ db.n < MaxChanges /\ r.arg \in ElementsOf(db.items)
       /\ AnswerPush(r, [db EXCEPT !.items = SelectSeq(@, LAMBDA x : x # r.arg), !.n = @ + 1], None, <<"trash">>)
\* Someone else restores a row, or deletes something, which is not announced.
trashChanges ==
    \/ Changes([db EXCEPT !.items = Tail(@)], <<"trash">>)
    \/ Changes([db EXCEPT !.items = <<4>> \o @], <<>>)
TrashNext ==
    /\ On("trash")
    /\ \/ trashUpdated \/ setTrashSearch \/ refreshTrash \/ loadMoreTrash \/ trashChanges \/ Quit("trash")
       \/ (\E i \in 1..4 : askRestore(i)) \/ (\E yes \in BOOLEAN : restore(yes))
       \/ \E r \in net : gotTrash(r) \/ restored(r) \/ gotMoreTrash(r) \/ TrashServer(r)

-----------------------------------------------------------------------------
(* A documentation's settings.  A text is 0 if empty, 1 the one there was, *)
(* 2 someone else's, 3 one typed here.                                     *)

SettingsInit ==
    \E can \in BOOLEAN :
        Begins("docSettings", [busy |-> {"load"}, on |-> {}, doc |-> None, titles |-> {}, asks |-> None, draft |-> 0, values |-> 0],
               [n |-> 0], Add({}, "load", <<>>), [n |-> 0, secs |-> <<1, 2>>, titles |-> {}, text |-> 1, rev |-> 0, can |-> can])
\* A form follows its initial values when they change, whatever was typed.
Reinitialized(u, text) == [u EXCEPT !.draft = text, !.values = IF text = u.draft THEN @ ELSE text]
loadSettings(r) ==
    /\ Replied(r, {"load"})
    /\ \/ r.rep.ok /\ ~r.rep.val.can /\ Quit("docSettings")
       \/ /\ r.rep.ok /\ r.rep.val.can
          /\ Done(r, Idle(Reinitialized([ui EXCEPT !.doc = [secs |-> r.rep.val.secs, rev |-> r.rep.val.rev], !.titles = r.rep.val.titles], r.rep.val.text), "load"))
       \/ ~r.rep.ok /\ Done(r, Idle(ui, "load"))
SettingsShown == "load" \notin ui.busy /\ ui.doc # None /\ ui.asks = None
SettingsForm ==
    IF ~SettingsShown THEN {}
    ELSE {"edit", "section", "delete"} \cup (IF "submit" \in ui.busy THEN {} ELSE {"cancel"} \cup (IF ui.values = 0 THEN {} ELSE {"save"}))
SectionRows == IF SettingsShown THEN DOMAIN ui.doc.secs ELSE {}
editSettings(t) == "edit" \in SettingsForm /\ t # ui.values /\ Set([ui EXCEPT !.values = t])
saveSettings == "save" \in SettingsForm /\ Write(Busy(ui, "submit"), "save", <<ui.doc.rev, ui.values>>)
savedSettings(r) == Replied(r, {"save"}) /\ IF r.rep.ok THEN Quit("docSettings") ELSE Done(r, Idle(ui, "submit"))
setSectionTitle == "section" \in SettingsForm /\ Set(Toggle(ui, "named"))
addSection == "section" \in SettingsForm /\ "named" \in ui.on /\ Write(ui, "add", <<>>)
setSectionTitles(i) == i \in SectionRows /\ ui.doc.secs[i] \notin ui.titles /\ Set([ui EXCEPT !.titles = @ \cup {ui.doc.secs[i]}])
updateSection(i) == i \in SectionRows /\ Write(ui, "rename", <<ui.doc.secs[i], IF ui.doc.secs[i] \in ui.titles THEN 1 ELSE 0>>)
moveSection(i, j) ==
    /\ {i, j} \subseteq SectionRows
    /\ Write(ui, "move", [k \in DOMAIN ui.doc.secs |-> ui.doc.secs[IF k = i THEN j ELSE IF k = j THEN i ELSE k]])
\* Two deletions, each after a question.
removeSection(i) == i \in SectionRows /\ Set([ui EXCEPT !.asks = <<ui.doc.secs[i]>>])
removeDocumentation == "delete" \in SettingsForm /\ Set([ui EXCEPT !.asks = <<>>])
confirmRemoval(yes) ==
    /\ ui.asks # None
    /\ IF yes THEN Write([ui EXCEPT !.asks = None], IF ui.asks = <<>> THEN "delete" ELSE "remove", ui.asks) ELSE Set([ui EXCEPT !.asks = None])
sectionChanged(r) ==
    /\ Replied(r, {"add", "rename", "move", "remove"})
    /\ IF r.rep.ok THEN Goes(r, IF r.op = "add" THEN Close(ui, "named") ELSE ui, "load", <<>>) ELSE Done(r, ui)
documentationRemoved(r) == Replied(r, {"delete"}) /\ IF r.rep.ok THEN Quit("docSettings") ELSE Done(r, ui)
\* A documentation and the order of its sections have a revision, and saving needs
\* the one that was read; a section's own changes count none.
Changed(d) == [d EXCEPT !.n = @ + 1]
Revised(d) == [Changed(d) EXCEPT !.rev = @ + 1]
SettingsServer(r) ==
    \/ r.op = "load" /\ Read(r, db)
    \/ /\ db.n < MaxChanges
       /\ \/ r.op = "save" /\ r.arg[1] = db.rev /\ Answer(r, Revised([db EXCEPT !.text = r.arg[2]]), None)
          \/ r.op = "add" /\ Answer(r, Changed([db EXCEPT !.secs = Append(@, 3)]), None)
          \/ r.op = "rename" /\ Answer(r, Changed([db EXCEPT !.titles = IF r.arg[2] = 1 THEN @ \cup {r.arg[1]} ELSE @ \ {r.arg[1]}]), None)
          \/ r.op = "move" /\ Answer(r, Revised([db EXCEPT !.secs = r.arg]), None)
          \/ r.op = "remove" /\ Answer(r, Changed([db EXCEPT !.secs = SelectSeq(@, LAMBDA x : x # r.arg[1])]), None)
          \/ r.op = "delete" /\ Answer(r, Revised(db), None)
SettingsNext ==
    /\ On("docSettings")
    /\ \/ saveSettings \/ setSectionTitle \/ addSection \/ removeDocumentation
       \/ ("cancel" \in SettingsForm /\ Quit("docSettings"))
       \/ (\E t \in {0, 3} : editSettings(t)) \/ (\E yes \in BOOLEAN : confirmRemoval(yes))
       \/ setSectionTitles(1) \/ (\E i \in 1..3 : updateSection(i) \/ removeSection(i) \/ moveSection(i, i + 1))
       \/ Changes([db EXCEPT !.text = 2, !.rev = @ + 1], <<>>)
       \/ \E r \in net : loadSettings(r) \/ savedSettings(r) \/ sectionChanged(r) \/ documentationRemoved(r) \/ SettingsServer(r)

-----------------------------------------------------------------------------
(* The editor of a guide, or of a new one (0).  Texts are as above.        *)

GuideInit ==
    \E slug \in 0..1, can \in BOOLEAN :
        Begins("guide", [busy |-> {"load"}, on |-> {}, slug |-> slug, article |-> None, draft |-> 0, values |-> 0],
               [n |-> 0], Add({}, "manifest", <<slug>>), [n |-> 0, text |-> <<1, 2>>, rev |-> <<0, 0>>, can |-> can])
gotManifest(r) ==
    /\ Replied(r, {"manifest"})
    /\ \/ r.rep.ok /\ ~r.rep.val /\ Quit("guide")
       \/ r.rep.ok /\ r.rep.val /\ r.arg[1] # 0 /\ Goes(r, Open(ui, "manifest"), "article", r.arg)
       \/ r.rep.ok /\ r.rep.val /\ r.arg[1] = 0 /\ Done(r, Idle(Close(Open(ui, "manifest"), "dirty"), "load"))
       \/ ~r.rep.ok /\ Done(r, Idle(ui, "load"))
gotArticle(r) ==
    /\ Replied(r, {"article"})
    /\ Done(r, Idle(IF r.rep.ok THEN Close(Reinitialized([ui EXCEPT !.article = [id |-> r.arg[1], rev |-> r.rep.val[2]]], r.rep.val[1]), "dirty")
                    ELSE ui, "load"))
\* Back and forward: the same editor for another guide, loaded beside the old one.
openGuide == ui.slug = 1 /\ Call([ui EXCEPT !.slug = 2], "manifest", <<2>>)
GuideForm ==
    IF \/ "load" \in ui.busy \/ "manifest" \notin ui.on \/ (ui.slug # 0 /\ ui.article = None) \/ ui.on \cap {"asks", "leaving"} # {} THEN {}
    ELSE {"edit", "link"} \cup (IF "submit" \in ui.busy THEN {}
                                ELSE (IF ui.values = 0 THEN {} ELSE {"save"}) \cup (IF ui.slug = 0 THEN {} ELSE {"delete"}))
editGuide(t) == "edit" \in GuideForm /\ t # ui.values /\ Set(Open([ui EXCEPT !.values = t], "dirty"))
saveGuide ==
    /\ "save" \in GuideForm
    /\ IF ui.slug # 0 THEN Write(Busy(ui, "submit"), "put", <<ui.article.id, ui.article.rev, ui.values>>)
       ELSE Write(Busy(ui, "submit"), "post", <<0, 0, ui.values>>)
savedGuide(r) == Replied(r, {"put", "post"}) /\ IF r.rep.ok THEN Quit("guide") ELSE Done(r, Idle(ui, "submit"))
askRemoveGuide == "delete" \in GuideForm /\ Set(Open(ui, "asks"))
removeGuide(yes) ==
    /\ "asks" \in ui.on /\ ui.article # None
    /\ IF yes THEN Write(Close(ui, "asks"), "delete", <<ui.article.id>>) ELSE Set(Close(ui, "asks"))
removedGuide(r) == Replied(r, {"delete"}) /\ IF r.rep.ok THEN Quit("guide") ELSE Done(r, ui)
\* The dirty navigation guard asks before a link is followed.
followLink == "link" \in GuideForm /\ IF "dirty" \in ui.on THEN Set(Open(ui, "leaving")) ELSE Quit("guide")
answerGuard(yes) == "leaving" \in ui.on /\ IF yes THEN Quit("guide") ELSE Set(Close(ui, "leaving"))
GuideServer(r) ==
    \/ r.op = "manifest" /\ Read(r, db.can)
    \/ r.op = "article" /\ Read(r, <<db.text[r.arg[1]], db.rev[r.arg[1]]>>)
    \/ /\ db.n < MaxChanges
       /\ \/ /\ r.op = "put" /\ r.arg[2] = db.rev[r.arg[1]]
             /\ Answer(r, [db EXCEPT !.text[r.arg[1]] = r.arg[3], !.rev[r.arg[1]] = @ + 1, !.n = @ + 1], None)
          \/ r.op \in {"post", "delete"} /\ Answer(r, [db EXCEPT !.n = @ + 1], None)
GuideNext ==
    /\ On("guide")
    /\ \/ openGuide \/ saveGuide \/ askRemoveGuide \/ followLink \/ (\E t \in {0, 3} : editGuide(t))
       \/ (\E yes \in BOOLEAN : removeGuide(yes) \/ answerGuard(yes))
       \/ Changes([db EXCEPT !.text[1] = 2, !.rev[1] = @ + 1], <<>>)
       \/ \E r \in net : gotManifest(r) \/ gotArticle(r) \/ savedGuide(r) \/ removedGuide(r) \/ GuideServer(r)

-----------------------------------------------------------------------------
(* The list of data sources; the search finds source 1.                    *)

SourceListInit ==
    Begins("sourceList", [busy |-> {"load"}, on |-> {"grid"}, list |-> {}, asks |-> None],
           [n |-> 0], Add({}, "list", 0), [n |-> 0, list |-> {1, 2}])
gotSourceList(r) == Replied(r, {"list"}) /\ Done(r, Idle(IF r.rep.ok THEN [ui EXCEPT !.list = r.rep.val] ELSE ui, "load"))
filteredSources == IF "load" \in ui.busy THEN {} ELSE IF "search" \in ui.on THEN ui.list \cap {1} ELSE ui.list
SourceListHeader == IF ui.asks # None THEN {} ELSE {"new", "search", "view"}
SourceCard(i) == IF ui.asks # None \/ i \notin filteredSources THEN {} ELSE {"open", "delete"}
SourceRow(i) == SourceCard(i)
SourceOffers(i) == IF "grid" \in ui.on THEN SourceCard(i) ELSE SourceRow(i)
setSourceSearch == "search" \in SourceListHeader /\ Set(Toggle(ui, "search"))
toggleView == "view" \in SourceListHeader /\ Set(Toggle(ui, "grid"))
openSource == ("new" \in SourceListHeader \/ \E i \in ui.list : "open" \in SourceOffers(i)) /\ Quit("sourceList")
askDeleteSource(i) == "delete" \in SourceOffers(i) /\ Set([ui EXCEPT !.asks = i])
deleteSource(yes) ==
    ui.asks # None /\ IF yes THEN Write([ui EXCEPT !.asks = None], "delete", ui.asks) ELSE Set([ui EXCEPT !.asks = None])
deletedSource(r) == Replied(r, {"delete"}) /\ IF r.rep.ok THEN Goes(r, ui, "list", 0) ELSE Done(r, ui)
SourceListServer(r) ==
    \/ r.op = "list" /\ Read(r, db.list)
    \/ r.op = "delete" /\ db.n < MaxChanges /\ Answer(r, [db EXCEPT !.list = @ \ {r.arg}, !.n = @ + 1], None)
SourceListNext ==
    /\ On("sourceList")
    /\ \/ setSourceSearch \/ toggleView \/ openSource \/ Changes([db EXCEPT !.list = {1}], <<>>)
       \/ (\E i \in {1, 2} : askDeleteSource(i)) \/ (\E yes \in BOOLEAN : deleteSource(yes))
       \/ \E r \in net : gotSourceList(r) \/ deletedSource(r) \/ SourceListServer(r)

-----------------------------------------------------------------------------
(* A page's SEO and access.  The panel is not rendered while the page is   *)
(* loading, so that what was typed into it goes with every refresh, and so *)
(* does the submission it shows: ui.req tells panels apart.  The user is   *)
(* 1; owner 0 is none.  An image is 0 if none, 1 the page's, 2 someone     *)
(* else's, 3 a typed URL, 4 an upload.                                     *)

People == 1..3
SeoEdits == 1       \* bound: changes made to the form since it was rendered

ManageInit ==
    \E admin \in BOOLEAN, owner \in 0..1 :
        Begins("manage", [busy |-> {"load"}, on |-> {}, req |-> 1, doc |-> None, tab |-> "seo", text |-> 0, img |-> 0, file |-> FALSE, preview |-> "none", edits |-> 0],
               [admin |-> admin], Add({}, "page", <<1>>), [n |-> 0, owner |-> owner, editors |-> {2}, text |-> 1, img |-> 1])
isOwner == ui.doc.owner = 1
Editable(d) == atom.admin \/ d.owner = 1 \/ 1 \in d.editors
FormOf(u, d) == [u EXCEPT !.text = d.text, !.img = d.img, !.file = FALSE]
Panel(u, d) == [FormOf(u, d) EXCEPT !.doc = d, !.tab = "seo", !.preview = "none", !.on = {}, !.edits = 0]
refreshed(u) == [u EXCEPT !.busy = {"load"}, !.req = @ + 1]
gotPage(r) ==
    /\ Replied(r, {"page"})
    /\ \/ r.arg[1] # ui.req /\ Done(r, ui)
       \/ r.arg[1] = ui.req /\ r.rep.ok /\ ~Editable(r.rep.val) /\ Quit("manage")
       \/ r.arg[1] = ui.req /\ r.rep.ok /\ Editable(r.rep.val) /\ Done(r, Idle(Panel(ui, r.rep.val), "load"))
       \/ r.arg[1] = ui.req /\ ~r.rep.ok /\ Done(r, Idle([ui EXCEPT !.doc = None], "load"))
\* Someone else's page:update is merged into the page that is shown.
pageUpdated ==
    /\ push # <<>> /\ push' = Tail(push) /\ UNCHANGED <<page, atom, net, db, subs>>
    /\ ui' = IF ui.doc = None \/ ui.doc.img = Head(push) THEN ui
             ELSE FormOf([ui EXCEPT !.doc.img = Head(push)], [ui.doc EXCEPT !.img = Head(push)])
PanelShown == "load" \notin ui.busy /\ ui.doc # None
dirtySEO == ui.text # ui.doc.text \/ ui.img # ui.doc.img \/ ui.file
SeoTab ==
    IF ~PanelShown \/ ui.tab # "seo" THEN {}
    ELSE (IF dirtySEO /\ "submit" \notin ui.busy THEN {"save"} ELSE {})
         \cup IF ui.edits = SeoEdits THEN {} ELSE {"edit"} \cup (IF ui.img # 0 \/ ui.file THEN {"clear"} ELSE {}) \cup (IF ui.text # 0 \/ ui.img # 0 \/ ui.file THEN {"automatic"} ELSE {})
setTab(t) == PanelShown /\ ui.tab # t /\ Set([ui EXCEPT !.tab = t, !.on = {}])
editSEO == "edit" \in SeoTab /\ ui.text # 3 /\ Set([ui EXCEPT !.text = 3, !.edits = @ + 1])
Imaged(i, f, p) == Set([ui EXCEPT !.img = i, !.file = f, !.preview = p, !.edits = @ + 1])
editSEOImage == "edit" \in SeoTab /\ Imaged(3, FALSE, "none")
clearSEOImage == "clear" \in SeoTab /\ Imaged(0, FALSE, "none")
selectUpload == "edit" \in SeoTab /\ Imaged(4, FALSE, "url")
chooseSEOFile(f) == "edit" \in SeoTab /\ Imaged(ui.img, f, IF f THEN "blob" ELSE "none")
automaticSEO == "automatic" \in SeoTab /\ Set([ui EXCEPT !.text = 0, !.img = 0, !.file = FALSE, !.preview = "none", !.edits = @ + 1])
\* onSubmit, with the values there are: a file is uploaded first.
Submission(n) == Add(n, IF ui.file THEN "upload" ELSE "seo", <<ui.req, ui.text, ui.img>>)
submits(u, n) ==
    /\ db.n < MaxChanges /\ Cardinality(n) < MaxFlight
    /\ ui' = Busy(u, "submit") /\ net' = Submission(n) /\ UNCHANGED <<page, atom, db, subs, push>>
submitSEO == "save" \in SeoTab /\ submits(ui, net)
seoFailed(r) == Done(r, IF r.arg[1] = ui.req THEN Idle(ui, "submit") ELSE ui)
seoUploaded(r) == Replied(r, {"upload"}) /\ IF r.rep.ok THEN Goes(r, ui, "seo", <<r.arg[1], r.arg[2], 4>>) ELSE seoFailed(r)
\* updatePageSEO, and the page is gone to, from whichever panel there is by then.
seoSaved(r) == Replied(r, {"seo"}) /\ IF r.rep.ok THEN Quit("manage") ELSE seoFailed(r)

\* PageOwnershipPanel, on the tab beside it.  It is rendered inside the form and
\* its buttons have no type: a click on one of them also submits the form.
canManage == atom.admin \/ isOwner
OwnerSection ==
    IF ~PanelShown \/ ui.tab # "access" \/ ~canManage THEN {}
    ELSE IF ui.doc.owner = 0 THEN {"pick"} ELSE {"pick"} \cup (IF atom.admin THEN {"clear"} ELSE {})
EditorSection ==
    IF ~PanelShown \/ ui.tab # "access" \/ ~canManage THEN {} ELSE IF "editors" \in ui.on THEN {"remove"} ELSE {"pick", "remove"}
openOwnerPicker == "pick" \in OwnerSection /\ "owner" \notin ui.on /\ submits(Open(ui, "owner"), net)
openEditorPicker == "pick" \in EditorSection /\ submits(Open(ui, "editors"), net)
closePickers(f) == PanelShown /\ f \in ui.on /\ Set(Close(ui, f))
handleSetOwner(u) == OwnerSection # {} /\ "owner" \in ui.on /\ u # 1 /\ Write(ui, "owner", <<u>>)
handleClearOwner == "clear" \in OwnerSection /\ submits(ui, Add(net, "owner", <<0>>))
editorExcludeIds == {1, ui.doc.owner} \cup ui.doc.editors
handleAddEditor(u) == EditorSection # {} /\ "editors" \in ui.on /\ u \notin editorExcludeIds /\ Write(ui, "add", <<u>>)
handleRemoveEditor(u) == "remove" \in EditorSection /\ u \in ui.doc.editors /\ submits(ui, Add(net, "remove", <<u>>))
accessChanged(r) ==
    /\ Replied(r, {"owner", "add", "remove"})
    /\ IF r.rep.ok THEN Goes(r, refreshed(ui), "page", <<ui.req + 1>>) ELSE Done(r, ui)
ManageServer(r) ==
    \/ r.op = "page" /\ Read(r, [owner |-> db.owner, editors |-> db.editors, text |-> db.text, img |-> db.img])
    \/ r.op = "upload" /\ Read(r, None)
    \/ /\ db.n < MaxChanges
       /\ \/ r.op = "seo" /\ Answer(r, [db EXCEPT !.text = r.arg[2], !.img = r.arg[3], !.n = @ + 1], None)
          \/ r.op = "owner" /\ Answer(r, [db EXCEPT !.owner = r.arg[1], !.n = @ + 1], None)
          \/ r.op = "add" /\ Answer(r, [db EXCEPT !.editors = @ \cup {r.arg[1]}, !.n = @ + 1], None)
          \/ r.op = "remove" /\ Answer(r, [db EXCEPT !.editors = @ \ {r.arg[1]}, !.n = @ + 1], None)
ManageNext ==
    /\ On("manage")
    /\ \/ pageUpdated \/ (\E t \in {"seo", "access"} : setTab(t))
       \/ editSEO \/ editSEOImage \/ clearSEOImage \/ selectUpload \/ automaticSEO \/ submitSEO \/ (\E f \in BOOLEAN : chooseSEOFile(f))
       \/ openOwnerPicker \/ openEditorPicker \/ handleClearOwner \/ (\E f \in {"owner", "editors"} : closePickers(f))
       \/ (\E u \in People : handleSetOwner(u) \/ handleAddEditor(u) \/ handleRemoveEditor(u))
       \/ Changes([db EXCEPT !.img = 2], <<2>>) \/ Changes([db EXCEPT !.editors = {1, 2}], <<>>)
       \/ \E r \in net : gotPage(r) \/ seoUploaded(r) \/ seoSaved(r) \/ accessChanged(r) \/ ManageServer(r)

-----------------------------------------------------------------------------
(* The site's SEO and visuals: one form on two tabs, with three media.  A  *)
(* URL is "", "typed" or "uploaded".                                       *)

Media == {"og", "skin", "video"}
MetaEdits == 3      \* bound: changes made to the form

MetaInit ==
    Begins("meta", [busy |-> {}, on |-> {"described"}, tab |-> "seo", urls |-> [m \in Media |-> "typed"], files |-> {}, edits |-> 0],
           [n |-> 0], {}, [n |-> 0, urls |-> [m \in Media |-> "typed"]])
MetaFields == IF ui.tab = "seo" THEN {"og"} ELSE {"skin", "video"}
\* A field is typed into, given a file, an upload of the library, or reset.
MediaFileField(m, url, file) ==
    /\ m \in MetaFields /\ ui.edits < MetaEdits
    /\ Set([ui EXCEPT !.urls[m] = url, !.files = IF file THEN @ \cup {m} ELSE @ \ {m}, !.edits = @ + 1])
editMedia(m) ==
    \/ MediaFileField(m, "typed", m \in ui.files) \/ MediaFileField(m, ui.urls[m], m \notin ui.files)
    \/ MediaFileField(m, "uploaded", FALSE) \/ MediaFileField(m, "", FALSE)
editDescription == ui.tab = "seo" /\ ui.edits < MetaEdits /\ Set([Toggle(ui, "described") EXCEPT !.edits = @ + 1])
openMetaTab(t) == t # ui.tab /\ Set([ui EXCEPT !.tab = t])
\* onSubmit: the files one after the other, then the configuration.
FirstFile(fs) == IF "og" \in fs THEN "og" ELSE IF "skin" \in fs THEN "skin" ELSE "video"
saveStep(fs) == IF fs = {} THEN "put" ELSE "upload"
submitMeta ==
    /\ "submit" \notin ui.busy /\ (ui.tab = "seo" => "described" \in ui.on)
    /\ Write(Busy(ui, "submit"), saveStep(ui.files), <<ui.files, ui.urls>>)
metaUploaded(r) ==
    /\ Replied(r, {"upload"})
    /\ LET m == FirstFile(r.arg[1])
           fs == r.arg[1] \ {m}
       IN  IF r.rep.ok THEN Goes(r, ui, saveStep(fs), <<fs, [r.arg[2] EXCEPT ![m] = "uploaded"]>>) ELSE Done(r, Idle(ui, "submit"))
\* The browser reloads the site with its new settings.
metaSaved(r) == Replied(r, {"put"}) /\ IF r.rep.ok THEN Quit("meta") ELSE Done(r, Idle(ui, "submit"))
MetaServer(r) ==
    \/ r.op = "upload" /\ Read(r, None)
    \/ r.op = "put" /\ db.n < MaxChanges /\ Answer(r, [db EXCEPT !.urls = r.arg[2], !.n = @ + 1], None)
MetaNext ==
    /\ On("meta")
    /\ \/ editDescription \/ submitMeta \/ (\E m \in Media : editMedia(m)) \/ (\E t \in {"seo", "visuals"} : openMetaTab(t))
       \/ \E r \in net : metaUploaded(r) \/ metaSaved(r) \/ MetaServer(r)

-----------------------------------------------------------------------------
(* The search for people: inline, or as a menu (glass) that shows results  *)
(* of a query only.  Query 1 finds all but the first person.  ui.excl is   *)
(* who is left out; the lists given to it are made anew by every render of *)
(* its parent, which therefore searches again.                             *)

PickerInit ==
    \E glass \in BOOLEAN :
        Begins("picker", [busy |-> IF glass THEN {} ELSE {"load"}, on |-> IF glass THEN {} ELSE {"timer"}, query |-> 0, excl |-> {1},
                          results |-> <<>>, offset |-> 0, more |-> ~glass],
               [glass |-> glass], {}, [n |-> 0, users |-> <<1, 2, 3>>])
\* The effect of a query or of a new list: the timer before is cleared.
debouncedSearch(u) ==
    IF atom.glass /\ u.query = 0 THEN Close(Idle([u EXCEPT !.results = <<>>, !.offset = 0, !.more = FALSE], "load"), "timer")
    ELSE Open(Busy([u EXCEPT !.offset = 0, !.more = TRUE], "load"), "timer")
setQuery == Set(debouncedSearch([ui EXCEPT !.query = 1 - @]))
parentRenders == ~atom.glass /\ Set(debouncedSearch(ui))
searchDue == "timer" \in ui.on /\ Call(Close(ui, "timer"), "search", <<ui.query, 0, ui.excl>>)
Kept(us, excl) == SelectSeq(us, LAMBDA x : x \notin excl)
gotPeople(r) ==
    /\ Replied(r, {"search"})
    /\ Done(r, Idle(IF r.rep.ok THEN [ui EXCEPT !.results = Kept(r.rep.val, r.arg[3]), !.offset = RowLimit, !.more = Len(r.rep.val) >= RowLimit]
                    ELSE [ui EXCEPT !.results = <<>>], "load"))
\* handleScroll near the end of the inline list.
loadMorePeople == ~atom.glass /\ "more" \notin ui.busy /\ ui.more /\ Call(Busy(ui, "more"), "more", <<ui.query, ui.offset, ui.excl>>)
gotMorePeople(r) ==
    /\ Replied(r, {"more"})
    /\ Done(r, Idle(IF r.rep.ok THEN [ui EXCEPT !.results = @ \o Kept(r.rep.val, r.arg[3] \cup ElementsOf(@)), !.offset = @ + RowLimit,
                                                !.more = Len(r.rep.val) >= RowLimit]
                    ELSE ui, "more"))
shouldShowGlassMenu == atom.glass /\ "focused" \in ui.on /\ ui.query # 0
glassMenuOptions == IF "load" \in ui.busy THEN {} ELSE ElementsOf(ui.results)
PickerRows == IF ~atom.glass THEN ElementsOf(ui.results) ELSE IF shouldShowGlassMenu THEN glassMenuOptions ELSE {}
\* The menu is cleared; the inline list's parent leaves out who was chosen.
handleSelect(p) ==
    /\ p \in PickerRows
    /\ Set(debouncedSearch(IF atom.glass THEN [ui EXCEPT !.query = 0, !.results = <<>>, !.offset = 0, !.more = FALSE]
                           ELSE [ui EXCEPT !.excl = @ \cup {p}]))
\* Focus, and its loss after a moment in which a row can still be clicked.
pickerFocus == atom.glass /\ Set(Open(Close(ui, "blurring"), "focused"))
pickerBlur == "focused" \in ui.on /\ Set(Open(ui, "blurring"))
pickerBlurred == "blurring" \in ui.on /\ Set([ui EXCEPT !.on = @ \ {"blurring", "focused"}])
pickerEscape == IF atom.glass THEN shouldShowGlassMenu /\ Set(Close(ui, "focused")) ELSE Quit("picker")
PickerServer(r) == r.op \in {"search", "more"} /\ Read(r, Rows(IF r.arg[1] = 0 THEN db.users ELSE Tail(db.users), r.arg[2]))
PickerNext ==
    /\ On("picker")
    /\ \/ setQuery \/ parentRenders \/ searchDue \/ loadMorePeople \/ (\E p \in ElementsOf(db.users) : handleSelect(p))
       \/ pickerFocus \/ pickerBlur \/ pickerBlurred \/ pickerEscape
       \/ \E r \in net : gotPeople(r) \/ gotMorePeople(r) \/ PickerServer(r)

-----------------------------------------------------------------------------
(* The choice of an image: a local file, or one of the user's uploads in a *)
(* dialog, whose request is of no account once it is closed (ui.dialog     *)
(* counts the dialogs opened).                                             *)

MaxDialogs == 2     \* bound: dialogs opened

FilesInit ==
    \E user \in BOOLEAN :
        Begins("files", [busy |-> {}, on |-> {}, dialog |-> 0, uploads |-> {}, chosen |-> None],
               [user |-> user], {}, [n |-> 0, uploads |-> {"image", "video"}])
chooseFile(f) == "picker" \notin ui.on /\ f # ui.chosen /\ Set([ui EXCEPT !.chosen = f])
FreshDialog(u) == Open([u EXCEPT !.dialog = @ + 1, !.uploads = {}, !.on = @ \ {"error"}], "picker")
openUploads ==
    /\ "picker" \notin ui.on /\ ui.dialog < MaxDialogs
    /\ IF atom.user THEN Call(Busy(FreshDialog(ui), "load"), "uploads", ui.dialog + 1) ELSE Set(Open(FreshDialog(ui), "error"))
closeUploads(u) == "picker" \in ui.on /\ Set(Idle(Close(u, "picker"), "load"))
gotUploads(r) ==
    /\ Replied(r, {"uploads"})
    /\ Done(r, IF "picker" \notin ui.on \/ r.arg # ui.dialog THEN ui
               ELSE Idle(IF r.rep.ok THEN [ui EXCEPT !.uploads = r.rep.val] ELSE Open(ui, "error"), "load"))
UploadLibraryDialog == IF "picker" \in ui.on THEN ui.uploads \cap {"image"} ELSE {}
selectFromLibrary(f) == f \in UploadLibraryDialog /\ closeUploads([ui EXCEPT !.chosen = f])
FilesNext ==
    /\ On("files")
    /\ \/ (\E f \in {None, "file"} : chooseFile(f)) \/ openUploads \/ closeUploads(ui) \/ (\E f \in {"image", "video"} : selectFromLibrary(f))
       \/ \E r \in net : gotUploads(r) \/ (r.op = "uploads" /\ Read(r, db.uploads))

-----------------------------------------------------------------------------
(* The scraper's jobs: asked for once, then pushed.                        *)

BadgeInit ==
    \E can \in BOOLEAN : Begins("badge", [busy |-> {}, metrics |-> None], [can |-> can], Add({}, "jobs", None), [n |-> 0, jobs |-> 1])
gotJobs(r) == Replied(r, {"jobs"}) /\ Done(r, IF r.rep.ok THEN [ui EXCEPT !.metrics = r.rep.val] ELSE ui)
handleJobsUpdate ==
    /\ push # <<>> /\ push' = Tail(push) /\ ui' = [ui EXCEPT !.metrics = Head(push)] /\ UNCHANGED <<page, atom, net, db, subs>>
JobsBadge == IF ui.metrics # None /\ atom.can /\ "restart" \notin ui.busy THEN {"restart"} ELSE {}
handleRestart == "restart" \in JobsBadge /\ Write(Busy(ui, "restart"), "restart", None)
restarted(r) == Replied(r, {"restart"}) /\ Done(r, Idle(ui, "restart"))
BadgeServer(r) ==
    \/ r.op = "jobs" /\ Read(r, db.jobs)
    \/ r.op = "restart" /\ db.n < MaxChanges /\ AnswerPush(r, [db EXCEPT !.jobs = 0, !.n = @ + 1], None, <<0>>)
BadgeNext ==
    /\ On("badge")
    /\ \/ handleJobsUpdate \/ handleRestart \/ Changes([db EXCEPT !.jobs = 2], <<2>>)
       \/ \E r \in net : gotJobs(r) \/ restarted(r) \/ BadgeServer(r)

-----------------------------------------------------------------------------
(* The reset of a password with the token of the link.                     *)

ResetInit ==
    \E token \in BOOLEAN : Begins("reset", [busy |-> {}, on |-> {}], [token |-> token], {}, [n |-> 0])
ResetForm == IF "done" \in ui.on \/ "submit" \in ui.busy THEN {} ELSE {"edit"} \cup (IF "valid" \in ui.on THEN {"submit"} ELSE {})
editPassword == "edit" \in ResetForm /\ Set(Toggle(ui, "valid"))
handleReset ==
    /\ "submit" \in ResetForm
    /\ IF atom.token THEN Call(Busy(Close(ui, "status"), "submit"), "reset", None) ELSE Set(Open(ui, "status"))
passwordReset(r) == Replied(r, {"reset"}) /\ Done(r, Idle(Open(ui, IF r.rep.ok THEN "done" ELSE "status"), "submit"))
\* Go to login, or back to it.
toLogin == Quit("reset")
ResetNext ==
    /\ On("reset")
    /\ \/ editPassword \/ handleReset \/ toLogin
       \/ \E r \in net : passwordReset(r) \/ (r.op = "reset" /\ Read(r, None))
=============================================================================
