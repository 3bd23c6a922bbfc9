---------------------------- MODULE AccountPages ----------------------------
(***************************************************************************)
(* Accounts and what belongs to them: page "uploads" is UserUploads, page  *)
(* "roles" RolesManagementPage, page "security" SettingsPage with          *)
(* SecuritySettings, page "profile" ProfileSettings with useProfileEdit,   *)
(* page "person" useUserData with the panels that manage another user.     *)
(* A confirmation is a modal dialog: cancelled, it changes nothing, so an  *)
(* action that asks for one is the confirmed action.                       *)
(***************************************************************************)
EXTENDS Spa

-----------------------------------------------------------------------------
(* Uploads.  ui.list: the files shown; ui.sel: those selected; ui.last:    *)
(* where a range starts; deleting: those whose deletion is in flight.      *)

FileUrls == {"f1", "f2"}
FileOrder == [f \in FileUrls |-> IF f = "f1" THEN 1 ELSE 2]
UploadsInit ==
    \E mode \in {"own", "other", "search", "external"} :
        Begins("uploads",
               [busy |-> IF mode = "external" THEN {} ELSE {"load"}, mode |-> mode,
                list |-> IF mode = "external" THEN FileUrls ELSE {}, error |-> FALSE, deleting |-> {}, sel |-> {},
                last |-> None, preview |-> None],
               [n |-> 0], IF mode = "external" THEN {} ELSE Add({}, "uploads", {}), [n |-> 0, files |-> FileUrls])

\* fetchUploads: on arrival, and whenever something says the uploads changed.
fetchUploads == IF ui.mode = "external" THEN Set([ui EXCEPT !.list = FileUrls]) ELSE Call(Busy(ui, "load"), "uploads", {})
gotUploads(r) ==
    /\ Replied(r, {"uploads"})
    /\ Done(r, Idle(IF r.rep.ok THEN [ui EXCEPT !.list = r.rep.val, !.error = FALSE]
                    ELSE [ui EXCEPT !.error = TRUE], "load"))

filteredUploads == IF ui.mode = "search" THEN ui.list \cap {"f1"} ELSE ui.list
Shown == "load" \notin ui.busy /\ ~ui.error
UploadToolbar ==
    IF ~Shown THEN {}
    ELSE (IF ui.mode # "other" THEN {"upload"} ELSE {}) \cup (IF filteredUploads # {} THEN {"all"} ELSE {})
         \cup (IF ui.mode # "other" /\ ui.sel # {} /\ ui.list # {} THEN {"deleteSelected"} ELSE {})
CardActions(u) ==
    IF ~Shown \/ u \notin filteredUploads THEN {}
    ELSE {"open", "select"} \cup (IF ui.mode # "other" /\ u \notin ui.deleting THEN {"delete"} ELSE {})

handleDelete(u) == "delete" \in CardActions(u) /\ Write([ui EXCEPT !.deleting = @ \cup {u}], "remove", {u})
handleMultiDelete == "deleteSelected" \in UploadToolbar /\ Write([ui EXCEPT !.deleting = @ \cup ui.sel], "removeAll", ui.sel)
\* Both take the files off the list and close a preview that shows one; the second
\* clears the whole selection.  (fetchStorage only moves the bar above the list.)
Removed(r) ==
    [ui EXCEPT !.deleting = @ \ r.arg, !.list = @ \ r.arg, !.sel = IF r.op = "remove" THEN @ \ r.arg ELSE {},
               !.preview = IF @ \in r.arg THEN None ELSE @]
deletedUploads(r) ==
    /\ Replied(r, {"remove", "removeAll"})
    /\ Done(r, IF r.rep.ok THEN Removed(r) ELSE [ui EXCEPT !.deleting = @ \ r.arg])
\* handleSelect: with shift, everything between the last one selected and this.
Between(a, b) == {u \in filteredUploads : FileOrder[u] \in (FileOrder[a]..FileOrder[b]) \cup (FileOrder[b]..FileOrder[a])}
handleSelect(u, shift) ==
    /\ "select" \in CardActions(u)
    /\ Set(IF shift /\ ui.last # None
           THEN [ui EXCEPT !.sel = @ \cup (IF ui.last \in filteredUploads THEN Between(ui.last, u) ELSE {})]
           ELSE [ui EXCEPT !.sel = IF u \in @ THEN @ \ {u} ELSE @ \cup {u}, !.last = u])
toggleSelectAll ==
    /\ "all" \in UploadToolbar
    /\ Set([ui EXCEPT !.sel = IF Cardinality(@) = Cardinality(filteredUploads) THEN {} ELSE filteredUploads])
setSelectedUpload(u) == "open" \in CardActions(u) /\ Set([ui EXCEPT !.preview = IF @ = u THEN None ELSE u])
\* handleFileUpload: the list is fetched again, but not waited for.
handleFileUpload == "upload" \in UploadToolbar /\ Write(Busy(ui, "load"), "upload", {"f2"})
uploadedFile(r) ==
    /\ Replied(r, {"upload"})
    /\ \/ r.rep.ok /\ Goes(r, Idle(ui, "load"), "uploads", {})
       \/ ~r.rep.ok /\ Done(r, Idle([ui EXCEPT !.error = TRUE], "load"))

UploadsServer(r) ==
    \/ r.op = "uploads" /\ Read(r, db.files)
    \/ r.op # "uploads" /\ db.n < MaxChanges
       /\ Answer(r, [db EXCEPT !.files = IF r.op = "upload" THEN @ \cup r.arg ELSE @ \ r.arg, !.n = @ + 1], None)

UploadsNext ==
    /\ On("uploads")
    /\ \/ fetchUploads \/ handleMultiDelete \/ toggleSelectAll \/ handleFileUpload
       \/ \E u \in FileUrls : handleDelete(u) \/ setSelectedUpload(u) \/ (\E s \in BOOLEAN : handleSelect(u, s))
       \/ \E r \in net : gotUploads(r) \/ deletedUploads(r) \/ uploadedFile(r) \/ UploadsServer(r)

-----------------------------------------------------------------------------
(* Roles.  Of a role: whether it holds the permission, whether the user    *)
(* has it.  ui.roles[i] is what is shown, None where it is not loaded.     *)

RoleIds == {"a", "b"}
WithRole(f, i) == [j \in DOMAIN f \cup {i} |-> IF j = i THEN [perm |-> FALSE, user |-> FALSE] ELSE f[j]]
WithoutRole(f, i) == [j \in DOMAIN f \ {i} |-> f[j]]
RolesInit ==
    Begins("roles", [busy |-> {"load"}, on |-> {}, roles |-> <<>>, error |-> FALSE, named |-> FALSE, editing |-> None,
                     section |-> "display", saving |-> None, deleting |-> None, toggling |-> {}],
           [n |-> 0], Add({}, "roles", None), [n |-> 0, roles |-> WithRole(<<>>, "a")])

gotRoles(r) ==
    /\ Replied(r, {"roles"})
    /\ Done(r, Idle(IF r.rep.ok THEN [ui EXCEPT !.roles = [i \in r.rep.val |-> [perm |-> None, user |-> None]]]
                    ELSE [ui EXCEPT !.error = TRUE], "load"))
ShowRole(i, f, v) == IF i \in DOMAIN ui.roles THEN [ui EXCEPT !.roles[i][f] = v] ELSE ui

CreateForm == IF "create" \in ui.on THEN {"name", "submit"} ELSE {}
Header(i) ==
    IF "load" \in ui.busy \/ ui.error \/ i \notin DOMAIN ui.roles THEN {}
    ELSE {IF ui.editing = i THEN "cancel" ELSE "edit"} \cup (IF ui.deleting = i THEN {} ELSE {"delete"})
Editing(i) == "cancel" \in Header(i)
DisplaySection(i) == IF Editing(i) /\ ui.section = "display" /\ ui.saving # i THEN {"save"} ELSE {}
FeatureSection(i) == IF Editing(i) /\ ui.section = "features" /\ ui.saving # i THEN {"save"} ELSE {}
PermissionSection(i) ==
    IF Editing(i) /\ ui.section = "permissions" /\ ui.roles[i].perm # None /\ i \notin ui.toggling THEN {"toggle"} ELSE {}
UserSection(i) ==
    IF Editing(i) /\ ui.section = "users" THEN (IF ui.roles[i].user = TRUE THEN {"remove"} ELSE {"add"}) ELSE {}

setShowCreate == "load" \notin ui.busy /\ ~ui.error /\ Set(Toggle(ui, "create"))
setCreateName == "name" \in CreateForm /\ Set([ui EXCEPT !.named = ~@])
createRole == "submit" \in CreateForm /\ ui.named /\ "create" \notin ui.busy /\ Write(Busy(ui, "create"), "create", "b")
startEdit(i) == "edit" \in Header(i) /\ Set([ui EXCEPT !.editing = i, !.section = "display"])
cancelEdit(i) == "cancel" \in Header(i) /\ Set([ui EXCEPT !.editing = None, !.section = None])
\* toggleEditSection: permissions and users are fetched when first shown.
toggleEditSection(i, s) ==
    LET u == [ui EXCEPT !.section = IF @ = s THEN None ELSE s]
        f == IF s = "permissions" THEN "perm" ELSE "user" IN
    /\ Editing(i)
    /\ IF ui.section # s /\ s \in {"permissions", "users"} /\ ui.roles[i][f] = None THEN Call(u, f, i) ELSE Set(u)
saveEdit(i) == "save" \in DisplaySection(i) \cup FeatureSection(i) /\ Call([ui EXCEPT !.saving = i], "save", i)
deleteRole(i) == "delete" \in Header(i) /\ Write([ui EXCEPT !.deleting = i], "delete", i)
\* toggleRolePerm: shown at once, undone when the request fails.
toggleRolePerm(i) ==
    /\ "toggle" \in PermissionSection(i)
    /\ Write([ui EXCEPT !.toggling = @ \cup {i}, !.roles[i].perm = ~@], IF ui.roles[i].perm THEN "revoke" ELSE "grant", i)
addUserToRole(i) == "add" \in UserSection(i) /\ Write(ui, "add", i)
removeUserFromRole(i) == "remove" \in UserSection(i) /\ Write(ui, "drop", i)

\* What each reply does: loadRolePerms and the users of a role, ...
loadedRole(r) ==
    Replied(r, {"perm", "user"}) /\ Done(r, IF r.rep.ok THEN ShowRole(r.arg, r.op, r.rep.val) ELSE ui)
\* ... the edit, whose success closes whichever editor is open by then, ...
savedRole(r) == Replied(r, {"save"}) /\ Done(r, [ui EXCEPT !.saving = None, !.editing = IF r.rep.ok THEN None ELSE @])
deletedRole(r) ==
    /\ Replied(r, {"delete"})
    /\ Done(r, [ui EXCEPT !.deleting = None, !.roles = IF r.rep.ok THEN WithoutRole(@, r.arg) ELSE @])
createdRole(r) ==
    /\ Replied(r, {"create"})
    /\ Done(r, IF r.rep.ok
               THEN [Close(Idle(ui, "create"), "create") EXCEPT !.named = FALSE,
                        !.roles = WithRole(@, r.arg)]
               ELSE Idle(ui, "create"))
\* ... a permission, and a user of it, if its users are loaded.
toggledRolePerm(r) ==
    /\ Replied(r, {"grant", "revoke"})
    /\ LET u == [ui EXCEPT !.toggling = @ \ {r.arg}] IN
       Done(r, IF ~r.rep.ok /\ r.arg \in DOMAIN u.roles /\ u.roles[r.arg].perm # None
               THEN [u EXCEPT !.roles[r.arg].perm = (r.op = "revoke")] ELSE u)
changedUserOfRole(r) ==
    /\ Replied(r, {"add", "drop"})
    /\ Done(r, IF r.rep.ok /\ r.arg \in DOMAIN ui.roles /\ ui.roles[r.arg].user # None
               THEN ShowRole(r.arg, "user", r.op = "add") ELSE ui)

Enacted(op, i) ==
    CASE op \in {"grant", "revoke"} -> [db.roles EXCEPT ![i].perm = (op = "grant")]
      [] op \in {"add", "drop"} -> [db.roles EXCEPT ![i].user = (op = "add")]
      [] op = "delete" -> WithoutRole(db.roles, i)
      [] op = "create" -> WithRole(db.roles, i)
RolesServer(r) ==
    \/ r.op = "roles" /\ Read(r, DOMAIN db.roles)
    \/ r.op \in {"perm", "user"} /\ r.arg \in DOMAIN db.roles /\ Read(r, db.roles[r.arg][r.op])
    \/ r.op = "save" /\ r.arg \in DOMAIN db.roles /\ Read(r, None)
    \/ /\ r.op \in {"grant", "revoke", "add", "drop", "delete", "create"} /\ db.n < MaxChanges
       /\ (r.op = "create") = (r.arg \notin DOMAIN db.roles)
       /\ Answer(r, [db EXCEPT !.roles = Enacted(r.op, r.arg), !.n = @ + 1], None)

RolesNext ==
    /\ On("roles")
    /\ \/ setShowCreate \/ setCreateName \/ createRole
       \/ \E i \in RoleIds : \/ startEdit(i) \/ cancelEdit(i) \/ saveEdit(i) \/ deleteRole(i)
                             \/ toggleRolePerm(i) \/ addUserToRole(i) \/ removeUserFromRole(i)
                             \/ \E s \in {"display", "features", "permissions", "users"} : toggleEditSection(i, s)
       \/ \E r \in net : \/ gotRoles(r) \/ loadedRole(r) \/ savedRole(r) \/ deletedRole(r) \/ createdRole(r)
                         \/ toggledRolePerm(r) \/ changedUserOfRole(r) \/ RolesServer(r)

-----------------------------------------------------------------------------
(* Security settings, of one's own account or (ui.admin) of another's.     *)
(* ui.dialog: what covers the page, the setup dialog and, over it, the     *)
(* backup codes; ui.totp: the status SettingsPage last fetched.  The       *)
(* account's e-mail is not verified.                                       *)

SecurityInit ==
    \E admin, t \in BOOLEAN :
        Begins("security", [busy |-> {}, admin |-> admin, totp |-> FALSE, dialog |-> {}, code |-> FALSE, error |-> FALSE,
                            gen |-> 0],
               [n |-> 0], Add({}, "status", 0), [n |-> 0, totp |-> t])

AdminCodesView == IF ui.admin /\ "codes" \in ui.dialog THEN {"close"} ELSE {}
AdminSetupView ==
    IF ui.admin /\ ui.dialog = {"setup"}
    THEN {"code", "dismiss"} \cup (IF "totp" \in ui.busy THEN {} ELSE {"close"} \cup (IF ui.code THEN {"enable"} ELSE {})) ELSE {}
AdminPanel ==
    IF ui.admin /\ ui.dialog = {}
    THEN {"generate"} \cup (IF "totp" \in ui.busy THEN {} ELSE {IF ui.totp THEN "disable" ELSE "setup"}) ELSE {}
CodesView == IF ~ui.admin /\ "codes" \in ui.dialog THEN {"close"} ELSE {}
SetupView ==
    IF ~ui.admin /\ ui.dialog = {"setup"}
    THEN {"code", "dismiss"} \cup (IF "totp" \in ui.busy THEN {} ELSE {"close"} \cup (IF ui.code THEN {"enable"} ELSE {})) ELSE {}
MainPanel ==
    IF ~ui.admin /\ ui.dialog = {}
    THEN {"resend", "password"} \cup (IF "totp" \in ui.busy THEN {} ELSE {IF ui.totp THEN "disable" ELSE "setup"}) ELSE {}
SecurityView == AdminCodesView \cup AdminSetupView \cup AdminPanel \cup CodesView \cup SetupView \cup MainPanel

totpCall(op) == op \in SecurityView /\ Call(Busy([ui EXCEPT !.error = FALSE], "totp"), op, ui.gen)
adminHandlers == ui.admin /\ \E op \in {"setup", "enable", "disable", "generate"} : totpCall(op)
ownHandlers == ~ui.admin /\ \E op \in {"setup", "enable", "disable"} : totpCall(op)
setSetupCode == "code" \in SecurityView /\ Set([ui EXCEPT !.code = ~@])
\* The close button forgets the code, a click beside the dialog keeps it.
closeDialog ==
    \/ /\ "close" \in SecurityView
       /\ Set(IF "codes" \in ui.dialog THEN [ui EXCEPT !.dialog = @ \ {"codes"}]
              ELSE [ui EXCEPT !.dialog = {}, !.code = FALSE, !.error = FALSE])
    \/ "dismiss" \in SecurityView /\ Set([ui EXCEPT !.dialog = {}])
handleResendVerification ==
    "resend" \in SecurityView /\ "verify" \notin ui.busy /\ Call(Busy(ui, "verify"), "resend", ui.gen)
changePassword ==
    "password" \in SecurityView /\ "password" \notin ui.busy /\ Call(Busy(ui, "password"), "password", ui.gen)

\* onUpdate: the status is fetched anew; of an older fetch the reply is ignored.
onUpdate(r, u) == Goes(r, [u EXCEPT !.gen = 1 - @], "status", 1 - ui.gen)
totpDone(r) ==
    /\ Replied(r, {"setup", "enable", "disable", "generate"})
    /\ LET u == Idle(ui, "totp") IN
       \/ ~r.rep.ok /\ Done(r, [u EXCEPT !.error = TRUE])
       \/ r.rep.ok /\ r.op = "setup" /\ Done(r, [u EXCEPT !.dialog = @ \cup {"setup"}])
       \/ r.rep.ok /\ r.op = "generate" /\ Done(r, [u EXCEPT !.dialog = @ \cup {"codes"}])
       \/ r.rep.ok /\ r.op = "enable" /\ onUpdate(r, [u EXCEPT !.dialog = {"codes"}, !.code = FALSE])
       \/ r.rep.ok /\ r.op = "disable" /\ onUpdate(r, u)
gotStatus(r) ==
    Replied(r, {"status"}) /\ Done(r, IF r.arg = ui.gen THEN [ui EXCEPT !.totp = r.rep.ok /\ r.rep.val = TRUE] ELSE ui)
sentVerification(r) == Replied(r, {"resend"}) /\ Done(r, Idle(ui, "verify"))
passwordChanged(r) == Replied(r, {"password"}) /\ Done(r, Idle(ui, "password"))

SecurityServer(r) ==
    \/ r.op = "status" /\ Read(r, db.totp)
    \/ r.op \in {"setup", "generate", "resend", "password"} /\ Read(r, None)
    \/ r.op \in {"enable", "disable"} /\ Answer(r, [db EXCEPT !.totp = (r.op = "enable")], None)

SecurityNext ==
    /\ On("security")
    /\ \/ adminHandlers \/ ownHandlers \/ setSetupCode \/ closeDialog \/ handleResendVerification \/ changePassword
       \/ \E r \in net : totpDone(r) \/ gotStatus(r) \/ sentVerification(r) \/ passwordChanged(r) \/ SecurityServer(r)

-----------------------------------------------------------------------------
(* The profile form.  Of each picture: the url in the form and whether a   *)
(* file is chosen; a saved picture is known by the version it was given.   *)

Pictures == {"avatar", "art"}
ProfileInit ==
    Begins("profile", [busy |-> {}, url |-> [p \in Pictures |-> 0], file |-> [p \in Pictures |-> FALSE], error |-> FALSE],
           [n |-> 0], {}, [n |-> 0, profile |-> [p \in Pictures |-> 0], stored |-> 0])

ProfileForm == IF "save" \in ui.busy THEN {"pick", "clear"} ELSE {"pick", "clear", "submit"}
changePicture(p) == "pick" \in ProfileForm /\ ~ui.file[p] /\ Set([ui EXCEPT !.file[p] = TRUE])
clearPicture(p) == "clear" \in ProfileForm /\ Set([ui EXCEPT !.file[p] = FALSE, !.url[p] = 0])
\* handleSave: the files chosen are uploaded one after the other, then all is
\* sent; whatever comes of it, the files are forgotten.  r.arg: the urls so far
\* and the files still to go.
ToUpload(files) == {p \in Pictures : files[p]}
SaveNext(urls, files) ==
    IF ToUpload(files) = {} THEN [op |-> "put", arg |-> [urls |-> urls, files |-> files]]
    ELSE [op |-> "upload", arg |-> [urls |-> urls, files |-> files]]
handleProfileSave ==
    /\ "submit" \in ProfileForm
    /\ LET c == SaveNext(ui.url, ui.file) IN Call(Busy([ui EXCEPT !.error = FALSE], "save"), c.op, c.arg)
Forgotten(u) == Idle([u EXCEPT !.file = [p \in Pictures |-> FALSE]], "save")
uploadedPicture(r) ==
    /\ Replied(r, {"upload"})
    /\ \/ ~r.rep.ok /\ Done(r, Forgotten([ui EXCEPT !.error = TRUE]))
       \/ r.rep.ok /\ LET p == CHOOSE q \in ToUpload(r.arg.files) : TRUE
                          c == SaveNext([r.arg.urls EXCEPT ![p] = r.rep.val], [r.arg.files EXCEPT ![p] = FALSE])
                      IN  Goes(r, ui, c.op, c.arg)
putProfile(r) == Replied(r, {"put"}) /\ Done(r, Forgotten(IF r.rep.ok THEN ui ELSE [ui EXCEPT !.error = TRUE]))

ProfileServer(r) ==
    \/ r.op = "upload" /\ db.stored < MaxChanges /\ Answer(r, [db EXCEPT !.stored = @ + 1], db.stored + 1)
    \/ r.op = "put" /\ Answer(r, [db EXCEPT !.profile = r.arg.urls], None)
ProfileNext ==
    /\ On("profile")
    /\ \/ \E p \in Pictures : changePicture(p) \/ clearPicture(p)
       \/ handleProfileSave
       \/ \E r \in net : uploadedPicture(r) \/ putProfile(r) \/ ProfileServer(r)

-----------------------------------------------------------------------------
(* A person managed by another: ui.chosen is who is selected in the list,  *)
(* ui.user who the last reply was about, with the permission shown.        *)

People == {"x", "y"}
PersonInit ==
    \E power \in BOOLEAN :
        Begins("person", [busy |-> {}, chosen |-> None, user |-> None, has |-> FALSE, toggling |-> {},
                          power |-> power, found |-> {}, query |-> FALSE],
               [n |-> 0], {}, [n |-> 0, has |-> [p \in People |-> FALSE]])

\* The list: an answer is shown whatever has been typed since.
handleSearch(q) ==
    IF ~q THEN ui.query /\ Set([ui EXCEPT !.query = FALSE, !.found = {}])
    ELSE ~ui.query /\ Call([ui EXCEPT !.query = TRUE], "search", None)
searchedPeople(r) == Replied(r, {"search"}) /\ Done(r, [ui EXCEPT !.found = IF r.rep.ok THEN People ELSE {}])
setSelectedUserId(p) == p \in ui.found \ {ui.chosen} /\ Call(Busy([ui EXCEPT !.chosen = p], "load"), "user", p)
gotUser(r) ==
    /\ Replied(r, {"user"})
    /\ Done(r, Idle(IF r.rep.ok THEN [ui EXCEPT !.user = r.arg, !.has = r.rep.val] ELSE ui, "load"))

ManageWrapper == "load" \notin ui.busy /\ ui.user # None
ManagePanel == IF ManageWrapper /\ ui.power /\ "perm" \notin ui.toggling THEN {"toggle"} ELSE {}

\* Shown at once; a failure puts back what the handler had found, to whoever is
\* shown by then.
handlePermissionToggle ==
    /\ "toggle" \in ManagePanel
    /\ Call([ui EXCEPT !.has = ~@, !.toggling = @ \cup {"perm"}], IF ui.has THEN "revoke" ELSE "grant", ui.user)
handleRoleToggle ==
    /\ ManageWrapper /\ ui.power /\ "role" \notin ui.toggling
    /\ Call([ui EXCEPT !.toggling = @ \cup {"role"}], "role", ui.user)
toggledPermission(r) ==
    /\ Replied(r, {"grant", "revoke"})
    /\ Done(r, [ui EXCEPT !.toggling = @ \ {"perm"}, !.has = IF r.rep.ok THEN @ ELSE r.op = "revoke"])
toggledRole(r) == Replied(r, {"role"}) /\ Done(r, [ui EXCEPT !.toggling = @ \ {"role"}])
\* A broadcast change of the person shown.
profileUpdated ==
    /\ push # <<>> /\ push' = Tail(push)
    /\ ui' = IF Head(push).who = ui.chosen /\ ui.user # None THEN [ui EXCEPT !.has = Head(push).has] ELSE ui
    /\ UNCHANGED <<page, atom, net, db, subs>>

PersonServer(r) ==
    \/ r.op = "search" /\ Read(r, None)
    \/ r.op = "user" /\ Read(r, db.has[r.arg])
    \/ r.op \in {"grant", "revoke"} /\ db.n < MaxChanges
       /\ AnswerPush(r, [db EXCEPT !.has[r.arg] = (r.op = "grant"), !.n = @ + 1], None, <<[who |-> r.arg, has |-> r.op = "grant"]>>)
    \/ r.op = "role" /\ Read(r, None)

PersonNext ==
    /\ On("person")
    /\ \/ \E q \in BOOLEAN : handleSearch(q)
       \/ \E p \in People : setSelectedUserId(p)
       \/ handlePermissionToggle \/ handleRoleToggle \/ profileUpdated
       \/ \E r \in net : \/ searchedPeople(r) \/ gotUser(r) \/ toggledPermission(r) \/ toggledRole(r)
                         \/ PersonServer(r)

(* The card of a person's own page (page "card"): suspension and password. *)
CardInit ==
    \E own \in BOOLEAN :
        Begins("card", [busy |-> {}, on |-> {}, own |-> own, susp |-> FALSE], [n |-> 0], {}, [n |-> 0, susp |-> FALSE])
ProfileCard == {"reset"} \cup (IF ui.own \/ "suspend" \in ui.busy THEN {} ELSE {IF ui.susp THEN "unsuspend" ELSE "suspend"})
SuspendDialog == IF "suspend" \in ui.on THEN {"close"} \cup (IF "suspend" \in ui.busy THEN {} ELSE {"confirm"}) ELSE {}
openSuspend == "suspend" \in ProfileCard /\ Set(Open(ui, "suspend"))
closeSuspend == "close" \in SuspendDialog /\ Set(Close(ui, "suspend"))
handleSuspend == "confirm" \in SuspendDialog /\ Call(Busy(ui, "suspend"), "suspend", None)
handleUnsuspend == "unsuspend" \in ProfileCard /\ Call(Busy(ui, "suspend"), "unsuspend", None)
suspended(r) ==
    /\ Replied(r, {"suspend", "unsuspend"})
    /\ Done(r, Idle(IF ~r.rep.ok THEN ui ELSE [Close(ui, "suspend") EXCEPT !.susp = (r.op = "suspend")], "suspend"))
handleResetPassword == "reset" \in ProfileCard /\ "reset" \notin ui.busy /\ Call(Busy(ui, "reset"), "reset", None)
resetPassword(r) == Replied(r, {"reset"}) /\ Done(r, Idle(ui, "reset"))
CardServer(r) ==
    \/ r.op = "reset" /\ Read(r, None)
    \/ r.op \in {"suspend", "unsuspend"} /\ Answer(r, [db EXCEPT !.susp = (r.op = "suspend")], None)
CardNext ==
    /\ On("card")
    /\ \/ openSuspend \/ closeSuspend \/ handleSuspend \/ handleUnsuspend \/ handleResetPassword
       \/ \E r \in net : suspended(r) \/ resetPassword(r) \/ CardServer(r)
=============================================================================
