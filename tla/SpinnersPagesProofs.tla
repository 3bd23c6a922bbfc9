------------------------ MODULE SpinnersPagesProofs -------------------------
(***************************************************************************)
(* The invariant of SpinnersProofs for accounts, administration, forum,    *)
(* store and room panel.                                                   *)
(***************************************************************************)
EXTENDS SpinnersProofs

-----------------------------------------------------------------------------
(* The account pages.                                                      *)

LEMMA AccountOps ==
  /\ \A n, op, arg : Account!Add(n, op, arg) = Add(n, op, arg)
  /\ \A r, op, arg : Account!Onward(r, op, arg) = Onward(r, op, arg)
  /\ \A r, ok, val : Account!Reply(r, ok, val) = Reply(r, ok, val)
  /\ Account!Orphaned = Orphaned
<1>1. \A n, op, arg : Account!Add(n, op, arg) = Add(n, op, arg)
  BY DEF Account!Add, Add
<1> QED
  BY <1>1 DEF Account!Onward, Onward, Account!Reply, Reply, Account!Orphaned, Orphaned

SecurityHolds ==
    {<<"setup", "totp">>, <<"enable", "totp">>, <<"disable", "totp">>,
      <<"generate", "totp">>, <<"resend", "verify">>, <<"password", "password">>}

LEMMA SecurityStep ==
  ASSUME FlagsHeld("security", SecurityHolds), Account!SecurityNext
  PROVE  FlagsHeld("security", SecurityHolds)'
<1> DEFINE Inv == FlagsHeld("security", SecurityHolds)
<1>1. page = <<"security", "mounted">> /\ "busy" \in DOMAIN ui
  BY Mounted DEF Account!SecurityNext, Account!On
<1>set. UNCHANGED <<page, net>> /\ (ui' = ui \/ Fewer) => Inv'
  BY SetHeld
<1>call. \A op, arg : net' = Account!Add(net, op, arg) /\ UNCHANGED page
          /\ Covered(SecurityHolds, op) => Inv'
  BY <1>1, CallHeld, AccountOps
<1>done. \A r \in net : net' = net \ {r} /\ UNCHANGED page /\ Ended(SecurityHolds, r) => Inv'
  BY <1>1, DoneHeld
<1>goes. \A r \in net : \A op, arg :
          net' = Account!Onward(r, op, arg) /\ UNCHANGED page /\ r.rep # None
          /\ Passed(SecurityHolds, r, op) => Inv'
  BY <1>1, GoesHeld, AccountOps
<1>answer. \A r \in net : \A ok, val : net' = Account!Reply(r, ok, val)
          /\ UNCHANGED <<page, ui, atom>> => Inv'
  BY ReplyHeld, AccountOps
<1> USE <1>1 DEF SecurityHolds
<1>2. Account!adminHandlers => Inv'
  BY <1>call DEF Account!adminHandlers, Account!totpCall, Account!Call, Covered, Account!Busy
<1>3. Account!ownHandlers => Inv'
  BY <1>call DEF Account!ownHandlers, Account!totpCall, Account!Call, Covered, Account!Busy
<1>4. Account!setSetupCode => Inv'
  BY <1>set DEF Account!setSetupCode, Account!Set, Fewer
<1>5. Account!closeDialog => Inv'
  BY <1>set DEF Account!closeDialog, Account!Set, Fewer
<1>6. Account!handleResendVerification => Inv'
  BY <1>call DEF Account!handleResendVerification, Account!Call, Covered, Account!Busy
<1>7. Account!changePassword => Inv'
  BY <1>call DEF Account!changePassword, Account!Call, Covered, Account!Busy
<1>8. \A r \in net : Account!totpDone(r) => Inv'
  BY ZenonT(30), <1>done, <1>goes
     DEF Account!totpDone, Account!onUpdate, Account!Done, Account!Reach, Account!Goes, Ended,
         Dropped, Passed, Swapped, Account!Idle, Account!Replied
<1>9. \A r \in net : Account!gotStatus(r) => Inv'
  BY <1>done DEF Account!gotStatus, Account!Done, Account!Reach, Ended, Dropped, Account!Replied
<1>10. \A r \in net : Account!sentVerification(r) => Inv'
  BY <1>done
     DEF Account!sentVerification, Account!Done, Account!Reach, Ended, Dropped, Account!Idle,
         Account!Replied
<1>11. \A r \in net : Account!passwordChanged(r) => Inv'
  BY <1>done
     DEF Account!passwordChanged, Account!Done, Account!Reach, Ended, Dropped, Account!Idle,
         Account!Replied
<1>12. \A r \in net : Account!SecurityServer(r) => Inv'
  BY <1>answer DEF Account!SecurityServer, Account!Answer, Account!AnswerPush, Account!Read
<1> QED
  BY <1>2, <1>3, <1>4, <1>5, <1>6, <1>7, <1>8, <1>9, <1>10, <1>11, <1>12 DEF Account!SecurityNext

ProfileHolds == {<<"upload", "save">>, <<"put", "save">>}

LEMMA ProfileStep ==
  ASSUME FlagsHeld("profile", ProfileHolds), Account!ProfileNext
  PROVE  FlagsHeld("profile", ProfileHolds)'
<1> DEFINE Inv == FlagsHeld("profile", ProfileHolds)
<1>1. page = <<"profile", "mounted">> /\ "busy" \in DOMAIN ui
  BY Mounted DEF Account!ProfileNext, Account!On
<1>set. UNCHANGED <<page, net>> /\ (ui' = ui \/ Fewer) => Inv'
  BY SetHeld
<1>call. \A op, arg : net' = Account!Add(net, op, arg) /\ UNCHANGED page
          /\ Covered(ProfileHolds, op) => Inv'
  BY <1>1, CallHeld, AccountOps
<1>done. \A r \in net : net' = net \ {r} /\ UNCHANGED page /\ Ended(ProfileHolds, r) => Inv'
  BY <1>1, DoneHeld
<1>goes. \A r \in net : \A op, arg :
          net' = Account!Onward(r, op, arg) /\ UNCHANGED page /\ r.rep # None
          /\ Passed(ProfileHolds, r, op) => Inv'
  BY <1>1, GoesHeld, AccountOps
<1>answer. \A r \in net : \A ok, val : net' = Account!Reply(r, ok, val)
          /\ UNCHANGED <<page, ui, atom>> => Inv'
  BY ReplyHeld, AccountOps
<1> USE <1>1 DEF ProfileHolds
<1>2. \A p : Account!changePicture(p) => Inv'
  BY <1>set DEF Account!changePicture, Account!Set, Fewer
<1>3. \A p : Account!clearPicture(p) => Inv'
  BY <1>set DEF Account!clearPicture, Account!Set, Fewer
<1>4. Account!handleProfileSave => Inv'
  <2> SUFFICES ASSUME Account!handleProfileSave PROVE Inv'
    OBVIOUS
  <2>1. \A urls, files : Account!SaveNext(urls, files).op \in {"put", "upload"}
    BY DEF Account!SaveNext
  <2>2. ASSUME NEW op \in {"put", "upload"}, NEW arg,
               Account!Call(Account!Busy([ui EXCEPT !.error = FALSE], "save"), op, arg)
        PROVE  Inv'
    BY <2>1, <2>2, <1>call DEF Account!Call, Covered, Account!Busy
  <2> QED
    BY <2>1, <2>2 DEF Account!handleProfileSave
<1>5. \A r \in net : Account!uploadedPicture(r) => Inv'
  <2> SUFFICES ASSUME NEW r \in net, Account!uploadedPicture(r) PROVE Inv'
    OBVIOUS
  <2>1. \A urls, files : Account!SaveNext(urls, files).op \in {"put", "upload"}
    BY DEF Account!SaveNext
  <2>2. r.op = "upload" /\ r.rep # None
    BY DEF Account!uploadedPicture, Account!Replied
  <2>3. ASSUME Account!Done(r, Account!Forgotten([ui EXCEPT !.error = TRUE])) PROVE Inv'
    BY <2>1, <2>2, <2>3, <1>done
       DEF Account!Forgotten, Account!Done, Account!Reach, Ended, Dropped, Account!Idle
  <2>4. ASSUME NEW op \in {"put", "upload"}, NEW arg, Account!Goes(r, ui, op, arg) PROVE Inv'
    BY <2>1, <2>2, <2>4, <1>goes DEF Account!Goes, Account!Reach, Passed, Swapped
  <2> QED
    BY <2>1, <2>3, <2>4 DEF Account!uploadedPicture, Account!Replied
<1>6. \A r \in net : Account!putProfile(r) => Inv'
  BY <1>done
     DEF Account!putProfile, Account!Forgotten, Account!Done, Account!Reach, Ended, Dropped,
         Account!Idle, Account!Replied
<1>7. \A r \in net : Account!ProfileServer(r) => Inv'
  BY <1>answer DEF Account!ProfileServer, Account!Answer, Account!AnswerPush
<1> QED
  BY <1>2, <1>3, <1>4, <1>5, <1>6, <1>7 DEF Account!ProfileNext

CardHolds == {<<"suspend", "suspend">>, <<"unsuspend", "suspend">>, <<"reset", "reset">>}

LEMMA CardStep ==
  ASSUME FlagsHeld("card", CardHolds), Account!CardNext
  PROVE  FlagsHeld("card", CardHolds)'
<1> DEFINE Inv == FlagsHeld("card", CardHolds)
<1>1. page = <<"card", "mounted">> /\ "busy" \in DOMAIN ui
  BY Mounted DEF Account!CardNext, Account!On
<1>set. UNCHANGED <<page, net>> /\ (ui' = ui \/ Fewer) => Inv'
  BY SetHeld
<1>call. \A op, arg : net' = Account!Add(net, op, arg) /\ UNCHANGED page
          /\ Covered(CardHolds, op) => Inv'
  BY <1>1, CallHeld, AccountOps
<1>done. \A r \in net : net' = net \ {r} /\ UNCHANGED page /\ Ended(CardHolds, r) => Inv'
  BY <1>1, DoneHeld
<1>answer. \A r \in net : \A ok, val : net' = Account!Reply(r, ok, val)
          /\ UNCHANGED <<page, ui, atom>> => Inv'
  BY ReplyHeld, AccountOps
<1> USE <1>1 DEF CardHolds
<1>2. Account!openSuspend => Inv'
  BY <1>set DEF Account!openSuspend, Account!Set, Fewer, Account!Open
<1>3. Account!closeSuspend => Inv'
  BY <1>set DEF Account!closeSuspend, Account!Set, Fewer, Account!Close
<1>4. Account!handleSuspend => Inv'
  BY <1>call DEF Account!handleSuspend, Account!Call, Covered, Account!Busy
<1>5. Account!handleUnsuspend => Inv'
  BY <1>call DEF Account!handleUnsuspend, Account!Call, Covered, Account!Busy
<1>6. Account!handleResetPassword => Inv'
  BY <1>call DEF Account!handleResetPassword, Account!Call, Covered, Account!Busy
<1>7. \A r \in net : Account!suspended(r) => Inv'
  BY <1>done
     DEF Account!suspended, Account!Done, Account!Reach, Ended, Dropped, Account!Idle,
         Account!Close, Account!Replied
<1>8. \A r \in net : Account!resetPassword(r) => Inv'
  BY <1>done
     DEF Account!resetPassword, Account!Done, Account!Reach, Ended, Dropped, Account!Idle,
         Account!Replied
<1>9. \A r \in net : Account!CardServer(r) => Inv'
  BY <1>answer DEF Account!CardServer, Account!Answer, Account!AnswerPush, Account!Read
<1> QED
  BY <1>2, <1>3, <1>4, <1>5, <1>6, <1>7, <1>8, <1>9 DEF Account!CardNext

UploadsHolds == {<<"uploads", "load">>, <<"upload", "load">>}

LEMMA UploadsStep ==
  ASSUME FlagsHeld("uploads", UploadsHolds), Account!UploadsNext
  PROVE  FlagsHeld("uploads", UploadsHolds)'
<1> DEFINE Inv == FlagsHeld("uploads", UploadsHolds)
<1>1. page = <<"uploads", "mounted">> /\ "busy" \in DOMAIN ui
  BY Mounted DEF Account!UploadsNext, Account!On
<1>set. UNCHANGED <<page, net>> /\ (ui' = ui \/ Fewer) => Inv'
  BY SetHeld
<1>call. \A op, arg : net' = Account!Add(net, op, arg) /\ UNCHANGED page
          /\ Covered(UploadsHolds, op) => Inv'
  BY <1>1, CallHeld, AccountOps
<1>done. \A r \in net : net' = net \ {r} /\ UNCHANGED page /\ Ended(UploadsHolds, r) => Inv'
  BY <1>1, DoneHeld
<1>goes. \A r \in net : \A op, arg :
          net' = Account!Onward(r, op, arg) /\ UNCHANGED page /\ r.rep # None
          /\ Passed(UploadsHolds, r, op) => Inv'
  BY <1>1, GoesHeld, AccountOps
<1>answer. \A r \in net : \A ok, val : net' = Account!Reply(r, ok, val)
          /\ UNCHANGED <<page, ui, atom>> => Inv'
  BY ReplyHeld, AccountOps
<1> USE <1>1 DEF UploadsHolds
<1>2. Account!fetchUploads => Inv'
  BY <1>set, <1>call
     DEF Account!fetchUploads, Account!Set, Account!Call, Fewer, Covered, Account!Busy
<1>3. Account!handleMultiDelete => Inv'
  BY <1>call DEF Account!handleMultiDelete, Account!Write, Account!Call, Covered
<1>4. Account!toggleSelectAll => Inv'
  BY <1>set DEF Account!toggleSelectAll, Account!Set, Fewer
<1>5. Account!handleFileUpload => Inv'
  BY <1>call DEF Account!handleFileUpload, Account!Write, Account!Call, Covered, Account!Busy
<1>6. \A u : Account!handleDelete(u) => Inv'
  BY <1>call DEF Account!handleDelete, Account!Write, Account!Call, Covered
<1>7. \A u : Account!setSelectedUpload(u) => Inv'
  BY <1>set DEF Account!setSelectedUpload, Account!Set, Fewer
<1>8. \A u, shift : Account!handleSelect(u, shift) => Inv'
  BY <1>set DEF Account!handleSelect, Account!Set, Fewer
<1>9. \A r \in net : Account!gotUploads(r) => Inv'
  BY <1>done
     DEF Account!gotUploads, Account!Done, Account!Reach, Ended, Dropped, Account!Idle,
         Account!Replied
<1>10. \A r \in net : Account!deletedUploads(r) => Inv'
  BY <1>done
     DEF Account!deletedUploads, Account!Removed, Account!Done, Account!Reach, Ended, Dropped,
         Account!Replied
<1>11. \A r \in net : Account!uploadedFile(r) => Inv'
  <2> SUFFICES ASSUME NEW r \in net, Account!uploadedFile(r) PROVE Inv'
    OBVIOUS
  <2>1. r.op = "upload" /\ r.rep # None
    BY DEF Account!uploadedFile, Account!Replied
  <2>2. ASSUME Account!Goes(r, Account!Idle(ui, "load"), "uploads", {}) PROVE Inv'
    BY <2>1, <2>2, <1>goes DEF Account!Goes, Account!Reach, Passed, Swapped, Account!Idle
  <2>3. ASSUME Account!Done(r, Account!Idle([ui EXCEPT !.error = TRUE], "load")) PROVE Inv'
    BY <2>1, <2>3, <1>done DEF Account!Done, Account!Reach, Ended, Dropped, Account!Idle
  <2> QED
    BY <2>2, <2>3 DEF Account!uploadedFile, Account!Replied
<1>12. \A r \in net : Account!UploadsServer(r) => Inv'
  BY <1>answer DEF Account!UploadsServer, Account!Answer, Account!AnswerPush, Account!Read
<1> QED
  BY <1>2, <1>3, <1>4, <1>5, <1>6, <1>7, <1>8, <1>9, <1>10, <1>11, <1>12 DEF Account!UploadsNext

UploadsDeleting == <<"args", {"remove", "removeAll"}, "deleting">>

LEMMA UploadsDeletingRule ==
  /\ Shown(UploadsDeleting) = ui.deleting
  /\ Shown(UploadsDeleting)' = ui'.deleting
  /\ (Whole(UploadsDeleting) <=> "busy" \in DOMAIN ui /\ "deleting" \in DOMAIN ui)
  /\ (Whole(UploadsDeleting)' <=> "busy" \in DOMAIN ui' /\ "deleting" \in DOMAIN ui')
  /\ \A op, arg, f : Holds(UploadsDeleting, op, arg, f)
        <=> op \in {"remove", "removeAll"} /\ f \in arg
<1>1. Shown(UploadsDeleting) = ui.deleting /\ Shown(UploadsDeleting)' = ui'.deleting
  BY DEF Shown, FlagsOf, UploadsDeleting
<1>2. (Whole(UploadsDeleting) <=> "busy" \in DOMAIN ui /\ "deleting" \in DOMAIN ui)
        /\ (Whole(UploadsDeleting)' <=> "busy" \in DOMAIN ui' /\ "deleting" \in DOMAIN ui')
  BY DEF Whole, FieldsOf, UploadsDeleting
<1>3. \A op, arg, f : Holds(UploadsDeleting, op, arg, f)
        <=> op \in {"remove", "removeAll"} /\ f \in arg
  BY DEF Holds, UploadsDeleting
<1> QED
  BY <1>1, <1>2, <1>3

LEMMA UploadsDeletingStep ==
  ASSUME Steady("uploads", UploadsDeleting), Account!UploadsNext
  PROVE  Steady("uploads", UploadsDeleting)'
<1> DEFINE Inv == Steady("uploads", UploadsDeleting)
<1>1. page = <<"uploads", "mounted">> /\ Whole(UploadsDeleting)
  BY DEF Steady, Account!UploadsNext, Account!On
<1>set. UNCHANGED <<page, net>> /\ Fades(UploadsDeleting) => Inv'
  BY <1>1, SetSteady
<1>call. \A op, arg : net' = Account!Add(net, op, arg) /\ UNCHANGED page
          /\ Begun(UploadsDeleting, op, arg) => Inv'
  BY <1>1, CallSteady, AccountOps
<1>done. \A r \in net : net' = net \ {r} /\ UNCHANGED page /\ Closed(UploadsDeleting, r) => Inv'
  BY <1>1, DoneSteady
<1>goes. \A r \in net : \A op, arg :
          net' = Account!Onward(r, op, arg) /\ UNCHANGED page /\ r.rep # None
          /\ Handed(UploadsDeleting, r, op, arg) => Inv'
  BY <1>1, GoesSteady, AccountOps
<1>answer. \A r \in net : \A ok, val : net' = Account!Reply(r, ok, val)
          /\ UNCHANGED <<page, ui, atom>> => Inv'
  BY ReplySteady, AccountOps
<1> USE <1>1, UploadsDeletingRule
<1>2. Account!fetchUploads => Inv'
  BY <1>set, <1>call
     DEF Account!fetchUploads, Account!Set, Account!Call, Fades, Begun, Account!Busy
<1>3. Account!handleMultiDelete => Inv'
  BY <1>call DEF Account!handleMultiDelete, Account!Write, Account!Call, Begun
<1>4. Account!toggleSelectAll => Inv'
  BY <1>set DEF Account!toggleSelectAll, Account!Set, Fades
<1>5. Account!handleFileUpload => Inv'
  BY <1>call DEF Account!handleFileUpload, Account!Write, Account!Call, Begun, Account!Busy
<1>6. \A u : Account!handleDelete(u) => Inv'
  BY <1>call DEF Account!handleDelete, Account!Write, Account!Call, Begun
<1>7. \A u : Account!setSelectedUpload(u) => Inv'
  BY <1>set DEF Account!setSelectedUpload, Account!Set, Fades
<1>8. \A u, shift : Account!handleSelect(u, shift) => Inv'
  BY <1>set DEF Account!handleSelect, Account!Set, Fades
<1>9. \A r \in net : Account!gotUploads(r) => Inv'
  BY <1>done
     DEF Account!gotUploads, Account!Done, Account!Reach, Closed, Spent, Account!Idle,
         Account!Replied
<1>10. \A r \in net : Account!deletedUploads(r) => Inv'
  BY <1>done
     DEF Account!deletedUploads, Account!Removed, Account!Done, Account!Reach, Closed, Spent,
         Account!Replied
<1>11. \A r \in net : Account!uploadedFile(r) => Inv'
  <2> SUFFICES ASSUME NEW r \in net, Account!uploadedFile(r) PROVE Inv'
    OBVIOUS
  <2>1. r.op = "upload" /\ r.rep # None
    BY DEF Account!uploadedFile, Account!Replied
  <2>2. ASSUME Account!Goes(r, Account!Idle(ui, "load"), "uploads", {}) PROVE Inv'
    BY <2>1, <2>2, <1>goes DEF Account!Goes, Account!Reach, Handed, Spent, Account!Idle
  <2>3. ASSUME Account!Done(r, Account!Idle([ui EXCEPT !.error = TRUE], "load")) PROVE Inv'
    BY <2>1, <2>3, <1>done DEF Account!Done, Account!Reach, Closed, Spent, Account!Idle
  <2> QED
    BY <2>2, <2>3 DEF Account!uploadedFile, Account!Replied
<1>12. \A r \in net : Account!UploadsServer(r) => Inv'
  BY <1>answer DEF Account!UploadsServer, Account!Answer, Account!AnswerPush, Account!Read
<1> QED
  BY <1>2, <1>3, <1>4, <1>5, <1>6, <1>7, <1>8, <1>9, <1>10, <1>11, <1>12 DEF Account!UploadsNext

RolesHolds == {<<"roles", "load">>, <<"create", "create">>}

LEMMA RolesStep ==
  ASSUME FlagsHeld("roles", RolesHolds), Account!RolesNext
  PROVE  FlagsHeld("roles", RolesHolds)'
<1> DEFINE Inv == FlagsHeld("roles", RolesHolds)
<1>1. page = <<"roles", "mounted">> /\ "busy" \in DOMAIN ui
  BY Mounted DEF Account!RolesNext, Account!On
<1>set. UNCHANGED <<page, net>> /\ (ui' = ui \/ Fewer) => Inv'
  BY SetHeld
<1>call. \A op, arg : net' = Account!Add(net, op, arg) /\ UNCHANGED page
          /\ Covered(RolesHolds, op) => Inv'
  BY <1>1, CallHeld, AccountOps
<1>done. \A r \in net : net' = net \ {r} /\ UNCHANGED page /\ Ended(RolesHolds, r) => Inv'
  BY <1>1, DoneHeld
<1>answer. \A r \in net : \A ok, val : net' = Account!Reply(r, ok, val)
          /\ UNCHANGED <<page, ui, atom>> => Inv'
  BY ReplyHeld, AccountOps
<1> USE <1>1 DEF RolesHolds
<1>2. Account!setShowCreate => Inv'
  BY <1>set
     DEF Account!setShowCreate, Account!Set, Fewer, Account!Open, Account!Close, Account!Toggle
<1>3. Account!setCreateName => Inv'
  BY <1>set DEF Account!setCreateName, Account!Set, Fewer
<1>4. Account!createRole => Inv'
  BY <1>call DEF Account!createRole, Account!Write, Account!Call, Covered, Account!Busy
<1>5. \A i : Account!startEdit(i) => Inv'
  BY <1>set DEF Account!startEdit, Account!Set, Fewer
<1>6. \A i : Account!cancelEdit(i) => Inv'
  BY <1>set DEF Account!cancelEdit, Account!Set, Fewer
<1>7. \A i : Account!saveEdit(i) => Inv'
  BY <1>call DEF Account!saveEdit, Account!Call, Covered
<1>8. \A i : Account!deleteRole(i) => Inv'
  BY <1>call DEF Account!deleteRole, Account!Write, Account!Call, Covered
<1>9. \A i : Account!toggleRolePerm(i) => Inv'
  BY <1>call DEF Account!toggleRolePerm, Account!Write, Account!Call, Covered
<1>10. \A i : Account!addUserToRole(i) => Inv'
  BY <1>call DEF Account!addUserToRole, Account!Write, Account!Call, Covered
<1>11. \A i : Account!removeUserFromRole(i) => Inv'
  BY <1>call DEF Account!removeUserFromRole, Account!Write, Account!Call, Covered
<1>12. \A i, s : Account!toggleEditSection(i, s) => Inv'
  BY <1>set, <1>call DEF Account!toggleEditSection, Account!Set, Account!Call, Fewer, Covered
<1>13. \A r \in net : Account!gotRoles(r) => Inv'
  BY <1>done
     DEF Account!gotRoles, Account!Done, Account!Reach, Ended, Dropped, Account!Idle,
         Account!Replied
<1>14. \A r \in net : Account!loadedRole(r) => Inv'
  BY <1>done
     DEF Account!loadedRole, Account!ShowRole, Account!Done, Account!Reach, Ended, Dropped,
         Account!Replied
<1>15. \A r \in net : Account!savedRole(r) => Inv'
  BY <1>done DEF Account!savedRole, Account!Done, Account!Reach, Ended, Dropped, Account!Replied
<1>16. \A r \in net : Account!deletedRole(r) => Inv'
  BY <1>done DEF Account!deletedRole, Account!Done, Account!Reach, Ended, Dropped, Account!Replied
<1>17. \A r \in net : Account!createdRole(r) => Inv'
  BY <1>done
     DEF Account!createdRole, Account!Done, Account!Reach, Ended, Dropped, Account!Idle,
         Account!Close, Account!Replied
<1>18. \A r \in net : Account!toggledRolePerm(r) => Inv'
  BY <1>done
     DEF Account!toggledRolePerm, Account!Done, Account!Reach, Ended, Dropped, Account!Replied
<1>19. \A r \in net : Account!changedUserOfRole(r) => Inv'
  BY <1>done
     DEF Account!changedUserOfRole, Account!ShowRole, Account!Done, Account!Reach, Ended, Dropped,
         Account!Replied
<1>20. \A r \in net : Account!RolesServer(r) => Inv'
  <2> SUFFICES ASSUME NEW r \in net, Account!RolesServer(r) PROVE Inv'
    OBVIOUS
  <2>1. ASSUME NEW d, NEW v, NEW ps, Account!AnswerPush(r, d, v, ps) PROVE Inv'
    BY <1>answer, <2>1 DEF Account!AnswerPush
  <2> QED
    BY <2>1 DEF Account!RolesServer, Account!Read, Account!Answer
<1> QED
  BY <1>2, <1>3, <1>4, <1>5, <1>6, <1>7, <1>8, <1>9, <1>10, <1>11, <1>12, <1>13, <1>14, <1>15,
         <1>16, <1>17, <1>18, <1>19, <1>20
     DEF Account!RolesNext

RolesSaving == <<"field", {<<"save", "saving">>}, "saving", None>>

LEMMA RolesSavingRule ==
  /\ Shown(RolesSaving) = (IF ui.saving = None THEN {} ELSE {"saving"})
  /\ Shown(RolesSaving)' = (IF ui'.saving = None THEN {} ELSE {"saving"})
  /\ (Whole(RolesSaving) <=> "busy" \in DOMAIN ui /\ "saving" \in DOMAIN ui)
  /\ (Whole(RolesSaving)' <=> "busy" \in DOMAIN ui' /\ "saving" \in DOMAIN ui')
  /\ \A op, arg, f : Holds(RolesSaving, op, arg, f) <=> op = "save" /\ f = "saving"
<1>1. Shown(RolesSaving) = (IF ui.saving = None THEN {} ELSE {"saving"})
        /\ Shown(RolesSaving)' = (IF ui'.saving = None THEN {} ELSE {"saving"})
  BY DEF Shown, FlagsOf, RolesSaving
<1>2. (Whole(RolesSaving) <=> "busy" \in DOMAIN ui /\ "saving" \in DOMAIN ui)
        /\ (Whole(RolesSaving)' <=> "busy" \in DOMAIN ui' /\ "saving" \in DOMAIN ui')
  BY DEF Whole, FieldsOf, RolesSaving
<1>3. \A op, arg, f : Holds(RolesSaving, op, arg, f) <=> op = "save" /\ f = "saving"
  BY DEF Holds, RolesSaving
<1> QED
  BY <1>1, <1>2, <1>3

LEMMA RolesSavingStep ==
  ASSUME Steady("roles", RolesSaving), Account!RolesNext
  PROVE  Steady("roles", RolesSaving)'
<1> DEFINE Inv == Steady("roles", RolesSaving)
<1>1. page = <<"roles", "mounted">> /\ Whole(RolesSaving)
  BY DEF Steady, Account!RolesNext, Account!On
<1>set. UNCHANGED <<page, net>> /\ Fades(RolesSaving) => Inv'
  BY <1>1, SetSteady
<1>call. \A op, arg : net' = Account!Add(net, op, arg) /\ UNCHANGED page
          /\ Begun(RolesSaving, op, arg) => Inv'
  BY <1>1, CallSteady, AccountOps
<1>done. \A r \in net : net' = net \ {r} /\ UNCHANGED page /\ Closed(RolesSaving, r) => Inv'
  BY <1>1, DoneSteady
<1>answer. \A r \in net : \A ok, val : net' = Account!Reply(r, ok, val)
          /\ UNCHANGED <<page, ui, atom>> => Inv'
  BY ReplySteady, AccountOps
<1> USE <1>1, RolesSavingRule
<1>2. Account!setShowCreate => Inv'
  BY <1>set
     DEF Account!setShowCreate, Account!Set, Fades, Account!Open, Account!Close, Account!Toggle
<1>3. Account!setCreateName => Inv'
  BY <1>set DEF Account!setCreateName, Account!Set, Fades
<1>4. Account!createRole => Inv'
  BY <1>call DEF Account!createRole, Account!Write, Account!Call, Begun, Account!Busy
<1>5. \A i : Account!startEdit(i) => Inv'
  BY <1>set DEF Account!startEdit, Account!Set, Fades
<1>6. \A i : Account!cancelEdit(i) => Inv'
  BY <1>set DEF Account!cancelEdit, Account!Set, Fades
<1>7. \A i : Account!saveEdit(i) => Inv'
  BY <1>call DEF Account!saveEdit, Account!Call, Begun
<1>8. \A i : Account!deleteRole(i) => Inv'
  BY <1>call DEF Account!deleteRole, Account!Write, Account!Call, Begun
<1>9. \A i : Account!toggleRolePerm(i) => Inv'
  BY <1>call DEF Account!toggleRolePerm, Account!Write, Account!Call, Begun
<1>10. \A i : Account!addUserToRole(i) => Inv'
  BY <1>call DEF Account!addUserToRole, Account!Write, Account!Call, Begun
<1>11. \A i : Account!removeUserFromRole(i) => Inv'
  BY <1>call DEF Account!removeUserFromRole, Account!Write, Account!Call, Begun
<1>12. \A i, s : Account!toggleEditSection(i, s) => Inv'
  BY <1>set, <1>call DEF Account!toggleEditSection, Account!Set, Account!Call, Fades, Begun
<1>13. \A r \in net : Account!gotRoles(r) => Inv'
  BY <1>done
     DEF Account!gotRoles, Account!Done, Account!Reach, Closed, Spent, Account!Idle,
         Account!Replied
<1>14. \A r \in net : Account!loadedRole(r) => Inv'
  BY <1>done
     DEF Account!loadedRole, Account!ShowRole, Account!Done, Account!Reach, Closed, Spent,
         Account!Replied
<1>15. \A r \in net : Account!savedRole(r) => Inv'
  BY <1>done DEF Account!savedRole, Account!Done, Account!Reach, Closed, Spent, Account!Replied
<1>16. \A r \in net : Account!deletedRole(r) => Inv'
  BY <1>done DEF Account!deletedRole, Account!Done, Account!Reach, Closed, Spent, Account!Replied
<1>17. \A r \in net : Account!createdRole(r) => Inv'
  BY <1>done
     DEF Account!createdRole, Account!Done, Account!Reach, Closed, Spent, Account!Idle,
         Account!Close, Account!Replied
<1>18. \A r \in net : Account!toggledRolePerm(r) => Inv'
  BY <1>done
     DEF Account!toggledRolePerm, Account!Done, Account!Reach, Closed, Spent, Account!Replied
<1>19. \A r \in net : Account!changedUserOfRole(r) => Inv'
  BY <1>done
     DEF Account!changedUserOfRole, Account!ShowRole, Account!Done, Account!Reach, Closed, Spent,
         Account!Replied
<1>20. \A r \in net : Account!RolesServer(r) => Inv'
  <2> SUFFICES ASSUME NEW r \in net, Account!RolesServer(r) PROVE Inv'
    OBVIOUS
  <2>1. ASSUME NEW d, NEW v, NEW ps, Account!AnswerPush(r, d, v, ps) PROVE Inv'
    BY <1>answer, <2>1 DEF Account!AnswerPush
  <2> QED
    BY <2>1 DEF Account!RolesServer, Account!Read, Account!Answer
<1> QED
  BY <1>2, <1>3, <1>4, <1>5, <1>6, <1>7, <1>8, <1>9, <1>10, <1>11, <1>12, <1>13, <1>14, <1>15,
         <1>16, <1>17, <1>18, <1>19, <1>20
     DEF Account!RolesNext

RolesDeleting == <<"field", {<<"delete", "deleting">>}, "deleting", None>>

LEMMA RolesDeletingRule ==
  /\ Shown(RolesDeleting) = (IF ui.deleting = None THEN {} ELSE {"deleting"})
  /\ Shown(RolesDeleting)' = (IF ui'.deleting = None THEN {} ELSE {"deleting"})
  /\ (Whole(RolesDeleting) <=> "busy" \in DOMAIN ui /\ "deleting" \in DOMAIN ui)
  /\ (Whole(RolesDeleting)' <=> "busy" \in DOMAIN ui' /\ "deleting" \in DOMAIN ui')
  /\ \A op, arg, f : Holds(RolesDeleting, op, arg, f) <=> op = "delete" /\ f = "deleting"
<1>1. Shown(RolesDeleting) = (IF ui.deleting = None THEN {} ELSE {"deleting"})
        /\ Shown(RolesDeleting)' = (IF ui'.deleting = None THEN {} ELSE {"deleting"})
  BY DEF Shown, FlagsOf, RolesDeleting
<1>2. (Whole(RolesDeleting) <=> "busy" \in DOMAIN ui /\ "deleting" \in DOMAIN ui)
        /\ (Whole(RolesDeleting)' <=> "busy" \in DOMAIN ui' /\ "deleting" \in DOMAIN ui')
  BY DEF Whole, FieldsOf, RolesDeleting
<1>3. \A op, arg, f : Holds(RolesDeleting, op, arg, f) <=> op = "delete" /\ f = "deleting"
  BY DEF Holds, RolesDeleting
<1> QED
  BY <1>1, <1>2, <1>3

LEMMA RolesDeletingStep ==
  ASSUME Steady("roles", RolesDeleting), Account!RolesNext
  PROVE  Steady("roles", RolesDeleting)'
<1> DEFINE Inv == Steady("roles", RolesDeleting)
<1>1. page = <<"roles", "mounted">> /\ Whole(RolesDeleting)
  BY DEF Steady, Account!RolesNext, Account!On
<1>set. UNCHANGED <<page, net>> /\ Fades(RolesDeleting) => Inv'
  BY <1>1, SetSteady
<1>call. \A op, arg : net' = Account!Add(net, op, arg) /\ UNCHANGED page
          /\ Begun(RolesDeleting, op, arg) => Inv'
  BY <1>1, CallSteady, AccountOps
<1>done. \A r \in net : net' = net \ {r} /\ UNCHANGED page /\ Closed(RolesDeleting, r) => Inv'
  BY <1>1, DoneSteady
<1>answer. \A r \in net : \A ok, val : net' = Account!Reply(r, ok, val)
          /\ UNCHANGED <<page, ui, atom>> => Inv'
  BY ReplySteady, AccountOps
<1> USE <1>1, RolesDeletingRule
<1>2. Account!setShowCreate => Inv'
  BY <1>set
     DEF Account!setShowCreate, Account!Set, Fades, Account!Open, Account!Close, Account!Toggle
<1>3. Account!setCreateName => Inv'
  BY <1>set DEF Account!setCreateName, Account!Set, Fades
<1>4. Account!createRole => Inv'
  BY <1>call DEF Account!createRole, Account!Write, Account!Call, Begun, Account!Busy
<1>5. \A i : Account!startEdit(i) => Inv'
  BY <1>set DEF Account!startEdit, Account!Set, Fades
<1>6. \A i : Account!cancelEdit(i) => Inv'
  BY <1>set DEF Account!cancelEdit, Account!Set, Fades
<1>7. \A i : Account!saveEdit(i) => Inv'
  BY <1>call DEF Account!saveEdit, Account!Call, Begun
<1>8. \A i : Account!deleteRole(i) => Inv'
  BY <1>call DEF Account!deleteRole, Account!Write, Account!Call, Begun
<1>9. \A i : Account!toggleRolePerm(i) => Inv'
  BY <1>call DEF Account!toggleRolePerm, Account!Write, Account!Call, Begun
<1>10. \A i : Account!addUserToRole(i) => Inv'
  BY <1>call DEF Account!addUserToRole, Account!Write, Account!Call, Begun
<1>11. \A i : Account!removeUserFromRole(i) => Inv'
  BY <1>call DEF Account!removeUserFromRole, Account!Write, Account!Call, Begun
<1>12. \A i, s : Account!toggleEditSection(i, s) => Inv'
  BY <1>set, <1>call DEF Account!toggleEditSection, Account!Set, Account!Call, Fades, Begun
<1>13. \A r \in net : Account!gotRoles(r) => Inv'
  BY <1>done
     DEF Account!gotRoles, Account!Done, Account!Reach, Closed, Spent, Account!Idle,
         Account!Replied
<1>14. \A r \in net : Account!loadedRole(r) => Inv'
  BY <1>done
     DEF Account!loadedRole, Account!ShowRole, Account!Done, Account!Reach, Closed, Spent,
         Account!Replied
<1>15. \A r \in net : Account!savedRole(r) => Inv'
  BY <1>done DEF Account!savedRole, Account!Done, Account!Reach, Closed, Spent, Account!Replied
<1>16. \A r \in net : Account!deletedRole(r) => Inv'
  BY <1>done DEF Account!deletedRole, Account!Done, Account!Reach, Closed, Spent, Account!Replied
<1>17. \A r \in net : Account!createdRole(r) => Inv'
  BY <1>done
     DEF Account!createdRole, Account!Done, Account!Reach, Closed, Spent, Account!Idle,
         Account!Close, Account!Replied
<1>18. \A r \in net : Account!toggledRolePerm(r) => Inv'
  BY <1>done
     DEF Account!toggledRolePerm, Account!Done, Account!Reach, Closed, Spent, Account!Replied
<1>19. \A r \in net : Account!changedUserOfRole(r) => Inv'
  BY <1>done
     DEF Account!changedUserOfRole, Account!ShowRole, Account!Done, Account!Reach, Closed, Spent,
         Account!Replied
<1>20. \A r \in net : Account!RolesServer(r) => Inv'
  <2> SUFFICES ASSUME NEW r \in net, Account!RolesServer(r) PROVE Inv'
    OBVIOUS
  <2>1. ASSUME NEW d, NEW v, NEW ps, Account!AnswerPush(r, d, v, ps) PROVE Inv'
    BY <1>answer, <2>1 DEF Account!AnswerPush
  <2> QED
    BY <2>1 DEF Account!RolesServer, Account!Read, Account!Answer
<1> QED
  BY <1>2, <1>3, <1>4, <1>5, <1>6, <1>7, <1>8, <1>9, <1>10, <1>11, <1>12, <1>13, <1>14, <1>15,
         <1>16, <1>17, <1>18, <1>19, <1>20
     DEF Account!RolesNext

RolesToggling == <<"arg", {"grant", "revoke"}, "toggling">>

LEMMA RolesTogglingRule ==
  /\ Shown(RolesToggling) = ui.toggling
  /\ Shown(RolesToggling)' = ui'.toggling
  /\ (Whole(RolesToggling) <=> "busy" \in DOMAIN ui /\ "toggling" \in DOMAIN ui)
  /\ (Whole(RolesToggling)' <=> "busy" \in DOMAIN ui' /\ "toggling" \in DOMAIN ui')
  /\ \A op, arg, f : Holds(RolesToggling, op, arg, f) <=> op \in {"grant", "revoke"} /\ arg = f
<1>1. Shown(RolesToggling) = ui.toggling /\ Shown(RolesToggling)' = ui'.toggling
  BY DEF Shown, FlagsOf, RolesToggling
<1>2. (Whole(RolesToggling) <=> "busy" \in DOMAIN ui /\ "toggling" \in DOMAIN ui)
        /\ (Whole(RolesToggling)' <=> "busy" \in DOMAIN ui' /\ "toggling" \in DOMAIN ui')
  BY DEF Whole, FieldsOf, RolesToggling
<1>3. \A op, arg, f : Holds(RolesToggling, op, arg, f) <=> op \in {"grant", "revoke"} /\ arg = f
  BY DEF Holds, RolesToggling
<1> QED
  BY <1>1, <1>2, <1>3

LEMMA RolesTogglingStep ==
  ASSUME Steady("roles", RolesToggling), Account!RolesNext
  PROVE  Steady("roles", RolesToggling)'
<1> DEFINE Inv == Steady("roles", RolesToggling)
<1>1. page = <<"roles", "mounted">> /\ Whole(RolesToggling)
  BY DEF Steady, Account!RolesNext, Account!On
<1>set. UNCHANGED <<page, net>> /\ Fades(RolesToggling) => Inv'
  BY <1>1, SetSteady
<1>call. \A op, arg : net' = Account!Add(net, op, arg) /\ UNCHANGED page
          /\ Begun(RolesToggling, op, arg) => Inv'
  BY <1>1, CallSteady, AccountOps
<1>done. \A r \in net : net' = net \ {r} /\ UNCHANGED page /\ Closed(RolesToggling, r) => Inv'
  BY <1>1, DoneSteady
<1>answer. \A r \in net : \A ok, val : net' = Account!Reply(r, ok, val)
          /\ UNCHANGED <<page, ui, atom>> => Inv'
  BY ReplySteady, AccountOps
<1> USE <1>1, RolesTogglingRule
<1>2. Account!setShowCreate => Inv'
  BY <1>set
     DEF Account!setShowCreate, Account!Set, Fades, Account!Open, Account!Close, Account!Toggle
<1>3. Account!setCreateName => Inv'
  BY <1>set DEF Account!setCreateName, Account!Set, Fades
<1>4. Account!createRole => Inv'
  BY <1>call DEF Account!createRole, Account!Write, Account!Call, Begun, Account!Busy
<1>5. \A i : Account!startEdit(i) => Inv'
  BY <1>set DEF Account!startEdit, Account!Set, Fades
<1>6. \A i : Account!cancelEdit(i) => Inv'
  BY <1>set DEF Account!cancelEdit, Account!Set, Fades
<1>7. \A i : Account!saveEdit(i) => Inv'
  BY <1>call DEF Account!saveEdit, Account!Call, Begun
<1>8. \A i : Account!deleteRole(i) => Inv'
  BY <1>call DEF Account!deleteRole, Account!Write, Account!Call, Begun
<1>9. \A i : Account!toggleRolePerm(i) => Inv'
  BY <1>call DEF Account!toggleRolePerm, Account!Write, Account!Call, Begun
<1>10. \A i : Account!addUserToRole(i) => Inv'
  BY <1>call DEF Account!addUserToRole, Account!Write, Account!Call, Begun
<1>11. \A i : Account!removeUserFromRole(i) => Inv'
  BY <1>call DEF Account!removeUserFromRole, Account!Write, Account!Call, Begun
<1>12. \A i, s : Account!toggleEditSection(i, s) => Inv'
  BY <1>set, <1>call DEF Account!toggleEditSection, Account!Set, Account!Call, Fades, Begun
<1>13. \A r \in net : Account!gotRoles(r) => Inv'
  BY <1>done
     DEF Account!gotRoles, Account!Done, Account!Reach, Closed, Spent, Account!Idle,
         Account!Replied
<1>14. \A r \in net : Account!loadedRole(r) => Inv'
  BY <1>done
     DEF Account!loadedRole, Account!ShowRole, Account!Done, Account!Reach, Closed, Spent,
         Account!Replied
<1>15. \A r \in net : Account!savedRole(r) => Inv'
  BY <1>done DEF Account!savedRole, Account!Done, Account!Reach, Closed, Spent, Account!Replied
<1>16. \A r \in net : Account!deletedRole(r) => Inv'
  BY <1>done DEF Account!deletedRole, Account!Done, Account!Reach, Closed, Spent, Account!Replied
<1>17. \A r \in net : Account!createdRole(r) => Inv'
  BY <1>done
     DEF Account!createdRole, Account!Done, Account!Reach, Closed, Spent, Account!Idle,
         Account!Close, Account!Replied
<1>18. \A r \in net : Account!toggledRolePerm(r) => Inv'
  BY <1>done
     DEF Account!toggledRolePerm, Account!Done, Account!Reach, Closed, Spent, Account!Replied
<1>19. \A r \in net : Account!changedUserOfRole(r) => Inv'
  BY <1>done
     DEF Account!changedUserOfRole, Account!ShowRole, Account!Done, Account!Reach, Closed, Spent,
         Account!Replied
<1>20. \A r \in net : Account!RolesServer(r) => Inv'
  <2> SUFFICES ASSUME NEW r \in net, Account!RolesServer(r) PROVE Inv'
    OBVIOUS
  <2>1. ASSUME NEW d, NEW v, NEW ps, Account!AnswerPush(r, d, v, ps) PROVE Inv'
    BY <1>answer, <2>1 DEF Account!AnswerPush
  <2> QED
    BY <2>1 DEF Account!RolesServer, Account!Read, Account!Answer
<1> QED
  BY <1>2, <1>3, <1>4, <1>5, <1>6, <1>7, <1>8, <1>9, <1>10, <1>11, <1>12, <1>13, <1>14, <1>15,
         <1>16, <1>17, <1>18, <1>19, <1>20
     DEF Account!RolesNext

PersonHolds == {<<"user", "load">>}

LEMMA PersonStep ==
  ASSUME FlagsHeld("person", PersonHolds), Account!PersonNext
  PROVE  FlagsHeld("person", PersonHolds)'
<1> DEFINE Inv == FlagsHeld("person", PersonHolds)
<1>1. page = <<"person", "mounted">> /\ "busy" \in DOMAIN ui
  BY Mounted DEF Account!PersonNext, Account!On
<1>set. UNCHANGED <<page, net>> /\ (ui' = ui \/ Fewer) => Inv'
  BY SetHeld
<1>call. \A op, arg : net' = Account!Add(net, op, arg) /\ UNCHANGED page
          /\ Covered(PersonHolds, op) => Inv'
  BY <1>1, CallHeld, AccountOps
<1>done. \A r \in net : net' = net \ {r} /\ UNCHANGED page /\ Ended(PersonHolds, r) => Inv'
  BY <1>1, DoneHeld
<1>answer. \A r \in net : \A ok, val : net' = Account!Reply(r, ok, val)
          /\ UNCHANGED <<page, ui, atom>> => Inv'
  BY ReplyHeld, AccountOps
<1> USE <1>1 DEF PersonHolds
<1>2. \A q : Account!handleSearch(q) => Inv'
  BY <1>set, <1>call DEF Account!handleSearch, Account!Set, Account!Call, Fewer, Covered
<1>3. \A p : Account!setSelectedUserId(p) => Inv'
  BY <1>call DEF Account!setSelectedUserId, Account!Call, Covered, Account!Busy
<1>4. Account!handlePermissionToggle => Inv'
  BY <1>call DEF Account!handlePermissionToggle, Account!Call, Covered
<1>5. Account!handleRoleToggle => Inv'
  BY <1>call DEF Account!handleRoleToggle, Account!Call, Covered
<1>6. Account!profileUpdated => Inv'
  BY <1>set DEF Account!profileUpdated, Fewer
<1>7. \A r \in net : Account!searchedPeople(r) => Inv'
  BY <1>done
     DEF Account!searchedPeople, Account!Done, Account!Reach, Ended, Dropped, Account!Replied
<1>8. \A r \in net : Account!gotUser(r) => Inv'
  BY <1>done
     DEF Account!gotUser, Account!Done, Account!Reach, Ended, Dropped, Account!Idle,
         Account!Replied
<1>9. \A r \in net : Account!toggledPermission(r) => Inv'
  BY <1>done
     DEF Account!toggledPermission, Account!Done, Account!Reach, Ended, Dropped, Account!Replied
<1>10. \A r \in net : Account!toggledRole(r) => Inv'
  BY <1>done DEF Account!toggledRole, Account!Done, Account!Reach, Ended, Dropped, Account!Replied
<1>11. \A r \in net : Account!PersonServer(r) => Inv'
  BY <1>answer DEF Account!PersonServer, Account!AnswerPush, Account!Read, Account!Answer
<1> QED
  BY <1>2, <1>3, <1>4, <1>5, <1>6, <1>7, <1>8, <1>9, <1>10, <1>11 DEF Account!PersonNext

PersonToggling == <<"set", {<<"grant", "perm">>, <<"revoke", "perm">>, <<"role", "role">>},
  "toggling">>

LEMMA PersonTogglingRule ==
  /\ Shown(PersonToggling) = ui.toggling
  /\ Shown(PersonToggling)' = ui'.toggling
  /\ (Whole(PersonToggling) <=> "busy" \in DOMAIN ui /\ "toggling" \in DOMAIN ui)
  /\ (Whole(PersonToggling)' <=> "busy" \in DOMAIN ui' /\ "toggling" \in DOMAIN ui')
  /\ \A op, arg, f : Holds(PersonToggling, op, arg, f)
        <=> (op \in {"grant", "revoke"} /\ f = "perm") \/ (op = "role" /\ f = "role")
<1>1. Shown(PersonToggling) = ui.toggling /\ Shown(PersonToggling)' = ui'.toggling
  BY DEF Shown, FlagsOf, PersonToggling
<1>2. (Whole(PersonToggling) <=> "busy" \in DOMAIN ui /\ "toggling" \in DOMAIN ui)
        /\ (Whole(PersonToggling)' <=> "busy" \in DOMAIN ui' /\ "toggling" \in DOMAIN ui')
  BY DEF Whole, FieldsOf, PersonToggling
<1>3. \A op, arg, f : Holds(PersonToggling, op, arg, f)
        <=> (op \in {"grant", "revoke"} /\ f = "perm") \/ (op = "role" /\ f = "role")
  BY DEF Holds, PersonToggling
<1> QED
  BY <1>1, <1>2, <1>3

LEMMA PersonTogglingStep ==
  ASSUME Steady("person", PersonToggling), Account!PersonNext
  PROVE  Steady("person", PersonToggling)'
<1> DEFINE Inv == Steady("person", PersonToggling)
<1>1. page = <<"person", "mounted">> /\ Whole(PersonToggling)
  BY DEF Steady, Account!PersonNext, Account!On
<1>set. UNCHANGED <<page, net>> /\ Fades(PersonToggling) => Inv'
  BY <1>1, SetSteady
<1>call. \A op, arg : net' = Account!Add(net, op, arg) /\ UNCHANGED page
          /\ Begun(PersonToggling, op, arg) => Inv'
  BY <1>1, CallSteady, AccountOps
<1>done. \A r \in net : net' = net \ {r} /\ UNCHANGED page /\ Closed(PersonToggling, r) => Inv'
  BY <1>1, DoneSteady
<1>answer. \A r \in net : \A ok, val : net' = Account!Reply(r, ok, val)
          /\ UNCHANGED <<page, ui, atom>> => Inv'
  BY ReplySteady, AccountOps
<1> USE <1>1, PersonTogglingRule
<1>2. \A q : Account!handleSearch(q) => Inv'
  BY <1>set, <1>call DEF Account!handleSearch, Account!Set, Account!Call, Fades, Begun
<1>3. \A p : Account!setSelectedUserId(p) => Inv'
  BY <1>call DEF Account!setSelectedUserId, Account!Call, Begun, Account!Busy
<1>4. Account!handlePermissionToggle => Inv'
  BY <1>call DEF Account!handlePermissionToggle, Account!Call, Begun
<1>5. Account!handleRoleToggle => Inv'
  BY <1>call DEF Account!handleRoleToggle, Account!Call, Begun
<1>6. Account!profileUpdated => Inv'
  BY <1>set DEF Account!profileUpdated, Fades
<1>7. \A r \in net : Account!searchedPeople(r) => Inv'
  BY <1>done
     DEF Account!searchedPeople, Account!Done, Account!Reach, Closed, Spent, Account!Replied
<1>8. \A r \in net : Account!gotUser(r) => Inv'
  BY <1>done
     DEF Account!gotUser, Account!Done, Account!Reach, Closed, Spent, Account!Idle,
         Account!Replied
<1>9. \A r \in net : Account!toggledPermission(r) => Inv'
  BY <1>done
     DEF Account!toggledPermission, Account!Done, Account!Reach, Closed, Spent, Account!Replied
<1>10. \A r \in net : Account!toggledRole(r) => Inv'
  BY <1>done DEF Account!toggledRole, Account!Done, Account!Reach, Closed, Spent, Account!Replied
<1>11. \A r \in net : Account!PersonServer(r) => Inv'
  BY <1>answer DEF Account!PersonServer, Account!AnswerPush, Account!Read, Account!Answer
<1> QED
  BY <1>2, <1>3, <1>4, <1>5, <1>6, <1>7, <1>8, <1>9, <1>10, <1>11 DEF Account!PersonNext

AccountSteady ==
    \/ FlagsHeld("uploads", UploadsHolds) /\ Steady("uploads", UploadsDeleting)
    \/ /\ FlagsHeld("roles", RolesHolds)
       /\ Steady("roles", RolesSaving)
       /\ Steady("roles", RolesDeleting)
       /\ Steady("roles", RolesToggling)
    \/ FlagsHeld("security", SecurityHolds)
    \/ FlagsHeld("profile", ProfileHolds)
    \/ FlagsHeld("person", PersonHolds) /\ Steady("person", PersonToggling)
    \/ FlagsHeld("card", CardHolds)

LEMMA AccountBegins ==
  ASSUME Account!UploadsInit \/ Account!RolesInit \/ Account!SecurityInit
         \/ Account!ProfileInit
         \/ Account!PersonInit \/ Account!CardInit
  PROVE  AccountSteady
<1>1. CASE Account!UploadsInit
  <2>1. FlagsHeld("uploads", UploadsHolds)
    BY <1>1, BornHeld, AccountOps DEF Account!UploadsInit, Account!Begins, UploadsHolds
  <2>2. Steady("uploads", UploadsDeleting)
    BY <1>1, BornSteady, UploadsDeletingRule, AccountOps DEF Account!UploadsInit, Account!Begins
  <2> QED
    BY <2>1, <2>2 DEF AccountSteady
<1>2. CASE Account!RolesInit
  <2>1. FlagsHeld("roles", RolesHolds)
    BY <1>2, BornHeld, AccountOps DEF Account!RolesInit, Account!Begins, RolesHolds
  <2>2. Steady("roles", RolesSaving)
    BY <1>2, BornSteady, RolesSavingRule, AccountOps DEF Account!RolesInit, Account!Begins
  <2>3. Steady("roles", RolesDeleting)
    BY <1>2, BornSteady, RolesDeletingRule, AccountOps DEF Account!RolesInit, Account!Begins
  <2>4. Steady("roles", RolesToggling)
    BY <1>2, BornSteady, RolesTogglingRule, AccountOps DEF Account!RolesInit, Account!Begins
  <2> QED
    BY <2>1, <2>2, <2>3, <2>4 DEF AccountSteady
<1>3. CASE Account!SecurityInit
  <2>1. FlagsHeld("security", SecurityHolds)
    BY <1>3, BornHeld, AccountOps DEF Account!SecurityInit, Account!Begins, SecurityHolds
  <2> QED
    BY <2>1 DEF AccountSteady
<1>4. CASE Account!ProfileInit
  <2>1. FlagsHeld("profile", ProfileHolds)
    BY <1>4, BornHeld, AccountOps DEF Account!ProfileInit, Account!Begins, ProfileHolds
  <2> QED
    BY <2>1 DEF AccountSteady
<1>5. CASE Account!PersonInit
  <2>1. FlagsHeld("person", PersonHolds)
    BY <1>5, BornHeld, AccountOps DEF Account!PersonInit, Account!Begins, PersonHolds
  <2>2. Steady("person", PersonToggling)
    BY <1>5, BornSteady, PersonTogglingRule, AccountOps DEF Account!PersonInit, Account!Begins
  <2> QED
    BY <2>1, <2>2 DEF AccountSteady
<1>6. CASE Account!CardInit
  <2>1. FlagsHeld("card", CardHolds)
    BY <1>6, BornHeld, AccountOps DEF Account!CardInit, Account!Begins, CardHolds
  <2> QED
    BY <2>1 DEF AccountSteady
<1> QED
  BY <1>1, <1>2, <1>3, <1>4, <1>5, <1>6

LEMMA AccountTurns ==
  ASSUME Next
  PROVE  /\ page[1] = "uploads" => Account!UploadsNext \/ Fails
         /\ page[1] = "roles" => Account!RolesNext \/ Fails
         /\ page[1] = "security" => Account!SecurityNext \/ Fails
         /\ page[1] = "profile" => Account!ProfileNext \/ Fails
         /\ page[1] = "person" => Account!PersonNext \/ Fails
         /\ page[1] = "card" => Account!CardNext \/ Fails
<1>1. Account!UploadsNext => page[1] = "uploads"
  BY DEF Account!UploadsNext, Account!On
<1>2. Account!RolesNext => page[1] = "roles"
  BY DEF Account!RolesNext, Account!On
<1>3. Account!SecurityNext => page[1] = "security"
  BY DEF Account!SecurityNext, Account!On
<1>4. Account!ProfileNext => page[1] = "profile"
  BY DEF Account!ProfileNext, Account!On
<1>5. Account!PersonNext => page[1] = "person"
  BY DEF Account!PersonNext, Account!On
<1>6. Account!CardNext => page[1] = "card"
  BY DEF Account!CardNext, Account!On
<1> QED
  BY <1>1, <1>2, <1>3, <1>4, <1>5, <1>6 DEF Next

LEMMA AccountKept ==
  ASSUME AccountSteady, [Next]_spaVars PROVE AccountSteady'
<1>1. CASE FlagsHeld("uploads", UploadsHolds) /\ Steady("uploads", UploadsDeleting)
  <2>1. page[1] = "uploads"
    BY <1>1 DEF FlagsHeld, Steady
  <2>2. CASE Account!UploadsNext
    BY <1>1, <2>2, UploadsStep, UploadsDeletingStep DEF AccountSteady
  <2>3. CASE Fails \/ UNCHANGED spaVars
    BY <1>1, <2>3, FailsSteady DEF FlagsHeld, AccountSteady
  <2> QED
    BY <2>1, <2>2, <2>3, AccountTurns
<1>2. CASE /\ FlagsHeld("roles", RolesHolds)
           /\ Steady("roles", RolesSaving)
           /\ Steady("roles", RolesDeleting)
           /\ Steady("roles", RolesToggling)
  <2>1. page[1] = "roles"
    BY <1>2 DEF FlagsHeld, Steady
  <2>2. CASE Account!RolesNext
    BY <1>2, <2>2, RolesStep, RolesSavingStep, RolesDeletingStep, RolesTogglingStep
       DEF AccountSteady
  <2>3. CASE Fails \/ UNCHANGED spaVars
    BY <1>2, <2>3, FailsSteady DEF FlagsHeld, AccountSteady
  <2> QED
    BY <2>1, <2>2, <2>3, AccountTurns
<1>3. CASE FlagsHeld("security", SecurityHolds)
  <2>1. page[1] = "security"
    BY <1>3 DEF FlagsHeld, Steady
  <2>2. CASE Account!SecurityNext
    BY <1>3, <2>2, SecurityStep DEF AccountSteady
  <2>3. CASE Fails \/ UNCHANGED spaVars
    BY <1>3, <2>3, FailsSteady DEF FlagsHeld, AccountSteady
  <2> QED
    BY <2>1, <2>2, <2>3, AccountTurns
<1>4. CASE FlagsHeld("profile", ProfileHolds)
  <2>1. page[1] = "profile"
    BY <1>4 DEF FlagsHeld, Steady
  <2>2. CASE Account!ProfileNext
    BY <1>4, <2>2, ProfileStep DEF AccountSteady
  <2>3. CASE Fails \/ UNCHANGED spaVars
    BY <1>4, <2>3, FailsSteady DEF FlagsHeld, AccountSteady
  <2> QED
    BY <2>1, <2>2, <2>3, AccountTurns
<1>5. CASE FlagsHeld("person", PersonHolds) /\ Steady("person", PersonToggling)
  <2>1. page[1] = "person"
    BY <1>5 DEF FlagsHeld, Steady
  <2>2. CASE Account!PersonNext
    BY <1>5, <2>2, PersonStep, PersonTogglingStep DEF AccountSteady
  <2>3. CASE Fails \/ UNCHANGED spaVars
    BY <1>5, <2>3, FailsSteady DEF FlagsHeld, AccountSteady
  <2> QED
    BY <2>1, <2>2, <2>3, AccountTurns
<1>6. CASE FlagsHeld("card", CardHolds)
  <2>1. page[1] = "card"
    BY <1>6 DEF FlagsHeld, Steady
  <2>2. CASE Account!CardNext
    BY <1>6, <2>2, CardStep DEF AccountSteady
  <2>3. CASE Fails \/ UNCHANGED spaVars
    BY <1>6, <2>3, FailsSteady DEF FlagsHeld, AccountSteady
  <2> QED
    BY <2>1, <2>2, <2>3, AccountTurns
<1> QED
  BY <1>1, <1>2, <1>3, <1>4, <1>5, <1>6 DEF AccountSteady

LEMMA AccountEnds == AccountSteady => SpinnersEnd
<1>1. ASSUME FlagsHeld("uploads", UploadsHolds),
             Steady("uploads", UploadsDeleting)
      PROVE  SpinnersEnd
  BY <1>1, NothingShown, PlainRule, UploadsDeletingRule
     DEF FlagsHeld, SpinnersEnd, RowBusy, AwaitsElse
<1>2. ASSUME FlagsHeld("roles", RolesHolds),
             Steady("roles", RolesSaving),
             Steady("roles", RolesDeleting),
             Steady("roles", RolesToggling)
      PROVE  SpinnersEnd
  BY <1>2, NothingShown, PlainRule, RolesSavingRule, RolesDeletingRule, RolesTogglingRule
     DEF FlagsHeld, SpinnersEnd, RowBusy, AwaitsElse
<1>3. ASSUME FlagsHeld("security", SecurityHolds) PROVE SpinnersEnd
  BY <1>3, HeldEnds
<1>4. ASSUME FlagsHeld("profile", ProfileHolds) PROVE SpinnersEnd
  BY <1>4, HeldEnds
<1>5. ASSUME FlagsHeld("person", PersonHolds), Steady("person", PersonToggling) PROVE SpinnersEnd
  BY <1>5, NothingShown, PlainRule, PersonTogglingRule
     DEF FlagsHeld, SpinnersEnd, RowBusy, AwaitsElse
<1>6. ASSUME FlagsHeld("card", CardHolds) PROVE SpinnersEnd
  BY <1>6, HeldEnds
<1> QED
  BY <1>1, <1>2, <1>3, <1>4, <1>5, <1>6 DEF AccountSteady

-----------------------------------------------------------------------------
(* The administration pages.                                               *)

LEMMA AdminOps ==
  /\ \A n, op, arg : Admin!Add(n, op, arg) = Add(n, op, arg)
  /\ \A r, op, arg : Admin!Onward(r, op, arg) = Onward(r, op, arg)
  /\ \A r, ok, val : Admin!Reply(r, ok, val) = Reply(r, ok, val)
  /\ Admin!Orphaned = Orphaned
<1>1. \A n, op, arg : Admin!Add(n, op, arg) = Add(n, op, arg)
  BY DEF Admin!Add, Add
<1> QED
  BY <1>1 DEF Admin!Onward, Onward, Admin!Reply, Reply, Admin!Orphaned, Orphaned

DataSourceHolds ==
    {<<"fetchDS", "load">>, <<"fetchEnv", "load">>, <<"create", "save">>,
      <<"update", "save">>, <<"compile", "run">>, <<"evaluate", "run">>, <<"preset", "section">>}

LEMMA DataSourceStep ==
  ASSUME FlagsHeld("datasource", DataSourceHolds), Admin!DataSourceNext
  PROVE  FlagsHeld("datasource", DataSourceHolds)'
<1> DEFINE Inv == FlagsHeld("datasource", DataSourceHolds)
<1>1. page = <<"datasource", "mounted">> /\ "busy" \in DOMAIN ui
  BY Mounted DEF Admin!DataSourceNext, Admin!On
<1>set. UNCHANGED <<page, net>> /\ (ui' = ui \/ Fewer) => Inv'
  BY SetHeld
<1>call. \A op, arg : net' = Admin!Add(net, op, arg) /\ UNCHANGED page
          /\ Covered(DataSourceHolds, op) => Inv'
  BY <1>1, CallHeld, AdminOps
<1>done. \A r \in net : net' = net \ {r} /\ UNCHANGED page /\ Ended(DataSourceHolds, r) => Inv'
  BY <1>1, DoneHeld
<1>goes. \A r \in net : \A op, arg :
          net' = Admin!Onward(r, op, arg) /\ UNCHANGED page /\ r.rep # None
          /\ Passed(DataSourceHolds, r, op) => Inv'
  BY <1>1, GoesHeld, AdminOps
<1>answer. \A r \in net : \A ok, val : net' = Admin!Reply(r, ok, val)
          /\ UNCHANGED <<page, ui, atom>> => Inv'
  BY ReplyHeld, AdminOps
<1>away. page' = <<"datasource", "away">> /\ (net' = {} \/ net' = Admin!Orphaned) => Inv'
  BY AwayHeld, AdminOps
<1> USE <1>1 DEF DataSourceHolds
<1>2. Admin!editFiles => Inv'
  BY <1>set DEF Admin!editFiles, Admin!Set, Fewer
<1>3. Admin!editName => Inv'
  BY <1>set DEF Admin!editName, Admin!Set, Fewer
<1>4. Admin!handleSave => Inv'
  BY <1>call DEF Admin!handleSave, Admin!Call, Covered, Admin!Busy
<1>5. Admin!confirmDelete => Inv'
  BY <1>call DEF Admin!confirmDelete, Admin!Call, Covered
<1>6. Admin!handleRun => Inv'
  BY <1>call DEF Admin!handleRun, Admin!Call, Covered, Admin!Busy
<1>7. Admin!showSaveSection => Inv'
  BY <1>set DEF Admin!showSaveSection, Admin!Set, Fewer, Admin!Open, Admin!Close, Admin!Toggle
<1>8. Admin!handleSaveSection => Inv'
  BY <1>call DEF Admin!handleSaveSection, Admin!Call, Covered, Admin!Busy
<1>9. \A p : Admin!setActivePanel(p) => Inv'
  BY <1>set DEF Admin!setActivePanel, Admin!Set, Fewer
<1>10. \A r \in net : Admin!gotDS(r) => Inv'
  BY <1>done, <1>goes
     DEF Admin!gotDS, Admin!DoneAtom, Admin!Reach, Admin!Goes, Ended, Dropped, Passed, Swapped,
         Admin!Idle, Admin!Replied
<1>11. \A r \in net : Admin!gotEnv(r) => Inv'
  BY <1>done DEF Admin!gotEnv, Admin!Done, Admin!Reach, Ended, Dropped, Admin!Idle, Admin!Replied
<1>12. \A r \in net : Admin!savedDS(r) => Inv'
  <2> SUFFICES ASSUME NEW r \in net, Admin!savedDS(r) PROVE Inv'
    OBVIOUS
  <2>1. r.op \in {"create", "update"} /\ r.rep # None
    BY DEF Admin!savedDS, Admin!Replied
  <2>2. ASSUME Admin!Goes(r, Admin!Idle([ui EXCEPT !.new = FALSE], "save"), "fetchDS", 0)
        PROVE  Inv'
    BY <2>1, <2>2, <1>goes DEF Admin!Goes, Admin!Reach, Passed, Swapped, Admin!Idle
  <2>3. ASSUME Admin!Done(r, Admin!Idle(ui, "save")) PROVE Inv'
    BY <2>1, <2>3, <1>done DEF Admin!Done, Admin!Reach, Ended, Dropped, Admin!Idle
  <2> QED
    BY <2>2, <2>3 DEF Admin!savedDS, Admin!Replied
<1>13. \A r \in net : Admin!deletedDS(r) => Inv'
  BY <1>done DEF Admin!deletedDS, Admin!DoneAtom, Admin!Reach, Ended, Dropped, Admin!Replied
<1>14. \A r \in net : Admin!compiled(r) => Inv'
  <2> SUFFICES ASSUME NEW r \in net, Admin!compiled(r) PROVE Inv'
    OBVIOUS
  <2>1. r.op = "compile" /\ r.rep # None
    BY DEF Admin!compiled, Admin!Replied
  <2>2. ASSUME NEW o, Admin!Done(r, Admin!Finished(o, 0)) PROVE Inv'
    BY <2>1, <2>2, <1>done DEF Admin!Finished, Admin!Done, Admin!Reach, Ended, Dropped, Admin!Idle
  <2>3. ASSUME Admin!Goes(r, ui, "evaluate", 0) PROVE Inv'
    BY <2>1, <2>3, <1>goes DEF Admin!Goes, Admin!Reach, Passed, Swapped
  <2> QED
    BY <2>2, <2>3 DEF Admin!compiled, Admin!Replied
<1>15. \A r \in net : Admin!evaluated(r) => Inv'
  <2> SUFFICES ASSUME NEW r \in net, Admin!evaluated(r) PROVE Inv'
    OBVIOUS
  <2>1. r.op = "evaluate"
    BY DEF Admin!evaluated, Admin!Replied
  <2>2. ASSUME NEW o, NEW k, Admin!Done(r, Admin!Finished(o, k)) PROVE Inv'
    BY <2>1, <2>2, <1>done DEF Admin!Finished, Admin!Done, Admin!Reach, Ended, Dropped, Admin!Idle
  <2> QED
    BY <2>2 DEF Admin!evaluated, Admin!Replied
<1>16. \A r \in net : Admin!sectionSaved(r) => Inv'
  BY <1>done
     DEF Admin!sectionSaved, Admin!Done, Admin!Reach, Ended, Dropped, Admin!Idle, Admin!Close,
         Admin!Replied
<1>17. \A r \in net : Admin!DataSourceServer(r) => Inv'
  BY <1>answer DEF Admin!DataSourceServer, Admin!Answer, Admin!AnswerPush, Admin!Read
<1> QED
  BY <1>2, <1>3, <1>4, <1>5, <1>6, <1>7, <1>8, <1>9, <1>10, <1>11, <1>12, <1>13, <1>14, <1>15,
         <1>16, <1>17, <1>away
     DEF Admin!DataSourceNext, Admin!Quit

DeploymentsHolds == {<<"instances", "load">>}

LEMMA DeploymentsStep ==
  ASSUME FlagsHeld("deployments", DeploymentsHolds), Admin!DeploymentsNext
  PROVE  FlagsHeld("deployments", DeploymentsHolds)'
<1> DEFINE Inv == FlagsHeld("deployments", DeploymentsHolds)
<1>1. page = <<"deployments", "mounted">> /\ "busy" \in DOMAIN ui
  BY Mounted DEF Admin!DeploymentsNext, Admin!On
<1>set. UNCHANGED <<page, net>> /\ (ui' = ui \/ Fewer) => Inv'
  BY SetHeld
<1>call. \A op, arg : net' = Admin!Add(net, op, arg) /\ UNCHANGED page
          /\ Covered(DeploymentsHolds, op) => Inv'
  BY <1>1, CallHeld, AdminOps
<1>done. \A r \in net : net' = net \ {r} /\ UNCHANGED page /\ Ended(DeploymentsHolds, r) => Inv'
  BY <1>1, DoneHeld
<1>drop. \A r \in net : net' = net \ {r} /\ UNCHANGED page /\ Dropped(DeploymentsHolds, r) => Inv'
  BY <1>1, DropHeld
<1>goes. \A r \in net : \A op, arg :
          net' = Admin!Onward(r, op, arg) /\ UNCHANGED page /\ r.rep # None
          /\ Passed(DeploymentsHolds, r, op) => Inv'
  BY <1>1, GoesHeld, AdminOps
<1>answer. \A r \in net : \A ok, val : net' = Admin!Reply(r, ok, val)
          /\ UNCHANGED <<page, ui, atom>> => Inv'
  BY ReplyHeld, AdminOps
<1> USE <1>1 DEF DeploymentsHolds
<1>2. \A i : Admin!toggleExpand(i) => Inv'
  BY <1>set DEF Admin!toggleExpand, Fewer
<1>3. \A i : Admin!setOpenAppsMenu(i) => Inv'
  BY <1>set DEF Admin!setOpenAppsMenu, Admin!Set, Fewer
<1>4. \A op, i : Admin!instanceOp(op, i) => Inv'
  BY <1>call DEF Admin!instanceOp, Admin!Call, Covered
<1>5. Admin!setShowNewModal => Inv'
  BY <1>set DEF Admin!setShowNewModal, Admin!Set, Fewer, Admin!Open, Admin!Close, Admin!Toggle
<1>6. Admin!provisionInstance => Inv'
  BY <1>call DEF Admin!provisionInstance, Admin!Call, Covered
<1>7. Admin!handleStatus => Inv'
  BY <1>set DEF Admin!handleStatus, Fewer
<1>8. Admin!statusChanges => Inv'
  BY <1>set DEF Admin!statusChanges, Admin!Changes, Fewer
<1>9. \A r \in net : Admin!gotInstances(r) => Inv'
  BY <1>drop DEF Admin!gotInstances, Dropped, Admin!Idle, Admin!Replied
<1>10. \A r \in net : Admin!instanceOpDone(r) => Inv'
  BY <1>done, <1>goes
     DEF Admin!instanceOpDone, Admin!fetchInstances, Admin!Done, Admin!Reach, Admin!Goes, Ended,
         Dropped, Passed, Swapped, Admin!Busy, Admin!Close, Admin!Replied
<1>11. \A r \in net : Admin!DeploymentsServer(r) => Inv'
  BY <1>answer
     DEF Admin!DeploymentsServer, Admin!Operated, Admin!Answer, Admin!AnswerPush, Admin!Read
<1> QED
  BY <1>2, <1>3, <1>4, <1>5, <1>6, <1>7, <1>8, <1>9, <1>10, <1>11 DEF Admin!DeploymentsNext

AdminSteady ==
    \/ FlagsHeld("datasource", DataSourceHolds)
    \/ FlagsHeld("deployments", DeploymentsHolds)

LEMMA AdminBegins ==
  ASSUME Admin!DataSourceInit \/ Admin!DeploymentsInit
  PROVE  AdminSteady
<1>1. CASE Admin!DataSourceInit
  <2>1. FlagsHeld("datasource", DataSourceHolds)
    BY <1>1, BornHeld, AdminOps
       DEF Admin!DataSourceInit, Admin!Begins, Admin!mountDataSource, DataSourceHolds
  <2> QED
    BY <2>1 DEF AdminSteady
<1>2. CASE Admin!DeploymentsInit
  <2>1. FlagsHeld("deployments", DeploymentsHolds)
    BY <1>2, BornHeld, AdminOps DEF Admin!DeploymentsInit, Admin!Begins, DeploymentsHolds
  <2> QED
    BY <2>1 DEF AdminSteady
<1> QED
  BY <1>1, <1>2

LEMMA AdminTurns ==
  ASSUME Next
  PROVE  /\ page[1] = "datasource" => Admin!DataSourceNext \/ Fails
         /\ page[1] = "deployments" => Admin!DeploymentsNext \/ Fails
<1>1. Admin!DataSourceNext => page[1] = "datasource"
  BY DEF Admin!DataSourceNext, Admin!On
<1>2. Admin!DeploymentsNext => page[1] = "deployments"
  BY DEF Admin!DeploymentsNext, Admin!On
<1> QED
  BY <1>1, <1>2 DEF Next

LEMMA AdminKept ==
  ASSUME AdminSteady, [Next]_spaVars PROVE AdminSteady'
<1>1. CASE FlagsHeld("datasource", DataSourceHolds)
  <2>1. page[1] = "datasource"
    BY <1>1 DEF FlagsHeld, Steady
  <2>2. CASE Admin!DataSourceNext
    BY <1>1, <2>2, DataSourceStep DEF AdminSteady
  <2>3. CASE Fails \/ UNCHANGED spaVars
    BY <1>1, <2>3, FailsSteady DEF FlagsHeld, AdminSteady
  <2> QED
    BY <2>1, <2>2, <2>3, AdminTurns
<1>2. CASE FlagsHeld("deployments", DeploymentsHolds)
  <2>1. page[1] = "deployments"
    BY <1>2 DEF FlagsHeld, Steady
  <2>2. CASE Admin!DeploymentsNext
    BY <1>2, <2>2, DeploymentsStep DEF AdminSteady
  <2>3. CASE Fails \/ UNCHANGED spaVars
    BY <1>2, <2>3, FailsSteady DEF FlagsHeld, AdminSteady
  <2> QED
    BY <2>1, <2>2, <2>3, AdminTurns
<1> QED
  BY <1>1, <1>2 DEF AdminSteady

LEMMA AdminEnds == AdminSteady => SpinnersEnd
<1>1. ASSUME FlagsHeld("datasource", DataSourceHolds) PROVE SpinnersEnd
  BY <1>1, HeldEnds
<1>2. ASSUME FlagsHeld("deployments", DeploymentsHolds) PROVE SpinnersEnd
  BY <1>2, HeldEnds
<1> QED
  BY <1>1, <1>2 DEF AdminSteady

-----------------------------------------------------------------------------
(* The forum.                                                              *)

LEMMA ForumOps ==
  /\ \A n, op, arg : Forum!Add(n, op, arg) = Add(n, op, arg)
  /\ \A r, op, arg : Forum!Onward(r, op, arg) = Onward(r, op, arg)
  /\ \A r, ok, val : Forum!Reply(r, ok, val) = Reply(r, ok, val)
  /\ Forum!Orphaned = Orphaned
<1>1. \A n, op, arg : Forum!Add(n, op, arg) = Add(n, op, arg)
  BY DEF Forum!Add, Add
<1> QED
  BY <1>1 DEF Forum!Onward, Onward, Forum!Reply, Reply, Forum!Orphaned, Orphaned

ThreadHolds == {<<"thread", "load">>}

LEMMA ThreadStep ==
  ASSUME FlagsHeld("thread", ThreadHolds), Forum!ThreadNext
  PROVE  FlagsHeld("thread", ThreadHolds)'
<1> DEFINE Inv == FlagsHeld("thread", ThreadHolds)
<1>1. page = <<"thread", "mounted">> /\ "busy" \in DOMAIN ui
  BY Mounted DEF Forum!ThreadNext, Forum!On
<1>set. UNCHANGED <<page, net>> /\ (ui' = ui \/ Fewer) => Inv'
  BY SetHeld
<1>call. \A op, arg : net' = Forum!Add(net, op, arg) /\ UNCHANGED page
          /\ Covered(ThreadHolds, op) => Inv'
  BY <1>1, CallHeld, ForumOps
<1>done. \A r \in net : net' = net \ {r} /\ UNCHANGED page /\ Ended(ThreadHolds, r) => Inv'
  BY <1>1, DoneHeld
<1>swap. \A r \in net : \A op, arg :
          net' = Forum!Add(net \ {r}, op, arg) /\ UNCHANGED page
          /\ (Swapped(ThreadHolds, r, op) \/ Passed(ThreadHolds, r, op)) => Inv'
  BY <1>1, SwapHeld, ForumOps
<1>answer. \A r \in net : \A ok, val : net' = Forum!Reply(r, ok, val)
          /\ UNCHANGED <<page, ui, atom>> => Inv'
  BY ReplyHeld, ForumOps
<1>away. page' = <<"thread", "away">> /\ (net' = {} \/ net' = Forum!Orphaned) => Inv'
  BY AwayHeld, ForumOps
<1> USE <1>1 DEF ThreadHolds
<1>2. Forum!handleLikeThread => Inv'
  BY <1>call DEF Forum!handleLikeThread, Forum!CallAtom, Covered
<1>3. Forum!handleLockThread => Inv'
  BY <1>call DEF Forum!handleLockThread, Forum!Write, Forum!Call, Covered
<1>4. Forum!handleDeleteThread => Inv'
  BY <1>call DEF Forum!handleDeleteThread, Forum!Write, Forum!Call, Covered
<1>5. Forum!handleShareThread => Inv'
  BY <1>call DEF Forum!handleShareThread, Forum!Call, Covered
<1>6. Forum!threadPushed => Inv'
  BY <1>set DEF Forum!threadPushed, Forum!threadReducer, Forum!updateThread, Forum!Takes, Fewer
<1>7. Forum!threadChanges => Inv'
  BY <1>set DEF Forum!threadChanges, Forum!Changes, Fewer
<1>8. \A t : Forum!openThread(t) => Inv'
  BY <1>call DEF Forum!openThread, Covered, Forum!Busy
<1>9. \A v : Forum!toggleView(v) => Inv'
  BY <1>set DEF Forum!toggleView, Forum!Set, Fewer, Forum!Open, Forum!Close, Forum!Toggle
<1>10. \A r \in net : Forum!loadedThread(r) => Inv'
  <2> SUFFICES ASSUME NEW r \in net, Forum!loadedThread(r) PROVE Inv'
    OBVIOUS
  <2>1. r.op = "thread"
    BY DEF Forum!loadedThread, Forum!Replied
  <2>2. ASSUME Forum!Reach(r, Forum!Idle(ui, "load"))
               /\ net' = Forum!Add(net \ {r}, "author", r.arg) /\ UNCHANGED page
        PROVE  Inv'
    BY <2>1, <2>2, <1>swap DEF Forum!Reach, Swapped, Passed, Forum!Idle
  <2>3. ASSUME Forum!Done(r, Forum!Idle([ui EXCEPT !.error = TRUE], "load")) PROVE Inv'
    BY <2>1, <2>3, <1>done DEF Forum!Done, Forum!Reach, Ended, Dropped, Forum!Idle
  <2> QED
    BY <2>2, <2>3 DEF Forum!loadedThread, Forum!Replied
<1>11. \A r \in net : Forum!gotAuthor(r) => Inv'
  BY <1>done DEF Forum!gotAuthor, Forum!Done, Forum!Reach, Ended, Dropped, Forum!Replied
<1>12. \A r \in net : Forum!likedThread(r) => Inv'
  BY <1>done DEF Forum!likedThread, Forum!DoneAtom, Forum!Reach, Ended, Dropped, Forum!Replied
<1>13. \A r \in net : Forum!lockedThread(r) => Inv'
  BY <1>done DEF Forum!lockedThread, Forum!DoneAtom, Forum!Reach, Ended, Dropped, Forum!Replied
<1>14. \A r \in net : Forum!leftThread(r) => Inv'
  BY <1>done, <1>away
     DEF Forum!leftThread, Forum!Done, Forum!Reach, Forum!Quit, Ended, Dropped, Forum!Replied
<1>15. \A r \in net : Forum!ThreadServer(r) => Inv'
  BY <1>answer DEF Forum!ThreadServer, Forum!AnswerPush, Forum!Answer, Forum!Read
<1> QED
  BY <1>2, <1>3, <1>4, <1>5, <1>6, <1>7, <1>8, <1>9, <1>10, <1>11, <1>12, <1>13, <1>14, <1>15
     DEF Forum!ThreadNext

ForumHolds == {<<"forums", "forums">>}

LEMMA ForumStep ==
  ASSUME FlagsHeld("forum", ForumHolds), Forum!ForumNext
  PROVE  FlagsHeld("forum", ForumHolds)'
<1> DEFINE Inv == FlagsHeld("forum", ForumHolds)
<1>1. page = <<"forum", "mounted">> /\ "busy" \in DOMAIN ui
  BY Mounted DEF Forum!ForumNext, Forum!On
<1>set. UNCHANGED <<page, net>> /\ (ui' = ui \/ Fewer) => Inv'
  BY SetHeld
<1>call. \A op, arg : net' = Forum!Add(net, op, arg) /\ UNCHANGED page
          /\ Covered(ForumHolds, op) => Inv'
  BY <1>1, CallHeld, ForumOps
<1>done. \A r \in net : net' = net \ {r} /\ UNCHANGED page /\ Ended(ForumHolds, r) => Inv'
  BY <1>1, DoneHeld
<1>drop. \A r \in net : net' = net \ {r} /\ UNCHANGED page /\ Dropped(ForumHolds, r) => Inv'
  BY <1>1, DropHeld
<1>goes. \A r \in net : \A op, arg :
          net' = Forum!Onward(r, op, arg) /\ UNCHANGED page /\ r.rep # None
          /\ Passed(ForumHolds, r, op) => Inv'
  BY <1>1, GoesHeld, ForumOps
<1>answer. \A r \in net : \A ok, val : net' = Forum!Reply(r, ok, val)
          /\ UNCHANGED <<page, ui, atom>> => Inv'
  BY ReplyHeld, ForumOps
<1> USE <1>1 DEF ForumHolds
<1>2. Forum!updateCompactForum => Inv'
  BY <1>set DEF Forum!updateCompactForum, Forum!Set, Fewer
<1>3. Forum!onSearchChange => Inv'
  BY <1>set DEF Forum!onSearchChange, Forum!Set, Fewer
<1>4. Forum!searchForums => Inv'
  BY <1>call DEF Forum!searchForums, Forum!Call, Covered, Forum!Busy
<1>5. Forum!categoryPushed => Inv'
  BY <1>set DEF Forum!categoryPushed, Forum!categoryReducer, Forum!Takes, Fewer
<1>6. Forum!forumReconnected => Inv'
  BY <1>call DEF Forum!forumReconnected, Covered, Forum!Busy
<1>7. \A v : Forum!toggleForumView(v) => Inv'
  BY <1>set DEF Forum!toggleForumView, Forum!Set, Fewer
<1>8. \A op, c : Forum!handleCategory(op, c) => Inv'
  BY <1>call DEF Forum!handleCategory, Forum!Write, Forum!Call, Covered
<1>9. \A op, c, t : Forum!handlePreview(op, c, t) => Inv'
  BY <1>call DEF Forum!handlePreview, Forum!Write, Forum!Call, Covered
<1>10. \A r \in net : Forum!loadForums(r) => Inv'
  BY <1>done, <1>drop
     DEF Forum!loadForums, Forum!Done, Forum!Reach, Ended, Dropped, Forum!Idle, Forum!Replied
<1>11. \A r \in net : Forum!forumActed(r) => Inv'
  BY <1>done, <1>goes
     DEF Forum!forumActed, Forum!Done, Forum!Reach, Forum!Goes, Ended, Dropped, Passed, Swapped,
         Forum!Busy, Forum!Replied
<1>12. \A r \in net : Forum!ForumServer(r) => Inv'
  BY <1>answer DEF Forum!ForumServer, Forum!AnswerPush, Forum!Read, Forum!Answer
<1> QED
  BY <1>2, <1>3, <1>4, <1>5, <1>6, <1>7, <1>8, <1>9, <1>10, <1>11, <1>12 DEF Forum!ForumNext

EditThreadHolds == {<<"thread", "load">>, <<"put", "submit">>}

LEMMA EditThreadStep ==
  ASSUME FlagsHeld("threadForm", EditThreadHolds), Forum!EditThreadNext
  PROVE  FlagsHeld("threadForm", EditThreadHolds)'
<1> DEFINE Inv == FlagsHeld("threadForm", EditThreadHolds)
<1>1. page = <<"threadForm", "mounted">> /\ "busy" \in DOMAIN ui
  BY Mounted DEF Forum!EditThreadNext, Forum!On
<1>set. UNCHANGED <<page, net>> /\ (ui' = ui \/ Fewer) => Inv'
  BY SetHeld
<1>call. \A op, arg : net' = Forum!Add(net, op, arg) /\ UNCHANGED page
          /\ Covered(EditThreadHolds, op) => Inv'
  BY <1>1, CallHeld, ForumOps
<1>done. \A r \in net : net' = net \ {r} /\ UNCHANGED page /\ Ended(EditThreadHolds, r) => Inv'
  BY <1>1, DoneHeld
<1>answer. \A r \in net : \A ok, val : net' = Forum!Reply(r, ok, val)
          /\ UNCHANGED <<page, ui, atom>> => Inv'
  BY ReplyHeld, ForumOps
<1>away. page' = <<"threadForm", "away">> /\ (net' = {} \/ net' = Forum!Orphaned) => Inv'
  BY AwayHeld, ForumOps
<1> USE <1>1 DEF EditThreadHolds
<1>2. Forum!threadUpdated => Inv'
  BY <1>set DEF Forum!threadUpdated, Forum!setDraft, Fewer
<1>3. Forum!handleUpdateThread => Inv'
  BY <1>call DEF Forum!handleUpdateThread, Forum!Call, Covered, Forum!Busy
<1>4. \A text : Forum!setEditContent(text) => Inv'
  BY <1>set DEF Forum!setEditContent, Forum!setDraft, Forum!SetAtom, Fewer
<1>5. \A r \in net : Forum!loadedForEdit(r) => Inv'
  <2> SUFFICES ASSUME NEW r \in net, Forum!loadedForEdit(r) PROVE Inv'
    OBVIOUS
  <2>1. r.op = "thread"
    BY DEF Forum!loadedForEdit, Forum!setDraft, Forum!Replied
  <2>2. ASSUME Forum!Reach(r, Forum!Idle([ui EXCEPT !.seen = r.rep.val], "load"))
               /\ net' = net \ {r} /\ UNCHANGED page
        PROVE  Inv'
    BY <2>1, <2>2, <1>done DEF Forum!Reach, Ended, Dropped, Forum!Idle
  <2>3. ASSUME Forum!Done(r, Forum!Idle([ui EXCEPT !.error = TRUE], "load")) PROVE Inv'
    BY <2>1, <2>3, <1>done DEF Forum!Done, Forum!Reach, Ended, Dropped, Forum!Idle
  <2> QED
    BY <2>2, <2>3 DEF Forum!loadedForEdit, Forum!setDraft, Forum!Replied
<1>6. \A r \in net : Forum!updatedThread(r) => Inv'
  <2> SUFFICES ASSUME NEW r \in net, Forum!updatedThread(r) PROVE Inv'
    OBVIOUS
  <2>1. r.op = "put"
    BY DEF Forum!updatedThread, Forum!Replied
  <2>2. ASSUME page' = <<"threadForm", "away">> /\ net' = {} PROVE Inv'
    BY <2>1, <2>2, <1>away
  <2>3. ASSUME Forum!Done(r, Forum!Idle(ui, "submit")) PROVE Inv'
    BY <2>1, <2>3, <1>done DEF Forum!Done, Forum!Reach, Ended, Dropped, Forum!Idle
  <2> QED
    BY <2>2, <2>3 DEF Forum!updatedThread, Forum!Replied
<1>7. \A r \in net : Forum!EditThreadServer(r) => Inv'
  BY <1>answer DEF Forum!EditThreadServer, Forum!AnswerPush, Forum!Read, Forum!Answer
<1> QED
  BY <1>2, <1>3, <1>4, <1>5, <1>6, <1>7, <1>set DEF Forum!EditThreadNext, Forum!Changes, Fewer

NewThreadHolds == {<<"create", "submit">>}

LEMMA NewThreadStep ==
  ASSUME FlagsHeld("newThread", NewThreadHolds), Forum!NewThreadNext
  PROVE  FlagsHeld("newThread", NewThreadHolds)'
<1> DEFINE Inv == FlagsHeld("newThread", NewThreadHolds)
<1>1. page = <<"newThread", "mounted">> /\ "busy" \in DOMAIN ui
  BY Mounted DEF Forum!NewThreadNext, Forum!On
<1>set. UNCHANGED <<page, net>> /\ (ui' = ui \/ Fewer) => Inv'
  BY SetHeld
<1>call. \A op, arg : net' = Forum!Add(net, op, arg) /\ UNCHANGED page
          /\ Covered(NewThreadHolds, op) => Inv'
  BY <1>1, CallHeld, ForumOps
<1>done. \A r \in net : net' = net \ {r} /\ UNCHANGED page /\ Ended(NewThreadHolds, r) => Inv'
  BY <1>1, DoneHeld
<1>answer. \A r \in net : \A ok, val : net' = Forum!Reply(r, ok, val)
          /\ UNCHANGED <<page, ui, atom>> => Inv'
  BY ReplyHeld, ForumOps
<1>away. page' = <<"newThread", "away">> /\ (net' = {} \/ net' = Forum!Orphaned) => Inv'
  BY AwayHeld, ForumOps
<1> USE <1>1 DEF NewThreadHolds
<1>2. Forum!createThread => Inv'
  BY <1>call DEF Forum!createThread, Forum!Call, Covered, Forum!Busy
<1>3. Forum!leaveNewThread => Inv'
  BY <1>away DEF Forum!leaveNewThread, Forum!Quit
<1>4. \A f : Forum!updateDraft(f) => Inv'
  BY <1>set DEF Forum!updateDraft, Forum!SetAtom, Fewer
<1>5. \A r \in net : Forum!createdThread(r) => Inv'
  BY <1>done
     DEF Forum!createdThread, Forum!DoneAtom, Forum!Reach, Ended, Dropped, Forum!Idle,
         Forum!Replied
<1> QED
  BY <1>2, <1>3, <1>4, <1>5, <1>answer
     DEF Forum!NewThreadNext, Forum!Read, Forum!Answer, Forum!AnswerPush

TilesHolds == {<<"users", "load">>}

LEMMA TilesStep ==
  ASSUME FlagsHeld("tiles", TilesHolds), Forum!TilesNext
  PROVE  FlagsHeld("tiles", TilesHolds)'
<1> DEFINE Inv == FlagsHeld("tiles", TilesHolds)
<1>1. page = <<"tiles", "mounted">> /\ "busy" \in DOMAIN ui
  BY Mounted DEF Forum!TilesNext, Forum!On
<1>set. UNCHANGED <<page, net>> /\ (ui' = ui \/ Fewer) => Inv'
  BY SetHeld
<1>call. \A op, arg : net' = Forum!Add(net, op, arg) /\ UNCHANGED page
          /\ Covered(TilesHolds, op) => Inv'
  BY <1>1, CallHeld, ForumOps
<1>done. \A r \in net : net' = net \ {r} /\ UNCHANGED page /\ Ended(TilesHolds, r) => Inv'
  BY <1>1, DoneHeld
<1>answer. \A r \in net : \A ok, val : net' = Forum!Reply(r, ok, val)
          /\ UNCHANGED <<page, ui, atom>> => Inv'
  BY ReplyHeld, ForumOps
<1> USE <1>1 DEF TilesHolds
<1>2. Forum!fetchUsers => Inv'
  BY <1>call DEF Forum!fetchUsers, Forum!Call, Covered, Forum!Busy
<1>3. \A r \in net : Forum!gotUsers(r) => Inv'
  BY <1>done
     DEF Forum!gotUsers, Forum!Done, Forum!Reach, Ended, Dropped, Forum!Idle, Forum!Replied
<1>4. \A r \in net : Forum!TilesServer(r) => Inv'
  BY <1>answer DEF Forum!TilesServer, Forum!Read, Forum!Answer, Forum!AnswerPush
<1> QED
  BY <1>2, <1>3, <1>4, <1>set DEF Forum!TilesNext, Forum!Changes, Fewer

PageCommentsHolds == {<<"page", "comments">>, <<"comment", "submit">>}

LEMMA PageCommentsStep ==
  ASSUME FlagsHeld("pageComments", PageCommentsHolds), Forum!PageCommentsNext
  PROVE  FlagsHeld("pageComments", PageCommentsHolds)'
<1> DEFINE Inv == FlagsHeld("pageComments", PageCommentsHolds)
<1>1. page = <<"pageComments", "mounted">> /\ "busy" \in DOMAIN ui
  BY Mounted DEF Forum!PageCommentsNext, Forum!On
<1>set. UNCHANGED <<page, net>> /\ (ui' = ui \/ Fewer) => Inv'
  BY SetHeld
<1>call. \A op, arg : net' = Forum!Add(net, op, arg) /\ UNCHANGED page
          /\ Covered(PageCommentsHolds, op) => Inv'
  BY <1>1, CallHeld, ForumOps
<1>done. \A r \in net : net' = net \ {r} /\ UNCHANGED page /\ Ended(PageCommentsHolds, r) => Inv'
  BY <1>1, DoneHeld
<1>answer. \A r \in net : \A ok, val : net' = Forum!Reply(r, ok, val)
          /\ UNCHANGED <<page, ui, atom>> => Inv'
  BY ReplyHeld, ForumOps
<1> USE <1>1 DEF PageCommentsHolds
<1>2. Forum!loadSlowMode => Inv'
  BY <1>call DEF Forum!loadSlowMode, Forum!Call, Covered
<1>3. Forum!toggleSlowMode => Inv'
  BY <1>call DEF Forum!toggleSlowMode, Forum!Write, Forum!Call, Covered
<1>4. Forum!handlePageComment => Inv'
  BY <1>call DEF Forum!handlePageComment, Forum!Write, Forum!Call, Covered, Forum!Busy
<1>5. Forum!pageLiveEvent => Inv'
  <2> SUFFICES ASSUME Forum!pageLiveEvent PROVE Inv'
    OBVIOUS
  <2>1. ASSUME NEW v, ui' = [ui EXCEPT !.comments = v] /\ UNCHANGED <<page, net>> PROVE Inv'
    BY <2>1, <1>set DEF Fewer
  <2>2. ASSUME NEW v, ui' = [ui EXCEPT !.slow = v] /\ UNCHANGED <<page, net>> PROVE Inv'
    BY <2>2, <1>set DEF Fewer
  <2>3. ASSUME ui' = ui /\ UNCHANGED <<page, net>> PROVE Inv'
    BY <2>3, <1>set DEF Fewer
  <2> QED
    BY <2>1, <2>2, <2>3 DEF Forum!pageLiveEvent
<1>6. \A c : Forum!handleLike(c) => Inv'
  BY <1>call DEF Forum!handleLike, Forum!Call, Covered
<1>7. \A c : Forum!handleDelete(c) => Inv'
  BY <1>call DEF Forum!handleDelete, Forum!Write, Forum!Call, Covered
<1>8. \A r \in net : Forum!gotSlowMode(r) => Inv'
  BY <1>done DEF Forum!gotSlowMode, Forum!Done, Forum!Reach, Ended, Dropped, Forum!Replied
<1>9. \A r \in net : Forum!gotComments(r) => Inv'
  BY <1>done
     DEF Forum!gotComments, Forum!Done, Forum!Reach, Ended, Dropped, Forum!Idle, Forum!Replied
<1>10. \A r \in net : Forum!pageCommented(r) => Inv'
  BY <1>done
     DEF Forum!pageCommented, Forum!Done, Forum!Reach, Ended, Dropped, Forum!Idle, Forum!Replied
<1>11. \A r \in net : Forum!pageCommentDone(r) => Inv'
  BY <1>done DEF Forum!pageCommentDone, Forum!Done, Forum!Reach, Ended, Dropped, Forum!Replied
<1>12. \A r \in net : Forum!PageCommentsServer(r) => Inv'
  BY ZenonT(30), <1>answer DEF Forum!PageCommentsServer, Forum!AnswerPush, Forum!Read, Forum!Answer
<1> QED
  BY <1>2, <1>3, <1>4, <1>5, <1>6, <1>7, <1>8, <1>9, <1>10, <1>11, <1>12, <1>set
     DEF Forum!PageCommentsNext, Forum!Changes, Fewer

CommentsFirst == <<"first", {<<"page", "comments">>, <<"comment", "submit">>}, "page", 2>>

LEMMA CommentsFirstRule ==
  /\ Shown(CommentsFirst) = ui.busy
  /\ Shown(CommentsFirst)' = ui'.busy
  /\ (Whole(CommentsFirst) <=> "busy" \in DOMAIN ui)
  /\ (Whole(CommentsFirst)' <=> "busy" \in DOMAIN ui')
  /\ \A op, arg, f : Holds(CommentsFirst, op, arg, f)
        <=> (op = "page" /\ arg[2] = 0 /\ f = "comments") \/ (op = "comment" /\ f = "submit")
<1>1. Shown(CommentsFirst) = ui.busy /\ Shown(CommentsFirst)' = ui'.busy
  BY DEF Shown, FlagsOf, CommentsFirst
<1>2. (Whole(CommentsFirst) <=> "busy" \in DOMAIN ui)
        /\ (Whole(CommentsFirst)' <=> "busy" \in DOMAIN ui')
  BY DEF Whole, FieldsOf, CommentsFirst
<1>3. \A op, arg, f : Holds(CommentsFirst, op, arg, f)
        <=> (op = "page" /\ arg[2] = 0 /\ f = "comments") \/ (op = "comment" /\ f = "submit")
  BY DEF Holds, CommentsFirst
<1> QED
  BY <1>1, <1>2, <1>3

LEMMA CommentsFirstStep ==
  ASSUME Steady("comments", CommentsFirst), Forum!CommentsNext
  PROVE  Steady("comments", CommentsFirst)'
<1> DEFINE Inv == Steady("comments", CommentsFirst)
<1>1. page = <<"comments", "mounted">> /\ Whole(CommentsFirst)
  BY DEF Steady, Forum!CommentsNext, Forum!On
<1>set. UNCHANGED <<page, net>> /\ Fades(CommentsFirst) => Inv'
  BY <1>1, SetSteady
<1>call. \A op, arg : net' = Forum!Add(net, op, arg) /\ UNCHANGED page
          /\ Begun(CommentsFirst, op, arg) => Inv'
  BY <1>1, CallSteady, ForumOps
<1>done. \A r \in net : net' = net \ {r} /\ UNCHANGED page /\ Closed(CommentsFirst, r) => Inv'
  BY <1>1, DoneSteady
<1>answer. \A r \in net : \A ok, val : net' = Forum!Reply(r, ok, val)
          /\ UNCHANGED <<page, ui, atom>> => Inv'
  BY ReplySteady, ForumOps
<1> USE <1>1, CommentsFirstRule
<1>2. Forum!loadOlder => Inv'
  BY <1>call DEF Forum!loadOlder, Forum!Call, Begun
<1>3. Forum!toggleEditor => Inv'
  BY <1>set DEF Forum!toggleEditor, Forum!Set, Fades, Forum!Open, Forum!Close, Forum!Toggle
<1>4. Forum!submitComment => Inv'
  BY <1>call DEF Forum!submitComment, Forum!Write, Forum!Call, Begun, Forum!Busy
<1>5. Forum!commentPushed => Inv'
  BY <1>set DEF Forum!commentPushed, Forum!commentReducer, Forum!Takes, Fades
<1>6. Forum!othersComment => Inv'
  BY <1>set DEF Forum!othersComment, Forum!Changes, Fades
<1>7. \A t : Forum!otherThread(t) => Inv'
  BY <1>call DEF Forum!otherThread, Forum!Fresh, Begun, Forum!Busy
<1>8. \A c : Forum!handleDeleteComment(c) => Inv'
  BY <1>call DEF Forum!handleDeleteComment, Forum!Write, Forum!Call, Begun
<1>9. \A c : Forum!handleLikeComment(c) => Inv'
  BY <1>call DEF Forum!handleLikeComment, Forum!CallAtom, Begun
<1>10. \A r \in net : Forum!loadInitial(r) => Inv'
  BY <1>done
     DEF Forum!loadInitial, Forum!DoneAtom, Forum!Reach, Closed, Spent, Forum!Idle, Forum!Replied
<1>11. \A r \in net : Forum!gotOlder(r) => Inv'
  <2> SUFFICES ASSUME NEW r \in net, Forum!gotOlder(r) PROVE Inv'
    OBVIOUS
  <2>1. r.op = "page" /\ r.arg[2] > 0
    BY DEF Forum!gotOlder, Forum!Replied
  <2>2. ASSUME Forum!Done(r, [ui EXCEPT !.older = FALSE]) PROVE Inv'
    BY <2>1, <2>2, <1>done DEF Forum!Done, Forum!Reach, Closed, Spent
  <2>3. ASSUME NEW o, NEW e, NEW a,
               Forum!DoneAtom(r, [[ui EXCEPT !.older = FALSE] EXCEPT !.offset = o,
                 !.exhausted = e], a)
        PROVE  Inv'
    BY <2>1, <2>3, <1>done DEF Forum!DoneAtom, Forum!Reach, Closed, Spent
  <2> QED
    BY <2>2, <2>3 DEF Forum!gotOlder, Forum!Replied
<1>12. \A r \in net : Forum!commentDone(r) => Inv'
  BY <1>done
     DEF Forum!commentDone, Forum!Done, Forum!Reach, Forum!DoneAtom, Closed, Spent, Forum!Replied
<1>13. \A r \in net : Forum!commented(r) => Inv'
  BY <1>done
     DEF Forum!commented, Forum!Done, Forum!Reach, Closed, Spent, Forum!Idle, Forum!Close,
         Forum!Replied
<1>14. \A r \in net : Forum!CommentsServer(r) => Inv'
  <2> SUFFICES ASSUME NEW r \in net, Forum!CommentsServer(r) PROVE Inv'
    OBVIOUS
  <2>1. ASSUME NEW d, NEW v, NEW ps, Forum!AnswerPush(r, d, v, ps) PROVE Inv'
    BY <1>answer, <2>1 DEF Forum!AnswerPush
  <2> QED
    BY <2>1 DEF Forum!CommentsServer, Forum!Read, Forum!Answer
<1> QED
  BY <1>2, <1>3, <1>4, <1>5, <1>6, <1>7, <1>8, <1>9, <1>10, <1>11, <1>12, <1>13, <1>14
     DEF Forum!CommentsNext

FeedFirst == <<"first", {<<"threads", "load">>}, "threads", 3>>

LEMMA FeedFirstRule ==
  /\ Shown(FeedFirst) = ui.busy
  /\ Shown(FeedFirst)' = ui'.busy
  /\ (Whole(FeedFirst) <=> "busy" \in DOMAIN ui)
  /\ (Whole(FeedFirst)' <=> "busy" \in DOMAIN ui')
  /\ \A op, arg, f : Holds(FeedFirst, op, arg, f) <=> op = "threads" /\ arg[3] = 0 /\ f = "load"
<1>1. Shown(FeedFirst) = ui.busy /\ Shown(FeedFirst)' = ui'.busy
  BY DEF Shown, FlagsOf, FeedFirst
<1>2. (Whole(FeedFirst) <=> "busy" \in DOMAIN ui) /\ (Whole(FeedFirst)' <=> "busy" \in DOMAIN ui')
  BY DEF Whole, FieldsOf, FeedFirst
<1>3. \A op, arg, f : Holds(FeedFirst, op, arg, f) <=> op = "threads" /\ arg[3] = 0 /\ f = "load"
  BY DEF Holds, FeedFirst
<1> QED
  BY <1>1, <1>2, <1>3

LEMMA FeedFirstStep ==
  ASSUME Steady("feed", FeedFirst), Forum!FeedNext, page = <<"feed", "mounted">>
  PROVE  Steady("feed", FeedFirst)'
<1> DEFINE Inv == Steady("feed", FeedFirst)
<1>1. page = <<"feed", "mounted">> /\ Whole(FeedFirst)
  BY DEF Steady, Forum!FeedNext, Forum!leaveFeed, Forum!On
<1>set. UNCHANGED <<page, net>> /\ Fades(FeedFirst) => Inv'
  BY <1>1, SetSteady
<1>call. \A op, arg : net' = Forum!Add(net, op, arg) /\ UNCHANGED page
          /\ Begun(FeedFirst, op, arg) => Inv'
  BY <1>1, CallSteady, ForumOps
<1>done. \A r \in net : net' = net \ {r} /\ UNCHANGED page /\ Closed(FeedFirst, r) => Inv'
  BY <1>1, DoneSteady
<1>answer. \A r \in net : \A ok, val : net' = Forum!Reply(r, ok, val)
          /\ UNCHANGED <<page, ui, atom>> => Inv'
  BY ReplySteady, ForumOps
<1>away. page' = <<"feed", "away">> /\ (net' = {} \/ net' = Forum!Orphaned) => Inv'
  BY AwaySteady, GoneRequests, ForumOps DEF Steady
<1> USE <1>1, FeedFirstRule
<1>2. Forum!feedOlder => Inv'
  BY <1>call DEF Forum!feedOlder, Forum!Call, Begun
<1>3. Forum!searchDebounced => Inv'
  BY <1>call DEF Forum!searchDebounced, Forum!Filtered, Forum!FeedUi, Forum!CallAtom, Begun
<1>4. Forum!leaveFeed => Inv'
  BY <1>away DEF Forum!leaveFeed, Forum!Leave
<1>5. Forum!othersThread => Inv'
  BY <1>set DEF Forum!othersThread, Forum!Changes, Fades
<1>6. \A cat : Forum!otherCategory(cat) => Inv'
  BY <1>call DEF Forum!otherCategory, Forum!Filtered, Forum!FeedUi, Forum!CallAtom, Begun
<1>7. \A q : Forum!setSearchQuery(q) => Inv'
  BY <1>set DEF Forum!setSearchQuery, Forum!Set, Fades
<1>8. \A r \in net : Forum!FeedServer(r) => Inv'
  BY <1>answer DEF Forum!FeedServer, Forum!Read, Forum!Answer, Forum!AnswerPush
<1>9. Forum!feedPushed => Inv'
  BY <1>set DEF Forum!feedPushed, Forum!feedReducer, Forum!Takes, Fades
<1>10. \A r \in net : Forum!feedInitial(r) => Inv'
  <2> SUFFICES ASSUME NEW r \in net, Forum!feedInitial(r) PROVE Inv'
    OBVIOUS
  <2>1. r.op = "threads"
    BY DEF Forum!feedInitial, Forum!Replied
  <2>2. ASSUME NEW o, NEW e, NEW a,
               Forum!DoneAtom(r, Forum!Idle([ui EXCEPT !.offset = o, !.exhausted = e], "load"), a)
        PROVE  Inv'
    BY <2>1, <2>2, <1>done DEF Forum!DoneAtom, Forum!Reach, Closed, Spent, Forum!Idle
  <2>3. ASSUME NEW a, Forum!DoneAtom(r, Forum!Idle(ui, "load"), a) PROVE Inv'
    BY <2>1, <2>3, <1>done DEF Forum!DoneAtom, Forum!Reach, Closed, Spent, Forum!Idle
  <2> QED
    BY <2>2, <2>3 DEF Forum!feedInitial, Forum!Replied
<1>11. \A r \in net : Forum!feedGotOlder(r) => Inv'
  <2> SUFFICES ASSUME NEW r \in net, Forum!feedGotOlder(r) PROVE Inv'
    OBVIOUS
  <2>1. r.op = "threads" /\ r.arg[3] > 0
    BY DEF Forum!feedGotOlder, Forum!Replied
  <2>2. ASSUME Forum!Done(r, [ui EXCEPT !.older = FALSE]) PROVE Inv'
    BY <2>1, <2>2, <1>done DEF Forum!Done, Forum!Reach, Closed, Spent
  <2>3. ASSUME NEW o, NEW e, NEW a,
               Forum!DoneAtom(r, [[ui EXCEPT !.older = FALSE] EXCEPT !.offset = o,
                 !.exhausted = e], a)
        PROVE  Inv'
    BY <2>1, <2>3, <1>done DEF Forum!DoneAtom, Forum!Reach, Closed, Spent
  <2> QED
    BY <2>2, <2>3 DEF Forum!feedGotOlder, Forum!Replied
<1> QED
  BY <1>2, <1>3, <1>4, <1>5, <1>6, <1>7, <1>8, <1>9, <1>10, <1>11 DEF Forum!FeedNext

ForumSteady ==
    \/ FlagsHeld("thread", ThreadHolds)
    \/ Steady("comments", CommentsFirst)
    \/ FlagsHeld("pageComments", PageCommentsHolds)
    \/ Steady("feed", FeedFirst)
    \/ FlagsHeld("forum", ForumHolds)
    \/ FlagsHeld("threadForm", EditThreadHolds)
    \/ FlagsHeld("newThread", NewThreadHolds)
    \/ FlagsHeld("tiles", TilesHolds)

LEMMA ForumBegins ==
  ASSUME Forum!ThreadInit \/ Forum!CommentsInit \/ Forum!PageCommentsInit \/ Forum!FeedInit
         \/ Forum!ForumInit \/ Forum!EditThreadInit \/ Forum!NewThreadInit \/ Forum!TilesInit
  PROVE  ForumSteady
<1>1. CASE Forum!ThreadInit
  <2>1. FlagsHeld("thread", ThreadHolds)
    BY <1>1, BornHeld, ForumOps DEF Forum!ThreadInit, Forum!Begins, ThreadHolds
  <2> QED
    BY <2>1 DEF ForumSteady
<1>2. CASE Forum!CommentsInit
  <2>1. PICK u : /\ DOMAIN u = {"busy", "id", "offset", "exhausted", "older", "may", "on"}
                 /\ u.busy = {} /\ ui = Forum!Fresh(u)
    BY <1>2 DEF Forum!CommentsInit
  <2>2. "busy" \in DOMAIN ui /\ ui.busy = {"comments"}
    BY <2>1 DEF Forum!Fresh, Forum!Busy
  <2>3. page = <<"comments", "mounted">> /\ net = Add({}, "page", <<"t1", 0>>)
    BY <1>2, ForumOps DEF Forum!CommentsInit
  <2>4. \A f \in Shown(CommentsFirst) : Holds(CommentsFirst, "page", <<"t1", 0>>, f)
    BY <2>2, CommentsFirstRule
  <2>5. Steady("comments", CommentsFirst)
    BY <2>2, <2>3, <2>4, BornSteady, CommentsFirstRule
  <2> QED
    BY <2>5 DEF ForumSteady
<1>3. CASE Forum!PageCommentsInit
  <2>1. FlagsHeld("pageComments", PageCommentsHolds)
    BY <1>3, BornHeld, ForumOps DEF Forum!PageCommentsInit, Forum!Begins, PageCommentsHolds
  <2> QED
    BY <2>1 DEF ForumSteady
<1>4. CASE Forum!FeedInit
  <2>1. Steady("feed", FeedFirst)
    BY <1>4, BornSteady, FeedFirstRule, ForumOps DEF Forum!FeedInit, Forum!Begins, Forum!FeedUi
  <2> QED
    BY <2>1 DEF ForumSteady
<1>5. CASE Forum!ForumInit
  <2>1. FlagsHeld("forum", ForumHolds)
    BY <1>5, BornHeld, ForumOps DEF Forum!ForumInit, Forum!Begins, ForumHolds
  <2> QED
    BY <2>1 DEF ForumSteady
<1>6. CASE Forum!EditThreadInit
  <2>1. FlagsHeld("threadForm", EditThreadHolds)
    BY <1>6, BornHeld, ForumOps DEF Forum!EditThreadInit, Forum!Begins, EditThreadHolds
  <2> QED
    BY <2>1 DEF ForumSteady
<1>7. CASE Forum!NewThreadInit
  <2>1. FlagsHeld("newThread", NewThreadHolds)
    BY <1>7, BornHeld, ForumOps DEF Forum!NewThreadInit, Forum!Begins, NewThreadHolds
  <2> QED
    BY <2>1 DEF ForumSteady
<1>8. CASE Forum!TilesInit
  <2>1. FlagsHeld("tiles", TilesHolds)
    BY <1>8, BornHeld, ForumOps DEF Forum!TilesInit, Forum!Begins, TilesHolds
  <2> QED
    BY <2>1 DEF ForumSteady
<1> QED
  BY <1>1, <1>2, <1>3, <1>4, <1>5, <1>6, <1>7, <1>8

LEMMA ForumTurns ==
  ASSUME Next
  PROVE  /\ page[1] = "thread" => Forum!ThreadNext \/ Fails
         /\ page[1] = "comments" => Forum!CommentsNext \/ Fails
         /\ page[1] = "pageComments" => Forum!PageCommentsNext \/ Fails
         /\ page[1] = "feed" => Forum!FeedNext \/ Fails
         /\ page[1] = "forum" => Forum!ForumNext \/ Fails
         /\ page[1] = "threadForm" => Forum!EditThreadNext \/ Fails
         /\ page[1] = "newThread" => Forum!NewThreadNext \/ Fails
         /\ page[1] = "tiles" => Forum!TilesNext \/ Fails
<1>1. Forum!ThreadNext => page[1] = "thread"
  BY DEF Forum!ThreadNext, Forum!On
<1>2. Forum!CommentsNext => page[1] = "comments"
  BY DEF Forum!CommentsNext, Forum!On
<1>3. Forum!PageCommentsNext => page[1] = "pageComments"
  BY DEF Forum!PageCommentsNext, Forum!On
<1>4. Forum!FeedNext => page[1] = "feed"
  BY DEF Forum!FeedNext, Forum!leaveFeed, Forum!On, Forum!Leave
<1>5. Forum!ForumNext => page[1] = "forum"
  BY DEF Forum!ForumNext, Forum!On
<1>6. Forum!EditThreadNext => page = <<"threadForm", "mounted">>
  BY Zenon DEF Forum!EditThreadNext, Forum!On
<1>7. Forum!NewThreadNext => page[1] = "newThread"
  BY DEF Forum!NewThreadNext, Forum!On
<1>8. Forum!TilesNext => page[1] = "tiles"
  BY DEF Forum!TilesNext, Forum!On
<1> QED
  BY <1>1, <1>2, <1>3, <1>4, <1>5, <1>6, <1>7, <1>8 DEF Next

LEMMA ForumKept ==
  ASSUME ForumSteady, [Next]_spaVars PROVE ForumSteady'
<1>1. CASE FlagsHeld("thread", ThreadHolds)
  <2>1. page[1] = "thread"
    BY <1>1 DEF FlagsHeld, Steady
  <2>2. CASE Forum!ThreadNext
    BY <1>1, <2>2, ThreadStep DEF ForumSteady
  <2>3. CASE Fails \/ UNCHANGED spaVars
    BY <1>1, <2>3, FailsSteady DEF FlagsHeld, ForumSteady
  <2> QED
    BY <2>1, <2>2, <2>3, ForumTurns
<1>2. CASE Steady("comments", CommentsFirst)
  <2>1. page[1] = "comments"
    BY <1>2 DEF Steady
  <2>2. CASE Forum!CommentsNext
    BY <1>2, <2>2, CommentsFirstStep DEF ForumSteady
  <2>3. CASE Fails \/ UNCHANGED spaVars
    BY <1>2, <2>3, FailsSteady DEF ForumSteady
  <2> QED
    BY <2>1, <2>2, <2>3, ForumTurns
<1>3. CASE FlagsHeld("pageComments", PageCommentsHolds)
  <2>1. page[1] = "pageComments"
    BY <1>3 DEF FlagsHeld, Steady
  <2>2. CASE Forum!PageCommentsNext
    BY <1>3, <2>2, PageCommentsStep DEF ForumSteady
  <2>3. CASE Fails \/ UNCHANGED spaVars
    BY <1>3, <2>3, FailsSteady DEF FlagsHeld, ForumSteady
  <2> QED
    BY <2>1, <2>2, <2>3, ForumTurns
<1>4. CASE Steady("feed", FeedFirst)
  <2>1. page[1] = "feed" /\ (page = <<"feed", "mounted">> \/ page = <<"feed", "away">>)
    BY <1>4 DEF Steady
  <2>2. CASE Forum!FeedNext /\ page = <<"feed", "mounted">>
    BY <1>4, <2>2, FeedFirstStep DEF ForumSteady
  <2>3. CASE Forum!FeedNext /\ page = <<"feed", "away">>
    <3>1. UNCHANGED page /\ (UNCHANGED net \/ \E r \in net : net' = net \ {r})
      BY <2>3
         DEF Forum!FeedNext, Forum!On, Forum!feedPushed, Forum!Takes, Forum!feedInitial,
             Forum!feedGotOlder, Forum!Done, Forum!DoneAtom
    <3>2. Requests(net')
      BY <1>4, <3>1 DEF Steady, Requests
    <3> QED
      BY <1>4, <2>3, <3>1, <3>2, StaysSteady DEF ForumSteady
  <2>4. CASE Fails \/ UNCHANGED spaVars
    BY <1>4, <2>4, FailsSteady DEF ForumSteady
  <2> QED
    BY <2>1, <2>2, <2>3, <2>4, ForumTurns
<1>5. CASE FlagsHeld("forum", ForumHolds)
  <2>1. page[1] = "forum"
    BY <1>5 DEF FlagsHeld, Steady
  <2>2. CASE Forum!ForumNext
    BY <1>5, <2>2, ForumStep DEF ForumSteady
  <2>3. CASE Fails \/ UNCHANGED spaVars
    BY <1>5, <2>3, FailsSteady DEF FlagsHeld, ForumSteady
  <2> QED
    BY <2>1, <2>2, <2>3, ForumTurns
<1>6. CASE FlagsHeld("threadForm", EditThreadHolds)
  <2>1. page[1] = "threadForm"
    BY <1>6 DEF FlagsHeld, Steady
  <2>2. CASE Forum!EditThreadNext
    BY <1>6, <2>2, EditThreadStep DEF ForumSteady
  <2>3. CASE Fails \/ UNCHANGED spaVars
    BY <1>6, <2>3, FailsSteady DEF FlagsHeld, ForumSteady
  <2> QED
    BY <2>1, <2>2, <2>3, ForumTurns
<1>7. CASE FlagsHeld("newThread", NewThreadHolds)
  <2>1. page[1] = "newThread"
    BY <1>7 DEF FlagsHeld, Steady
  <2>2. CASE Forum!NewThreadNext
    BY <1>7, <2>2, NewThreadStep DEF ForumSteady
  <2>3. CASE Fails \/ UNCHANGED spaVars
    BY <1>7, <2>3, FailsSteady DEF FlagsHeld, ForumSteady
  <2> QED
    BY <2>1, <2>2, <2>3, ForumTurns
<1>8. CASE FlagsHeld("tiles", TilesHolds)
  <2>1. page[1] = "tiles"
    BY <1>8 DEF FlagsHeld, Steady
  <2>2. CASE Forum!TilesNext
    BY <1>8, <2>2, TilesStep DEF ForumSteady
  <2>3. CASE Fails \/ UNCHANGED spaVars
    BY <1>8, <2>3, FailsSteady DEF FlagsHeld, ForumSteady
  <2> QED
    BY <2>1, <2>2, <2>3, ForumTurns
<1> QED
  BY <1>1, <1>2, <1>3, <1>4, <1>5, <1>6, <1>7, <1>8 DEF ForumSteady

LEMMA ForumEnds == ForumSteady => SpinnersEnd
<1>1. ASSUME FlagsHeld("thread", ThreadHolds) PROVE SpinnersEnd
  BY <1>1, HeldEnds
<1>2. ASSUME Steady("comments", CommentsFirst) PROVE SpinnersEnd
  BY <1>2, NothingShown, CommentsFirstRule DEF SpinnersEnd, RowBusy, AwaitsElse
<1>3. ASSUME FlagsHeld("pageComments", PageCommentsHolds) PROVE SpinnersEnd
  BY <1>3, HeldEnds
<1>4. ASSUME Steady("feed", FeedFirst) PROVE SpinnersEnd
  BY <1>4, NothingShown, FeedFirstRule DEF SpinnersEnd, RowBusy, AwaitsElse
<1>5. ASSUME FlagsHeld("forum", ForumHolds) PROVE SpinnersEnd
  BY <1>5, HeldEnds
<1>6. ASSUME FlagsHeld("threadForm", EditThreadHolds) PROVE SpinnersEnd
  BY <1>6, HeldEnds
<1>7. ASSUME FlagsHeld("newThread", NewThreadHolds) PROVE SpinnersEnd
  BY <1>7, HeldEnds
<1>8. ASSUME FlagsHeld("tiles", TilesHolds) PROVE SpinnersEnd
  BY <1>8, HeldEnds
<1> QED
  BY <1>1, <1>2, <1>3, <1>4, <1>5, <1>6, <1>7, <1>8 DEF ForumSteady

-----------------------------------------------------------------------------
(* The store.                                                              *)

LEMMA StoreOps ==
  /\ \A n, op, arg : Store!Add(n, op, arg) = Add(n, op, arg)
  /\ \A r, op, arg : Store!Onward(r, op, arg) = Onward(r, op, arg)
  /\ \A r, ok, val : Store!Reply(r, ok, val) = Reply(r, ok, val)
  /\ Store!Orphaned = Orphaned
<1>1. \A n, op, arg : Store!Add(n, op, arg) = Add(n, op, arg)
  BY DEF Store!Add, Add
<1> QED
  BY <1>1 DEF Store!Onward, Onward, Store!Reply, Reply, Store!Orphaned, Orphaned

ShopHolds == {<<"catalog", "load">>}

LEMMA ShopStep ==
  ASSUME FlagsHeld("shop", ShopHolds), Store!ShopNext
  PROVE  FlagsHeld("shop", ShopHolds)'
<1> DEFINE Inv == FlagsHeld("shop", ShopHolds)
<1>1. page = <<"shop", "mounted">> /\ "busy" \in DOMAIN ui
  BY Mounted DEF Store!ShopNext, Store!On
<1>set. UNCHANGED <<page, net>> /\ (ui' = ui \/ Fewer) => Inv'
  BY SetHeld
<1>call. \A op, arg : net' = Store!Add(net, op, arg) /\ UNCHANGED page
          /\ Covered(ShopHolds, op) => Inv'
  BY <1>1, CallHeld, StoreOps
<1>done. \A r \in net : net' = net \ {r} /\ UNCHANGED page /\ Ended(ShopHolds, r) => Inv'
  BY <1>1, DoneHeld
<1>goes. \A r \in net : \A op, arg :
          net' = Store!Onward(r, op, arg) /\ UNCHANGED page /\ r.rep # None
          /\ Passed(ShopHolds, r, op) => Inv'
  BY <1>1, GoesHeld, StoreOps
<1>swap. \A r \in net : \A op, arg :
          net' = Store!Add(net \ {r}, op, arg) /\ UNCHANGED page
          /\ (Swapped(ShopHolds, r, op) \/ Passed(ShopHolds, r, op)) => Inv'
  BY <1>1, SwapHeld, StoreOps
<1>answer. \A r \in net : \A ok, val : net' = Store!Reply(r, ok, val)
          /\ UNCHANGED <<page, ui, atom>> => Inv'
  BY ReplyHeld, StoreOps
<1> USE <1>1 DEF ShopHolds
<1>2. \A e, op : Store!runEffect(e, op) => Inv'
  BY <1>call DEF Store!runEffect, Store!Call, Covered
<1>3. Store!reconnected => Inv'
  BY <1>call DEF Store!reconnected, Covered, Store!Busy
<1>4. Store!handleClearFilters => Inv'
  BY <1>set DEF Store!handleClearFilters, Store!Set, Fewer
<1>5. Store!handleToggleOwnProducts => Inv'
  BY <1>set DEF Store!handleToggleOwnProducts, Store!Set, Fewer
<1>6. Store!storePushed => Inv'
  BY <1>set DEF Store!storePushed, Store!storeReducer, Store!Takes, Fewer
<1>7. Store!productChanges => Inv'
  BY <1>set DEF Store!productChanges, Store!Changes, Fewer
<1>8. \A p : Store!handleAddToCart(p) => Inv'
  BY <1>set, <1>call DEF Store!handleAddToCart, Store!SetAtom, Store!Call, Fewer, Covered
<1>9. \A p : Store!handleDeleteProduct(p) => Inv'
  BY <1>call DEF Store!handleDeleteProduct, Store!Call, Covered
<1>10. \A p : Store!handleToggleCategory(p) => Inv'
  BY <1>set DEF Store!handleToggleCategory, Store!Set, Fewer
<1>11. \A c : Store!handleDeleteCategory(c) => Inv'
  BY <1>call DEF Store!handleDeleteCategory, Store!Call, Covered
<1>12. \A r \in net : Store!gotCatalog(r) => Inv'
  BY <1>done, <1>swap
     DEF Store!gotCatalog, Store!Done, Store!Reach, Ended, Dropped, Swapped, Passed, Store!Idle,
         Store!Replied
<1>13. \A r \in net : Store!gotRatings(r) => Inv'
  BY <1>done DEF Store!gotRatings, Store!Done, Store!Reach, Ended, Dropped, Store!Replied
<1>14. \A r \in net : Store!gotCart(r) => Inv'
  BY <1>done DEF Store!gotCart, Store!DoneAtom, Store!Reach, Ended, Dropped, Store!Replied
<1>15. \A r \in net : Store!gotBadges(r) => Inv'
  BY <1>done DEF Store!gotBadges, Store!DoneAtom, Store!Reach, Ended, Dropped, Store!Replied
<1>16. \A r \in net : Store!addedToCart(r) => Inv'
  BY <1>done, <1>goes
     DEF Store!addedToCart, Store!Done, Store!Reach, Store!Goes, Ended, Dropped, Passed, Swapped,
         Store!Replied
<1>17. \A r \in net : Store!deletedProduct(r) => Inv'
  BY <1>done DEF Store!deletedProduct, Store!DoneAtom, Store!Reach, Ended, Dropped, Store!Replied
<1>18. \A r \in net : Store!deletedCategory(r) => Inv'
  BY <1>done DEF Store!deletedCategory, Store!Done, Store!Reach, Ended, Dropped, Store!Replied
<1>19. \A r \in net : Store!ShopServer(r) => Inv'
  BY <1>answer DEF Store!ShopServer, Store!AnswerPush, Store!Read, Store!Answer
<1> QED
  BY <1>2, <1>3, <1>4, <1>5, <1>6, <1>7, <1>8, <1>9, <1>10, <1>11, <1>12, <1>13, <1>14, <1>15,
         <1>16, <1>17, <1>18, <1>19
     DEF Store!ShopNext

CartHolds == {<<"checkout", "checkout">>}

LEMMA CartStep ==
  ASSUME FlagsHeld("cart", CartHolds), Store!CartNext
  PROVE  FlagsHeld("cart", CartHolds)'
<1> DEFINE Inv == FlagsHeld("cart", CartHolds)
<1>1. page = <<"cart", "mounted">> /\ "busy" \in DOMAIN ui
  BY Mounted DEF Store!CartNext, Store!On
<1>set. UNCHANGED <<page, net>> /\ (ui' = ui \/ Fewer) => Inv'
  BY SetHeld
<1>call. \A op, arg : net' = Store!Add(net, op, arg) /\ UNCHANGED page
          /\ Covered(CartHolds, op) => Inv'
  BY <1>1, CallHeld, StoreOps
<1>done. \A r \in net : net' = net \ {r} /\ UNCHANGED page /\ Ended(CartHolds, r) => Inv'
  BY <1>1, DoneHeld
<1>answer. \A r \in net : \A ok, val : net' = Store!Reply(r, ok, val)
          /\ UNCHANGED <<page, ui, atom>> => Inv'
  BY ReplyHeld, StoreOps
<1>away. page' = <<"cart", "away">> /\ (net' = {} \/ net' = Store!Orphaned) => Inv'
  BY AwayHeld, StoreOps
<1> USE <1>1 DEF CartHolds
<1>2. Store!handleClearCart => Inv'
  BY <1>set, <1>call
     DEF Store!handleClearCart, Store!InCart, Store!SetAtom, Store!CallAtom, Fewer, Covered
<1>3. Store!setPhone => Inv'
  BY <1>set DEF Store!setPhone, Store!Set, Fewer
<1>4. Store!setRemember => Inv'
  BY <1>set DEF Store!setRemember, Store!Set, Fewer
<1>5. Store!handleCheckout => Inv'
  BY <1>call, <1>away DEF Store!handleCheckout, Store!Call, Store!Quit, Covered, Store!Busy
<1>6. Store!handleUseSavedCheckout => Inv'
  BY <1>set DEF Store!handleUseSavedCheckout, Store!Set, Fewer
<1>7. Store!storePushed => Inv'
  BY <1>set DEF Store!storePushed, Store!storeReducer, Store!Takes, Fewer
<1>8. Store!cartChanges => Inv'
  BY <1>set DEF Store!cartChanges, Store!Changes, Fewer
<1>9. \A m : Store!setMethod(m) => Inv'
  BY <1>set DEF Store!setMethod, Store!Set, Fewer
<1>10. \A p : Store!handleRemove(p) => Inv'
  BY <1>set, <1>call
     DEF Store!handleRemove, Store!InCart, Store!SetAtom, Store!CallAtom, Fewer, Covered
<1>11. \A p, q : Store!handleQuantityChange(p, q) => Inv'
  BY <1>set, <1>call
     DEF Store!handleQuantityChange, Store!InCart, Store!SetAtom, Store!CallAtom, Fewer, Covered
<1>12. \A r \in net : Store!gotCards(r) => Inv'
  BY <1>done DEF Store!gotCards, Store!Done, Store!Reach, Ended, Dropped, Store!Replied
<1>13. \A r \in net : Store!cartSent(r) => Inv'
  BY <1>done DEF Store!cartSent, Store!Done, Store!Reach, Ended, Dropped, Store!Replied
<1>14. \A r \in net : Store!checkedOut(r) => Inv'
  BY <1>done
     DEF Store!checkedOut, Store!Done, Store!Reach, Store!DoneAtom, Ended, Dropped, Store!Idle,
         Store!Replied
<1>15. \A r \in net : Store!CartServer(r) => Inv'
  BY <1>answer DEF Store!CartServer, Store!Cleared, Store!AnswerPush, Store!Read, Store!Answer
<1> QED
  BY <1>2, <1>3, <1>4, <1>5, <1>6, <1>7, <1>8, <1>9, <1>10, <1>11, <1>12, <1>13, <1>14, <1>15
     DEF Store!CartNext

OrdersHolds == {<<"orders", "load">>}

LEMMA OrdersStep ==
  ASSUME FlagsHeld("orders", OrdersHolds), Store!OrdersNext
  PROVE  FlagsHeld("orders", OrdersHolds)'
<1> DEFINE Inv == FlagsHeld("orders", OrdersHolds)
<1>1. page = <<"orders", "mounted">> /\ "busy" \in DOMAIN ui
  BY Mounted DEF Store!OrdersNext, Store!On
<1>set. UNCHANGED <<page, net>> /\ (ui' = ui \/ Fewer) => Inv'
  BY SetHeld
<1>call. \A op, arg : net' = Store!Add(net, op, arg) /\ UNCHANGED page
          /\ Covered(OrdersHolds, op) => Inv'
  BY <1>1, CallHeld, StoreOps
<1>done. \A r \in net : net' = net \ {r} /\ UNCHANGED page /\ Ended(OrdersHolds, r) => Inv'
  BY <1>1, DoneHeld
<1>goes. \A r \in net : \A op, arg :
          net' = Store!Onward(r, op, arg) /\ UNCHANGED page /\ r.rep # None
          /\ Passed(OrdersHolds, r, op) => Inv'
  BY <1>1, GoesHeld, StoreOps
<1>answer. \A r \in net : \A ok, val : net' = Store!Reply(r, ok, val)
          /\ UNCHANGED <<page, ui, atom>> => Inv'
  BY ReplyHeld, StoreOps
<1> USE <1>1 DEF OrdersHolds
<1>2. Store!closeMap => Inv'
  BY <1>set DEF Store!closeMap, Store!Set, Fewer
<1>3. Store!storePushed => Inv'
  BY <1>set DEF Store!storePushed, Store!storeReducer, Store!Takes, Fewer
<1>4. \A f : Store!setOrderFilters(f) => Inv'
  BY <1>set DEF Store!setOrderFilters, Store!Set, Fewer
<1>5. \A o : Store!toggleExpandOrder(o) => Inv'
  BY <1>set DEF Store!toggleExpandOrder, Store!Set, Fewer
<1>6. \A o : Store!showLocationMap(o) => Inv'
  BY <1>set DEF Store!showLocationMap, Store!Set, Fewer
<1>7. \A o : Store!deleteOrder(o) => Inv'
  BY <1>call DEF Store!deleteOrder, Store!Call, Covered
<1>8. \A o, st : Store!updateOrderStatus(o, st) => Inv'
  BY <1>call DEF Store!updateOrderStatus, Store!Call, Covered
<1>9. \A r \in net : Store!gotOrders(r) => Inv'
  BY <1>done
     DEF Store!gotOrders, Store!Done, Store!Reach, Store!DoneAtom, Ended, Dropped, Store!Idle,
         Store!Replied
<1>10. \A r \in net : Store!orderDone(r) => Inv'
  BY <1>done, <1>goes
     DEF Store!orderDone, Store!fetchOrders, Store!Done, Store!Reach, Store!Goes, Ended, Dropped,
         Passed, Swapped, Store!Busy, Store!Replied
<1>11. \A r \in net : Store!OrdersServer(r) => Inv'
  BY <1>answer DEF Store!OrdersServer, Store!AnswerPush, Store!Read, Store!Answer
<1> QED
  BY <1>2, <1>3, <1>4, <1>5, <1>6, <1>7, <1>8, <1>9, <1>10, <1>11 DEF Store!OrdersNext

WalletHolds == {<<"wallet", "load">>, <<"deleteCard", "load">>, <<"saveCard", "submit">>}

LEMMA WalletStep ==
  ASSUME FlagsHeld("wallet", WalletHolds), Store!WalletNext
  PROVE  FlagsHeld("wallet", WalletHolds)'
<1> DEFINE Inv == FlagsHeld("wallet", WalletHolds)
<1>1. page = <<"wallet", "mounted">> /\ "busy" \in DOMAIN ui
  BY Mounted DEF Store!WalletNext, Store!On
<1>set. UNCHANGED <<page, net>> /\ (ui' = ui \/ Fewer) => Inv'
  BY SetHeld
<1>call. \A op, arg : net' = Store!Add(net, op, arg) /\ UNCHANGED page
          /\ Covered(WalletHolds, op) => Inv'
  BY <1>1, CallHeld, StoreOps
<1>done. \A r \in net : net' = net \ {r} /\ UNCHANGED page /\ Ended(WalletHolds, r) => Inv'
  BY <1>1, DoneHeld
<1>goes. \A r \in net : \A op, arg :
          net' = Store!Onward(r, op, arg) /\ UNCHANGED page /\ r.rep # None
          /\ Passed(WalletHolds, r, op) => Inv'
  BY <1>1, GoesHeld, StoreOps
<1>answer. \A r \in net : \A ok, val : net' = Store!Reply(r, ok, val)
          /\ UNCHANGED <<page, ui, atom>> => Inv'
  BY ReplyHeld, StoreOps
<1> USE <1>1 DEF WalletHolds
<1>2. Store!openAddCard => Inv'
  BY <1>set DEF Store!openAddCard, Store!Set, Fewer
<1>3. Store!fillCard => Inv'
  BY <1>set DEF Store!fillCard, Store!Set, Fewer
<1>4. Store!cancelCard => Inv'
  BY <1>set DEF Store!cancelCard, Store!Set, Fewer, Store!Idle
<1>5. Store!handleSaveCard => Inv'
  BY <1>call DEF Store!handleSaveCard, Store!Call, Covered, Store!Busy
<1>6. \A k : Store!openEditCard(k) => Inv'
  BY <1>set DEF Store!openEditCard, Store!Set, Fewer
<1>7. \A k : Store!handleDeleteCard(k) => Inv'
  BY <1>call DEF Store!handleDeleteCard, Store!Call, Covered, Store!Busy
<1>8. \A r \in net : Store!gotWallet(r) => Inv'
  BY <1>done
     DEF Store!gotWallet, Store!Done, Store!Reach, Ended, Dropped, Store!Idle, Store!Replied
<1>9. \A r \in net : Store!savedCard(r) => Inv'
  BY ZenonT(30), <1>done, <1>goes
     DEF Store!savedCard, Store!fetchWallet, Store!Done, Store!Reach, Store!Goes, Ended, Dropped,
         Passed, Swapped, Store!Busy, Store!Idle, Store!Replied
<1>10. \A r \in net : Store!deletedCard(r) => Inv'
  BY <1>done, <1>goes
     DEF Store!deletedCard, Store!fetchWallet, Store!Done, Store!Reach, Store!Goes, Ended,
         Dropped, Passed, Swapped, Store!Busy, Store!Idle, Store!Replied
<1>11. \A r \in net : Store!WalletServer(r) => Inv'
  BY <1>answer DEF Store!WalletServer, Store!Answer, Store!AnswerPush, Store!Read
<1> QED
  BY <1>2, <1>3, <1>4, <1>5, <1>6, <1>7, <1>8, <1>9, <1>10, <1>11 DEF Store!WalletNext

ProductFormHolds == {<<"save", "submit">>}

LEMMA ProductFormStep ==
  ASSUME FlagsHeld("productForm", ProductFormHolds), Store!ProductFormNext
  PROVE  FlagsHeld("productForm", ProductFormHolds)'
<1> DEFINE Inv == FlagsHeld("productForm", ProductFormHolds)
<1>1. page = <<"productForm", "mounted">> /\ "busy" \in DOMAIN ui
  BY Mounted DEF Store!ProductFormNext, Store!On
<1>set. UNCHANGED <<page, net>> /\ (ui' = ui \/ Fewer) => Inv'
  BY SetHeld
<1>call. \A op, arg : net' = Store!Add(net, op, arg) /\ UNCHANGED page
          /\ Covered(ProductFormHolds, op) => Inv'
  BY <1>1, CallHeld, StoreOps
<1>done. \A r \in net : net' = net \ {r} /\ UNCHANGED page /\ Ended(ProductFormHolds, r) => Inv'
  BY <1>1, DoneHeld
<1>answer. \A r \in net : \A ok, val : net' = Store!Reply(r, ok, val)
          /\ UNCHANGED <<page, ui, atom>> => Inv'
  BY ReplyHeld, StoreOps
<1>away. page' = <<"productForm", "away">> /\ (net' = {} \/ net' = Store!Orphaned) => Inv'
  BY AwayHeld, StoreOps
<1> USE <1>1 DEF ProductFormHolds
<1>2. Store!editProduct => Inv'
  BY <1>set DEF Store!editProduct, Store!Set, Fewer
<1>3. Store!addAction => Inv'
  BY <1>set DEF Store!addAction, Store!Set, Fewer
<1>4. Store!handleFiles => Inv'
  BY <1>call DEF Store!handleFiles, Store!Call, Covered
<1>5. Store!submitProduct => Inv'
  BY <1>call DEF Store!submitProduct, Store!Call, Covered, Store!Busy
<1>6. \A i : Store!setAction(i) => Inv'
  BY <1>set DEF Store!setAction, Store!Set, Fewer
<1>7. \A i : Store!removeAction(i) => Inv'
  BY <1>set DEF Store!removeAction, Store!Set, Fewer
<1>8. \A i : Store!removeItem(i) => Inv'
  BY <1>set DEF Store!removeItem, Store!Set, Fewer
<1>9. \A r \in net : Store!filesUploaded(r) => Inv'
  BY <1>done DEF Store!filesUploaded, Store!Done, Store!Reach, Ended, Dropped, Store!Replied
<1>10. \A r \in net : Store!productSaved(r) => Inv'
  BY <1>done
     DEF Store!productSaved, Store!DoneAtom, Store!Reach, Ended, Dropped, Store!Idle,
         Store!Replied
<1>11. \A r \in net : Store!ProductFormServer(r) => Inv'
  BY <1>answer DEF Store!ProductFormServer, Store!Answer, Store!AnswerPush, Store!Read
<1> QED
  BY <1>2, <1>3, <1>4, <1>5, <1>6, <1>7, <1>8, <1>9, <1>10, <1>11, <1>away
     DEF Store!ProductFormNext, Store!Quit

ProductDue == <<"due",
  {<<"product", "product">>, <<"similar", "similar">>, <<"reviews", "reviews">>,
    <<"add", "add">>}>>

LEMMA ProductDueRule ==
  /\ Shown(ProductDue) = ui.busy \ ui.due
  /\ Shown(ProductDue)' = ui'.busy \ ui'.due
  /\ (Whole(ProductDue) <=> "busy" \in DOMAIN ui /\ "due" \in DOMAIN ui)
  /\ (Whole(ProductDue)' <=> "busy" \in DOMAIN ui' /\ "due" \in DOMAIN ui')
  /\ \A op, arg, f : Holds(ProductDue, op, arg, f)
        <=> op \in {"product", "similar", "reviews", "add"} /\ f = op
<1>1. Shown(ProductDue) = ui.busy \ ui.due /\ Shown(ProductDue)' = ui'.busy \ ui'.due
  BY DEF Shown, FlagsOf, ProductDue
<1>2. (Whole(ProductDue) <=> "busy" \in DOMAIN ui /\ "due" \in DOMAIN ui)
        /\ (Whole(ProductDue)' <=> "busy" \in DOMAIN ui' /\ "due" \in DOMAIN ui')
  BY DEF Whole, FieldsOf, ProductDue
<1>3. \A op, arg, f : Holds(ProductDue, op, arg, f)
        <=> op \in {"product", "similar", "reviews", "add"} /\ f = op
  BY DEF Holds, ProductDue
<1> QED
  BY <1>1, <1>2, <1>3

LEMMA ProductDueStep ==
  ASSUME Steady("product", ProductDue), Store!ProductNext
  PROVE  Steady("product", ProductDue)'
<1> DEFINE Inv == Steady("product", ProductDue)
<1>1. page = <<"product", "mounted">> /\ Whole(ProductDue)
  BY DEF Steady, Store!ProductNext, Store!On
<1>set. UNCHANGED <<page, net>> /\ Fades(ProductDue) => Inv'
  BY <1>1, SetSteady
<1>call. \A op, arg : net' = Store!Add(net, op, arg) /\ UNCHANGED page
          /\ Begun(ProductDue, op, arg) => Inv'
  BY <1>1, CallSteady, StoreOps
<1>done. \A r \in net : net' = net \ {r} /\ UNCHANGED page /\ Closed(ProductDue, r) => Inv'
  BY <1>1, DoneSteady
<1>goes. \A r \in net : \A op, arg :
          net' = Store!Onward(r, op, arg) /\ UNCHANGED page /\ r.rep # None
          /\ Handed(ProductDue, r, op, arg) => Inv'
  BY <1>1, GoesSteady, StoreOps
<1>answer. \A r \in net : \A ok, val : net' = Store!Reply(r, ok, val)
          /\ UNCHANGED <<page, ui, atom>> => Inv'
  BY ReplySteady, StoreOps
<1> USE <1>1, ProductDueRule
<1>2. Store!loadSimilar => Inv'
  BY <1>call DEF Store!loadSimilar, Store!Call, Begun
<1>3. Store!loadReviews => Inv'
  BY <1>call DEF Store!loadReviews, Store!Call, Begun
<1>4. Store!handleReviewSubmit => Inv'
  BY <1>call DEF Store!handleReviewSubmit, Store!Call, Begun
<1>5. Store!addProductToCart => Inv'
  BY <1>call DEF Store!addProductToCart, Store!Call, Begun, Store!Busy
<1>6. Store!storePushed => Inv'
  BY <1>set DEF Store!storePushed, Store!storeReducer, Store!Takes, Fades
<1>7. \A p : Store!openSimilar(p) => Inv'
  BY <1>call DEF Store!openSimilar, Store!Call, Begun, Store!Busy
<1>8. \A r \in net : Store!gotProduct(r) => Inv'
  BY <1>done
     DEF Store!gotProduct, Store!Done, Store!Reach, Closed, Spent, Store!Idle, Store!Replied
<1>9. \A r \in net : Store!gotSimilar(r) => Inv'
  BY <1>done
     DEF Store!gotSimilar, Store!Done, Store!Reach, Closed, Spent, Store!Idle, Store!Replied
<1>10. \A r \in net : Store!gotReviews(r) => Inv'
  BY <1>done
     DEF Store!gotReviews, Store!Done, Store!Reach, Closed, Spent, Store!Idle, Store!Replied
<1>11. \A r \in net : Store!reviewed(r) => Inv'
  BY <1>done, <1>goes
     DEF Store!reviewed, Store!Done, Store!Reach, Store!Goes, Closed, Spent, Handed, Store!Busy,
         Store!Replied
<1>12. \A r \in net : Store!productAdded(r) => Inv'
  BY <1>done
     DEF Store!productAdded, Store!DoneAtom, Store!Reach, Closed, Spent, Store!Idle, Store!Replied
<1>13. \A r \in net : Store!ProductServer(r) => Inv'
  <2> SUFFICES ASSUME NEW r \in net, Store!ProductServer(r) PROVE Inv'
    OBVIOUS
  <2>1. ASSUME NEW d, NEW v, NEW ps, Store!AnswerPush(r, d, v, ps) PROVE Inv'
    BY <1>answer, <2>1 DEF Store!AnswerPush
  <2> QED
    BY <2>1 DEF Store!ProductServer, Store!Read, Store!Answer
<1> QED
  BY <1>2, <1>3, <1>4, <1>5, <1>6, <1>7, <1>8, <1>9, <1>10, <1>11, <1>12, <1>13
     DEF Store!ProductNext

StoreSteady ==
    \/ FlagsHeld("shop", ShopHolds)
    \/ Steady("product", ProductDue)
    \/ FlagsHeld("cart", CartHolds)
    \/ FlagsHeld("orders", OrdersHolds)
    \/ Quiet("codes")
    \/ FlagsHeld("wallet", WalletHolds)
    \/ FlagsHeld("productForm", ProductFormHolds)

LEMMA StoreBegins ==
  ASSUME Store!ShopInit \/ Store!ProductInit \/ Store!CartInit \/ Store!OrdersInit
         \/ Store!CodesInit
         \/ Store!WalletInit \/ Store!ProductFormInit
  PROVE  StoreSteady
<1>1. CASE Store!ShopInit
  <2>1. FlagsHeld("shop", ShopHolds)
    BY <1>1, BornHeld, StoreOps DEF Store!ShopInit, Store!Begins, ShopHolds
  <2> QED
    BY <2>1 DEF StoreSteady
<1>2. CASE Store!ProductInit
  <2>1. Steady("product", ProductDue)
    BY <1>2, BornSteady, ProductDueRule, StoreOps DEF Store!ProductInit, Store!Begins
  <2> QED
    BY <2>1 DEF StoreSteady
<1>3. CASE Store!CartInit
  <2>1. FlagsHeld("cart", CartHolds)
    BY <1>3, BornHeld, StoreOps DEF Store!CartInit, Store!Begins, CartHolds
  <2> QED
    BY <2>1 DEF StoreSteady
<1>4. CASE Store!OrdersInit
  <2>1. FlagsHeld("orders", OrdersHolds)
    BY <1>4, BornHeld, StoreOps DEF Store!OrdersInit, Store!Begins, OrdersHolds
  <2> QED
    BY <2>1 DEF StoreSteady
<1>5. CASE Store!CodesInit
  <2>1. Quiet("codes")
    BY <1>5 DEF Store!CodesInit, Store!Begins, Quiet
  <2> QED
    BY <2>1 DEF StoreSteady
<1>6. CASE Store!WalletInit
  <2>1. FlagsHeld("wallet", WalletHolds)
    BY <1>6, BornHeld, StoreOps DEF Store!WalletInit, Store!Begins, WalletHolds
  <2> QED
    BY <2>1 DEF StoreSteady
<1>7. CASE Store!ProductFormInit
  <2>1. FlagsHeld("productForm", ProductFormHolds)
    BY <1>7, BornHeld, StoreOps DEF Store!ProductFormInit, Store!Begins, ProductFormHolds
  <2> QED
    BY <2>1 DEF StoreSteady
<1> QED
  BY <1>1, <1>2, <1>3, <1>4, <1>5, <1>6, <1>7

LEMMA StoreTurns ==
  ASSUME Next
  PROVE  /\ page[1] = "shop" => Store!ShopNext \/ Fails
         /\ page[1] = "product" => Store!ProductNext \/ Fails
         /\ page[1] = "cart" => Store!CartNext \/ Fails
         /\ page[1] = "orders" => Store!OrdersNext \/ Fails
         /\ page[1] = "codes" => Store!CodesNext \/ Fails
         /\ page[1] = "wallet" => Store!WalletNext \/ Fails
         /\ page[1] = "productForm" => Store!ProductFormNext \/ Fails
<1>1. Store!ShopNext => page[1] = "shop"
  BY DEF Store!ShopNext, Store!On
<1>2. Store!ProductNext => page[1] = "product"
  BY DEF Store!ProductNext, Store!On
<1>3. Store!CartNext => page[1] = "cart"
  BY DEF Store!CartNext, Store!On
<1>4. Store!OrdersNext => page[1] = "orders"
  BY DEF Store!OrdersNext, Store!On
<1>5. Store!CodesNext => page[1] = "codes"
  BY DEF Store!CodesNext, Store!On
<1>6. Store!WalletNext => page[1] = "wallet"
  BY DEF Store!WalletNext, Store!On
<1>7. Store!ProductFormNext => page[1] = "productForm"
  BY DEF Store!ProductFormNext, Store!On
<1> QED
  BY <1>1, <1>2, <1>3, <1>4, <1>5, <1>6, <1>7 DEF Next

LEMMA StoreKept ==
  ASSUME StoreSteady, [Next]_spaVars PROVE StoreSteady'
<1>1. CASE FlagsHeld("shop", ShopHolds)
  <2>1. page[1] = "shop"
    BY <1>1 DEF FlagsHeld, Steady
  <2>2. CASE Store!ShopNext
    BY <1>1, <2>2, ShopStep DEF StoreSteady
  <2>3. CASE Fails \/ UNCHANGED spaVars
    BY <1>1, <2>3, FailsSteady DEF FlagsHeld, StoreSteady
  <2> QED
    BY <2>1, <2>2, <2>3, StoreTurns
<1>2. CASE Steady("product", ProductDue)
  <2>1. page[1] = "product"
    BY <1>2 DEF Steady
  <2>2. CASE Store!ProductNext
    BY <1>2, <2>2, ProductDueStep DEF StoreSteady
  <2>3. CASE Fails \/ UNCHANGED spaVars
    BY <1>2, <2>3, FailsSteady DEF StoreSteady
  <2> QED
    BY <2>1, <2>2, <2>3, StoreTurns
<1>3. CASE FlagsHeld("cart", CartHolds)
  <2>1. page[1] = "cart"
    BY <1>3 DEF FlagsHeld, Steady
  <2>2. CASE Store!CartNext
    BY <1>3, <2>2, CartStep DEF StoreSteady
  <2>3. CASE Fails \/ UNCHANGED spaVars
    BY <1>3, <2>3, FailsSteady DEF FlagsHeld, StoreSteady
  <2> QED
    BY <2>1, <2>2, <2>3, StoreTurns
<1>4. CASE FlagsHeld("orders", OrdersHolds)
  <2>1. page[1] = "orders"
    BY <1>4 DEF FlagsHeld, Steady
  <2>2. CASE Store!OrdersNext
    BY <1>4, <2>2, OrdersStep DEF StoreSteady
  <2>3. CASE Fails \/ UNCHANGED spaVars
    BY <1>4, <2>3, FailsSteady DEF FlagsHeld, StoreSteady
  <2> QED
    BY <2>1, <2>2, <2>3, StoreTurns
<1>5. CASE Quiet("codes")
  <2>1. page[1] = "codes"
    BY <1>5 DEF Quiet
  <2>2. CASE Store!CodesNext
    BY <1>5, <2>2, CodesStep DEF StoreSteady
  <2>3. CASE Fails \/ UNCHANGED spaVars
    BY <1>5, <2>3, QuietStays DEF StoreSteady
  <2> QED
    BY <2>1, <2>2, <2>3, StoreTurns
<1>6. CASE FlagsHeld("wallet", WalletHolds)
  <2>1. page[1] = "wallet"
    BY <1>6 DEF FlagsHeld, Steady
  <2>2. CASE Store!WalletNext
    BY <1>6, <2>2, WalletStep DEF StoreSteady
  <2>3. CASE Fails \/ UNCHANGED spaVars
    BY <1>6, <2>3, FailsSteady DEF FlagsHeld, StoreSteady
  <2> QED
    BY <2>1, <2>2, <2>3, StoreTurns
<1>7. CASE FlagsHeld("productForm", ProductFormHolds)
  <2>1. page[1] = "productForm"
    BY <1>7 DEF FlagsHeld, Steady
  <2>2. CASE Store!ProductFormNext
    BY <1>7, <2>2, ProductFormStep DEF StoreSteady
  <2>3. CASE Fails \/ UNCHANGED spaVars
    BY <1>7, <2>3, FailsSteady DEF FlagsHeld, StoreSteady
  <2> QED
    BY <2>1, <2>2, <2>3, StoreTurns
<1> QED
  BY <1>1, <1>2, <1>3, <1>4, <1>5, <1>6, <1>7 DEF StoreSteady

LEMMA StoreEnds == StoreSteady => SpinnersEnd
<1>1. ASSUME FlagsHeld("shop", ShopHolds) PROVE SpinnersEnd
  BY <1>1, HeldEnds
<1>2. ASSUME Steady("product", ProductDue) PROVE SpinnersEnd
  BY <1>2, NothingShown, ProductDueRule DEF SpinnersEnd, RowBusy, AwaitsElse
<1>3. ASSUME FlagsHeld("cart", CartHolds) PROVE SpinnersEnd
  BY <1>3, HeldEnds
<1>4. ASSUME FlagsHeld("orders", OrdersHolds) PROVE SpinnersEnd
  BY <1>4, HeldEnds
<1>5. ASSUME Quiet("codes") PROVE SpinnersEnd
  BY <1>5 DEF Quiet, SpinnersEnd, RowBusy
<1>6. ASSUME FlagsHeld("wallet", WalletHolds) PROVE SpinnersEnd
  BY <1>6, HeldEnds
<1>7. ASSUME FlagsHeld("productForm", ProductFormHolds) PROVE SpinnersEnd
  BY <1>7, HeldEnds
<1> QED
  BY <1>1, <1>2, <1>3, <1>4, <1>5, <1>6, <1>7 DEF StoreSteady

-----------------------------------------------------------------------------
(* The room panel.                                                         *)

LEMMA MeetingOps ==
  /\ \A n, op, arg : Meeting!Add(n, op, arg) = Add(n, op, arg)
  /\ \A r, op, arg : Meeting!Onward(r, op, arg) = Onward(r, op, arg)
  /\ \A r, ok, val : Meeting!Reply(r, ok, val) = Reply(r, ok, val)
  /\ Meeting!Orphaned = Orphaned
<1>1. \A n, op, arg : Meeting!Add(n, op, arg) = Add(n, op, arg)
  BY DEF Meeting!Add, Add
<1> QED
  BY <1>1 DEF Meeting!Onward, Onward, Meeting!Reply, Reply, Meeting!Orphaned, Orphaned

ControlsHolds ==
    {<<"reset", "reset">>, <<"fresh", "reset">>, <<"loadSlowMode", "slow">>,
      <<"putSlowMode", "slow">>}

LEMMA ControlsStep ==
  ASSUME FlagsHeld("controls", ControlsHolds), Meeting!ControlsNext
  PROVE  FlagsHeld("controls", ControlsHolds)'
<1> DEFINE Inv == FlagsHeld("controls", ControlsHolds)
<1>1. page = <<"controls", "mounted">> /\ "busy" \in DOMAIN ui
  BY Mounted DEF Meeting!ControlsNext, Meeting!On
<1>set. UNCHANGED <<page, net>> /\ (ui' = ui \/ Fewer) => Inv'
  BY SetHeld
<1>call. \A op, arg : net' = Meeting!Add(net, op, arg) /\ UNCHANGED page
          /\ Covered(ControlsHolds, op) => Inv'
  BY <1>1, CallHeld, MeetingOps
<1>done. \A r \in net : net' = net \ {r} /\ UNCHANGED page /\ Ended(ControlsHolds, r) => Inv'
  BY <1>1, DoneHeld
<1>goes. \A r \in net : \A op, arg :
          net' = Meeting!Onward(r, op, arg) /\ UNCHANGED page /\ r.rep # None
          /\ Passed(ControlsHolds, r, op) => Inv'
  BY <1>1, GoesHeld, MeetingOps
<1>answer. \A r \in net : \A ok, val : net' = Meeting!Reply(r, ok, val)
          /\ UNCHANGED <<page, ui, atom>> => Inv'
  BY ReplyHeld, MeetingOps
<1> USE <1>1 DEF ControlsHolds
<1>2. \A self : Meeting!tp_here(self) => Inv'
  BY <1>set DEF Meeting!tp_here, Meeting!SetAtom, Fewer
<1>3. \A self : Meeting!mfa_challenge(self) => Inv'
  BY <1>call DEF Meeting!mfa_challenge, Meeting!Call, Covered
<1>4. Meeting!openDefcon => Inv'
  BY <1>call DEF Meeting!openDefcon, Meeting!Call, Covered
<1>5. Meeting!closeDefcon => Inv'
  BY <1>set DEF Meeting!closeDefcon, Meeting!Set, Fewer
<1>6. Meeting!telemetryPushed => Inv'
  BY <1>set DEF Meeting!telemetryPushed, Fewer
<1>7. Meeting!resetDefcon => Inv'
  BY <1>call DEF Meeting!resetDefcon, Meeting!Call, Covered, Meeting!Busy
<1>8. Meeting!toggleSlowMode => Inv'
  BY <1>call DEF Meeting!toggleSlowMode, Meeting!Call, Covered, Meeting!Busy
<1>9. Meeting!slowModePushed => Inv'
  BY <1>set DEF Meeting!slowModePushed, Fewer
<1>10. Meeting!ControlsChange => Inv'
  BY <1>set DEF Meeting!ControlsChange, Meeting!Changes, Fewer
<1>11. \A r \in net : Meeting!gotTelemetry(r) => Inv'
  BY <1>done
     DEF Meeting!gotTelemetry, Meeting!Done, Meeting!Reach, Ended, Dropped, Meeting!Replied
<1>12. \A r \in net : Meeting!resetDone(r) => Inv'
  BY <1>done, <1>goes
     DEF Meeting!resetDone, Meeting!Done, Meeting!Reach, Meeting!Goes, Ended, Dropped, Passed,
         Swapped, Meeting!Idle, Meeting!Replied
<1>13. \A r \in net : Meeting!gotSlowMode(r) => Inv'
  BY <1>done
     DEF Meeting!gotSlowMode, Meeting!Done, Meeting!Reach, Ended, Dropped, Meeting!Idle,
         Meeting!Replied
<1>14. \A r \in net : Meeting!ControlsAnswer(r) => Inv'
  BY <1>answer DEF Meeting!ControlsAnswer, Meeting!AnswerPush, Meeting!Answer, Meeting!Read
<1> QED
  BY <1>2, <1>3, <1>4, <1>5, <1>6, <1>7, <1>8, <1>9, <1>10, <1>11, <1>12, <1>13, <1>14, <1>done
     DEF Meeting!ControlsNext, Meeting!Done, Meeting!Reach, Ended, Dropped, Meeting!Replied

SearchNow == <<"now", {"youtube"}, "searching", "current", 2>>

LEMMA SearchNowRule ==
  /\ Shown(SearchNow) = (IF "searching" \in ui.busy THEN {ui.current} ELSE {})
  /\ Shown(SearchNow)' = (IF "searching" \in ui'.busy THEN {ui'.current} ELSE {})
  /\ (Whole(SearchNow) <=> "busy" \in DOMAIN ui /\ "current" \in DOMAIN ui)
  /\ (Whole(SearchNow)' <=> "busy" \in DOMAIN ui' /\ "current" \in DOMAIN ui')
  /\ \A op, arg, f : Holds(SearchNow, op, arg, f) <=> op = "youtube" /\ arg[2] = f
<1>1. Shown(SearchNow) = (IF "searching" \in ui.busy THEN {ui.current} ELSE {})
        /\ Shown(SearchNow)' = (IF "searching" \in ui'.busy THEN {ui'.current} ELSE {})
  BY DEF Shown, FlagsOf, SearchNow
<1>2. (Whole(SearchNow) <=> "busy" \in DOMAIN ui /\ "current" \in DOMAIN ui)
        /\ (Whole(SearchNow)' <=> "busy" \in DOMAIN ui' /\ "current" \in DOMAIN ui')
  BY DEF Whole, FieldsOf, SearchNow
<1>3. \A op, arg, f : Holds(SearchNow, op, arg, f) <=> op = "youtube" /\ arg[2] = f
  BY DEF Holds, SearchNow
<1> QED
  BY <1>1, <1>2, <1>3

LEMMA SearchNowStep ==
  ASSUME Steady("search", SearchNow), Meeting!SearchNext
  PROVE  Steady("search", SearchNow)'
<1> DEFINE Inv == Steady("search", SearchNow)
<1>1. page = <<"search", "mounted">> /\ Whole(SearchNow)
  BY DEF Steady, Meeting!SearchNext, Meeting!On
<1>set. UNCHANGED <<page, net>> /\ Fades(SearchNow) => Inv'
  BY <1>1, SetSteady
<1>call. \A op, arg : net' = Meeting!Add(net, op, arg) /\ UNCHANGED page
          /\ Begun(SearchNow, op, arg) => Inv'
  BY <1>1, CallSteady, MeetingOps
<1>done. \A r \in net : net' = net \ {r} /\ UNCHANGED page /\ Closed(SearchNow, r) => Inv'
  BY <1>1, DoneSteady
<1>answer. \A r \in net : \A ok, val : net' = Meeting!Reply(r, ok, val)
          /\ UNCHANGED <<page, ui, atom>> => Inv'
  BY ReplySteady, MeetingOps
<1> USE <1>1, SearchNowRule
<1>2. \A q : Meeting!searchType(q) => Inv'
  BY <1>set DEF Meeting!searchType, Meeting!InputEffect, Meeting!Set, Fades
<1>3. Meeting!searchTimer => Inv'
  BY <1>call DEF Meeting!searchTimer, Meeting!CallAtom, Begun, Meeting!Busy
<1>4. Meeting!searchCancel => Inv'
  BY <1>set DEF Meeting!searchCancel, Meeting!Set, Fades, Meeting!Idle
<1>5. \A byClick : Meeting!handleAddMedia(byClick) => Inv'
  BY <1>set
     DEF Meeting!handleAddMedia, Meeting!InputEffect, Meeting!SetAtom, Fades, Meeting!Queries
<1>6. \A r \in net : Meeting!searched(r) => Inv'
  BY <1>done
     DEF Meeting!searched, Meeting!Done, Meeting!Reach, Closed, Spent, Meeting!Idle,
         Meeting!Replied
<1> QED
  BY <1>2, <1>3, <1>4, <1>5, <1>6, <1>answer
     DEF Meeting!SearchNext, Meeting!Read, Meeting!Answer, Meeting!AnswerPush

SearchFlags == <<"none", {}, {"searching"}>>

LEMMA SearchFlagsRule ==
  /\ Shown(SearchFlags) = ui.busy \ {"searching"}
  /\ Shown(SearchFlags)' = ui'.busy \ {"searching"}
  /\ (Whole(SearchFlags) <=> "busy" \in DOMAIN ui)
  /\ (Whole(SearchFlags)' <=> "busy" \in DOMAIN ui')
  /\ \A op, arg, f : Holds(SearchFlags, op, arg, f) <=> FALSE
<1>1. Shown(SearchFlags) = ui.busy \ {"searching"}
        /\ Shown(SearchFlags)' = ui'.busy \ {"searching"}
  BY DEF Shown, FlagsOf, SearchFlags
<1>2. (Whole(SearchFlags) <=> "busy" \in DOMAIN ui)
        /\ (Whole(SearchFlags)' <=> "busy" \in DOMAIN ui')
  BY DEF Whole, FieldsOf, SearchFlags
<1>3. \A op, arg, f : Holds(SearchFlags, op, arg, f) <=> FALSE
  BY DEF Holds, SearchFlags
<1> QED
  BY <1>1, <1>2, <1>3

LEMMA SearchFlagsStep ==
  ASSUME Steady("search", SearchFlags), Meeting!SearchNext
  PROVE  Steady("search", SearchFlags)'
<1> DEFINE Inv == Steady("search", SearchFlags)
<1>1. page = <<"search", "mounted">> /\ Whole(SearchFlags)
  BY DEF Steady, Meeting!SearchNext, Meeting!On
<1>set. UNCHANGED <<page, net>> /\ Fades(SearchFlags) => Inv'
  BY <1>1, SetSteady
<1>call. \A op, arg : net' = Meeting!Add(net, op, arg) /\ UNCHANGED page
          /\ Begun(SearchFlags, op, arg) => Inv'
  BY <1>1, CallSteady, MeetingOps
<1>done. \A r \in net : net' = net \ {r} /\ UNCHANGED page /\ Closed(SearchFlags, r) => Inv'
  BY <1>1, DoneSteady
<1>answer. \A r \in net : \A ok, val : net' = Meeting!Reply(r, ok, val)
          /\ UNCHANGED <<page, ui, atom>> => Inv'
  BY ReplySteady, MeetingOps
<1> USE <1>1, SearchFlagsRule
<1>2. \A q : Meeting!searchType(q) => Inv'
  BY <1>set DEF Meeting!searchType, Meeting!InputEffect, Meeting!Set, Fades
<1>3. Meeting!searchTimer => Inv'
  BY <1>call DEF Meeting!searchTimer, Meeting!CallAtom, Begun, Meeting!Busy
<1>4. Meeting!searchCancel => Inv'
  BY <1>set DEF Meeting!searchCancel, Meeting!Set, Fades, Meeting!Idle
<1>5. \A byClick : Meeting!handleAddMedia(byClick) => Inv'
  BY <1>set DEF Meeting!handleAddMedia, Meeting!InputEffect, Meeting!SetAtom, Fades
<1>6. \A r \in net : Meeting!searched(r) => Inv'
  BY <1>done
     DEF Meeting!searched, Meeting!Done, Meeting!Reach, Closed, Spent, Meeting!Idle,
         Meeting!Replied
<1> QED
  BY <1>2, <1>3, <1>4, <1>5, <1>6, <1>answer
     DEF Meeting!SearchNext, Meeting!Read, Meeting!Answer, Meeting!AnswerPush

MeetingSteady ==
    \/ Quiet("stream")
    \/ Quiet("voice")
    \/ Quiet("presence")
    \/ FlagsHeld("controls", ControlsHolds)
    \/ Steady("search", SearchNow) /\ Steady("search", SearchFlags)

LEMMA MeetingBegins ==
  ASSUME Meeting!StreamInit \/ Meeting!VoiceInit \/ Meeting!PresenceInit
         \/ Meeting!ControlsInit
         \/ Meeting!SearchInit
  PROVE  MeetingSteady
<1>1. CASE Meeting!StreamInit
  <2>1. Quiet("stream")
    BY <1>1 DEF Meeting!StreamInit, Meeting!Begins, Quiet
  <2> QED
    BY <2>1 DEF MeetingSteady
<1>2. CASE Meeting!VoiceInit
  <2>1. Quiet("voice")
    BY <1>2 DEF Meeting!VoiceInit, Meeting!Begins, Quiet
  <2> QED
    BY <2>1 DEF MeetingSteady
<1>3. CASE Meeting!PresenceInit
  <2>1. Quiet("presence")
    BY <1>3 DEF Meeting!PresenceInit, Meeting!Begins, Quiet
  <2> QED
    BY <2>1 DEF MeetingSteady
<1>4. CASE Meeting!ControlsInit
  <2>1. FlagsHeld("controls", ControlsHolds)
    BY <1>4, BornHeld, MeetingOps DEF Meeting!ControlsInit, Meeting!Begins, ControlsHolds
  <2> QED
    BY <2>1 DEF MeetingSteady
<1>5. CASE Meeting!SearchInit
  <2>1. Steady("search", SearchNow)
    BY <1>5, BornSteady, SearchNowRule, MeetingOps DEF Meeting!SearchInit, Meeting!Begins
  <2>2. Steady("search", SearchFlags)
    BY <1>5, BornSteady, SearchFlagsRule, MeetingOps DEF Meeting!SearchInit, Meeting!Begins
  <2> QED
    BY <2>1, <2>2 DEF MeetingSteady
<1> QED
  BY <1>1, <1>2, <1>3, <1>4, <1>5

LEMMA MeetingTurns ==
  ASSUME Next
  PROVE  /\ page[1] = "stream" => Meeting!StreamNext \/ Fails
         /\ page[1] = "voice" => Meeting!VoiceNext \/ Fails
         /\ page[1] = "presence" => Meeting!PresenceNext \/ Fails
         /\ page[1] = "controls" => Meeting!ControlsNext \/ Fails
         /\ page[1] = "search" => Meeting!SearchNext \/ Fails
<1>1. Meeting!StreamNext => page[1] = "stream"
  BY DEF Meeting!StreamNext, Meeting!StreamEffects, Meeting!On
<1>2. Meeting!VoiceNext => page[1] = "voice"
  BY DEF Meeting!VoiceNext, Meeting!On
<1>3. Meeting!PresenceNext => page[1] = "presence"
  BY DEF Meeting!PresenceNext, Meeting!On
<1>4. Meeting!ControlsNext => page[1] = "controls"
  BY DEF Meeting!ControlsNext, Meeting!On
<1>5. Meeting!SearchNext => page[1] = "search"
  BY DEF Meeting!SearchNext, Meeting!On
<1> QED
  BY <1>1, <1>2, <1>3, <1>4, <1>5 DEF Next

LEMMA MeetingKept ==
  ASSUME MeetingSteady, [Next]_spaVars PROVE MeetingSteady'
<1>1. CASE Quiet("stream")
  <2>1. page[1] = "stream"
    BY <1>1 DEF Quiet
  <2>2. CASE Meeting!StreamNext
    BY <1>1, <2>2, StreamStep DEF MeetingSteady
  <2>3. CASE Fails \/ UNCHANGED spaVars
    BY <1>1, <2>3, QuietStays DEF MeetingSteady
  <2> QED
    BY <2>1, <2>2, <2>3, MeetingTurns
<1>2. CASE Quiet("voice")
  <2>1. page[1] = "voice"
    BY <1>2 DEF Quiet
  <2>2. CASE Meeting!VoiceNext
    BY <1>2, <2>2, VoiceStep DEF MeetingSteady
  <2>3. CASE Fails \/ UNCHANGED spaVars
    BY <1>2, <2>3, QuietStays DEF MeetingSteady
  <2> QED
    BY <2>1, <2>2, <2>3, MeetingTurns
<1>3. CASE Quiet("presence")
  <2>1. page[1] = "presence"
    BY <1>3 DEF Quiet
  <2>2. CASE Meeting!PresenceNext
    BY <1>3, <2>2, PresenceStep DEF MeetingSteady
  <2>3. CASE Fails \/ UNCHANGED spaVars
    BY <1>3, <2>3, QuietStays DEF MeetingSteady
  <2> QED
    BY <2>1, <2>2, <2>3, MeetingTurns
<1>4. CASE FlagsHeld("controls", ControlsHolds)
  <2>1. page[1] = "controls"
    BY <1>4 DEF FlagsHeld, Steady
  <2>2. CASE Meeting!ControlsNext
    BY <1>4, <2>2, ControlsStep DEF MeetingSteady
  <2>3. CASE Fails \/ UNCHANGED spaVars
    BY <1>4, <2>3, FailsSteady DEF FlagsHeld, MeetingSteady
  <2> QED
    BY <2>1, <2>2, <2>3, MeetingTurns
<1>5. CASE Steady("search", SearchNow) /\ Steady("search", SearchFlags)
  <2>1. page[1] = "search"
    BY <1>5 DEF Steady
  <2>2. CASE Meeting!SearchNext
    BY <1>5, <2>2, SearchNowStep, SearchFlagsStep DEF MeetingSteady
  <2>3. CASE Fails \/ UNCHANGED spaVars
    BY <1>5, <2>3, FailsSteady DEF MeetingSteady
  <2> QED
    BY <2>1, <2>2, <2>3, MeetingTurns
<1> QED
  BY <1>1, <1>2, <1>3, <1>4, <1>5 DEF MeetingSteady

LEMMA MeetingEnds == MeetingSteady => SpinnersEnd
<1>1. ASSUME Quiet("stream") PROVE SpinnersEnd
  BY <1>1 DEF Quiet, SpinnersEnd, RowBusy
<1>2. ASSUME Quiet("voice") PROVE SpinnersEnd
  BY <1>2 DEF Quiet, SpinnersEnd, RowBusy
<1>3. ASSUME Quiet("presence") PROVE SpinnersEnd
  BY <1>3 DEF Quiet, SpinnersEnd, RowBusy
<1>4. ASSUME FlagsHeld("controls", ControlsHolds) PROVE SpinnersEnd
  BY <1>4, HeldEnds
<1>5. ASSUME Steady("search", SearchNow), Steady("search", SearchFlags) PROVE SpinnersEnd
  BY <1>5, NothingShown, SearchNowRule, SearchFlagsRule DEF SpinnersEnd, RowBusy, AwaitsElse
<1> QED
  BY <1>1, <1>2, <1>3, <1>4, <1>5 DEF MeetingSteady
=============================================================================
